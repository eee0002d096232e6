------------------------- MODULE KeeneticCLIProofs -------------------------
(***************************************************************************)
(* What a session with the router's CLI keeps, for every configuration it  *)
(* may find, every deadline and any number of sessions: whatever is slow,  *)
(* swallowed or cut off.                                                   *)
(***************************************************************************)
EXTENDS KeeneticCLIProps, SequenceTheorems, TLAPS

Says    == SUBSET (AllPorts \cup {"doh"})
Waiting == wait # "idle"

-----------------------------------------------------------------------------
(* The inductive invariant. *)

(* Where a session is, and what cannot have gone wrong by then. *)
Control ==
    /\ Waiting => came = "none" /\ step \in Command \cup {"login"}
    /\ wait = "reading" => ticks < Windows
    /\ step = "login" => Waiting
    /\ step \in {"login", "show443", "port443", "save443"} => ~gaveUp
    /\ ~link => todo = <<>> /\ out = <<>>

(* What is left of the answer to the present command, of which x is the    *)
(* text.  Unless output was swallowed, buf has the rest.                   *)
Coming(x) ==
    \/ /\ out = <<Piece(step, 1, TRUE, x)>>
       /\ lost \/ buf = <<>>
    \/ /\ out = <<Piece(step, 1, FALSE, x), Piece(step, 2, TRUE, {})>>
       /\ lost \/ buf = <<>>
    \/ /\ out = <<Piece(step, 2, TRUE, {})>>
       /\ lost \/ buf = <<Piece(step, 1, FALSE, x)>>

(* What the router has done when it answers, unless it refused to. *)
Carried(x) ==
    step \notin refused =>
        /\ step \in Asks      => x = Text(running)
        /\ step = "port443"  => running.port = "8443"
        /\ step = "save443"  => saved = running
        /\ step = "upstream" => running.doh = (job = "install")
        /\ step = "saveDNS"  => saved.doh = running.doh

(* As long as no command gave up, nothing of an earlier one is on its way. *)
InStep ==
    ~gaveUp =>
        IF Waiting
        THEN \/ todo = <<step>> /\ out = <<>> /\ buf = <<>>
             \/ todo = <<>> /\ out = <<>> /\ (lost \/ ~link)
             \/ todo = <<>> /\ \E x \in Says : Coming(x) /\ Carried(x)
        ELSE todo = <<>> /\ out = <<>>

(* The commands before the present one had their effect. *)
SoFar ==
    /\ step = "save443" /\ "port443" \notin refused => running.port = "8443"
    /\ step \in {"exit", "saveDNS"} /\ ~gaveUp /\ "upstream" \notin refused =>
          running.doh = (job = "install")

(* In an installation the upstream that some output shows is still there. *)
Shows(s) == \A i \in DOMAIN s : "doh" \in s[i].says => running.doh

StillThere == job = "install" => Shows(out) /\ Shows(buf)

(* The last words of a session.  *)
LastWords ==
    /\ said \cap {"present", "configured", "uninstalled"} # {} =>
          step \in {"close", "none"}
    /\ "configured" \in said => job = "install"
    /\ "uninstalled" \in said => job = "uninstall"

(* Running and startup configuration differ in the upstream only while the *)
(* commands for it are at work, unless a session broke off or a save was   *)
(* refused.                                                                *)
Changing == step \in {"upstream", "exit", "saveDNS", "close"}

Settled == \/ ~Changing
           \/ step = "close" /\ ~gaveUp /\ "saveDNS" \notin refused
           \/ "present" \in said

InStartup ==
    /\ \A i \in DOMAIN todo :
          todo[i] = "upstream" => Changing /\ "present" \notin said
    /\ Settled /\ ~broken => running.doh = saved.doh

IInv == /\ TypeOK /\ Control /\ InStep /\ SoFar /\ StillThere
        /\ LastWords /\ InStartup
        /\ AnswersAreWhole /\ PortIsFree /\ ConfiguredIsSaved /\ RemovedIsGone

-----------------------------------------------------------------------------
(* Short sequences, element by element. *)
LEMMA Short ==
    ASSUME NEW p, NEW q
    PROVE  /\ <<p>> # <<>> /\ <<p, q>> # <<>> /\ Len(<<>>) = 0
           /\ Head(<<p>>) = p /\ Tail(<<p>>) = <<>>
           /\ Head(<<p, q>>) = p /\ Tail(<<p, q>>) = <<q>>
           /\ Append(<<>>, p) = <<p>> /\ Append(<<p>>, q) = <<p, q>>
           /\ <<>> \o <<p>> = <<p>> /\ <<>> \o <<p, q>> = <<p, q>>
           /\ Last(<<p>>) = p /\ Last(<<p, q>>) = q
           /\ DOMAIN <<p>> = {1} /\ DOMAIN <<p, q>> = {1, 2}
           /\ <<p>>[1] = p /\ <<p, q>>[1] = p /\ <<p, q>>[2] = q
<1>1. <<p>> \in Seq({p, q}) /\ <<p, q>> \in Seq({p, q}) /\ <<>> \in Seq({p, q})
      /\ <<q>> \in Seq({p, q})
  OBVIOUS
<1>2. <<p>> # <<>> /\ <<p, q>> # <<>> /\ Len(<<>>) = 0
  BY <1>1
<1>3. Head(<<p>>) = p /\ Tail(<<p>>) = <<>>
  BY <1>1
<1>4. Head(<<p, q>>) = p /\ Tail(<<p, q>>) = <<q>>
  BY <1>1
<1>5. Append(<<>>, p) = <<p>>
  BY <1>1
<1>6. Append(<<p>>, q) = <<p, q>>
  <2>1. Append(<<p>>, q) \in Seq({p, q}) /\ Len(Append(<<p>>, q)) = 2
    BY <1>1, AppendProperties
  <2>2. Append(<<p>>, q)[1] = p /\ Append(<<p>>, q)[2] = q
    BY <1>1, AppendProperties
  <2>3. Len(<<p, q>>) = 2 /\ <<p, q>>[1] = p /\ <<p, q>>[2] = q
    OBVIOUS
  <2>4. \A i \in 1..2 : Append(<<p>>, q)[i] = <<p, q>>[i]
    BY <2>2, <2>3
  <2>. QED BY <1>1, <2>1, <2>3, <2>4, SeqEqual
<1>7. <<>> \o <<p>> = <<p>> /\ <<>> \o <<p, q>> = <<p, q>>
  BY <1>1, ConcatEmptySeq
<1>8. Last(<<p>>) = p /\ Last(<<p, q>>) = q
  BY <1>1 DEF Last
<1>9. DOMAIN <<p>> = {1} /\ DOMAIN <<p, q>> = {1, 2}
  BY <1>1
<1>10. <<p>>[1] = p /\ <<p, q>>[1] = p /\ <<p, q>>[2] = q
  OBVIOUS
<1>. QED BY <1>2, <1>3, <1>4, <1>5, <1>6, <1>7, <1>8, <1>9, <1>10

(* A piece of an answer. *)
LEMMA PieceIs ==
    ASSUME NEW c \in Command \cup {"login"}, NEW n \in 1..2,
           NEW prompt \in BOOLEAN, NEW says \in Says
    PROVE  /\ Piece(c, n, prompt, says) \in PieceType
           /\ Piece(c, n, prompt, says).of = c
           /\ Piece(c, n, prompt, says).part = n
           /\ Piece(c, n, prompt, says).prompt = prompt
           /\ Piece(c, n, prompt, says).says = says
BY DEF Piece, PieceType, Says

(* Where a command leads, and what is said of it. *)
LEMMA AfterIs ==
    ASSUME job \in Job, step \in Command \cup {"login"},
           NEW ok \in BOOLEAN, NEW says \in Says
    PROVE  LET next == After(step, ok, says)
               words == Report(step, ok, says)
           IN  /\ next \in Command \cup {"close"}
               /\ next = "show443" => step = "login" /\ ok
               /\ next = "port443" => step = "show443" /\ ok
               /\ next = "save443" => step = "port443" /\ ok
               /\ next = "upstream" <=> step = "dns"
               /\ next = "exit" <=> step = "upstream"
               /\ next = "saveDNS" <=> step = "exit"
               /\ step = "saveDNS" => next = "close"
               /\ next = "close" =>
                     \/ step = "login" /\ ~ok
                     \/ step = "showDNS" /\ (job = "install") = (ok /\ "doh" \in says)
                     \/ step = "saveDNS"
               /\ words \subseteq {"skipped", "freed", "present", "configured",
                                   "uninstalled"}
               /\ "skipped" \in words => step = "show443" /\ ok /\ "443" \notin says
               /\ "freed" \in words => step = "save443" /\ ok
               /\ "present" \in words =>
                     step = "showDNS" /\ next = "close" /\ job = "install"
               /\ "configured" \in words => step = "saveDNS" /\ job = "install"
               /\ "uninstalled" \in words =>
                     /\ job = "uninstall"
                     /\ (step = "showDNS" /\ next = "close") \/ step = "saveDNS"
<1>. USE DEF After, Report, FreePort, DNSUpstream, AfterFreePort, Job
<1>1. CASE step = "login"
  BY <1>1 DEF Command
<1>2. CASE step = "show443"
  BY <1>2 DEF Command
<1>3. CASE step = "port443"
  BY <1>3 DEF Command
<1>4. CASE step = "save443"
  BY <1>4 DEF Command
<1>5. CASE step = "showDNS"
  BY <1>5 DEF Command
<1>6. CASE step = "dns"
  BY <1>6 DEF Command
<1>7. CASE step = "upstream"
  BY <1>7 DEF Command
<1>8. CASE step = "exit"
  BY <1>8 DEF Command
<1>9. CASE step = "saveDNS"
  BY <1>9 DEF Command
<1>. QED BY <1>1, <1>2, <1>3, <1>4, <1>5, <1>6, <1>7, <1>8, <1>9 DEF Command

-----------------------------------------------------------------------------
(* A command comes back. *)

Whole(c, x, b) ==
    \/ b = <<Piece(c, 1, TRUE, x)>>
    \/ b = <<Piece(c, 1, FALSE, x), Piece(c, 2, TRUE, {})>>

Gathered(b) == UNION {b[i].says : i \in DOMAIN b}

(* The text of what was gathered, piece by piece. *)
LEMMA GatheredIs ==
    ASSUME NEW b \in Seq(PieceType)
    PROVE  /\ Gathered(b) \in Says
           /\ \A w \in Gathered(b) : \E i \in DOMAIN b : w \in b[i].says
<1>1. \A i \in DOMAIN b : b[i] \in PieceType
  OBVIOUS
<1>2. \A i \in DOMAIN b : b[i].says \in Says
  BY <1>1 DEF PieceType, Says
<1>. QED BY <1>2 DEF Gathered, Says

(* An answer that came whole is that of its command. *)
LEMMA WholeIs ==
    ASSUME NEW c \in Command \cup {"login"}, NEW x \in Says, NEW b, Whole(c, x, b)
    PROVE  /\ \A i \in DOMAIN b : b[i].of = c /\ b[i].part = i
           /\ Last(b).prompt
           /\ Gathered(b) = x
<1>. {} \in Says
  BY DEF Says
<1>1. CASE b = <<Piece(c, 1, TRUE, x)>>
  <2>1. DOMAIN b = {1} /\ b[1] = Piece(c, 1, TRUE, x) /\ Last(b) = b[1]
    BY <1>1, Short
  <2>2. b[1].says = x /\ b[1].of = c /\ b[1].part = 1 /\ b[1].prompt
    BY <2>1 DEF Piece
  <2>3. Gathered(b) = x
    BY <2>1, <2>2 DEF Gathered
  <2>. QED BY <2>1, <2>2, <2>3
<1>2. CASE b = <<Piece(c, 1, FALSE, x), Piece(c, 2, TRUE, {})>>
  <2>. DEFINE p == Piece(c, 1, FALSE, x)
              q == Piece(c, 2, TRUE, {})
  <2>1. DOMAIN b = {1, 2} /\ b[1] = p /\ b[2] = q /\ Last(b) = b[2]
    <3>1. b = <<p, q>>
      BY <1>2
    <3>. HIDE DEF p, q
    <3>2. DOMAIN <<p, q>> = {1, 2} /\ <<p, q>>[1] = p /\ <<p, q>>[2] = q
      BY Short
    <3>3. Last(<<p, q>>) = q
      BY Short
    <3>. QED BY <3>1, <3>2, <3>3
  <2>2. /\ b[1].says = x /\ b[1].of = c /\ b[1].part = 1
        /\ b[2].says = {} /\ b[2].of = c /\ b[2].part = 2 /\ b[2].prompt
    BY <2>1 DEF Piece
  <2>3. Gathered(b) = x
    BY <2>1, <2>2 DEF Gathered
  <2>. QED BY <2>1, <2>2, <2>3
<1>. QED BY <1>1, <1>2 DEF Whole

(* With an answer or without, the session goes on as it should. *)
LEMMA BackStep ==
    ASSUME IInv, step \in Command \cup {"login"},
           NEW ok \in BOOLEAN, NEW b \in Seq(PieceType), ComesBack(ok, b),
           UNCHANGED <<todo, running, saved, refused, lost, run>>,
           out' \in Seq(PieceType), orphans' \in Nat, missed' \in BOOLEAN,
           ~link => out' = <<>>,
           job = "install" => Shows(out') /\ Shows(b),
           ok /\ ~gaveUp =>
               /\ todo = <<>> /\ out' = <<>>
               /\ \E x \in Says : Carried(x) /\ (lost \/ Whole(step, x, b))
    PROVE  IInv'
<1>. DEFINE says  == Gathered(b)
            words == Report(step, ok, says)
<1>1. /\ wait' = "idle" /\ buf' = b /\ came' = IF ok THEN step ELSE "none"
      /\ step' = After(step, ok, says) /\ said' = said \cup words
      /\ gaveUp' = (gaveUp \/ ~ok) /\ job' = job /\ ticks' = ticks
  BY DEF ComesBack, Gathered
<1>2. /\ todo' = todo /\ running' = running /\ saved' = saved /\ lost' = lost
      /\ sessions' = sessions /\ link' = link /\ broken' = broken
      /\ refused' = refused
  BY DEF run
<1>3. says \in Says /\ \A w \in says : \E i \in DOMAIN b : w \in b[i].says
  BY GatheredIs
<1>4. job \in Job /\ gaveUp \in BOOLEAN
  BY DEF IInv, TypeOK
<1>. HIDE DEF says, words
<1>5. /\ step' \in Command \cup {"close"}
      /\ step' = "show443" => step = "login" /\ ok
      /\ step' = "port443" => step = "show443" /\ ok
      /\ step' = "save443" => step = "port443" /\ ok
      /\ step' = "upstream" <=> step = "dns"
      /\ step' = "exit" <=> step = "upstream"
      /\ step' = "saveDNS" <=> step = "exit"
      /\ step = "saveDNS" => step' = "close"
      /\ step' = "close" =>
            \/ step = "login" /\ ~ok
            \/ step = "showDNS" /\ (job = "install") = (ok /\ "doh" \in says)
            \/ step = "saveDNS"
  BY <1>1, <1>3, <1>4, AfterIs
<1>6. /\ words \subseteq {"skipped", "freed", "present", "configured",
                          "uninstalled"}
      /\ "skipped" \in words => step = "show443" /\ ok /\ "443" \notin says
      /\ "freed" \in words => step = "save443" /\ ok
      /\ "present" \in words =>
            step = "showDNS" /\ step' = "close" /\ job = "install"
      /\ "configured" \in words => step = "saveDNS" /\ job = "install"
      /\ "uninstalled" \in words =>
            /\ job = "uninstall"
            /\ (step = "showDNS" /\ step' = "close") \/ step = "saveDNS"
  BY <1>1, <1>3, <1>4, AfterIs DEF words
<1>7. said \cap {"present", "configured", "uninstalled"} = {}
  BY DEF IInv, LastWords, Command
<1>8. step \notin {"close", "none"}
  BY DEF Command
<1>9. ASSUME ~lost, ok, ~gaveUp
      PROVE  /\ \A i \in DOMAIN b : b[i].of = step /\ b[i].part = i
             /\ Last(b).prompt
             /\ \E x \in Says : Carried(x) /\ says = x
  BY <1>9, WholeIs DEF says
<1>10. TypeOK'
  <2>1. came' \in Command \cup {"login", "none"} /\ step' \in Command \cup {"login", "close", "none"}
    BY <1>1, <1>5
  <2>2. said' \subseteq {"skipped", "freed", "present", "configured", "uninstalled"}
    BY <1>1, <1>6 DEF IInv, TypeOK
  <2>3. {link, gaveUp, lost, missed, broken}' \subseteq BOOLEAN
    BY <1>1, <1>2, <1>4 DEF IInv, TypeOK
  <2>. QED BY <1>1, <1>2, <2>1, <2>2, <2>3 DEF IInv, TypeOK
<1>11. Control'
  BY <1>1, <1>2, <1>5 DEF IInv, Control, Waiting, Command
<1>12. InStep'
  BY <1>1, <1>2 DEF InStep, Waiting
<1>13. SoFar'
  BY <1>1, <1>2, <1>5 DEF IInv, SoFar, Carried, Control
<1>14. StillThere'
  BY <1>1, <1>2 DEF StillThere, Shows
<1>15. LastWords'
  BY <1>1, <1>5, <1>6, <1>7 DEF LastWords
<1>16. InStartup'
  <2>1. Changing => Changing' /\ "present" \notin words
    BY <1>5, <1>6 DEF Changing, Command
  <2>2. ASSUME NEW i \in DOMAIN todo, todo[i] = "upstream"
        PROVE  Changing' /\ "present" \notin said'
    BY <2>1, <2>2, <1>1 DEF IInv, InStartup
  <2>3. ASSUME Settled', ~broken PROVE running.doh = saved.doh
    <3>1. CASE ~Changing
      BY <2>3, <3>1 DEF IInv, InStartup, Settled
    <3>2. CASE Changing
      <4>1. step' = "close" /\ ~gaveUp' /\ "saveDNS" \notin refused
        BY <2>1, <2>3, <3>2, <1>1, <1>2, <1>7 DEF Settled
      <4>2. step = "saveDNS" /\ ok /\ ~gaveUp
        BY <4>1, <3>2, <1>1, <1>5 DEF Changing
      <4>. QED BY <4>1, <4>2 DEF Carried
    <3>. QED BY <3>1, <3>2
  <2>. QED BY <1>2, <2>2, <2>3 DEF InStartup
<1>17. AnswersAreWhole'
  BY <1>1, <1>2, <1>4, <1>9 DEF AnswersAreWhole
<1>18. PortIsFree'
  <2>1. ASSUME "freed" \in words
        PROVE  /\ "port443" \in refused \/ running.port = "8443"
               /\ {"port443", "save443"} \cap refused # {} \/ saved.port = "8443"
    BY <2>1, <1>6 DEF IInv, SoFar, Control, Carried
  <2>2. ASSUME "skipped" \in words, ~lost, "show443" \notin refused
        PROVE  running.port # "443"
    <3>1. step = "show443" /\ ok /\ "443" \notin says /\ ~gaveUp
      BY <2>2, <1>6 DEF IInv, Control
    <3>2. says = Text(running)
      BY <2>2, <3>1, <1>9 DEF Carried, Asks
    <3>. QED BY <3>1, <3>2 DEF Text
  <2>. QED BY <2>1, <2>2, <1>1, <1>2 DEF IInv, PortIsFree
<1>19. ConfiguredIsSaved'
  <2>1. ASSUME "configured" \in words, ~gaveUp', "upstream" \notin refused
        PROVE  running.doh /\ (saved.doh \/ "saveDNS" \in refused)
    <3>1. step = "saveDNS" /\ job = "install" /\ ok /\ ~gaveUp
      BY <2>1, <1>1, <1>6
    <3>. QED BY <2>1, <3>1 DEF IInv, SoFar, Carried, TypeOK, Config
  <2>2. ASSUME "present" \in words PROVE running.doh /\ (saved.doh \/ broken)
    <3>1. step = "showDNS" /\ job = "install" /\ "doh" \in says
      BY <2>2, <1>5, <1>6
    <3>2. running.doh
      BY <3>1, <1>3 DEF Shows
    <3>3. broken \/ running.doh = saved.doh
      BY <3>1 DEF IInv, InStartup, Settled, Changing
    <3>. QED BY <3>2, <3>3
  <2>. QED BY <2>1, <2>2, <1>1, <1>2, <1>7 DEF ConfiguredIsSaved
<1>20. RemovedIsGone'
  <2>1. ASSUME "uninstalled" \in words, ~gaveUp', ~lost,
               {"showDNS", "upstream"} \cap refused = {}
        PROVE  ~running.doh /\ (~saved.doh \/ broken \/ "saveDNS" \in refused)
    <3>1. ok /\ ~gaveUp /\ job = "uninstall"
      BY <2>1, <1>1, <1>6
    <3>2. CASE step = "showDNS" /\ step' = "close"
      <4>1. "doh" \notin says
        BY <3>1, <3>2, <1>5
      <4>2. says = Text(running)
        BY <2>1, <3>1, <3>2, <1>9 DEF Carried, Asks
      <4>3. broken \/ running.doh = saved.doh
        BY <3>2 DEF IInv, InStartup, Settled, Changing
      <4>. QED BY <4>1, <4>2, <4>3 DEF Text
    <3>3. CASE step = "saveDNS"
      BY <2>1, <3>1, <3>3 DEF IInv, SoFar, Carried
    <3>. QED BY <2>1, <1>6, <3>2, <3>3
  <2>. QED BY <2>1, <1>1, <1>2, <1>7 DEF RemovedIsGone
<1>. QED BY <1>10, <1>11, <1>12, <1>13, <1>14, <1>15, <1>16, <1>17, <1>18,
            <1>19, <1>20 DEF IInv

(* A command that could not be sent, was cut off or ran into its deadline. *)
LEMMA FailingStep ==
    ASSUME IInv, SendFails \/ DeadlinePasses \/ EndOfFile
    PROVE  IInv'
<1>1. PICK b \in {<<>>, buf} : ComesBack(FALSE, b)
  BY DEF SendFails, DeadlinePasses, EndOfFile
<1>2. UNCHANGED <<pipe, router, run>>
  BY DEF SendFails, DeadlinePasses, EndOfFile
<1>3. step \in Command \cup {"login"}
  BY DEF SendFails, DeadlinePasses, EndOfFile, IInv, Control, Waiting
<1>4. out \in Seq(PieceType) /\ orphans \in Nat /\ missed \in BOOLEAN
  BY DEF IInv, TypeOK
<1>5. b \in Seq(PieceType)
  <2>1. <<>> \in Seq(PieceType) /\ buf \in Seq(PieceType)
    BY DEF IInv, TypeOK
  <2>. QED BY <1>1, <2>1
<1>6. job = "install" => Shows(out) /\ Shows(b)
  BY DEF IInv, StillThere, Shows
<1>7. ~link => out = <<>>
  BY DEF IInv, Control
<1>8. /\ UNCHANGED <<todo, running, saved, refused, lost, run>>
      /\ out' = out /\ orphans' = orphans /\ missed' = missed
  BY <1>2 DEF pipe, router
<1>. QED BY <1>1, <1>3, <1>4, <1>5, <1>6, <1>7, <1>8, BackStep

-----------------------------------------------------------------------------
(* Output is read. *)

(* Taking a piece out of a pipe, or adding one to what was gathered.  *)
LEMMA TakeAPiece ==
    ASSUME NEW s \in Seq(PieceType), s # <<>>, NEW b \in Seq(PieceType)
    PROVE  /\ Head(s) \in PieceType /\ Tail(s) \in Seq(PieceType)
           /\ Append(b, Head(s)) \in Seq(PieceType)
           /\ Append(b, Head(s)) # <<>>
           /\ Last(Append(b, Head(s))) = Head(s)
           /\ Shows(s) => Shows(Tail(s))
           /\ Shows(s) /\ Shows(b) => Shows(Append(b, Head(s)))
<1>. DEFINE p == Head(s)
<1>1. p \in PieceType /\ Tail(s) \in Seq(PieceType) /\ p = s[1] /\ 1 \in DOMAIN s
  OBVIOUS
<1>2. \A i \in DOMAIN Tail(s) : i + 1 \in DOMAIN s /\ Tail(s)[i] = s[i + 1]
  OBVIOUS
<1>. HIDE DEF p
<1>3. /\ Append(b, p) \in Seq(PieceType) /\ Append(b, p) # <<>>
      /\ Len(Append(b, p)) = Len(b) + 1 /\ Append(b, p)[Len(b) + 1] = p
      /\ \A i \in 1..Len(b) : Append(b, p)[i] = b[i]
  BY <1>1, AppendProperties
<1>4. Last(Append(b, p)) = p
  BY <1>3 DEF Last
<1>5. Shows(s) => Shows(Tail(s))
  BY <1>2 DEF Shows
<1>6. ASSUME Shows(s), Shows(b), NEW i \in DOMAIN Append(b, p),
             "doh" \in Append(b, p)[i].says
      PROVE  running.doh
  <2>1. i \in 1..Len(b) \/ i = Len(b) + 1
    BY <1>3
  <2>2. CASE i \in 1..Len(b)
    BY <1>3, <1>6, <2>2 DEF Shows
  <2>3. CASE i = Len(b) + 1
    BY <1>1, <1>3, <1>6, <2>3 DEF Shows
  <2>. QED BY <2>1, <2>2, <2>3
<1>. QED BY <1>1, <1>3, <1>4, <1>5, <1>6 DEF Shows, p

(* What the first piece of an answer is, and what is left behind it. *)
LEMMA ComingIs ==
    ASSUME NEW x \in Says, Coming(x)
    PROVE  \/ /\ Head(out) = Piece(step, 1, TRUE, x) /\ Tail(out) = <<>>
              /\ lost \/ buf = <<>>
           \/ /\ Head(out) = Piece(step, 1, FALSE, x)
              /\ Tail(out) = <<Piece(step, 2, TRUE, {})>>
              /\ lost \/ buf = <<>>
           \/ /\ Head(out) = Piece(step, 2, TRUE, {}) /\ Tail(out) = <<>>
              /\ lost \/ buf = <<Piece(step, 1, FALSE, x)>>
<1>. DEFINE p == Piece(step, 1, TRUE, x)
            q == Piece(step, 1, FALSE, x)
            r == Piece(step, 2, TRUE, {})
<1>. HIDE DEF p, q, r
<1>1. \/ out = <<p>> /\ (lost \/ buf = <<>>)
      \/ out = <<q, r>> /\ (lost \/ buf = <<>>)
      \/ out = <<r>> /\ (lost \/ buf = <<q>>)
  BY DEF Coming, p, q, r
<1>2. /\ Head(<<p>>) = p /\ Tail(<<p>>) = <<>>
      /\ Head(<<q, r>>) = q /\ Tail(<<q, r>>) = <<r>>
      /\ Head(<<r>>) = r /\ Tail(<<r>>) = <<>>
  BY Short
<1>. QED BY <1>1, <1>2 DEF p, q, r

(* A piece is gathered: with the prompt the command comes back. *)
LEMMA GatherStep ==
    ASSUME IInv, Gather
    PROVE  IInv'
<1>. DEFINE p == Head(out)
            b == Append(buf, p)
<1>1. /\ wait = "reading" /\ out # <<>> /\ out' = Tail(out)
      /\ orphans' = orphans /\ lost' = lost /\ missed' = missed
      /\ UNCHANGED <<todo, running, saved, refused, run>>
  BY DEF Gather, router
<1>2. TypeOK /\ Waiting /\ step \in Command \cup {"login"}
  BY <1>1 DEF IInv, Control, Waiting
<1>3. /\ p \in PieceType /\ Tail(out) \in Seq(PieceType)
      /\ b \in Seq(PieceType) /\ b # <<>> /\ Last(b) = p
      /\ Shows(out) => Shows(Tail(out))
      /\ Shows(out) /\ Shows(buf) => Shows(b)
  BY <1>1, <1>2, TakeAPiece DEF TypeOK
<1>4. job = "install" => Shows(Tail(out)) /\ Shows(b)
  BY <1>3 DEF IInv, StillThere
<1>5. ~link => Tail(out) = <<>>
  BY <1>1 DEF IInv, Control
<1>6. ASSUME ~gaveUp
      PROVE  /\ todo = <<>>
             /\ \E x \in Says :
                   /\ Carried(x)
                   /\ \/ p.prompt /\ Tail(out) = <<>> /\ (lost \/ Whole(step, x, b))
                      \/ /\ ~p.prompt
                         /\ Tail(out) = <<Piece(step, 2, TRUE, {})>>
                         /\ lost \/ b = <<Piece(step, 1, FALSE, x)>>
  <2>1. todo = <<>> /\ \E x \in Says : Coming(x) /\ Carried(x)
    BY <1>1, <1>2, <1>6 DEF IInv, InStep
  <2>2. PICK x \in Says : Coming(x) /\ Carried(x)
    BY <2>1
  <2>3. CASE /\ p = Piece(step, 1, TRUE, x) /\ Tail(out) = <<>>
             /\ lost \/ buf = <<>>
    <3>1. p.prompt
      BY <2>3 DEF Piece
    <3>2. lost \/ b = <<p>>
      BY <2>3, Short
    <3>3. lost \/ Whole(step, x, b)
      BY <2>3, <3>2 DEF Whole
    <3>. QED BY <2>1, <2>2, <2>3, <3>1, <3>3
  <2>4. CASE /\ p = Piece(step, 1, FALSE, x)
             /\ Tail(out) = <<Piece(step, 2, TRUE, {})>>
             /\ lost \/ buf = <<>>
    <3>1. ~p.prompt
      BY <2>4 DEF Piece
    <3>2. lost \/ b = <<p>>
      BY <2>4, Short
    <3>. QED BY <2>1, <2>2, <2>4, <3>1, <3>2
  <2>5. CASE /\ p = Piece(step, 2, TRUE, {}) /\ Tail(out) = <<>>
             /\ lost \/ buf = <<Piece(step, 1, FALSE, x)>>
    <3>1. p.prompt
      BY <2>5 DEF Piece
    <3>2. lost \/ b = <<Piece(step, 1, FALSE, x), p>>
      <4>. DEFINE q == Piece(step, 1, FALSE, x)
      <4>. HIDE DEF q, p
      <4>1. Append(<<q>>, p) = <<q, p>>
        BY Short
      <4>. QED BY <2>5, <4>1 DEF q
    <3>3. lost \/ Whole(step, x, b)
      BY <2>5, <3>2 DEF Whole
    <3>. QED BY <2>1, <2>2, <2>5, <3>1, <3>3
  <2>. QED BY <2>2, <2>3, <2>4, <2>5, ComingIs
<1>. HIDE DEF p, b
<1>7. CASE PromptMatches(b)
  <2>1. ComesBack(TRUE, b)
    BY <1>7 DEF Gather, p, b
  <2>2. p.prompt
    BY <1>3, <1>7 DEF PromptMatches
  <2>3. ~gaveUp => /\ todo = <<>> /\ out' = <<>>
                   /\ \E x \in Says : Carried(x) /\ (lost \/ Whole(step, x, b))
    BY <1>1, <1>6, <2>2
  <2>4. orphans' \in Nat /\ missed' \in BOOLEAN /\ out' \in Seq(PieceType)
    BY <1>1, <1>2, <1>3 DEF TypeOK
  <2>. QED BY <1>1, <1>2, <1>3, <1>4, <1>5, <2>1, <2>3, <2>4, BackStep
<1>8. CASE ~PromptMatches(b)
  <2>1. /\ wait' = "loop" /\ buf' = b /\ ticks' \in {ticks, ticks + 1}
        /\ UNCHANGED <<job, step, came, said, gaveUp>>
    BY <1>8 DEF Gather, p, b
  <2>2. ~p.prompt
    BY <1>3, <1>8 DEF PromptMatches
  <2>. /\ todo' = todo /\ running' = running /\ saved' = saved
       /\ refused' = refused /\ sessions' = sessions /\ link' = link /\ broken' = broken
    BY <1>1 DEF run
  <2>3. TypeOK'
    <3>1. ticks' \in 0..Windows
      BY <1>1, <1>2, <2>1, KeeneticAssumption DEF IInv, Control, TypeOK
    <3>. QED BY <1>1, <1>2, <1>3, <2>1, <3>1 DEF TypeOK
  <2>4. Control'
    BY <1>1, <1>2, <1>5, <2>1 DEF IInv, Control, Waiting
  <2>5. InStep'
    <3>1. ASSUME ~gaveUp
          PROVE  todo' = <<>> /\ \E x \in Says : Coming(x)' /\ Carried(x)'
      <4>1. PICK x \in Says : /\ Carried(x)
                              /\ Tail(out) = <<Piece(step, 2, TRUE, {})>>
                              /\ lost \/ b = <<Piece(step, 1, FALSE, x)>>
        BY <1>6, <2>2, <3>1
      <4>2. Coming(x)'
        BY <1>1, <2>1, <4>1 DEF Coming
      <4>3. Carried(x)'
        BY <1>1, <2>1, <4>1 DEF Carried
      <4>. QED BY <1>6, <3>1, <4>2, <4>3
    <3>. QED BY <2>1, <3>1 DEF InStep, Waiting
  <2>6. SoFar'
    BY <2>1 DEF IInv, SoFar
  <2>7. StillThere'
    BY <1>1, <1>4, <2>1 DEF StillThere, Shows
  <2>8. LastWords' /\ InStartup'
    BY <2>1 DEF IInv, LastWords, InStartup, Settled, Changing
  <2>9. AnswersAreWhole'
    BY <1>2, <2>1 DEF IInv, Control, AnswersAreWhole
  <2>10. PortIsFree' /\ ConfiguredIsSaved' /\ RemovedIsGone'
    BY <1>1, <2>1 DEF IInv, PortIsFree, ConfiguredIsSaved, RemovedIsGone
  <2>. QED BY <2>3, <2>4, <2>5, <2>6, <2>7, <2>8, <2>9, <2>10 DEF IInv
<1>. QED BY <1>7, <1>8

(* The waiting goes on, or output gets lost. *)
LEMMA WaitStep ==
    ASSUME IInv, UNCHANGED <<job, step, buf, came, said, gaveUp, router, run>>,
           Waiting' <=> Waiting, wait' \in {"idle", "loop", "reading"},
           ticks' \in 0..Windows, wait' = "reading" => ticks' < Windows,
           orphans' \in Nat,
           UNCHANGED <<out, lost>> \/ Lose, missed' \in BOOLEAN
    PROVE  IInv'
<1>1. /\ todo' = todo /\ running' = running /\ saved' = saved
      /\ refused' = refused
      /\ sessions' = sessions /\ link' = link /\ broken' = broken
      /\ job' = job /\ step' = step /\ buf' = buf /\ came' = came
      /\ said' = said /\ gaveUp' = gaveUp
  BY DEF router, run
<1>2. \/ out' = out /\ lost' = lost
      \/ out # <<>> /\ out' = Tail(out) /\ lost'
  BY DEF Lose
<1>3. TypeOK
  BY DEF IInv
<1>4. /\ out' \in Seq(PieceType) /\ lost' \in BOOLEAN
      /\ Shows(out) => Shows(out')
  <2>1. CASE UNCHANGED <<out, lost>>
    BY <1>3, <2>1 DEF TypeOK
  <2>2. CASE Lose
    <3>1. out # <<>> /\ out' = Tail(out) /\ lost' = TRUE
      BY <2>2 DEF Lose
    <3>2. out \in Seq(PieceType)
      BY <1>3 DEF TypeOK
    <3>3. Tail(out) \in Seq(PieceType) /\ (Shows(out) => Shows(Tail(out)))
      BY <3>1, <3>2, TakeAPiece
    <3>. QED BY <3>1, <3>2, <3>3
  <2>. QED BY <2>1, <2>2
<1>5. lost => lost'
  BY <1>2
<1>6. TypeOK'
  BY <1>1, <1>3, <1>4 DEF TypeOK
<1>7. Control'
  BY <1>1, <1>2 DEF IInv, Control, Waiting
<1>8. InStep'
  <2>1. ASSUME ~gaveUp, ~Waiting PROVE todo' = <<>> /\ out' = <<>>
    BY <1>1, <1>2, <2>1 DEF IInv, InStep
  <2>2. ASSUME ~gaveUp, Waiting, out' = out, lost' = lost
        PROVE  \/ todo' = <<step>> /\ out' = <<>> /\ buf' = <<>>
               \/ todo' = <<>> /\ out' = <<>> /\ (lost' \/ ~link')
               \/ todo' = <<>> /\ \E x \in Says : Coming(x)' /\ Carried(x)'
    <3>1. \A x \in Says : /\ Coming(x) => Coming(x)'
                          /\ Carried(x) => Carried(x)'
      BY <1>1, <2>2 DEF Coming, Carried
    <3>. QED BY <1>1, <2>2, <3>1 DEF IInv, InStep
  <2>3. ASSUME ~gaveUp, Waiting, out # <<>>, out' = Tail(out), lost'
        PROVE  \/ todo' = <<>> /\ out' = <<>> /\ (lost' \/ ~link')
               \/ todo' = <<>> /\ \E x \in Says : Coming(x)' /\ Carried(x)'
    <3>1. todo = <<>> /\ \E x \in Says : Coming(x) /\ Carried(x)
      BY <2>3 DEF IInv, InStep
    <3>2. PICK x \in Says : Coming(x) /\ Carried(x)
      BY <3>1
    <3>3. Tail(out) = <<>> \/ Tail(out) = <<Piece(step, 2, TRUE, {})>>
      BY <3>2, ComingIs
    <3>4. Carried(x)'
      BY <1>1, <3>2 DEF Carried
    <3>5. CASE Tail(out) = <<Piece(step, 2, TRUE, {})>>
      <4>1. Coming(x)'
        BY <1>1, <2>3, <3>5 DEF Coming
      <4>. QED BY <1>1, <3>1, <3>4, <4>1
    <3>. QED BY <1>1, <2>3, <3>1, <3>3, <3>5
  <2>. QED BY <1>1, <1>2, <2>1, <2>2, <2>3 DEF InStep
<1>9. SoFar' /\ LastWords' /\ InStartup'
  BY <1>1 DEF IInv, SoFar, LastWords, InStartup, Settled, Changing
<1>10. StillThere'
  BY <1>1, <1>4 DEF IInv, StillThere, Shows
<1>11. AnswersAreWhole' /\ PortIsFree' /\ ConfiguredIsSaved' /\ RemovedIsGone'
  BY <1>1, <1>5 DEF IInv, AnswersAreWhole, PortIsFree, ConfiguredIsSaved,
                    RemovedIsGone
<1>. QED BY <1>6, <1>7, <1>8, <1>9, <1>10, <1>11 DEF IInv

(* Reading, giving up a reader, and what an old reader takes. *)
LEMMA ReadingStep ==
    ASSUME IInv, Read \/ ReadTimesOut \/ TimerWins \/ Swallow
    PROVE  IInv'
<1>1. TypeOK /\ Control
  BY DEF IInv
<1>2. UNCHANGED <<job, step, buf, came, said, gaveUp, router, run>>
  BY DEF Read, ReadTimesOut, TimerWins, Swallow, WindowPasses, client
<1>3. UNCHANGED <<out, lost>> \/ Lose
  BY DEF Read, ReadTimesOut, TimerWins, Swallow, pipe
<1>. missed' \in BOOLEAN
  <2>1. CASE Swallow
    <3>1. out # <<>> /\ out \in Seq(PieceType)
      BY <1>1, <2>1 DEF Swallow, Lose, TypeOK
    <3>2. Head(out).prompt \in BOOLEAN
      <4>1. Head(out) \in PieceType
        BY <3>1
      <4>. QED BY <4>1 DEF PieceType
    <3>. QED BY <1>1, <2>1, <3>2 DEF Swallow, TypeOK
  <2>2. CASE ~Swallow
    BY <1>1, <2>2 DEF Read, ReadTimesOut, TimerWins, pipe, TypeOK
  <2>. QED BY <2>1, <2>2
<1>4. orphans' \in Nat
  BY <1>1 DEF Read, ReadTimesOut, TimerWins, Swallow, pipe, TypeOK
<1>5. /\ Waiting' <=> Waiting
      /\ wait' \in {"idle", "loop", "reading"}
      /\ ticks' \in 0..Windows
      /\ wait' = "reading" => ticks' < Windows
  <2>1. CASE Read
    BY <1>1, <2>1 DEF Read, Waiting, TypeOK
  <2>2. CASE ReadTimesOut \/ TimerWins
    BY <1>1, <2>2, KeeneticAssumption
       DEF ReadTimesOut, TimerWins, WindowPasses, Waiting, TypeOK, Control
  <2>3. CASE Swallow
    BY <1>1, <2>3 DEF Swallow, client, Waiting, TypeOK, Control
  <2>. QED BY <2>1, <2>2, <2>3
<1>. QED BY <1>2, <1>3, <1>4, <1>5, WaitStep

-----------------------------------------------------------------------------
(* A command is sent. *)

(* Sending a command, which its own answer then has to follow. *)
LEMMA SendStep ==
    ASSUME IInv, Send
    PROVE  IInv'
<1>1. /\ wait = "idle" /\ step \in Command /\ link /\ todo' = Append(todo, step)
      /\ wait' = "loop" /\ ticks' = 0 /\ buf' = <<>> /\ came' = "none"
      /\ missed' = FALSE
      /\ job' = job /\ step' = step /\ said' = said /\ gaveUp' = gaveUp
      /\ orphans' = orphans /\ out' = out /\ lost' = lost
      /\ running' = running /\ saved' = saved /\ refused' = refused
      /\ sessions' = sessions /\ link' = link /\ broken' = broken
  BY DEF Send, run
<1>2. todo \in Seq(Command)
  BY DEF IInv, TypeOK
<1>3. /\ Append(todo, step) \in Seq(Command)
      /\ Len(Append(todo, step)) = Len(todo) + 1
      /\ \A i \in 1..Len(todo) : Append(todo, step)[i] = todo[i]
      /\ Append(todo, step)[Len(todo) + 1] = step
  BY <1>1, <1>2, AppendProperties
<1>4. TypeOK'
  <2>1. 0 \in 0..Windows /\ <<>> \in Seq(PieceType)
    BY KeeneticAssumption
  <2>. QED BY <1>1, <1>3, <2>1 DEF IInv, TypeOK
<1>5. Control'
  BY <1>1 DEF IInv, Control, Waiting, Command
<1>6. InStep'
  <2>1. ~gaveUp => todo = <<>> /\ out = <<>>
    BY <1>1 DEF IInv, InStep, Waiting
  <2>2. ~gaveUp => todo' = <<step>>
    BY <1>1, <2>1, Short
  <2>. QED BY <1>1, <2>1, <2>2 DEF InStep, Waiting
<1>7. SoFar' /\ LastWords'
  BY <1>1 DEF IInv, SoFar, LastWords
<1>8. StillThere'
  BY <1>1 DEF IInv, StillThere, Shows
<1>9. InStartup'
  <2>1. "present" \notin said
    BY <1>1 DEF IInv, LastWords, Command
  <2>2. ASSUME NEW i \in DOMAIN Append(todo, step),
               Append(todo, step)[i] = "upstream"
        PROVE  Changing /\ "present" \notin said
    <3>1. i \in 1..Len(todo) \/ i = Len(todo) + 1
      BY <1>2, <1>3
    <3>2. CASE i \in 1..Len(todo)
      BY <1>2, <1>3, <2>2, <3>2 DEF IInv, InStartup
    <3>3. CASE i = Len(todo) + 1
      BY <1>3, <2>1, <2>2, <3>3 DEF Changing
    <3>. QED BY <3>1, <3>2, <3>3
  <2>3. Changing' = Changing /\ Settled' = Settled
    BY <1>1 DEF Changing, Settled
  <2>. QED BY <1>1, <2>2, <2>3 DEF IInv, InStartup
<1>10. AnswersAreWhole' /\ PortIsFree' /\ ConfiguredIsSaved' /\ RemovedIsGone'
  BY <1>1 DEF IInv, AnswersAreWhole, PortIsFree, ConfiguredIsSaved,
              RemovedIsGone
<1>. QED BY <1>4, <1>5, <1>6, <1>7, <1>8, <1>9, <1>10 DEF IInv

-----------------------------------------------------------------------------
(* The router carries out a command. *)

(* The answer to it, piece by piece. *)
LEMMA AnswersAre ==
    ASSUME NEW c \in Command \cup {"login"}, NEW x \in Says, NEW a \in Answers(c, x)
    PROVE  /\ a \in Seq(PieceType)
           /\ a = <<Piece(c, 1, TRUE, x)>>
              \/ a = <<Piece(c, 1, FALSE, x), Piece(c, 2, TRUE, {})>>
           /\ \A i \in DOMAIN a : a[i].says \subseteq x
<1>1. {} \in Says
  BY DEF Says
<1>. DEFINE p == Piece(c, 1, TRUE, x)
            q == Piece(c, 1, FALSE, x)
            r == Piece(c, 2, TRUE, {})
<1>2. /\ p \in PieceType /\ q \in PieceType /\ r \in PieceType
      /\ p.says = x /\ q.says = x /\ r.says = {}
  <2>1. p \in PieceType /\ q \in PieceType /\ r \in PieceType
    BY <1>1 DEF Piece, PieceType, Says
  <2>2. p.says = x /\ q.says = x /\ r.says = {}
    BY DEF Piece
  <2>. QED BY <2>1, <2>2
<1>3. a = <<p>> \/ a = <<q, r>>
  BY DEF Answers
<1>. HIDE DEF p, q, r
<1>4. CASE a = <<p>>
  <2>1. DOMAIN <<p>> = {1} /\ <<p>>[1] = p
    BY Short
  <2>2. a \in Seq(PieceType)
    BY <1>2, <1>4
  <2>3. \A i \in DOMAIN a : a[i].says \subseteq x
    BY <1>2, <1>4, <2>1
  <2>. QED BY <1>4, <2>2, <2>3 DEF p
<1>5. CASE a = <<q, r>>
  <2>1. DOMAIN <<q, r>> = {1, 2} /\ <<q, r>>[1] = q /\ <<q, r>>[2] = r
    BY Short
  <2>2. a \in Seq(PieceType)
    BY <1>2, <1>5
  <2>3. \A i \in DOMAIN a : a[i].says \subseteq x
    BY <1>2, <1>5, <2>1
  <2>. QED BY <1>5, <2>2, <2>3 DEF q, r
<1>. QED BY <1>3, <1>4, <1>5

(* What a command does to a configuration. *)
LEMMA EffectIs ==
    ASSUME NEW c \in Command, NEW config \in Config
    PROVE  /\ Effect(c, config) \in Config
           /\ Effect(c, config).port = IF c = "port443" THEN "8443" ELSE config.port
           /\ Effect(c, config).doh = IF c = "upstream" THEN job = "install"
                                                        ELSE config.doh
BY DEF Effect, Config, AllPorts

(* The router carries out a command, or refuses it, and answers it. *)
LEMMA RouterDoes ==
    ASSUME TypeOK, RouterWorks, NEW c, c = Head(todo)
    PROVE  \E x \in Says :
              /\ \E a \in Answers(c, x) : out' = out \o a
              /\ "doh" \in x => running.doh
              /\ \/ /\ running' = Effect(c, running)
                    /\ saved' = IF c \in Saves THEN running ELSE saved
                    /\ c \in Asks => x = Text(running)
                    /\ refused' = refused
                 \/ /\ running' = running /\ saved' = saved
                    /\ refused' = refused \cup {c}
<1>1. Text(running) \in Says /\ {} \in Says
      /\ ("doh" \in Text(running) => running.doh)
  BY DEF TypeOK, Config, Says, Text, AllPorts
<1>2. CASE Obeys(c)
  <2>. DEFINE x == IF c \in Asks THEN Text(running) ELSE {}
  <2>1. PICK a \in Answers(c, x) : out' = out \o a
    BY <1>2 DEF Obeys
  <2>2. x \in Says /\ ("doh" \in x => running.doh)
        /\ (c \in Asks => x = Text(running))
    BY <1>1
  <2>3. /\ running' = Effect(c, running) /\ refused' = refused
        /\ saved' = IF c \in Saves THEN running ELSE saved
    BY <1>2 DEF Obeys
  <2>. HIDE DEF x
  <2>. QED BY <2>1, <2>2, <2>3
<1>3. CASE Refuses(c)
  <2>. DEFINE p == Piece(c, 1, TRUE, {})
  <2>0. <<p>> \in Answers(c, {}) /\ p \in PieceType
    <3>1. c \in Command
      BY DEF TypeOK, RouterWorks
    <3>. QED BY <3>1 DEF Answers, Piece, PieceType
  <2>1. out' = out \o <<p>>
    <3>1. out' = Append(out, p) /\ out \in Seq(PieceType)
      BY <1>3 DEF Refuses, TypeOK
    <3>. HIDE DEF p
    <3>. QED BY <2>0, <3>1
  <2>2. running' = running /\ saved' = saved /\ refused' = refused \cup {c}
    BY <1>3 DEF Refuses
  <2>3. "doh" \notin {}
    OBVIOUS
  <2>. HIDE DEF p
  <2>. QED BY <1>1, <2>0, <2>1, <2>2, <2>3
<1>. QED BY <1>2, <1>3 DEF RouterWorks

(* Whichever it does keeps the invariant. *)
LEMMA RouterStep ==
    ASSUME IInv, RouterWorks
    PROVE  IInv'
<1>3. TypeOK
  BY DEF IInv
<1>. DEFINE c == Head(todo)
<1>0. PICK x \in Says :
          /\ \E a \in Answers(c, x) : out' = out \o a
          /\ "doh" \in x => running.doh
          /\ \/ /\ running' = Effect(c, running)
                /\ saved' = IF c \in Saves THEN running ELSE saved
                /\ c \in Asks => x = Text(running)
                /\ refused' = refused
             \/ /\ running' = running /\ saved' = saved
                /\ refused' = refused \cup {c}
  BY <1>3, RouterDoes
<1>. PICK a \in Answers(c, x) : out' = out \o a
  BY <1>0
<1>1. /\ link /\ todo # <<>> /\ todo' = Tail(todo)
      /\ UNCHANGED <<client, orphans, lost, missed, run>>
  BY DEF RouterWorks
<1>2. /\ job' = job /\ step' = step /\ wait' = wait /\ ticks' = ticks
      /\ buf' = buf /\ came' = came /\ said' = said /\ gaveUp' = gaveUp
      /\ orphans' = orphans /\ lost' = lost /\ missed' = missed
      /\ sessions' = sessions /\ link' = link /\ broken' = broken
  BY <1>1 DEF client, run
<1>4. /\ c \in Command /\ Tail(todo) \in Seq(Command)
      /\ 1 \in DOMAIN todo /\ todo[1] = c
      /\ \A i \in DOMAIN Tail(todo) : i + 1 \in DOMAIN todo /\ Tail(todo)[i] = todo[i + 1]
  <2>1. todo \in Seq(Command) /\ todo # <<>>
    BY <1>1, <1>3 DEF TypeOK
  <2>. QED BY <2>1
<1>5. running \in Config /\ saved \in Config /\ refused \subseteq Command
  BY <1>3 DEF TypeOK
<1>. HIDE DEF c
<1>6. /\ a \in Seq(PieceType)
      /\ a = <<Piece(c, 1, TRUE, x)>>
         \/ a = <<Piece(c, 1, FALSE, x), Piece(c, 2, TRUE, {})>>
      /\ \A i \in DOMAIN a : a[i].says \subseteq x
  BY <1>4, AnswersAre
<1>7. /\ running' \in Config
      /\ running'.port \in {"8443", running.port}
      /\ c # "upstream" => running'.doh = running.doh
      /\ running'.doh \in {job = "install", running.doh}
  BY <1>0, <1>4, <1>5, EffectIs
<1>8. /\ saved' \in Config /\ saved' \in {running, saved}
      /\ refused \subseteq refused' /\ refused' \subseteq Command
  BY <1>0, <1>4, <1>5
<1>9. ASSUME ~gaveUp
      PROVE  Waiting /\ c = step /\ todo' = <<>> /\ out = <<>> /\ buf = <<>>
  <2>1. Waiting /\ todo = <<step>> /\ out = <<>> /\ buf = <<>>
    BY <1>1, <1>9 DEF IInv, InStep
  <2>2. Head(<<step>>) = step /\ Tail(<<step>>) = <<>>
    BY Short
  <2>. QED BY <1>1, <2>1, <2>2 DEF c
<1>10. TypeOK'
  <2>1. out' \in Seq(PieceType)
    BY <1>1, <1>3, <1>6, ConcatProperties DEF TypeOK
  <2>. QED BY <1>1, <1>2, <1>3, <1>4, <1>7, <1>8, <2>1 DEF TypeOK
<1>11. Control'
  BY <1>1, <1>2 DEF IInv, Control, Waiting
<1>12. InStep'
  <2>1. ASSUME ~gaveUp PROVE Coming(x)' /\ Carried(x)'
    <3>1. out' = a
      BY <1>6, <1>9, <2>1, ConcatEmptySeq
    <3>2. Coming(x)'
      BY <1>2, <1>6, <1>9, <2>1, <3>1 DEF Coming
    <3>3. CASE step \in refused'
      BY <1>2, <3>2, <3>3 DEF Carried
    <3>4. CASE step \notin refused'
      <4>1. c = step /\ running' = Effect(c, running)
        BY <1>0, <1>9, <2>1, <3>4
      <4>2. /\ running'.port = IF c = "port443" THEN "8443" ELSE running.port
            /\ running'.doh = IF c = "upstream" THEN job = "install" ELSE running.doh
            /\ saved' = IF c \in Saves THEN running ELSE saved
            /\ c \in Asks => x = Text(running)
        BY <1>0, <1>4, <1>5, <1>9, <2>1, <3>4, <4>1, EffectIs
      <4>3. c \in Asks \cup Saves => running' = running
        BY <4>1 DEF Effect, Asks, Saves
      <4>. QED BY <1>2, <3>2, <4>1, <4>2, <4>3 DEF Carried, Asks, Saves, Text
    <3>. QED BY <3>3, <3>4
  <2>. QED BY <1>2, <1>9, <2>1 DEF InStep, Waiting
<1>13. SoFar'
  BY <1>2, <1>7, <1>8, <1>9 DEF IInv, SoFar
<1>14. StillThere'
  <2>1. ASSUME job = "install" PROVE Shows(out)' /\ Shows(buf)'
    <3>1. Shows(out) /\ Shows(buf)
      BY <2>1 DEF IInv, StillThere
    <3>2. running.doh => running'.doh
      BY <1>7, <2>1
    <3>3. ASSUME NEW i \in DOMAIN (out \o a), "doh" \in (out \o a)[i].says
          PROVE  running.doh
      <4>. DEFINE n == Len(out)
      <4>1. /\ out \in Seq(PieceType) /\ n \in Nat /\ i \in 1..(n + Len(a))
            /\ (out \o a)[i] = IF i <= n THEN out[i] ELSE a[i - n]
        BY <1>3, <1>6, <3>3, ConcatProperties, LenProperties DEF TypeOK
      <4>2. CASE i <= n
        BY <3>1, <3>3, <4>1, <4>2 DEF Shows
      <4>3. CASE i > n
        <5>1. i - n \in DOMAIN a /\ (out \o a)[i] = a[i - n]
          BY <1>6, <4>1, <4>3
        <5>2. "doh" \in x
          BY <1>6, <3>3, <5>1
        <5>. QED BY <1>0, <5>2
      <4>. QED BY <4>1, <4>2, <4>3
    <3>. QED BY <1>1, <1>2, <3>1, <3>2, <3>3 DEF Shows
  <2>. QED BY <1>2, <2>1 DEF StillThere
<1>15. LastWords'
  BY <1>2 DEF IInv, LastWords
<1>16. c = "upstream" => Changing /\ "present" \notin said
  BY <1>4 DEF IInv, InStartup
<1>17. Settled => c # "upstream"
  BY <1>9, <1>16 DEF Settled, IInv, Control, Waiting, Command
<1>18. InStartup'
  <2>1. Changing' = Changing /\ (Settled' => Settled)
    BY <1>2, <1>8 DEF Changing, Settled
  <2>2. Settled /\ ~broken => running'.doh = saved'.doh
    BY <1>7, <1>8, <1>17 DEF IInv, InStartup
  <2>3. \A i \in DOMAIN todo' :
            todo'[i] = "upstream" => Changing /\ "present" \notin said
    BY <1>1, <1>4 DEF IInv, InStartup
  <2>. QED BY <1>2, <2>1, <2>2, <2>3 DEF InStartup
<1>19. AnswersAreWhole'
  BY <1>2 DEF IInv, AnswersAreWhole
<1>20. PortIsFree'
  BY <1>2, <1>7, <1>8 DEF IInv, PortIsFree
<1>21. ~gaveUp => said \cap {"present", "configured", "uninstalled"} = {}
  BY <1>9 DEF IInv, LastWords, Control, Waiting, Command
<1>22. ConfiguredIsSaved'
  <2>1. "present" \in said => running'.doh /\ (saved'.doh \/ broken)
    BY <1>7, <1>8, <1>16 DEF IInv, ConfiguredIsSaved
  <2>. QED BY <1>2, <1>21, <2>1 DEF ConfiguredIsSaved
<1>23. RemovedIsGone'
  BY <1>2, <1>21 DEF RemovedIsGone
<1>. QED BY <1>10, <1>11, <1>12, <1>13, <1>14, <1>15, <1>18, <1>19, <1>20,
            <1>22, <1>23 DEF IInv

-----------------------------------------------------------------------------
(* Sessions begin and end. *)

(* A new session starts with nothing of the old one left. *)
LEMMA OpenStep ==
    ASSUME IInv, Open
    PROVE  IInv'
<1>1. /\ step = "none" /\ sessions < MaxSessions /\ sessions' = sessions + 1
      /\ job' \in Job /\ step' = "login" /\ wait' = "loop"
      /\ ticks' = 0 /\ buf' = <<>> /\ came' = "none"
      /\ orphans' = 0 /\ link' = TRUE /\ todo' = <<>>
      /\ out' \in Answers("login", {})
      /\ said' = {} /\ gaveUp' = FALSE /\ lost' = FALSE /\ missed' = FALSE
      /\ refused' = {} /\ running' = running /\ saved' = saved /\ broken' = broken
  BY DEF Open
<1>2. {} \in Says
  BY DEF Says
<1>3. PICK a \in Answers("login", {}) : out' = a
  BY <1>1
<1>. DEFINE c == "login"
<1>. c \in Command \cup {"login"} /\ a \in Answers(c, {})
  BY <1>3
<1>4. /\ a \in Seq(PieceType)
      /\ a = <<Piece("login", 1, TRUE, {})>>
         \/ a = <<Piece("login", 1, FALSE, {}), Piece("login", 2, TRUE, {})>>
      /\ \A i \in DOMAIN a : a[i].says \subseteq {}
  BY <1>2, <1>3, AnswersAre
<1>5. TypeOK'
  <2>1. sessions' \in 0..MaxSessions /\ ticks' \in 0..Windows
    BY <1>1, KeeneticAssumption DEF IInv, TypeOK
  <2>2. {link, gaveUp, lost, missed, broken}' \subseteq BOOLEAN
    BY <1>1 DEF IInv, TypeOK
  <2>3. buf' \in Seq(PieceType) /\ todo' \in Seq(Command)
    BY <1>1
  <2>4. out' \in Seq(PieceType)
    BY <1>3, <1>4
  <2>. QED BY <1>1, <2>1, <2>2, <2>3, <2>4 DEF IInv, TypeOK
<1>6. Control'
  BY <1>1 DEF Control, Waiting
<1>7. InStep'
  <2>1. Coming({})'
    BY <1>1, <1>3, <1>4 DEF Coming
  <2>2. Carried({})'
    BY <1>1 DEF Carried, Asks
  <2>. QED BY <1>1, <1>2, <2>1, <2>2 DEF InStep, Waiting
<1>8. SoFar' /\ LastWords'
  BY <1>1 DEF SoFar, LastWords
<1>9. StillThere'
  BY <1>1, <1>3, <1>4 DEF StillThere, Shows
<1>10. InStartup'
  <2>1. ~broken => running.doh = saved.doh
    BY <1>1 DEF IInv, InStartup, Settled, Changing
  <2>2. \A i \in DOMAIN todo' : FALSE
    BY <1>1
  <2>. QED BY <1>1, <2>1, <2>2 DEF InStartup
<1>11. AnswersAreWhole' /\ PortIsFree' /\ ConfiguredIsSaved' /\ RemovedIsGone'
  BY <1>1 DEF AnswersAreWhole, PortIsFree, ConfiguredIsSaved, RemovedIsGone
<1>. QED BY <1>5, <1>6, <1>7, <1>8, <1>9, <1>10, <1>11 DEF IInv

(* Cut off, closed or broken off: what is on its way is gone. *)
LEMMA GoneStep ==
    ASSUME IInv, Gone, UNCHANGED <<job, said, gaveUp, sessions>>,
           \/ UNCHANGED <<step, wait, ticks, buf, came>>
           \/ Ends,
           broken' \in BOOLEAN, broken => broken',
           Settled' => Settled \/ broken'
    PROVE  IInv'
<1>1. /\ link' = FALSE /\ todo' = <<>> /\ out' = <<>> /\ orphans' = 0
      /\ running' = running /\ saved' = saved /\ lost' = lost
      /\ refused' = refused /\ missed' = missed /\ job' = job
      /\ said' = said /\ gaveUp' = gaveUp /\ sessions' = sessions
      /\ \/ UNCHANGED <<step, wait, ticks, buf, came>>
         \/ /\ step' = "none" /\ wait' = "idle" /\ ticks' = 0
            /\ buf' = <<>> /\ came' = "none"
  BY DEF Gone, Ends
<1>2. TypeOK'
  <2>1. todo' \in Seq(Command) /\ out' \in Seq(PieceType)
    BY <1>1
  <2>2. {link, gaveUp, lost, missed, broken}' \subseteq BOOLEAN
    BY <1>1 DEF IInv, TypeOK
  <2>3. /\ wait' \in {"idle", "loop", "reading"}
        /\ step' \in Command \cup {"login", "close", "none"}
        /\ ticks' \in 0..Windows /\ buf' \in Seq(PieceType)
        /\ came' \in Command \cup {"login", "none"}
    <3>1. 0 \in 0..Windows /\ <<>> \in Seq(PieceType)
      BY KeeneticAssumption
    <3>. QED BY <1>1, <3>1 DEF IInv, TypeOK
  <2>. QED BY <1>1, <2>1, <2>2, <2>3 DEF IInv, TypeOK
<1>3. Control'
  BY <1>1 DEF IInv, Control, Waiting, Command
<1>4. InStep'
  BY <1>1 DEF InStep
<1>5. SoFar' /\ LastWords'
  BY <1>1 DEF IInv, SoFar, LastWords
<1>6. StillThere'
  BY <1>1 DEF IInv, StillThere, Shows
<1>7. InStartup'
  <2>1. \A i \in DOMAIN todo' : FALSE
    BY <1>1
  <2>. QED BY <1>1, <2>1 DEF IInv, InStartup
<1>8. AnswersAreWhole' /\ PortIsFree'
  BY <1>1 DEF IInv, AnswersAreWhole, PortIsFree
<1>9. ConfiguredIsSaved' /\ RemovedIsGone'
  BY <1>1 DEF IInv, ConfiguredIsSaved, RemovedIsGone
<1>. QED BY <1>2, <1>3, <1>4, <1>5, <1>6, <1>7, <1>8, <1>9 DEF IInv

(* However a session ends, nothing of it is left on its way. *)
LEMMA EndingStep ==
    ASSUME IInv, Cut \/ Close \/ Exits
    PROVE  IInv'
<1>1. broken \in BOOLEAN /\ gaveUp \in BOOLEAN
  BY DEF IInv, TypeOK
<1>2. CASE Cut
  <2>1. /\ UNCHANGED <<job, said, gaveUp, sessions>>
        /\ UNCHANGED <<step, wait, ticks, buf, came>>
        /\ Gone /\ broken' = TRUE
    BY <1>2 DEF Cut, client
  <2>. QED BY <2>1, GoneStep
<1>3. CASE Exits
  <2>1. /\ UNCHANGED <<job, said, gaveUp, sessions>>
        /\ Ends /\ Gone /\ broken' = TRUE
    BY <1>3 DEF Exits, Ends
  <2>. QED BY <2>1, GoneStep
<1>4. CASE Close
  <2>1. /\ UNCHANGED <<job, said, gaveUp, sessions, refused>>
        /\ Ends /\ Gone /\ step = "close"
        /\ broken' = (broken \/ gaveUp \/ "saveDNS" \in refused)
    BY <1>4 DEF Close, Ends, Gone
  <2>2. Settled' => Settled \/ broken'
    BY <1>1, <2>1 DEF Settled
  <2>3. broken' \in BOOLEAN
    BY <1>1, <2>1
  <2>. QED BY <1>1, <2>1, <2>2, <2>3, GoneStep
<1>. QED BY <1>2, <1>3, <1>4

-----------------------------------------------------------------------------
(* Together. *)

(* It holds before the first session, *)
LEMMA InitIInv == Init => IInv
<1>. SUFFICES ASSUME Init PROVE IInv
  OBVIOUS
<1>1. /\ sessions = 0 /\ job = "install" /\ step = "none" /\ wait = "idle"
      /\ ticks = 0 /\ buf = <<>> /\ came = "none" /\ orphans = 0
      /\ link = FALSE /\ todo = <<>> /\ out = <<>> /\ saved = running
      /\ said = {} /\ gaveUp = FALSE /\ broken = FALSE /\ lost = FALSE
      /\ missed = FALSE /\ refused = {}
  BY DEF Init
<1>2. running \in Config
  BY KeeneticAssumption DEF Init, Config
<1>3. TypeOK
  <2>1. <<>> \in Seq(PieceType) /\ <<>> \in Seq(Command)
    OBVIOUS
  <2>2. 0 \in 0..MaxSessions /\ 0 \in 0..Windows
    BY KeeneticAssumption
  <2>. QED BY <1>1, <1>2, <2>1, <2>2 DEF TypeOK, Job
<1>4. \A i \in DOMAIN <<>> : FALSE
  OBVIOUS
<1>5. Control /\ InStep /\ SoFar /\ LastWords
  BY <1>1 DEF Control, InStep, SoFar, LastWords, Waiting, Command
<1>6. StillThere /\ InStartup
  BY <1>1, <1>4 DEF StillThere, Shows, InStartup
<1>7. AnswersAreWhole /\ PortIsFree /\ ConfiguredIsSaved /\ RemovedIsGone
  BY <1>1 DEF AnswersAreWhole, PortIsFree, ConfiguredIsSaved, RemovedIsGone
<1>. QED BY <1>3, <1>5, <1>6, <1>7 DEF IInv

(* every step keeps it, *)
LEMMA NextIInv == IInv /\ [Next]_vars => IInv'
<1>. SUFFICES ASSUME IInv, [Next]_vars PROVE IInv'
  OBVIOUS
<1>1. CASE Open
  BY <1>1, OpenStep
<1>2. CASE RouterWorks
  BY <1>2, RouterStep
<1>3. CASE Swallow
  BY <1>3, ReadingStep
<1>4. CASE Cut \/ Exits
  BY <1>4, EndingStep
<1>5. CASE ClientStep
  BY <1>5, SendStep, FailingStep, ReadingStep, GatherStep, EndingStep
     DEF ClientStep
<1>6. CASE UNCHANGED vars
  <2>1. /\ UNCHANGED <<job, step, buf, came, said, gaveUp, router, run>>
        /\ wait' = wait /\ ticks' = ticks /\ orphans' = orphans
        /\ UNCHANGED <<out, lost, missed>>
    BY <1>6 DEF vars, client, pipe, router
  <2>2. /\ wait \in {"idle", "loop", "reading"} /\ ticks \in 0..Windows
        /\ orphans \in Nat /\ missed \in BOOLEAN /\ (wait = "reading" => ticks < Windows)
    BY DEF IInv, TypeOK, Control
  <2>3. Waiting' <=> Waiting
    BY <2>1 DEF Waiting
  <2>. QED BY <2>1, <2>2, <2>3, WaitStep
<1>. QED BY <1>1, <1>2, <1>3, <1>4, <1>5, <1>6 DEF Next

(* and so it always holds. *)
LEMMA Inductive == Spec => []IInv
BY InitIInv, NextIInv, PTL DEF Spec

(* Every variable of a session keeps its type, and a command never uses    *)
(* more read windows than its deadline has.                                *)
THEOREM SessionTyped == Spec => []TypeOK
<1>1. IInv => TypeOK
  BY DEF IInv
<1>. QED BY <1>1, Inductive, PTL

(* cmd hands back the answer to its own command, all of it and nothing     *)
(* else, for as long as nothing was swallowed and nothing gave up.         *)
THEOREM AnswersComeWhole == Spec => []AnswersAreWhole
<1>1. IInv => AnswersAreWhole
  BY DEF IInv
<1>. QED BY <1>1, Inductive, PTL

(* freePort443 claims only what is so, even if output was swallowed: each  *)
(* of its commands is sent only after the one before it came back.         *)
THEOREM FreedIsFree == Spec => []PortIsFree
<1>1. IInv => PortIsFree
  BY DEF IInv
<1>. QED BY <1>1, Inductive, PTL

(* An upstream that configureDNSUpstream reports is in force and in the    *)
(* startup configuration, unless a command gave up or a session broke off. *)
THEOREM UpstreamIsSaved == Spec => []ConfiguredIsSaved
<1>1. IInv => ConfiguredIsSaved
  BY DEF IInv
<1>. QED BY <1>1, Inductive, PTL

(* After removeDNSUpstream without trouble the upstream is gone. *)
THEOREM UpstreamIsGone == Spec => []RemovedIsGone
<1>1. IInv => RemovedIsGone
  BY DEF IInv
<1>. QED BY <1>1, Inductive, PTL

-----------------------------------------------------------------------------
(* The way to the end of a session. *)

Steps == Command \cup {"login", "close", "none"}

(* The commands ahead are a number. *)
LEMMA AheadType == \A s \in Steps : Ahead[s] \in Nat
BY DEF Ahead, Steps, Command

(* A command that comes back is behind. *)
LEMMA AfterIsNearer ==
    ASSUME job \in Job, step \in Command \cup {"login"},
           NEW ok \in BOOLEAN, NEW says \in Says
    PROVE  Ahead[After(step, ok, says)] + 1 <= Ahead[step]
<1>. DEFINE next == After(step, ok, says)
<1>1. /\ next \in Command \cup {"close"}
      /\ step = "login"   => next \in {"close", "show443", "showDNS"}
      /\ step = "show443" => next \in {"port443", "showDNS"}
      /\ step = "port443" => next \in {"save443", "showDNS"}
      /\ step = "save443" => next = "showDNS"
      /\ step = "showDNS" => next \in {"close", "dns"}
      /\ step = "dns"      => next = "upstream"
      /\ step = "upstream" => next = "exit"
      /\ step = "exit"     => next = "saveDNS"
      /\ step = "saveDNS"  => next = "close"
  <2>1. CASE step \in {"login", "show443", "port443", "save443"}
    BY <2>1 DEF After, FreePort, AfterFreePort, Job, Command
  <2>2. CASE step \in {"showDNS", "dns", "upstream", "exit", "saveDNS"}
    BY <2>2 DEF After, DNSUpstream, Command
  <2>. QED BY <2>1, <2>2 DEF Command
<1>. HIDE DEF next
<1>2. Ahead[next] + 1 <= Ahead[step]
  <2>1. CASE step \in {"login", "show443", "port443", "save443"}
    BY <1>1, <2>1 DEF Ahead
  <2>2. CASE step \in {"showDNS", "dns", "upstream", "exit", "saveDNS"}
    BY <1>1, <2>2 DEF Ahead
  <2>. QED BY <2>1, <2>2 DEF Command
<1>. QED BY <1>2 DEF next

(* One command less outweighs all the windows of the next. *)
LEMMA OneStepLess ==
    ASSUME NEW w \in Nat, NEW m \in Nat, NEW n \in Nat, m + 1 <= n
    PROVE  w * m + w <= w * n
<1>1. PICK k \in Nat : n = m + 1 + k
  <2>1. n - (m + 1) \in Nat /\ n = m + 1 + (n - (m + 1))
    OBVIOUS
  <2>. QED BY <2>1
<1>2. w * n = w * m + w + w * k /\ w * k \in Nat /\ w * m \in Nat
  BY <1>1
<1>. QED BY <1>2

(* The parts of Distance. *)
LEMMA DistanceIs ==
    ASSUME TypeOK
    PROVE  /\ Turn \in 0..(2 * Windows + 6)
           /\ Ahead[step] \in Nat
           /\ (2 * Windows + 7) * Ahead[step] \in Nat
           /\ Len(out) \in Nat /\ Len(todo) \in Nat
           /\ Distance \in Nat
<1>1. Windows \in Nat /\ ticks \in 0..Windows /\ wait \in {"idle", "loop", "reading"}
  BY KeeneticAssumption DEF TypeOK
<1>2. Turn \in 0..(2 * Windows + 6)
  BY <1>1 DEF Turn
<1>3. Ahead[step] \in Nat
  BY AheadType DEF TypeOK, Steps
<1>4. Len(out) \in Nat /\ Len(todo) \in Nat
  BY LenProperties DEF TypeOK
<1>5. (2 * Windows + 7) * Ahead[step] \in Nat
  BY <1>1, <1>3
<1>6. Distance \in Nat
  BY <1>2, <1>4, <1>5 DEF Distance
<1>. QED BY <1>2, <1>3, <1>4, <1>5, <1>6

(* As an implication, which holds of the next state as well. *)
LEMMA DistanceNat ==
    TypeOK => Turn \in 0..(2 * Windows + 6) /\ Distance \in Nat
BY DistanceIs

(* So they are after a step. *)
LEMMA DistanceNext ==
    ASSUME TypeOK'
    PROVE  /\ Turn' \in 0..(2 * Windows + 6)
           /\ Distance' \in Nat
           /\ Len(out') \in Nat /\ Len(todo') \in Nat
<1>1. (Turn \in 0..(2 * Windows + 6) /\ Distance \in Nat)'
  BY DistanceNat, PTL
<1>2. Len(out') \in Nat /\ Len(todo') \in Nat
  BY LenProperties DEF TypeOK
<1>. QED BY <1>1, <1>2

(* A step that leads to a later command, or past the last one. *)
LEMMA LaterIsNearer ==
    ASSUME TypeOK, TypeOK', Ahead[step'] + 1 <= Ahead[step],
           Len(out') <= Len(out), Len(todo') <= Len(todo)
    PROVE  Distance' < Distance
<1>. DEFINE w == 2 * Windows + 7
            m == Ahead[step']
            n == Ahead[step]
<1>1. w \in Nat /\ Windows \in Nat /\ w = 2 * Windows + 7
  BY KeeneticAssumption
<1>2. /\ Turn \in 0..(2 * Windows + 6) /\ n \in Nat /\ w * n \in Nat
      /\ Len(out) \in Nat /\ Len(todo) \in Nat
  BY DistanceIs
<1>3. Turn' \in 0..(2 * Windows + 6) /\ Len(out') \in Nat /\ Len(todo') \in Nat
  BY DistanceNext
<1>4. m \in Nat
  BY AheadType DEF TypeOK, Steps
<1>5. m + 1 <= n
  OBVIOUS
<1>. HIDE DEF w, m, n
<1>6. w * m + w <= w * n /\ w * m \in Nat
  BY <1>1, <1>2, <1>4, <1>5, OneStepLess
<1>7. /\ Distance = w * n + Turn + 2 * (Len(out) + 2 * Len(todo))
      /\ Distance' = w * m + Turn' + 2 * (Len(out') + 2 * Len(todo'))
  BY DEF Distance, w, m, n
<1>. QED BY <1>1, <1>2, <1>3, <1>4, <1>6, <1>7

(* A step that waits on for the same command. *)
LEMMA SameStep ==
    ASSUME TypeOK, TypeOK', step' = step
    PROVE  Distance' - Distance
             = Turn' - Turn + 2 * (Len(out') - Len(out))
                            + 4 * (Len(todo') - Len(todo))
<1>. DEFINE k == (2 * Windows + 7) * Ahead[step]
<1>1. /\ Windows \in Nat /\ Turn \in Int /\ k \in Int
      /\ Len(out) \in Int /\ Len(todo) \in Int
  BY KeeneticAssumption, DistanceIs
<1>2. Turn' \in Int /\ Len(out') \in Int /\ Len(todo') \in Int
  BY <1>1, DistanceNext
<1>3. Distance' = k + Turn' + 2 * (Len(out') + 2 * Len(todo'))
  BY DEF Distance
<1>4. Distance = k + Turn + 2 * (Len(out) + 2 * Len(todo))
  BY DEF Distance
<1>. HIDE DEF k
<1>. QED BY <1>1, <1>2, <1>3, <1>4

(* A command that comes back leads on. *)
LEMMA BackNears ==
    ASSUME TypeOK, TypeOK', step \in Command \cup {"login"},
           NEW ok \in BOOLEAN, NEW b \in Seq(PieceType), ComesBack(ok, b),
           todo' = todo, Len(out') <= Len(out)
    PROVE  Distance' < Distance
<1>. DEFINE says == Gathered(b)
<1>1. says \in Says
  BY GatheredIs
<1>2. step' = After(step, ok, says)
  BY DEF ComesBack, Gathered
<1>3. job \in Job /\ Len(todo) \in Nat
  BY LenProperties DEF TypeOK
<1>. HIDE DEF says
<1>4. Ahead[step'] + 1 <= Ahead[step]
  BY <1>1, <1>2, <1>3, AfterIsNearer
<1>. QED BY <1>3, <1>4, LaterIsNearer

(* An answer has at most two pieces. *)
LEMMA TwoPieces ==
    ASSUME NEW c \in Command, NEW text \in Says, NEW a \in Answers(c, text)
    PROVE  a \in Seq(PieceType) /\ Len(a) \in 0..2
<1>. DEFINE p == Piece(c, 1, TRUE, text)
            q == Piece(c, 1, FALSE, text)
            r == Piece(c, 2, TRUE, {})
<1>1. a \in Seq(PieceType) /\ (a = <<p>> \/ a = <<q, r>>)
  BY AnswersAre
<1>. HIDE DEF p, q, r
<1>2. Len(<<p>>) = 1 /\ Len(<<q, r>>) = 2
  OBVIOUS
<1>. QED BY <1>1, <1>2

(* Every step of the installer, by what it does to the distance. *)
LEMMA ClientNears ==
    ASSUME IInv, IInv', ClientStep
    PROVE  Distance' < Distance
<1>1. /\ TypeOK /\ TypeOK' /\ Control /\ Windows \in Nat
      /\ ticks \in Int /\ Len(out) \in Nat /\ Len(todo) \in Nat
      /\ out \in Seq(PieceType) /\ todo \in Seq(Command)
      /\ buf \in Seq(PieceType)
  BY KeeneticAssumption, LenProperties DEF IInv, TypeOK
<1>2. out # <<>> => Len(Tail(out)) = Len(out) - 1
  BY <1>1, HeadTailProperties
<1>3. /\ Len(<<>>) = 0 /\ Turn \in Int /\ Turn' \in Int
      /\ Distance \in Int /\ Distance' \in Int
  BY <1>1, DistanceIs, DistanceNext
<1>4. CASE SendFails
  <2>1. /\ step \in Command \cup {"login"} /\ ComesBack(FALSE, <<>>)
        /\ todo' = todo /\ out' = out
    BY <1>4 DEF SendFails, pipe, router
  <2>2. <<>> \in Seq(PieceType) /\ FALSE \in BOOLEAN /\ Len(out') <= Len(out)
    BY <1>1, <2>1
  <2>. QED BY <1>1, <2>1, <2>2, BackNears
<1>5. CASE DeadlinePasses \/ EndOfFile
  <2>1. /\ step \in Command \cup {"login"} /\ ComesBack(FALSE, buf)
        /\ todo' = todo /\ out' = out
    BY <1>1, <1>5 DEF DeadlinePasses, EndOfFile, pipe, router, Control, Waiting
  <2>2. FALSE \in BOOLEAN /\ Len(out') <= Len(out)
    BY <1>1, <2>1
  <2>. QED BY <1>1, <2>1, <2>2, BackNears
<1>6. CASE Gather
  <2>1. /\ wait = "reading" /\ out # <<>> /\ out' = Tail(out) /\ todo' = todo
        /\ step \in Command \cup {"login"}
    BY <1>1, <1>6 DEF Gather, router, Control, Waiting
  <2>2. PICK b \in Seq(PieceType) : b = Append(buf, Head(out))
    BY <1>1, <2>1, TakeAPiece
  <2>3. Len(out') = Len(out) - 1 /\ Len(todo') = Len(todo)
    BY <1>2, <2>1
  <2>4. CASE ComesBack(TRUE, b)
    <3>1. TRUE \in BOOLEAN /\ Len(out') <= Len(out)
      BY <1>1, <2>3
    <3>. QED BY <1>1, <2>1, <2>4, <3>1, BackNears
  <2>5. CASE wait' = "loop" /\ ticks' \in {ticks, ticks + 1} /\ step' = step
    <3>1. Turn' <= Turn + 1
      BY <1>1, <2>1, <2>5 DEF Turn
    <3>2. Distance' - Distance
            = Turn' - Turn + 2 * (Len(out') - Len(out))
                           + 4 * (Len(todo') - Len(todo))
      BY <1>1, <2>5, SameStep
    <3>. QED BY <1>1, <1>3, <2>3, <3>1, <3>2
  <2>. QED BY <1>6, <2>2, <2>4, <2>5 DEF Gather
<1>7. CASE Send
  <2>1. /\ wait = "idle" /\ step \in Command /\ step' = step
        /\ todo' = Append(todo, step) /\ wait' = "loop" /\ ticks' = 0 /\ out' = out
    BY <1>7 DEF Send
  <2>2. Turn = 2 * Windows + 6 /\ Turn' = 2 * Windows + 1
    BY <1>1, <2>1 DEF Turn
  <2>3. Len(todo') - Len(todo) = 1 /\ Len(out') - Len(out) = 0
    BY <1>1, <2>1, AppendProperties
  <2>4. Distance' - Distance
          = Turn' - Turn + 2 * (Len(out') - Len(out))
                         + 4 * (Len(todo') - Len(todo))
    BY <1>1, <2>1, SameStep
  <2>. QED BY <1>1, <1>3, <2>2, <2>3, <2>4
<1>8. CASE Read
  <2>1. /\ wait = "loop" /\ wait' = "reading" /\ ticks' = ticks /\ step' = step
        /\ out' = out /\ todo' = todo
    BY <1>8 DEF Read, pipe, router
  <2>2. Turn' = Turn - 1
    BY <1>1, <2>1 DEF Turn
  <2>3. Len(out') - Len(out) = 0 /\ Len(todo') - Len(todo) = 0
    BY <1>1, <2>1
  <2>4. Distance' - Distance
          = Turn' - Turn + 2 * (Len(out') - Len(out))
                         + 4 * (Len(todo') - Len(todo))
    BY <1>1, <2>1, SameStep
  <2>. QED BY <1>1, <1>3, <2>2, <2>3, <2>4
<1>9. CASE ReadTimesOut \/ TimerWins
  <2>1. /\ wait = "reading" /\ wait' = "loop" /\ ticks' = ticks + 1 /\ step' = step
        /\ out' = out \/ (out # <<>> /\ out' = Tail(out))
        /\ todo' = todo
    BY <1>9 DEF ReadTimesOut, TimerWins, WindowPasses, Lose, router
  <2>2. Turn' = Turn - 1
    BY <1>1, <2>1 DEF Turn
  <2>3. Len(out') \in {Len(out), Len(out) - 1} /\ Len(todo') = Len(todo)
    BY <1>2, <2>1
  <2>4. Distance' - Distance
          = Turn' - Turn + 2 * (Len(out') - Len(out))
                         + 4 * (Len(todo') - Len(todo))
    BY <1>1, <2>1, SameStep
  <2>. QED BY <1>1, <1>3, <2>2, <2>3, <2>4
<1>10. CASE Close
  <2>1. step = "close" /\ step' = "none" /\ out' = <<>> /\ todo' = <<>>
    BY <1>10 DEF Close, Ends, Gone
  <2>2. Ahead[step'] + 1 <= Ahead[step]
    BY <2>1 DEF Ahead
  <2>3. Len(out') <= Len(out) /\ Len(todo') <= Len(todo)
    BY <1>1, <1>3, <2>1
  <2>. QED BY <1>1, <2>2, <2>3, LaterIsNearer
<1>. QED BY <1>4, <1>5, <1>6, <1>7, <1>8, <1>9, <1>10 DEF ClientStep

(* And every other step of a session. *)
LEMMA DistanceStep ==
    ASSUME IInv, IInv', [Next]_vars, step # "none"
    PROVE  Distance' <= Distance
<1>1. /\ TypeOK /\ TypeOK'
      /\ ticks \in Int /\ Len(out) \in Nat /\ Len(todo) \in Nat
      /\ out \in Seq(PieceType) /\ todo \in Seq(Command)
  BY LenProperties DEF IInv, TypeOK
<1>2. /\ out # <<>> => Len(Tail(out)) = Len(out) - 1
      /\ todo # <<>> => Len(Tail(todo)) = Len(todo) - 1
  BY <1>1, HeadTailProperties
<1>3. /\ Len(<<>>) = 0 /\ Turn \in Int /\ Turn' \in Int
      /\ Distance \in Int /\ Distance' \in Int
  BY <1>1, DistanceIs, DistanceNext
<1>4. ASSUME UNCHANGED <<step, wait, ticks>>
      PROVE  Distance' - Distance = 2 * (Len(out') - Len(out))
                                    + 4 * (Len(todo') - Len(todo))
  <2>1. Turn' = Turn
    BY <1>4 DEF Turn
  <2>2. Distance' - Distance
          = Turn' - Turn + 2 * (Len(out') - Len(out))
                         + 4 * (Len(todo') - Len(todo))
    BY <1>1, <1>4, SameStep
  <2>3. Len(out') \in Nat /\ Len(todo') \in Nat
    BY <1>1, DistanceNext
  <2>. QED BY <1>1, <1>3, <2>1, <2>2, <2>3
<1>5. CASE ClientStep
  BY <1>3, <1>5, ClientNears
<1>6. CASE Swallow
  <2>1. /\ UNCHANGED <<step, wait, ticks>> /\ todo' = todo
        /\ out # <<>> /\ out' = Tail(out)
    BY <1>6 DEF Swallow, Lose, client, router
  <2>2. Len(out') = Len(out) - 1 /\ Len(todo') = Len(todo)
    BY <1>2, <2>1
  <2>3. Distance' - Distance = 2 * (Len(out') - Len(out))
                               + 4 * (Len(todo') - Len(todo))
    BY <1>4, <2>1
  <2>. QED BY <1>1, <1>3, <2>2, <2>3
<1>7. CASE RouterWorks
  <2>1. /\ UNCHANGED <<step, wait, ticks>>
        /\ todo # <<>> /\ todo' = Tail(todo)
    BY <1>7 DEF RouterWorks, client
  <2>. DEFINE c == Head(todo)
  <2>2. c \in Command
    BY <1>1, <2>1
  <2>3. PICK text \in Says : \E a \in Answers(c, text) : out' = out \o a
    BY <1>1, <1>7, RouterDoes
  <2>. PICK a \in Answers(c, text) : out' = out \o a
    BY <2>3
  <2>. HIDE DEF c
  <2>4. a \in Seq(PieceType) /\ Len(a) \in 0..2
    BY <2>2, TwoPieces
  <2>5. Len(out') - Len(out) <= 2 /\ Len(todo') - Len(todo) = -1
    <3>1. PICK k \in 0..2 : k = Len(a)
      BY <2>4
    <3>2. Len(out') = Len(out) + k
      BY <1>1, <2>4, <3>1, ConcatProperties
    <3>3. Len(out') - Len(out) <= 2
      BY <1>1, <3>2
    <3>4. Len(todo') - Len(todo) = -1
      BY <1>1, <1>2, <2>1
    <3>. QED BY <3>3, <3>4
  <2>6. Distance' - Distance = 2 * (Len(out') - Len(out))
                               + 4 * (Len(todo') - Len(todo))
    BY <1>4, <2>1
  <2>7. Len(out') \in Nat
    BY <1>1, DistanceNext
  <2>. QED BY <1>1, <1>3, <2>5, <2>6, <2>7
<1>8. CASE Cut
  <2>1. /\ UNCHANGED <<step, wait, ticks>> /\ out' = <<>> /\ todo' = <<>>
    BY <1>8 DEF Cut, Gone, client
  <2>2. Len(out') = 0 /\ Len(todo') = 0
    BY <1>3, <2>1
  <2>3. Distance' - Distance = 2 * (Len(out') - Len(out))
                               + 4 * (Len(todo') - Len(todo))
    BY <1>4, <2>1
  <2>. QED BY <1>1, <1>3, <2>2, <2>3
<1>9. CASE Exits
  <2>1. /\ step \in Command \cup {"login"} /\ step' = "none"
        /\ out' = <<>> /\ todo' = <<>>
    BY <1>1, <1>9 DEF Exits, Ends, Gone, TypeOK
  <2>2. Ahead[step'] + 1 <= Ahead[step]
    BY <2>1 DEF Ahead, Command
  <2>3. Len(out') <= Len(out) /\ Len(todo') <= Len(todo)
    BY <1>1, <1>3, <2>1
  <2>. QED BY <1>1, <1>3, <2>2, <2>3, LaterIsNearer
<1>10. CASE UNCHANGED vars
  <2>1. /\ UNCHANGED <<step, wait, ticks>> /\ out' = out /\ todo' = todo
    BY <1>10 DEF vars, client, pipe, router
  <2>2. Len(out') - Len(out) = 0 /\ Len(todo') - Len(todo) = 0
    BY <1>1, <2>1
  <2>3. Distance' - Distance = 2 * (Len(out') - Len(out))
                               + 4 * (Len(todo') - Len(todo))
    BY <1>4, <2>1
  <2>. QED BY <1>1, <1>3, <2>2, <2>3
<1>11. CASE Open
  BY <1>11 DEF Open
<1>. QED BY <1>5, <1>6, <1>7, <1>8, <1>9, <1>10, <1>11 DEF Next

(* cmd, waitForPrompt and the steps around them come to an end: each step  *)
(* of a session is one less of a bounded number, however slow the router.  *)
THEOREM SessionsAreBounded == Spec => NearsItsEnd
<1>1. IInv /\ IInv' /\ [Next]_vars
        => [step # "none" => /\ Distance' <= Distance
                             /\ ClientStep => Distance' < Distance]_vars
  BY DistanceStep, ClientNears
<1>. QED BY <1>1, Inductive, PTL DEF Spec, NearsItsEnd
=============================================================================
