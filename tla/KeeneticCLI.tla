---------------------------- MODULE KeeneticCLI ----------------------------
(***************************************************************************)
(* The installer's shell session with the router's structured CLI          *)
(* (cmd/installer/keenetic.go), and the two jobs that change the router's  *)
(* configuration through it: freeing port 443 and registering or removing  *)
(* the DNS-over-HTTPS upstream (cmd/installer/steps.go).                   *)
(*                                                                         *)
(* A command is written to the shell and its answer is read until the      *)
(* prompt shows.  A read that takes longer than half a second is given up, *)
(* but its goroutine stays blocked on the pipe and takes the next piece of *)
(* output for itself.  readWithTimeout starts another one behind it; pipe  *)
(* readers are served in their order of arrival.                           *)
(*                                                                         *)
(* The router is external: it takes commands one by one, as slowly as it   *)
(* likes, carries each out or refuses it, and answers it in pieces of      *)
(* which the last ends with the prompt.  cmd tells a refusal from success  *)
(* no more than its callers do.  Of a running configuration only the HTTPS *)
(* admin port and the upstream are kept.                                   *)
(***************************************************************************)
EXTENDS Naturals, Sequences, FiniteSets, SequencesExt

CONSTANTS
    Ports,        \* bound: where HTTPS admin may be before the first run
    Windows,      \* bound: read windows before a command's deadline
    MaxRefusals,  \* bound: different commands refused in one run
    MaxSessions   \* bound: runs of the installer

AllPorts == {"443", "8443", "off"}   \* "off": HTTPS admin is not enabled

ASSUME KeeneticAssumption ==
    /\ Ports \subseteq AllPorts
    /\ Windows \in Nat \ {0} /\ MaxSessions \in Nat /\ MaxRefusals \in Nat

VARIABLES
    sessions,  \* sessions opened so far
    job,       \* what the present one is for
    step,      \* the command whose turn it is; "none" without a session
    wait,      \* "idle", at the "loop" head of waitForPrompt, or "reading"
    ticks,     \* read windows this command has used up
    buf,       \* output waitForPrompt has gathered for it
    came,      \* the latest command, if it came back without an error
    orphans,   \* readers given up that still wait on the pipe
    link,      \* is the SSH session up
    todo,      \* commands the router has not carried out yet
    out,       \* output it has sent and nobody has read
    running,   \* the router's running configuration
    saved,     \* its startup configuration
    said,      \* what the installer told its user in this session
    gaveUp,    \* history: a command of this session came back with an error
    refused,   \* history: commands the router refused in this session
    lost,      \* history: output of this session was swallowed
    missed,    \* history: a reader given up earlier took the prompt that
               \* the present command awaits
    broken     \* history: an earlier session was not carried to its end,
               \* or its last save was refused

client == <<job, step, wait, ticks, buf, came, said, gaveUp>>
pipe   == <<orphans, out, lost, missed>>
router == <<todo, running, saved, refused>>
run    == <<sessions, link, broken>>
vars   == <<client, pipe, router, run>>

Job     == {"install", "uninstall"}
Command == {"show443", "port443", "save443",
            "showDNS", "dns", "upstream", "exit", "saveDNS"}

Config == [port : AllPorts, doh : BOOLEAN]

Init ==
    /\ sessions = 0
    /\ job = "install" /\ step = "none" /\ wait = "idle"
    /\ ticks = 0 /\ buf = <<>> /\ came = "none"
    /\ orphans = 0 /\ link = FALSE
    /\ todo = <<>> /\ out = <<>>
    /\ running \in [port : Ports, doh : BOOLEAN] /\ saved = running
    /\ said = {} /\ gaveUp = FALSE /\ broken = FALSE
    /\ refused = {} /\ lost = FALSE /\ missed = FALSE

-----------------------------------------------------------------------------
(* The router. *)

Piece(c, n, prompt, says) ==
    [of |-> c, part |-> n, prompt |-> prompt, says |-> says]

(* An answer comes in one piece, or with a prompt that comes later. *)
Answers(c, says) ==
    {<<Piece(c, 1, TRUE, says)>>,
     <<Piece(c, 1, FALSE, says), Piece(c, 2, TRUE, {})>>}

Text(config) == {config.port} \cup (IF config.doh THEN {"doh"} ELSE {})

(* Slip: the upstream is not taken out again. *)
OnlyAdds(c, config) ==
    CASE c = "port443"  -> [config EXCEPT !.port = "8443"]
      [] c = "upstream" -> [config EXCEPT !.doh = TRUE]
      [] OTHER          -> config

Effect(c, config) ==
    CASE c = "port443"  -> [config EXCEPT !.port = "8443"]
      [] c = "upstream" -> [config EXCEPT !.doh = (job = "install")]
      [] OTHER          -> config

Asks == {"show443", "showDNS"}

Saves == {"save443", "saveDNS"}

Obeys(c) ==
    /\ running' = Effect(c, running)
    /\ saved' = IF c \in Saves THEN running ELSE saved
    /\ out' \in {out \o a : a \in Answers(c, IF c \in Asks THEN Text(running)
                                            ELSE {})}
    /\ UNCHANGED refused

(* An error message and the prompt, in one piece, with nothing done.  That *)
(* dns or exit is refused shows in the upstream being refused, or not at   *)
(* all.                                                                    *)
Refuses(c) ==
    /\ c \notin {"dns", "exit"}
    /\ Cardinality(refused) < MaxRefusals
    /\ refused' = refused \cup {c}
    /\ out' = Append(out, Piece(c, 1, TRUE, {}))
    /\ UNCHANGED <<running, saved>>

RouterWorks ==
    /\ link
    /\ todo # <<>>
    /\ Obeys(Head(todo)) \/ Refuses(Head(todo))
    /\ todo' = Tail(todo)
    /\ UNCHANGED <<client, orphans, lost, missed, run>>

-----------------------------------------------------------------------------
(* What the installer does with an answer. *)

AfterFreePort == "showDNS"

(* Slip: the configuration is saved before the port is changed. *)
SaveFirst(c, ok, says) ==
    CASE c = "show443" -> IF ok /\ "443" \in says THEN "save443"
                          ELSE AfterFreePort
      [] c = "save443" -> IF ok THEN "port443" ELSE AfterFreePort
      [] c = "port443" -> AfterFreePort

(* Slip: a save that failed is tried again. *)
InsistsOnSave(c, ok, says) ==
    CASE c = "show443" -> IF ok /\ "443" \in says THEN "port443"
                          ELSE AfterFreePort
      [] c = "port443" -> IF ok THEN "save443" ELSE AfterFreePort
      [] c = "save443" -> IF ok THEN AfterFreePort ELSE "save443"

(* freePort443. *)
FreePort(c, ok, says) ==
    CASE c = "show443" -> IF ok /\ "443" \in says THEN "port443"
                          ELSE AfterFreePort
      [] c = "port443" -> IF ok THEN "save443" ELSE AfterFreePort
      [] c = "save443" -> AfterFreePort

(* Slip: the change is not saved. *)
UnsavedDNS(c, ok, says) ==
    CASE c = "showDNS"  -> IF (job = "install") = (ok /\ "doh" \in says)
                           THEN "close" ELSE "dns"
      [] c = "dns"      -> "upstream"
      [] c = "upstream" -> "exit"
      [] c = "exit"     -> "close"

(* configureDNSUpstream and removeDNSUpstream: errors are ignored, and an  *)
(* answer that could not be had counts as an upstream that is absent.      *)
DNSUpstream(c, ok, says) ==
    CASE c = "showDNS"  -> IF (job = "install") = (ok /\ "doh" \in says)
                           THEN "close" ELSE "dns"
      [] c = "dns"      -> "upstream"
      [] c = "upstream" -> "exit"
      [] c = "exit"     -> "saveDNS"
      [] c = "saveDNS"  -> "close"

After(c, ok, says) ==
    CASE c = "login" /\ ~ok                         -> "close"
      [] c = "login" /\ ok /\ job = "install"        -> "show443"
      [] c = "login" /\ ok /\ job = "uninstall"      -> "showDNS"
      [] c \in {"show443", "port443", "save443"}     -> FreePort(c, ok, says)
      [] OTHER                                       -> DNSUpstream(c, ok, says)

(* What is printed then.  "skipped" stands for freePort443 finding nothing *)
(* to free.                                                                *)
Report(c, ok, says) ==
    CASE c = "show443" /\ ok /\ "443" \notin says -> {"skipped"}
      [] c = "save443" /\ ok                      -> {"freed"}
      [] c = "showDNS" /\ After(c, ok, says) = "close" ->
             IF job = "install" THEN {"present"} ELSE {"uninstalled"}
      [] c = "saveDNS" ->
             IF job = "install" THEN {"configured"} ELSE {"uninstalled"}
      [] OTHER -> {}

-----------------------------------------------------------------------------
(* cmd and waitForPrompt. *)

(* The present command comes back, with b gathered. *)
ComesBack(ok, b) ==
    LET says == UNION {b[i].says : i \in DOMAIN b} IN
    /\ wait' = "idle"
    /\ buf' = b
    /\ came' = IF ok THEN step ELSE "none"
    /\ step' = After(step, ok, says)
    /\ said' = said \cup Report(step, ok, says)
    /\ gaveUp' = (gaveUp \/ ~ok)
    /\ UNCHANGED <<job, ticks>>

(* newKeeneticCLI waits for a first prompt as cmd does for the others.     *)
Open ==
    /\ step = "none"
    /\ sessions < MaxSessions
    /\ sessions' = sessions + 1
    /\ job' \in Job
    /\ step' = "login" /\ wait' = "loop"
    /\ ticks' = 0 /\ buf' = <<>> /\ came' = "none"
    /\ orphans' = 0 /\ link' = TRUE /\ todo' = <<>>
    /\ out' \in Answers("login", {})
    /\ said' = {} /\ gaveUp' = FALSE
    /\ refused' = {} /\ lost' = FALSE /\ missed' = FALSE
    /\ UNCHANGED <<running, saved, broken>>

Send ==
    /\ wait = "idle"
    /\ step \in Command
    /\ link
    /\ todo' = Append(todo, step)
    /\ wait' = "loop" /\ ticks' = 0 /\ buf' = <<>> /\ came' = "none"
    /\ missed' = FALSE
    /\ UNCHANGED <<job, step, said, gaveUp, orphans, out, lost, running, saved,
                   refused, run>>

SendFails ==
    /\ wait = "idle"
    /\ step \in Command
    /\ ~link
    /\ ComesBack(FALSE, <<>>)
    /\ UNCHANGED <<pipe, router, run>>

(* Slip: one window more than the deadline allows. *)
ReadOnceMore ==
    /\ wait = "loop"
    /\ ticks <= Windows
    /\ wait' = "reading"
    /\ UNCHANGED <<job, step, ticks, buf, came, said, gaveUp, pipe, router, run>>

Read ==
    /\ wait = "loop"
    /\ ticks < Windows
    /\ wait' = "reading"
    /\ UNCHANGED <<job, step, ticks, buf, came, said, gaveUp, pipe, router, run>>

(* Slip: the loop goes round again. *)
DeadlineIgnored ==
    /\ wait = "loop"
    /\ ticks >= Windows
    /\ UNCHANGED vars

DeadlinePasses ==
    /\ wait = "loop"
    /\ ticks >= Windows
    /\ ComesBack(FALSE, buf)
    /\ UNCHANGED <<pipe, router, run>>

(* Slip: any output is taken for a prompt. *)
AnyOutput(b) == b # <<>>

(* promptRE at the end of what has been gathered. *)
PromptMatches(b) == b # <<>> /\ Last(b).prompt

(* The read may have taken most of a window. *)
Gather ==
    /\ wait = "reading"
    /\ orphans = 0
    /\ out # <<>>
    /\ out' = Tail(out)
    /\ LET b == Append(buf, Head(out)) IN
       IF PromptMatches(b)
       THEN ComesBack(TRUE, b)
       ELSE /\ wait' = "loop" /\ buf' = b
            /\ ticks' \in {ticks, ticks + 1}
            /\ UNCHANGED <<job, step, came, said, gaveUp>>
    /\ UNCHANGED <<orphans, lost, missed, router, run>>

(* A piece that no command gets to see. *)
Lose == /\ out # <<>>
        /\ out' = Tail(out)
        /\ lost' = TRUE

(* A reader given up earlier is first in line. *)
Swallow ==
    /\ orphans > 0
    /\ orphans' = orphans - 1
    /\ Lose
    /\ missed' = (missed \/ (Head(out).of = step /\ Head(out).prompt))
    /\ UNCHANGED <<client, router, run>>

WindowPasses ==
    /\ wait' = "loop"
    /\ ticks' = ticks + 1
    /\ UNCHANGED <<job, step, buf, came, said, gaveUp>>

ReadTimesOut ==
    /\ wait = "reading"
    /\ WindowPasses
    /\ orphans' = orphans + 1
    /\ UNCHANGED <<out, lost, missed, router, run>>

(* Timer and data are both there, and select picks the timer. *)
TimerWins ==
    /\ wait = "reading"
    /\ orphans = 0
    /\ WindowPasses
    /\ Lose
    /\ UNCHANGED <<orphans, missed, router, run>>

EndOfFile ==
    /\ wait = "reading"
    /\ ~link
    /\ ComesBack(FALSE, buf)
    /\ UNCHANGED <<pipe, router, run>>

-----------------------------------------------------------------------------
(* The end of a session. *)

Gone == /\ link' = FALSE /\ todo' = <<>> /\ out' = <<>> /\ orphans' = 0
        /\ UNCHANGED <<running, saved, refused, lost, missed>>

Ends == /\ Gone
        /\ step' = "none" /\ wait' = "idle"
        /\ ticks' = 0 /\ buf' = <<>> /\ came' = "none"
        /\ UNCHANGED <<job, said, gaveUp, sessions>>

(* The connection breaks. *)
Cut ==
    /\ link
    /\ Gone
    /\ broken' = TRUE
    /\ UNCHANGED <<client, sessions>>

(* What the router has not carried out by now it never will. *)
Close ==
    /\ step = "close"
    /\ Ends
    /\ broken' = (broken \/ gaveUp \/ "saveDNS" \in refused)

(* fail in another step of the installation, or the user interrupts it.    *)
Exits ==
    /\ step \notin {"none", "close"}
    /\ Ends
    /\ broken' = TRUE

ClientStep == \/ Send \/ SendFails
              \/ Read \/ Gather \/ ReadTimesOut \/ TimerWins \/ EndOfFile
              \/ DeadlinePasses
              \/ Close

Next == \/ Open
        \/ ClientStep
        \/ Swallow
        \/ RouterWorks
        \/ Cut
        \/ Exits

Spec == Init /\ [][Next]_vars

(* The installer's own steps and its timers; the router owes nothing.      *)
FairSpec == Spec /\ WF_vars(ClientStep)
=============================================================================
