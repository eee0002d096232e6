--------------------------- MODULE InstallerProofs ---------------------------
(***************************************************************************)
(* What the installer promises, for every set of releases, any number of   *)
(* runs and any number of events around them.                              *)
(***************************************************************************)
EXTENDS InstallerProps, SequenceTheorems, TLAPS

-----------------------------------------------------------------------------
(* Courses. *)

Courses == Seq(Router) \ {<<>>}

(* Every state of a course is one of its states. *)
LEMMA CourseStates ==
    ASSUME NEW course \in Courses
    PROVE  /\ Last(course) \in Range(course)
           /\ Last(course) \in Router
           /\ Range(course) \subseteq Router
<1>1. /\ DOMAIN course = 1..Len(course) /\ Len(course) \in Nat
      /\ Len(course) # 0 /\ \A i \in 1..Len(course) : course[i] \in Router
  BY EmptySeq, LenProperties DEF Courses
<1>. QED BY <1>1 DEF Last, Range

(* A course after a course: its end is the second's, its states are those  *)
(* of both.                                                                *)
LEMMA CoursesJoined ==
    ASSUME NEW a \in Courses, NEW b \in Courses
    PROVE  /\ a \o b \in Courses
           /\ Last(a \o b) = Last(b)
           /\ Range(a \o b) = Range(a) \cup Range(b)
<1>. DEFINE c == a \o b
<1>1. /\ a \in Seq(Router) /\ b \in Seq(Router) /\ Len(a) \in Nat /\ Len(b) \in Nat
      /\ Len(a) > 0 /\ Len(b) > 0
  BY EmptySeq, LenProperties DEF Courses
<1>2. /\ c \in Seq(Router) /\ Len(c) = Len(a) + Len(b)
      /\ \A i \in 1..Len(c) : c[i] = IF i <= Len(a) THEN a[i] ELSE b[i - Len(a)]
  BY <1>1, ConcatProperties
<1>. HIDE DEF c
<1>3. DOMAIN a = 1..Len(a) /\ DOMAIN b = 1..Len(b) /\ DOMAIN c = 1..Len(c)
  BY <1>1, <1>2, LenProperties
<1>4. c \in Courses
  BY <1>1, <1>2, EmptySeq DEF Courses
<1>5. Last(c) = Last(b)
  BY <1>1, <1>2 DEF Last
<1>6. \A x \in Range(c) : x \in Range(a) \cup Range(b)
  <2>. SUFFICES ASSUME NEW i \in 1..Len(c) PROVE c[i] \in Range(a) \cup Range(b)
    BY <1>3 DEF Range
  <2>1. CASE i <= Len(a)
    BY <1>1, <1>2, <1>3, <2>1 DEF Range
  <2>2. CASE ~(i <= Len(a))
    <3>1. i - Len(a) \in 1..Len(b)
      BY <1>1, <1>2, <2>2
    <3>. QED BY <1>2, <1>3, <2>2, <3>1 DEF Range
  <2>. QED BY <2>1, <2>2
<1>7. \A x \in Range(a) : x \in Range(c)
  <2>. SUFFICES ASSUME NEW i \in 1..Len(a) PROVE a[i] \in Range(c)
    BY <1>3 DEF Range
  <2>1. i \in 1..Len(c) /\ c[i] = a[i]
    BY <1>1, <1>2
  <2>. QED BY <1>3, <2>1 DEF Range
<1>8. \A x \in Range(b) : x \in Range(c)
  <2>. SUFFICES ASSUME NEW i \in 1..Len(b) PROVE b[i] \in Range(c)
    BY <1>3 DEF Range
  <2>1. i + Len(a) \in 1..Len(c) /\ ~(i + Len(a) <= Len(a)) /\ (i + Len(a)) - Len(a) = i
    BY <1>1, <1>2
  <2>2. c[i + Len(a)] = b[i]
    BY <1>2, <2>1
  <2>. QED BY <1>3, <2>1, <2>2 DEF Range
<1>. QED BY <1>4, <1>5, <1>6, <1>7, <1>8 DEF c

(* Courses of one, two, three and five states. *)
LEMMA CourseOf1 ==
    ASSUME NEW a \in Router
    PROVE  <<a>> \in Courses /\ Last(<<a>>) = a /\ Range(<<a>>) = {a}
BY DEF Courses, Last, Range

(* The same of two, three and five. *)
LEMMA CourseOf2 ==
    ASSUME NEW a \in Router, NEW b \in Router
    PROVE  <<a, b>> \in Courses /\ Last(<<a, b>>) = b /\ Range(<<a, b>>) = {a, b}
BY DEF Courses, Last, Range

(* Three courses. *)
LEMMA CourseOf3 ==
    ASSUME NEW a \in Router, NEW b \in Router, NEW c \in Router
    PROVE  /\ <<a, b, c>> \in Courses /\ Last(<<a, b, c>>) = c
           /\ Range(<<a, b, c>>) = {a, b, c}
BY DEF Courses, Last, Range

(* Five courses. *)
LEMMA CourseOf5 ==
    ASSUME NEW a \in Router, NEW b \in Router, NEW c \in Router, NEW d \in Router,
           NEW e \in Router
    PROVE  /\ <<a, b, c, d, e>> \in Courses /\ Last(<<a, b, c, d, e>>) = e
           /\ Range(<<a, b, c, d, e>>) = {a, b, c, d, e}
BY DEF Courses, Last, Range

-----------------------------------------------------------------------------
(* The scripts. *)

(* Everything but the daemon and its pid file. *)
SameFiles(x, r) ==
    /\ x.diskSet = r.diskSet /\ x.diskSaved = r.diskSaved
    /\ x.tarball = r.tarball /\ x.entware = r.entware
    /\ x.xkeen = r.xkeen /\ x.xray = r.xray /\ x.find = r.find
    /\ x.accounts = r.accounts /\ x.geoip = r.geoip /\ x.geosite = r.geosite
    /\ x.yonderd = r.yonderd /\ x.S99yonder = r.S99yonder
    /\ x.exec = r.exec /\ x.staging = r.staging /\ x.rules = r.rules

Loose(r) == r.daemon # "none" /\ r.pidfile # "daemon"

NoneIsNoRelease == "none" \notin Releases /\ "part" \notin Releases

(* The words for an absent and for a half file are no releases. *)
LEMMA ReleaseNames == NoneIsNoRelease
BY InstallerAssumption DEF NoneIsNoRelease

(* Setting the pid file changes nothing else. *)
LEMMA PidfileSet ==
    ASSUME NEW r \in Router, NEW p \in PidFile
    PROVE  LET x == [r EXCEPT !.pidfile = p]
           IN  /\ x \in Router /\ SameFiles(x, r) /\ x.pidfile = p
               /\ x.daemon = r.daemon /\ x.held = r.held
<1>1. [r EXCEPT !.pidfile = p] \in Router
  BY DEF Router
<1>2. SameFiles([r EXCEPT !.pidfile = p], r)
  BY DEF Router, SameFiles
<1>3. /\ [r EXCEPT !.pidfile = p].pidfile = p
      /\ [r EXCEPT !.pidfile = p].daemon = r.daemon
      /\ [r EXCEPT !.pidfile = p].held = r.held
  BY DEF Router
<1>. QED BY <1>1, <1>2, <1>3

(* A stop, at any point of it. *)
LEMMA StopCourse ==
    ASSUME NEW r \in Router
    PROVE  /\ Stop(r) \in Courses /\ r \in Range(Stop(r))
           /\ \A x \in Range(Stop(r)) :
                 /\ SameFiles(x, r)
                 /\ x.pidfile = "foreign" => r.pidfile = "foreign"
                 /\ Loose(x) => Loose(r)
                 /\ x.daemon # "none" => x.daemon = r.daemon /\ x.held = r.held
                 /\ x.daemon = "none" /\ x.held => r.daemon = "none" /\ r.held
           /\ Last(Stop(r)).pidfile = "none"
           /\ Last(Stop(r)).daemon = IF r.pidfile = "daemon" THEN "none" ELSE r.daemon
<1>. DEFINE k == CASE r.pidfile = "daemon"  -> Ended(r)
                   [] r.pidfile = "foreign" -> [r EXCEPT !.pidfile = "dead"]
                   [] OTHER                 -> r
            e == [k EXCEPT !.pidfile = "none"]
<1>1. /\ k \in Router /\ SameFiles(k, r)
      /\ k.pidfile # "foreign"
      /\ k.pidfile # "daemon"
      /\ k.daemon = IF r.pidfile = "daemon" THEN "none" ELSE r.daemon
      /\ k.held = IF r.pidfile = "daemon" THEN FALSE ELSE r.held
  <2>1. CASE r.pidfile = "daemon"
    <3>1. Ended(r) \in Router
      BY DEF Ended, Router, PidFile
    <3>2. SameFiles(Ended(r), r)
      BY DEF Ended, Router, SameFiles
    <3>3. /\ Ended(r).pidfile = "dead" /\ Ended(r).daemon = "none"
          /\ Ended(r).held = FALSE
      BY DEF Ended, Router
    <3>. QED BY <2>1, <3>1, <3>2, <3>3
  <2>2. CASE r.pidfile = "foreign"
    <3>1. k = [r EXCEPT !.pidfile = "dead"]
      BY <2>2
    <3>. DEFINE d == [r EXCEPT !.pidfile = "dead"]
    <3>2. d \in Router /\ SameFiles(d, r) /\ d.pidfile = "dead"
          /\ d.daemon = r.daemon /\ d.held = r.held
      BY PidfileSet DEF PidFile
    <3>3. k = d
      BY <3>1
    <3>. HIDE DEF k, d
    <3>. QED BY <2>2, <3>2, <3>3
  <2>3. CASE r.pidfile # "daemon" /\ r.pidfile # "foreign"
    <3>1. k = r
      BY <2>3
    <3>. QED BY <2>3, <3>1 DEF Router, SameFiles, PidFile
  <2>. QED BY <2>1, <2>2, <2>3
<1>. HIDE DEF k
<1>2. /\ e \in Router /\ SameFiles(e, r) /\ e.pidfile = "none"
      /\ e.daemon = k.daemon /\ e.held = k.held
  <2>1. /\ e \in Router /\ SameFiles(e, k) /\ e.pidfile = "none"
        /\ e.daemon = k.daemon /\ e.held = k.held
    BY <1>1, PidfileSet DEF PidFile
  <2>. QED BY <1>1, <2>1 DEF SameFiles
<1>3. Stop(r) = <<r, k, e>>
  BY DEF Stop, k
<1>. HIDE DEF e
<1>4. /\ Stop(r) \in Courses /\ Last(Stop(r)) = e /\ Range(Stop(r)) = {r, k, e}
  BY <1>1, <1>2, <1>3, CourseOf3
<1>5. \A x \in {r, k, e} : x.daemon = "none" /\ x.held => r.daemon = "none" /\ r.held
  BY <1>1, <1>2
<1>6. \A x \in {r, k, e} :
         /\ SameFiles(x, r)
         /\ x.pidfile = "foreign" => r.pidfile = "foreign"
         /\ Loose(x) => Loose(r)
         /\ x.daemon # "none" => x.daemon = r.daemon /\ x.held = r.held
  BY <1>1, <1>2 DEF SameFiles, Loose
<1>. QED BY <1>1, <1>2, <1>4, <1>5, <1>6

(* A start, at any point of it. *)
LEMMA StartCourse ==
    ASSUME NEW r \in Router
    PROVE  /\ Start(r) \in Courses /\ r \in Range(Start(r))
           /\ \A x \in Range(Start(r)) :
                 /\ SameFiles(x, r)
                 /\ x.pidfile = "foreign" => r.pidfile = "foreign"
                 /\ Loose(x) => \/ Loose(r)
                                \/ /\ x # Last(Start(r)) /\ x # r
                                   /\ r.daemon = "none"
                 /\ x.daemon # "none" => \/ x.daemon = r.daemon
                                         \/ x.daemon = r.yonderd
                 /\ x.daemon = "none" => x.held = r.held /\ r.daemon = "none"
           /\ /\ ~IsRunning(r) /\ Runnable(r, "yonderd") /\ r.daemon = "none"
              => /\ Last(Start(r)).daemon = r.yonderd
                 /\ Last(Start(r)).pidfile = "daemon"
<1>1. CASE IsRunning(r)
  <2>1. Start(r) = <<r>>
    BY <1>1 DEF Start
  <2>2. Start(r) \in Courses /\ Last(Start(r)) = r /\ Range(Start(r)) = {r}
    BY <2>1, CourseOf1
  <2>. QED BY <1>1, <2>2 DEF SameFiles
<1>2. CASE ~IsRunning(r) /\ Runnable(r, "yonderd") /\ r.daemon = "none"
  <2>. DEFINE u == [r EXCEPT !.daemon = r.yonderd, !.held = TRUE]
              v == [u EXCEPT !.pidfile = "daemon"]
  <2>1. r.yonderd \in Releases /\ r.yonderd # "none"
    BY <1>2, ReleaseNames DEF Runnable, NoneIsNoRelease
  <2>2. /\ u \in Router /\ SameFiles(u, r) /\ u.pidfile = r.pidfile
        /\ u.daemon = r.yonderd /\ u # r
    <3>1. u \in Router
      BY <2>1 DEF Router
    <3>2. SameFiles(u, r) /\ u.pidfile = r.pidfile /\ u.daemon = r.yonderd
      BY DEF Router, SameFiles
    <3>. QED BY <1>2, <2>1, <3>1, <3>2
  <2>3. v \in Router /\ SameFiles(v, r) /\ v.pidfile = "daemon" /\ v.daemon = r.yonderd
    <3>1. /\ v \in Router /\ SameFiles(v, u) /\ v.pidfile = "daemon"
          /\ v.daemon = u.daemon
      BY <2>2, PidfileSet DEF PidFile
    <3>. QED BY <2>2, <3>1 DEF SameFiles
  <2>4. Start(r) = <<r, u, v>>
    BY <1>2 DEF Start, Spawned
  <2>5. u # v
    <3>1. r.pidfile # "daemon"
      BY <1>2 DEF IsRunning
    <3>. QED BY <2>2, <2>3, <3>1
  <2>. HIDE DEF u, v
  <2>6. Start(r) \in Courses /\ Last(Start(r)) = v /\ Range(Start(r)) = {r, u, v}
    BY <2>2, <2>3, <2>4, CourseOf3
  <2>. QED BY <1>2, <2>1, <2>2, <2>3, <2>5, <2>6 DEF SameFiles, Loose
<1>3. CASE ~IsRunning(r) /\ ~(Runnable(r, "yonderd") /\ r.daemon = "none")
  <2>. DEFINE d == [r EXCEPT !.pidfile = "dead"]
  <2>1. /\ d \in Router /\ SameFiles(d, r) /\ d.pidfile = "dead"
        /\ d.daemon = r.daemon /\ d.held = r.held
    BY PidfileSet DEF PidFile
  <2>2. Start(r) = <<r, d>>
    BY <1>3 DEF Start, Spawned
  <2>3. r.pidfile # "daemon"
    BY <1>3 DEF IsRunning
  <2>. HIDE DEF d
  <2>4. Start(r) \in Courses /\ Last(Start(r)) = d /\ Range(Start(r)) = {r, d}
    BY <2>1, <2>2, CourseOf2
  <2>. QED BY <1>3, <2>1, <2>3, <2>4 DEF SameFiles, Loose
<1>. QED BY <1>1, <1>2, <1>3

Verbs == {"start", "stop", "restart"}

(* What a script may leave, whole or cut short. *)
LEMMA ScriptCourse ==
    ASSUME NEW r \in Router, NEW verb \in Verbs
    PROVE  /\ Script(verb, r) \in Courses /\ r \in Range(Script(verb, r))
           /\ \A x \in Range(Script(verb, r)) :
                 /\ SameFiles(x, r)
                 /\ x.pidfile = "foreign" => r.pidfile = "foreign"
                 /\ Loose(x) => \/ Loose(r)
                                \/ /\ verb # "stop" /\ x # r
                                   /\ x # Last(Script(verb, r))
                 /\ x.daemon # "none" => \/ x.daemon = r.daemon
                                         \/ x.daemon = r.yonderd
                 /\ verb = "stop" /\ x.daemon # "none" => x.daemon = r.daemon
                 /\ x.daemon = "none" /\ x.held => r.daemon = "none" /\ r.held
<1>1. CASE ~Runnable(r, "S99yonder")
  <2>1. Script(verb, r) = <<r>>
    BY <1>1 DEF Script
  <2>. QED BY <2>1, CourseOf1 DEF SameFiles
<1>2. CASE Runnable(r, "S99yonder") /\ verb = "stop"
  <2>1. Script(verb, r) = Stop(r)
    BY <1>2 DEF Script
  <2>. QED BY <1>2, <2>1, StopCourse
<1>3. CASE Runnable(r, "S99yonder") /\ verb = "start"
  <2>1. Script(verb, r) = Start(r)
    BY <1>3 DEF Script
  <2>. QED BY <1>3, <2>1, StartCourse
<1>4. CASE Runnable(r, "S99yonder") /\ verb = "restart"
  <2>. DEFINE m == Last(Stop(r))
  <2>1. Script(verb, r) = Stop(r) \o Start(m)
    BY <1>4 DEF Script
  <2>2. m \in Router /\ m \in Range(Stop(r))
    BY StopCourse, CourseStates
  <2>3. SameFiles(m, r) /\ m.pidfile = "none" /\ (Loose(m) => Loose(r))
        /\ (m.daemon # "none" => m.daemon = r.daemon)
        /\ (m.daemon = "none" /\ m.held => r.daemon = "none" /\ r.held)
    BY <2>2, StopCourse
  <2>. HIDE DEF m
  <2>4. Stop(r) \in Courses /\ Start(m) \in Courses
    BY <2>2, StopCourse, StartCourse
  <2>5. /\ Script(verb, r) \in Courses
        /\ Range(Script(verb, r)) = Range(Stop(r)) \cup Range(Start(m))
        /\ Last(Script(verb, r)) = Last(Start(m))
    BY <2>1, <2>4, CoursesJoined
  <2>6. ASSUME NEW x \in Range(Start(m))
        PROVE  /\ SameFiles(x, r)
               /\ x.pidfile = "foreign" => r.pidfile = "foreign"
               /\ Loose(x) => \/ Loose(r)
                              \/ x # r /\ x # Last(Script(verb, r))
               /\ x.daemon # "none" => x.daemon = r.daemon \/ x.daemon = r.yonderd
               /\ x.daemon = "none" /\ x.held => r.daemon = "none" /\ r.held
    <3>1. /\ SameFiles(x, m)
          /\ x.pidfile = "foreign" => m.pidfile = "foreign"
          /\ Loose(x) => \/ Loose(m)
                         \/ x # Last(Start(m)) /\ x # m /\ m.daemon = "none"
          /\ x.daemon # "none" => x.daemon = m.daemon \/ x.daemon = m.yonderd
          /\ x.daemon = "none" => x.held = m.held /\ m.daemon = "none"
      BY <2>2, StartCourse
    <3>2. SameFiles(x, r)
      BY <2>3, <3>1 DEF SameFiles
    <3>3. Loose(x) => Loose(r) \/ (x # r /\ x # Last(Script(verb, r)))
      BY <2>3, <2>5, <3>1 DEF Loose
    <3>. QED BY <2>3, <3>1, <3>2, <3>3 DEF SameFiles
  <2>. QED BY <1>4, <2>5, <2>6, StopCourse
<1>. QED BY <1>1, <1>2, <1>3, <1>4 DEF Verbs

(* What it does when nothing is amiss. *)
LEMMA ScriptWhole ==
    ASSUME NEW r \in Router, ~Loose(r)
    PROVE  /\ Last(Script("stop", r)).daemon # "none" => Orphan(r)
           /\ Runnable(r, "S99yonder") /\ Runnable(r, "yonderd") =>
                 /\ Last(Script("restart", r)).daemon = r.yonderd
                 /\ Last(Script("restart", r)).pidfile = "daemon"
<1>. DEFINE m == Last(Stop(r))
<1>1. m \in Router /\ SameFiles(m, r) /\ m.pidfile = "none" /\ m.daemon = "none"
  BY StopCourse, CourseStates DEF Loose
<1>2. Runnable(r, "S99yonder") => Script("stop", r) = Stop(r)
  BY DEF Script
<1>3. ~Runnable(r, "S99yonder") => Last(Script("stop", r)) = r
  BY CourseOf1 DEF Script
<1>4. ASSUME Runnable(r, "S99yonder"), Runnable(r, "yonderd")
      PROVE  /\ Last(Script("restart", r)).daemon = r.yonderd
             /\ Last(Script("restart", r)).pidfile = "daemon"
  <2>. HIDE DEF m
  <2>1. Script("restart", r) = Stop(r) \o Start(m)
    BY <1>4 DEF Script, m
  <2>4. Stop(r) \in Courses /\ Start(m) \in Courses
    BY <1>1, StopCourse, StartCourse
  <2>2. Last(Script("restart", r)) = Last(Start(m))
    BY <2>1, <2>4, CoursesJoined
  <2>3. ~IsRunning(m) /\ Runnable(m, "yonderd") /\ m.yonderd = r.yonderd
    BY <1>1, <1>4 DEF IsRunning, Runnable, SameFiles
  <2>. QED BY <1>1, <2>2, <2>3, StartCourse
<1>. QED BY <1>1, <1>2, <1>3, <1>4 DEF Orphan

(* What a restart of the router changes. *)
LEMMA BootDoes ==
    ASSUME NEW r \in Router
    PROVE  LET b == Boot(r) IN
           /\ b \in Router
           /\ b.diskSaved = r.diskSaved /\ b.entware = r.entware
           /\ b.xkeen = r.xkeen /\ b.xray = r.xray /\ b.find = r.find
           /\ b.accounts = r.accounts /\ b.geoip = r.geoip /\ b.geosite = r.geosite
           /\ b.yonderd = r.yonderd /\ b.S99yonder = r.S99yonder
           /\ b.exec = r.exec /\ b.staging = r.staging
           /\ r.tarball = "pending" /\ r.diskSaved => b.tarball = "unpacking"
           /\ b.pidfile # "foreign" /\ ~Loose(b)
           /\ b.held => b.daemon # "none"
<1>. DEFINE t == IF r.tarball = "pending" /\ r.diskSaved THEN "unpacking" ELSE r.tarball
            u == [r EXCEPT !.diskSet = r.diskSaved, !.daemon = "none",
                           !.held = FALSE, !.pidfile = "none", !.rules = 0,
                           !.tarball = t]
<1>1. u \in Router
  <2>1. /\ t \in Tarball /\ 0 \in 0..1 /\ "none" \in PidFile
        /\ r.diskSaved \in BOOLEAN /\ "none" \in Releases \cup {"none"}
        /\ FALSE \in BOOLEAN
    BY DEF Router, Tarball, PidFile
  <2>. HIDE DEF t
  <2>. DEFINE d == [r EXCEPT !.daemon = "none", !.held = FALSE]
              v == [d EXCEPT !.diskSet = r.diskSaved]
  <2>2. v \in Router
    <3>1. d \in Router
      BY <2>1 DEF Router
    <3>. HIDE DEF d
    <3>. QED BY <2>1, <3>1 DEF Router
  <2>3. u = [v EXCEPT !.pidfile = "none", !.rules = 0, !.tarball = t]
    BY DEF Router
  <2>. HIDE DEF u, v
  <2>4. [v EXCEPT !.pidfile = "none", !.rules = 0, !.tarball = t] \in Router
    BY <2>1, <2>2 DEF Router
  <2>. QED BY <2>3, <2>4
<1>2. /\ u.diskSaved = r.diskSaved /\ u.entware = r.entware
      /\ u.xkeen = r.xkeen /\ u.xray = r.xray /\ u.find = r.find
      /\ u.accounts = r.accounts /\ u.geoip = r.geoip /\ u.geosite = r.geosite
      /\ u.yonderd = r.yonderd /\ u.S99yonder = r.S99yonder
      /\ u.exec = r.exec /\ u.staging = r.staging /\ u.tarball = t
      /\ u.daemon = "none" /\ u.held = FALSE /\ u.pidfile = "none"
  BY DEF Router
<1>3. Boot(r) = IF u.entware THEN Last(Script("start", u)) ELSE u
  BY DEF Boot
<1>. HIDE DEF u
<1>. DEFINE b == Last(Script("start", u))
<1>4. b \in Router /\ b \in Range(Script("start", u))
  BY <1>1, ScriptCourse, CourseStates DEF Verbs
<1>5. /\ SameFiles(b, u) /\ (b.pidfile = "foreign" => u.pidfile = "foreign")
      /\ (Loose(b) => Loose(u))
      /\ (b.daemon = "none" /\ b.held => u.daemon = "none" /\ u.held)
  BY <1>1, <1>4, ScriptCourse DEF Verbs
<1>. HIDE DEF b
<1>6. CASE u.entware
  <2>1. Boot(r) = b
    BY <1>3, <1>6 DEF b
  <2>. QED BY <1>2, <1>4, <1>5, <2>1 DEF SameFiles, Loose
<1>7. CASE ~u.entware
  <2>1. Boot(r) = u
    BY <1>3, <1>7
  <2>. QED BY <1>1, <1>2, <2>1 DEF Loose
<1>. QED BY <1>6, <1>7

-----------------------------------------------------------------------------
(* What each command does. *)

(* The command of a step was carried out whole, or it failed somewhere on  *)
(* its course.                                                             *)
Did(step, whole, states, next, otherwise) ==
    /\ at = step
    /\ UNCHANGED <<runs, job, rel, link, trusted>>
    /\ whole \in Router /\ whole \in states /\ states \subseteq Router
    /\ \/ /\ link /\ router' = whole /\ trouble' = trouble
          /\ Goes(next)
       \/ /\ router' \in states /\ trouble' = TRUE
          /\ Goes(otherwise)

(* A checked command in terms of Did. *)
LEMMA MustDoes ==
    ASSUME NEW step, NEW course \in Courses, router \in Range(course), NEW next,
           Must(step, course, next)
    PROVE  Did(step, Last(course), Range(course), next, "failed")
BY CourseStates DEF Must, Succeeds, Fails, Did

(* An unchecked one. *)
LEMMA TryDoes ==
    ASSUME NEW step, NEW course \in Courses, router \in Range(course), NEW next,
           Try(step, course, next)
    PROVE  Did(step, Last(course), Range(course), next, next)
BY CourseStates DEF Try, Succeeds, Fails, Did

(* A test changes nothing; it may take half files for whole ones. *)
Tested(step, holds, files, yes, no) ==
    /\ at = step
    /\ UNCHANGED <<router, runs, job, rel, link>>
    /\ \/ /\ link /\ trouble' = trouble
          /\ holds
          /\ trusted' = trusted \cup {f \in files : router[f] = "part"}
          /\ Goes(yes)
       \/ /\ link /\ trouble' = trouble
          /\ ~holds
          /\ trusted' = trusted
          /\ Goes(no)
       \/ /\ trouble' = TRUE
          /\ trusted' = trusted
          /\ Goes(no)

(* A test. *)
LEMMA TestDoes ==
    ASSUME router \in Router, NEW step, NEW holds \in BOOLEAN, NEW files, NEW yes, NEW no,
           Test(step, holds, files, yes, no)
    PROVE  Tested(step, holds, files, yes, no)
<1>1. Last(<<router>>) = router /\ Range(<<router>>) = {router}
  BY CourseOf1
<1>. QED BY <1>1 DEF Test, Succeeds, Fails, Tested

-----------------------------------------------------------------------------
(* The states that commands lead to are states of a router. *)

(* All but one file. *)
LEMMA FilePut ==
    ASSUME router \in Router
    PROVE  /\ Put("xkeen", "none") \in Router /\ Put("xkeen", "whole") \in Router
           /\ Put("find", "whole") \in Router
           /\ \A c \in {"part", "whole"} :
                 /\ Put("accounts", c) \in Router
                 /\ Put("geoip", c) \in Router /\ Put("geosite", c) \in Router
           /\ \A c \in Releases \cup {"part", "none"} :
                 Put("yonderd", c) \in Router /\ Put("S99yonder", c) \in Router
<1>1. Put("xkeen", "none") \in Router /\ Put("xkeen", "whole") \in Router
  BY DEF Put, Router
<1>2. Put("find", "whole") \in Router
  BY DEF Put, Router
<1>3. ASSUME NEW c \in {"part", "whole"}
      PROVE  Put("accounts", c) \in Router
  BY DEF Put, Router
<1>4. ASSUME NEW c \in {"part", "whole"}
      PROVE  Put("geoip", c) \in Router
  BY DEF Put, Router
<1>5. ASSUME NEW c \in {"part", "whole"}
      PROVE  Put("geosite", c) \in Router
  BY DEF Put, Router
<1>6. ASSUME NEW c \in Releases \cup {"part", "none"}
      PROVE  Put("yonderd", c) \in Router
  BY DEF Put, Router
<1>7. ASSUME NEW c \in Releases \cup {"part", "none"}
      PROVE  Put("S99yonder", c) \in Router
  BY DEF Put, Router
<1>. QED BY <1>1, <1>2, <1>3, <1>4, <1>5, <1>6, <1>7

(* The xray binary on its own. *)
LEMMA XraySet ==
    ASSUME NEW r \in Router, NEW c \in {"part", "whole"}
    PROVE  [r EXCEPT !.xray = c] \in Router /\ [r EXCEPT !.xkeen = "whole"] \in Router
<1>1. [r EXCEPT !.xray = c] \in Router
  BY DEF Router
<1>2. [r EXCEPT !.xkeen = "whole"] \in Router
  BY DEF Router
<1>. QED BY <1>1, <1>2

(* What an upload writes besides the file. *)
LEMMA ExecAndStaging ==
    ASSUME NEW r \in Router, NEW f \in Ours, rel \in Releases
    PROVE  /\ Unstaged(r, f) \in Router
           /\ [r EXCEPT !.exec = @ \cup {f}] \in Router
           /\ Gone(r, f) \in Router
           /\ \A i \in 1..2 : router \in Router => Chunk(f, i) \in Router
<1>1. Unstaged(r, f) \in Router
  <2>1. [r.staging EXCEPT ![f] = <<>>] \in [Ours -> Seq(Releases \X (1..2))]
    BY DEF Router
  <2>. QED BY <2>1 DEF Router, Unstaged
<1>2. [r EXCEPT !.exec = @ \cup {f}] \in Router
  <2>1. r.exec \cup {f} \in SUBSET Ours
    BY DEF Router
  <2>. QED BY <2>1 DEF Router
<1>3. Gone(r, f) \in Router
  <2>1. r.exec \ {f} \in SUBSET Ours
    BY DEF Router
  <2>2. CASE f = "yonderd"
    BY <2>1, <2>2 DEF Router, Gone
  <2>3. CASE f = "S99yonder"
    BY <2>1, <2>3 DEF Router, Gone
  <2>. QED BY <2>2, <2>3 DEF Ours
<1>4. ASSUME NEW i \in 1..2, router \in Router PROVE Chunk(f, i) \in Router
  <2>. DEFINE new == IF i = 1 THEN <<Fragment(1)>>
                     ELSE Append(router.staging[f], Fragment(i))
  <2>1. Fragment(i) \in Releases \X (1..2) /\ Fragment(1) \in Releases \X (1..2)
    BY DEF Fragment
  <2>2. router.staging \in [Ours -> Seq(Releases \X (1..2))]
    BY <1>4 DEF Router
  <2>3. new \in Seq(Releases \X (1..2))
    <3>. DEFINE S == Releases \X (1..2)
    <3>1. <<Fragment(1)>> \in Seq(S)
      <4>. HIDE DEF S
      <4>. QED BY <2>1 DEF S
    <3>2. Append(router.staging[f], Fragment(i)) \in Seq(S)
      <4>1. router.staging[f] \in Seq(S) /\ Fragment(i) \in S
        BY <2>1, <2>2
      <4>. HIDE DEF S
      <4>. QED BY <4>1, AppendProperties
    <3>. QED BY <3>1, <3>2
  <2>. HIDE DEF new
  <2>4. [router.staging EXCEPT ![f] = new] \in [Ours -> Seq(Releases \X (1..2))]
    BY <2>2, <2>3
  <2>5. Chunk(f, i) = [router EXCEPT !.staging = [router.staging EXCEPT ![f] = new]]
    BY DEF Chunk, new
  <2>. QED BY <1>4, <2>4, <2>5 DEF Router
<1>. QED BY <1>1, <1>2, <1>3, <1>4

(* The opkg settings. *)
LEMMA SettingsPut ==
    ASSUME NEW r \in Router, NEW b \in BOOLEAN
    PROVE  /\ [r EXCEPT !.diskSet = b] \in Router
           /\ [r EXCEPT !.diskSaved = b] \in Router
           /\ [r EXCEPT !.diskSet = TRUE, !.tarball = "pending"] \in Router
           /\ [r EXCEPT !.tarball = "none", !.entware = TRUE] \in Router
           /\ [r EXCEPT !.held = b] \in Router
           /\ \A n \in 0..1 : [r EXCEPT !.rules = n] \in Router
<1>1. [r EXCEPT !.diskSet = b] \in Router /\ [r EXCEPT !.diskSaved = b] \in Router
  BY DEF Router
<1>2. [r EXCEPT !.diskSet = TRUE, !.tarball = "pending"] \in Router
  BY DEF Router, Tarball
<1>3. [r EXCEPT !.tarball = "none", !.entware = TRUE] \in Router
  BY DEF Router, Tarball
<1>4. [r EXCEPT !.held = b] \in Router
  BY DEF Router
<1>5. \A n \in 0..1 : [r EXCEPT !.rules = n] \in Router
  BY DEF Router
<1>. QED BY <1>1, <1>2, <1>3, <1>4, <1>5

-----------------------------------------------------------------------------
(* Action by action. *)

Field == {"diskSet", "diskSaved", "tarball", "entware", "xkeen", "xray", "find",
          "accounts", "geoip", "geosite", "yonderd", "S99yonder", "exec",
          "staging", "rules", "daemon", "held", "pidfile"}

(* State x of the router differs from the present one in these fields only. *)
Only(x, fields) == \A f \in Field : f \notin fields => x[f] = router[f]

(* A field that is set is the only one that changes. *)
LEMMA OnlyPut ==
    ASSUME router \in Router, NEW g \in Field, NEW c
    PROVE  /\ Only(router, {g})
           /\ Only([router EXCEPT ![g] = c], {g})
           /\ [router EXCEPT ![g] = c][g] = c
BY DEF Only, Field, Router

(* A file that grows. *)
LEMMA GrowsCourse ==
    ASSUME router \in Router, NEW f \in {"accounts", "geoip", "geosite"}
    PROVE  /\ Grows(f) \in Courses /\ router \in Range(Grows(f))
           /\ Last(Grows(f))[f] = "whole"
           /\ \A x \in Range(Grows(f)) : Only(x, {f})
<1>1. Put(f, "part") \in Router /\ Put(f, "whole") \in Router
  BY FilePut
<1>2. Only(router, {f}) /\ Only(Put(f, "part"), {f}) /\ Only(Put(f, "whole"), {f})
      /\ Put(f, "whole")[f] = "whole"
  <2>1. f \in Field
    BY DEF Field
  <2>2. \A c : /\ Only(router, {f}) /\ Only([router EXCEPT ![f] = c], {f})
               /\ [router EXCEPT ![f] = c][f] = c
    BY <2>1, OnlyPut
  <2>. QED BY <2>2 DEF Put
<1>3. /\ Grows(f) \in Courses /\ Last(Grows(f)) = Put(f, "whole")
      /\ Range(Grows(f)) = {router, Put(f, "part"), Put(f, "whole")}
  BY <1>1, CourseOf3 DEF Grows
<1>. QED BY <1>2, <1>3

(* A command that does it or does not. *)
LEMMA SingleCourse ==
    ASSUME router \in Router, NEW g \in Field, NEW c,
           [router EXCEPT ![g] = c] \in Router
    PROVE  LET x == [router EXCEPT ![g] = c]
           IN  /\ <<router, x>> \in Courses
               /\ Last(<<router, x>>) = x /\ Range(<<router, x>>) = {router, x}
               /\ \A y \in {router, x} : Only(y, {g})
               /\ x[g] = c
<1>. DEFINE x == [router EXCEPT ![g] = c]
<1>1. Only(router, {g}) /\ Only(x, {g}) /\ x[g] = c
  BY OnlyPut
<1>2. x \in Router
  OBVIOUS
<1>. HIDE DEF x
<1>3. /\ <<router, x>> \in Courses
      /\ Last(<<router, x>>) = x /\ Range(<<router, x>>) = {router, x}
  BY <1>2, CourseOf2
<1>4. \A y \in {router, x} : Only(y, {g})
  BY <1>1
<1>. QED BY <1>1, <1>3, <1>4 DEF x

(* A command that only looks. *)
LEMMA StillCourse ==
    ASSUME router \in Router
    PROVE  /\ <<router>> \in Courses /\ router \in Range(<<router>>)
           /\ Last(<<router>>) = router /\ Range(<<router>>) = {router}
BY CourseOf1

DiskPending == [router EXCEPT !.diskSet = TRUE, !.tarball = "pending"]
DiskStates  == {router, [router EXCEPT !.diskSet = TRUE], DiskPending}

(* Setting the opkg disk. *)
LEMMA DiskDoes ==
    ASSUME TypeOK
    PROVE  /\ DiskCourse \in Courses /\ router \in Range(DiskCourse)
           /\ Last(DiskCourse) = DiskPending /\ Range(DiskCourse) = DiskStates
           /\ DiskPending.diskSet = TRUE /\ DiskPending.tarball = "pending"
           /\ \A x \in DiskStates : Only(x, {"diskSet", "tarball"})
<1>0. router \in Router
  BY DEF TypeOK
<1>1. [router EXCEPT !.diskSet = TRUE] \in Router /\ DiskPending \in Router
  BY <1>0, SettingsPut DEF DiskPending
<1>2. DiskPending.diskSet = TRUE /\ DiskPending.tarball = "pending"
  BY <1>0 DEF DiskPending, Router
<1>3. Only(router, {"diskSet", "tarball"})
  BY DEF Only
<1>4. Only([router EXCEPT !.diskSet = TRUE], {"diskSet", "tarball"})
  BY <1>0 DEF Only, Field, Router
<1>5. Only(DiskPending, {"diskSet", "tarball"})
  BY <1>0 DEF Only, Field, Router, DiskPending
<1>6. DiskCourse = <<router, [router EXCEPT !.diskSet = TRUE], DiskPending>>
  BY DEF DiskCourse, DiskPending
<1>7. /\ DiskCourse \in Courses /\ Last(DiskCourse) = DiskPending
      /\ Range(DiskCourse) = DiskStates
  BY <1>0, <1>1, <1>6, CourseOf3 DEF DiskStates
<1>. QED BY <1>2, <1>3, <1>4, <1>5, <1>7 DEF DiskStates

Unset == [router EXCEPT !.diskSet = FALSE]
Saved == [router EXCEPT !.diskSaved = router.diskSet]

(* The commands of the bootstrap. *)
LEMMA BootstrapDoes ==
    ASSUME TypeOK
    PROVE  /\ OpkgDisk \/ OpkgDiskAgain =>
                 \/ router.diskSet /\ OpkgDisk
                    /\ Did("disk", router, {router}, "undisk", "failed")
                 \/ \E step \in {"disk", "disk2"} :
                      ~router.diskSet /\ Did(step, DiskPending, DiskStates, "save", "failed")
                 \/ router.diskSet /\ Did("disk2", router, {router}, "save", "failed")
           /\ NoOpkgDisk => Did("undisk", Unset, {router, Unset}, "disk2", "failed")
           /\ SaveConfig => Did("save", Saved, {router, Saved}, "reboot", "failed")
<1>0. router \in Router /\ router.diskSet \in BOOLEAN
  BY DEF TypeOK, Router
<1>1. ASSUME OpkgDisk, router.diskSet
      PROVE  Did("disk", router, {router}, "undisk", "failed")
  <2>1. Must("disk", <<router>>, "undisk")
    BY <1>1 DEF OpkgDisk
  <2>. QED BY <1>0, <2>1, StillCourse, MustDoes
<1>2. ASSUME OpkgDisk, ~router.diskSet
      PROVE  Did("disk", DiskPending, DiskStates, "save", "failed")
  <2>1. Must("disk", DiskCourse, "save")
    BY <1>2 DEF OpkgDisk
  <2>. QED BY <2>1, DiskDoes, MustDoes
<1>3. ASSUME OpkgDiskAgain, router.diskSet
      PROVE  Did("disk2", router, {router}, "save", "failed")
  <2>1. Must("disk2", <<router>>, "save")
    BY <1>3 DEF OpkgDiskAgain
  <2>. QED BY <1>0, <2>1, StillCourse, MustDoes
<1>4. ASSUME OpkgDiskAgain, ~router.diskSet
      PROVE  Did("disk2", DiskPending, DiskStates, "save", "failed")
  <2>1. Must("disk2", DiskCourse, "save")
    BY <1>4 DEF OpkgDiskAgain
  <2>. QED BY <2>1, DiskDoes, MustDoes
<1>5. ASSUME NoOpkgDisk PROVE Did("undisk", Unset, {router, Unset}, "disk2", "failed")
  <2>1. Unset \in Router
    BY <1>0, SettingsPut DEF Unset
  <2>2. Must("undisk", <<router, Unset>>, "disk2")
    BY <1>5 DEF NoOpkgDisk, Unset
  <2>. QED BY <1>0, <2>1, <2>2, CourseOf2, MustDoes
<1>6. ASSUME SaveConfig PROVE Did("save", Saved, {router, Saved}, "reboot", "failed")
  <2>1. Saved \in Router
    BY <1>0, SettingsPut DEF Saved
  <2>2. Must("save", <<router, Saved>>, "reboot")
    BY <1>6 DEF SaveConfig, Saved
  <2>. QED BY <1>0, <2>1, <2>2, CourseOf2, MustDoes
<1>. QED BY <1>0, <1>1, <1>2, <1>3, <1>4, <1>5, <1>6

XKeenGone == [router EXCEPT !.xkeen = "none"]
XKeenOnly == {"xkeen", "xray"}

(* xkeen's installer: its two orders end in the same way. *)
LEMMA XKeenInstallerDoes ==
    ASSUME TypeOK, RunXKeenInstaller
    PROVE  \E whole, states :
              /\ Did("xkeen", whole, states, "verify", "verify")
              /\ whole.xkeen = "whole" /\ whole.xray = "whole"
              /\ \A x \in states : Only(x, XKeenOnly)
<1>. DEFINE xr(r) == <<[r EXCEPT !.xray = "part"], [r EXCEPT !.xray = "whole"]>>
            xk(r) == [r EXCEPT !.xkeen = "whole"]
            p == [router EXCEPT !.xray = "part"]
            w == [router EXCEPT !.xray = "whole"]
            k == xk(router)
            kp == [k EXCEPT !.xray = "part"]
            kw == [k EXCEPT !.xray = "whole"]
            wk == xk(w)
<1>0. router \in Router
  BY DEF TypeOK
<1>1. p \in Router /\ w \in Router /\ k \in Router
  BY <1>0, XraySet
<1>2. kp \in Router /\ kw \in Router /\ wk \in Router
  <2>. HIDE DEF w, k
  <2>1. \A r \in Router : /\ [r EXCEPT !.xray = "part"] \in Router
                          /\ [r EXCEPT !.xray = "whole"] \in Router
                          /\ [r EXCEPT !.xkeen = "whole"] \in Router
    BY XraySet
  <2>. QED BY <1>1, <2>1
<1>3. /\ Only(router, XKeenOnly) /\ Only(p, XKeenOnly) /\ Only(w, XKeenOnly)
      /\ Only(k, XKeenOnly)
  BY <1>0 DEF Only, Field, Router, XKeenOnly
<1>4. Only(kp, XKeenOnly) /\ Only(kw, XKeenOnly) /\ Only(wk, XKeenOnly)
  <2>1. k \in Router /\ w \in Router /\ Only(k, XKeenOnly) /\ Only(w, XKeenOnly)
    BY <1>1, <1>3
  <2>. HIDE DEF k, w
  <2>. QED BY <2>1 DEF Only, Field, Router, XKeenOnly
<1>5. kw.xkeen = "whole" /\ kw.xray = "whole" /\ wk.xkeen = "whole" /\ wk.xray = "whole"
  <2>1. k.xkeen = "whole" /\ w.xray = "whole"
    BY <1>0 DEF Router
  <2>2. k \in Router /\ w \in Router
    BY <1>1
  <2>. HIDE DEF k, w
  <2>. QED BY <2>1, <2>2 DEF Router
<1>6. CASE TryScript("xkeen", <<router, k>> \o xr(k), "verify")
  <2>1. xr(k) = <<kp, kw>>
    OBVIOUS
  <2>. HIDE DEF k, kp, kw, xr
  <2>2. /\ <<router, k>> \in Courses /\ Range(<<router, k>>) = {router, k}
        /\ <<kp, kw>> \in Courses /\ Range(<<kp, kw>>) = {kp, kw} /\ Last(<<kp, kw>>) = kw
    BY <1>0, <1>1, <1>2, CourseOf2
  <2>. DEFINE c == <<router, k>> \o <<kp, kw>>
  <2>3. c \in Courses /\ Last(c) = kw /\ Range(c) = {router, k} \cup {kp, kw}
    BY <2>2, CoursesJoined
  <2>4. Try("xkeen", c, "verify")
    BY <1>6, <2>1 DEF TryScript
  <2>. HIDE DEF c
  <2>5. Did("xkeen", Last(c), Range(c), "verify", "verify")
    BY <2>3, <2>4, TryDoes
  <2>6. \A x \in Range(c) : Only(x, XKeenOnly)
    BY <1>3, <1>4, <2>3
  <2>. QED BY <1>5, <2>3, <2>5, <2>6
<1>7. CASE TryScript("xkeen", Append(<<router>> \o xr(router), xk(Last(xr(router)))), "verify")
  <2>1. xr(router) = <<p, w>>
    OBVIOUS
  <2>2. Last(xr(router)) = w
    BY <1>1, <2>1, CourseOf2
  <2>3. xk(Last(xr(router))) = wk
    BY <2>2
  <2>. HIDE DEF p, w, wk, xr, xk
  <2>. DEFINE c == (<<router>> \o <<p, w>>) \o <<wk>>
  <2>4. /\ <<router>> \in Courses /\ Range(<<router>>) = {router}
        /\ <<p, w>> \in Courses /\ Range(<<p, w>>) = {p, w}
        /\ <<wk>> \in Courses /\ Range(<<wk>>) = {wk} /\ Last(<<wk>>) = wk
    BY <1>0, <1>1, <1>2, CourseOf1, CourseOf2
  <2>5. /\ <<router>> \o <<p, w>> \in Courses
        /\ Range(<<router>> \o <<p, w>>) = {router} \cup {p, w}
    BY <2>4, CoursesJoined
  <2>6. c \in Courses /\ Last(c) = wk /\ Range(c) = ({router} \cup {p, w}) \cup {wk}
    BY <2>4, <2>5, CoursesJoined
  <2>10. Append(<<router>> \o <<p, w>>, wk) = c
    BY <1>2, <2>5, AppendIsConcat DEF Courses
  <2>7. Try("xkeen", c, "verify")
    BY <1>7, <2>1, <2>3, <2>10 DEF TryScript
  <2>. HIDE DEF c
  <2>8. Did("xkeen", Last(c), Range(c), "verify", "verify")
    BY <2>6, <2>7, TryDoes
  <2>9. \A x \in Range(c) : Only(x, XKeenOnly)
    BY <1>3, <1>4, <2>6
  <2>. QED BY <1>5, <2>6, <2>8, <2>9
<1>8. \/ TryScript("xkeen", <<router, k>> \o xr(k), "verify")
      \/ TryScript("xkeen", Append(<<router>> \o xr(router), xk(Last(xr(router)))), "verify")
  BY DEF RunXKeenInstaller
<1>. QED BY <1>6, <1>7, <1>8

(* The commands that put what is not ours into place, and the tests before *)
(* them.                                                                   *)
LEMMA PackagesDo ==
    ASSUME TypeOK
    PROVE  /\ XKeenThere => Tested("xkeen?", xkeenFullyInstalled, {"xkeen", "xray"}, "find?", "cleanup")
           /\ Cleanup => /\ Did("cleanup", XKeenGone, {router, XKeenGone}, "curl", "curl")
                         /\ XKeenGone.xkeen = "none"
                         /\ Only(router, {"xkeen"}) /\ Only(XKeenGone, {"xkeen"})
           /\ InstallCurl => Did("curl", router, {router}, "xkeen", "failed")
           /\ VerifyXKeen => Tested("verify", xkeenFullyInstalled, {"xkeen", "xray"}, "find?", "failed")
           /\ FindThere => Tested("find?", router.find # "none", {"find"}, "accounts?", "find")
           /\ InstallFind =>
                 \E whole, states :
                    /\ Did("find", whole, states, "accounts?", "failed")
                    /\ whole.find = "whole" /\ \A x \in states : Only(x, {"find"})
           /\ AccountsThere =>
                 Tested("accounts?", router.accounts # "none", {"accounts"}, "geo?", "accounts")
           /\ SeedAccounts =>
                 \E whole, states :
                    /\ Did("accounts", whole, states, "geo?", "geo?")
                    /\ whole.accounts = "whole" /\ \A x \in states : Only(x, {"accounts"})
           /\ GeoThere => Tested("geo?", GeoDats, {"geoip", "geosite"}, "stop", "geoip")
           /\ FetchGeoIP =>
                 \E whole, states :
                    /\ Did("geoip", whole, states, "geosite", "failed")
                    /\ whole.geoip = "whole" /\ \A x \in states : Only(x, {"geoip"})
           /\ FetchGeoSite =>
                 \E whole, states :
                    /\ Did("geosite", whole, states, "stop", "failed")
                    /\ whole.geosite = "whole" /\ \A x \in states : Only(x, {"geosite"})
<1>0. router \in Router
  BY DEF TypeOK
<1>1. ASSUME XKeenThere
      PROVE  Tested("xkeen?", xkeenFullyInstalled, {"xkeen", "xray"}, "find?", "cleanup")
  BY <1>0, <1>1, TestDoes DEF XKeenThere, xkeenFullyInstalled
<1>2. ASSUME Cleanup
      PROVE  /\ Did("cleanup", XKeenGone, {router, XKeenGone}, "curl", "curl")
             /\ XKeenGone.xkeen = "none"
             /\ Only(router, {"xkeen"}) /\ Only(XKeenGone, {"xkeen"})
  <2>1. XKeenGone = Put("xkeen", "none")
    BY DEF XKeenGone, Put
  <2>2. XKeenGone \in Router /\ Try("cleanup", <<router, XKeenGone>>, "curl")
    BY <1>0, <1>2, <2>1, FilePut DEF Cleanup
  <2>3. Did("cleanup", XKeenGone, {router, XKeenGone}, "curl", "curl")
    BY <1>0, <2>2, CourseOf2, TryDoes
  <2>4. /\ Only(router, {"xkeen"}) /\ Only([router EXCEPT !["xkeen"] = "none"], {"xkeen"})
        /\ [router EXCEPT !["xkeen"] = "none"]["xkeen"] = "none"
    BY <1>0, OnlyPut DEF Field
  <2>5. XKeenGone = [router EXCEPT !["xkeen"] = "none"]
    BY DEF XKeenGone
  <2>. QED BY <2>3, <2>4, <2>5
<1>3. ASSUME InstallCurl PROVE Did("curl", router, {router}, "xkeen", "failed")
  BY <1>0, <1>3, StillCourse, MustDoes DEF InstallCurl
<1>4. ASSUME VerifyXKeen
      PROVE  Tested("verify", xkeenFullyInstalled, {"xkeen", "xray"}, "find?", "failed")
  BY <1>0, <1>4, TestDoes DEF VerifyXKeen, xkeenFullyInstalled
<1>5. ASSUME FindThere
      PROVE  Tested("find?", router.find # "none", {"find"}, "accounts?", "find")
  BY <1>0, <1>5, TestDoes DEF FindThere
<1>6. ASSUME InstallFind
      PROVE  \E whole, states :
                /\ Did("find", whole, states, "accounts?", "failed")
                /\ whole.find = "whole" /\ \A x \in states : Only(x, {"find"})
  <2>. DEFINE x == [router EXCEPT !["find"] = "whole"]
              c == <<router, x>>
  <2>1. x \in Router
    BY <1>0, FilePut DEF Put
  <2>2. /\ c \in Courses /\ Last(c) = x /\ Range(c) = {router, x}
        /\ \A y \in {router, x} : Only(y, {"find"})
        /\ x.find = "whole"
    BY <1>0, <2>1, SingleCourse DEF Field
  <2>3. Must("find", c, "accounts?")
    BY <1>6 DEF InstallFind, Put
  <2>. HIDE DEF c, x
  <2>4. Did("find", Last(c), Range(c), "accounts?", "failed")
    BY <2>2, <2>3, MustDoes
  <2>. QED BY <2>2, <2>4
<1>7. ASSUME AccountsThere
      PROVE  Tested("accounts?", router.accounts # "none", {"accounts"}, "geo?", "accounts")
  BY <1>0, <1>7, TestDoes DEF AccountsThere
<1>8. ASSUME SeedAccounts
      PROVE  \E whole, states :
                /\ Did("accounts", whole, states, "geo?", "geo?")
                /\ whole.accounts = "whole" /\ \A x \in states : Only(x, {"accounts"})
  <2>1. Did("accounts", Last(Grows("accounts")), Range(Grows("accounts")), "geo?", "geo?")
    BY <1>0, <1>8, GrowsCourse, TryDoes DEF SeedAccounts
  <2>. QED BY <1>0, <2>1, GrowsCourse
<1>9. ASSUME GeoThere PROVE Tested("geo?", GeoDats, {"geoip", "geosite"}, "stop", "geoip")
  BY <1>0, <1>9, TestDoes DEF GeoThere, GeoDats
<1>10. ASSUME FetchGeoIP
       PROVE  \E whole, states :
                /\ Did("geoip", whole, states, "geosite", "failed")
                /\ whole.geoip = "whole" /\ \A x \in states : Only(x, {"geoip"})
  <2>1. Did("geoip", Last(Grows("geoip")), Range(Grows("geoip")), "geosite", "failed")
    BY <1>0, <1>10, GrowsCourse, MustDoes DEF FetchGeoIP
  <2>. QED BY <1>0, <2>1, GrowsCourse
<1>11. ASSUME FetchGeoSite
       PROVE  \E whole, states :
                /\ Did("geosite", whole, states, "stop", "failed")
                /\ whole.geosite = "whole" /\ \A x \in states : Only(x, {"geosite"})
  <2>1. Did("geosite", Last(Grows("geosite")), Range(Grows("geosite")), "stop", "failed")
    BY <1>0, <1>11, GrowsCourse, MustDoes DEF FetchGeoSite
  <2>. QED BY <1>0, <2>1, GrowsCourse
<1>. QED BY <1>1, <1>2, <1>3, <1>4, <1>5, <1>6, <1>7, <1>8, <1>9, <1>10, <1>11

-----------------------------------------------------------------------------
(* What is ours: the uploads, the firewall, the scripts, the removal. *)

(* What comes out of the staging file is a release or a half file. *)
LEMMA DecodedIs ==
    ASSUME NEW f \in Ours, rel \in Releases
    PROVE  Decoded(f) \in Releases \cup {"part", "none"}
BY DEF Decoded

(* The last command of an upload. *)
LEMMA DecodeDoes ==
    ASSUME router \in Router, rel \in Releases, NEW f \in Ours
    PROVE  /\ DecodeCourse(f) \in Courses /\ router \in Range(DecodeCourse(f))
           /\ Last(DecodeCourse(f))[f] = Decoded(f)
           /\ f \in Last(DecodeCourse(f)).exec
           /\ \A x \in Range(DecodeCourse(f)) : /\ Only(x, {f, "staging", "exec"})
                                               /\ router.exec \subseteq x.exec
<1>. DEFINE a == Put(f, "part")
            b == Put(f, Decoded(f))
            c == Unstaged(b, f)
            d == [c EXCEPT !.exec = @ \cup {f}]
            F == {f, "staging", "exec"}
<1>1. a \in Router /\ b \in Router
  <2>1. "part" \in Releases \cup {"part", "none"}
    OBVIOUS
  <2>. QED BY <2>1, FilePut, DecodedIs DEF Ours
<1>2. /\ Only(a, F) /\ a.exec = router.exec
      /\ Only(b, F) /\ b.exec = router.exec /\ b[f] = Decoded(f)
  BY DEF Put, Only, Field, Router, Ours
<1>. HIDE DEF a, b
<1>3. c \in Router /\ Only(c, F) /\ c.exec = router.exec /\ c[f] = Decoded(f)
  <2>1. c \in Router
    BY <1>1, ExecAndStaging
  <2>2. \A g \in Field : g # "staging" => c[g] = b[g]
    BY <1>1 DEF Unstaged, Field, Router
  <2>3. f \in Field /\ f # "staging" /\ "exec" \in Field
    BY DEF Field, Ours
  <2>. QED BY <1>2, <2>1, <2>2, <2>3 DEF Only
<1>. HIDE DEF c
<1>4. d \in Router /\ Only(d, F) /\ d.exec = router.exec \cup {f} /\ d[f] = Decoded(f)
  <2>1. d \in Router
    BY <1>3, ExecAndStaging
  <2>2. /\ \A g \in Field : g # "exec" => d[g] = c[g]
        /\ d.exec = c.exec \cup {f}
    BY <1>3 DEF Field, Router
  <2>3. f \in Field /\ f # "exec"
    BY DEF Field, Ours
  <2>. QED BY <1>3, <2>1, <2>2, <2>3 DEF Only
<1>. HIDE DEF d
<1>5. Only(router, F)
  BY DEF Only
<1>6. DecodeCourse(f) = <<router, a, b, c, d>>
  BY DEF DecodeCourse, a, b, c, d
<1>7. /\ DecodeCourse(f) \in Courses /\ Last(DecodeCourse(f)) = d
      /\ Range(DecodeCourse(f)) = {router, a, b, c, d}
  BY <1>1, <1>3, <1>4, <1>6, CourseOf5
<1>. QED BY <1>2, <1>3, <1>4, <1>5, <1>7

(* An upload, command by command. *)
LEMMA UploadDoes ==
    ASSUME TypeOK, NEW f \in Ours, NEW steps, Upload(f, steps)
    PROVE  \/ \E whole, states :
                /\ Did(steps[1], whole, states, steps[2], "failed")
                /\ \A x \in states : Only(x, {"staging"})
           \/ \E whole, states :
                /\ Did(steps[2], whole, states, steps[3], "failed")
                /\ whole.staging[f] = <<Fragment(1)>>
                /\ \A x \in states : Only(x, {"staging"})
           \/ \E whole, states :
                /\ Did(steps[3], whole, states, steps[4], "failed")
                /\ whole.staging[f] = Append(router.staging[f], Fragment(2))
                /\ \A x \in states : Only(x, {"staging"})
           \/ \E whole, states :
                /\ Did(steps[4], whole, states, steps[5], "failed")
                /\ whole[f] = Decoded(f) /\ f \in whole.exec
                /\ \A x \in states : /\ Only(x, {f, "staging", "exec"})
                                     /\ router.exec \subseteq x.exec
<1>0. router \in Router /\ rel \in Releases /\ f \in DOMAIN router.staging
  BY DEF TypeOK, Router
<1>1. ASSUME NEW x \in Router, Only(x, {"staging"})
      PROVE  /\ <<router, x>> \in Courses /\ router \in Range(<<router, x>>)
             /\ Last(<<router, x>>) = x
             /\ \A y \in Range(<<router, x>>) : Only(y, {"staging"})
  <2>1. Range(<<router, x>>) = {router, x}
    BY <1>0, CourseOf2
  <2>. QED BY <1>0, <1>1, <2>1, CourseOf2 DEF Only
<1>2. /\ Unstaged(router, f) \in Router
      /\ Chunk(f, 1) \in Router /\ Chunk(f, 2) \in Router
  <2>1. 1 \in 1..2 /\ 2 \in 1..2
    OBVIOUS
  <2>. QED BY <1>0, <2>1, ExecAndStaging
<1>3. Only(Unstaged(router, f), {"staging"})
  BY <1>0 DEF Unstaged, Only, Field, Router
<1>4. Only(Chunk(f, 1), {"staging"}) /\ Only(Chunk(f, 2), {"staging"})
  BY <1>0 DEF Chunk, Only, Field, Router
<1>5. /\ Chunk(f, 1).staging[f] = <<Fragment(1)>>
      /\ Chunk(f, 2).staging[f] = Append(router.staging[f], Fragment(2))
  BY <1>0 DEF Chunk, Router
<1>6. CASE Must(steps[1], <<router, Unstaged(router, f)>>, steps[2])
  <2>. DEFINE c == <<router, Unstaged(router, f)>>
  <2>1. Did(steps[1], Last(c), Range(c), steps[2], "failed")
    BY <1>1, <1>2, <1>3, <1>6, MustDoes
  <2>2. \A x \in Range(c) : Only(x, {"staging"})
    BY <1>1, <1>2, <1>3
  <2>. QED BY <2>1, <2>2
<1>7. CASE Must(steps[2], <<router, Chunk(f, 1)>>, steps[3])
  <2>. DEFINE c == <<router, Chunk(f, 1)>>
  <2>1. Did(steps[2], Last(c), Range(c), steps[3], "failed")
    BY <1>1, <1>2, <1>4, <1>7, MustDoes
  <2>2. Last(c) = Chunk(f, 1) /\ \A x \in Range(c) : Only(x, {"staging"})
    BY <1>1, <1>2, <1>4
  <2>. QED BY <1>5, <2>1, <2>2
<1>8. CASE Must(steps[3], <<router, Chunk(f, 2)>>, steps[4])
  <2>. DEFINE c == <<router, Chunk(f, 2)>>
  <2>1. Did(steps[3], Last(c), Range(c), steps[4], "failed")
    BY <1>1, <1>2, <1>4, <1>8, MustDoes
  <2>2. Last(c) = Chunk(f, 2) /\ \A x \in Range(c) : Only(x, {"staging"})
    BY <1>1, <1>2, <1>4
  <2>. QED BY <1>5, <2>1, <2>2
<1>9. CASE Must(steps[4], DecodeCourse(f), steps[5])
  <2>1. Did(steps[4], Last(DecodeCourse(f)), Range(DecodeCourse(f)), steps[5], "failed")
    BY <1>0, <1>9, DecodeDoes, MustDoes
  <2>. QED BY <1>0, <2>1, DecodeDoes
<1>. QED BY <1>6, <1>7, <1>8, <1>9 DEF Upload

(* Deletes a rule of ours, if there is one, and inserts one. *)
LEMMA FirewallDoes ==
    ASSUME TypeOK, OpenFirewallPort
    PROVE  \E whole, states :
              /\ Did("firewall", whole, states, "restart", "restart")
              /\ whole.rules = 1 /\ \A x \in states : Only(x, {"rules"})
<1>0. router \in Router /\ router.rules \in 0..1
  BY DEF TypeOK, Router
<1>. DEFINE a == [router EXCEPT !.rules = 0]
            b == [router EXCEPT !.rules = 1]
            n == IF router.rules > 0 THEN router.rules - 1 ELSE 0
<1>1. n = 0
  BY <1>0
<1>2. FirewallCourse = <<router, a, b>>
  <2>1. [router EXCEPT !.rules = n] = a
    BY <1>1
  <2>2. a.rules = 0 /\ a.rules + 1 = 1
    BY <1>0 DEF Router
  <2>3. [a EXCEPT !.rules = 1] = b
    BY <1>0 DEF Router
  <2>4. [a EXCEPT !.rules = @ + 1] = b
    BY <2>2, <2>3
  <2>. QED BY <2>1, <2>4 DEF FirewallCourse
<1>3. a \in Router /\ b \in Router
  <2>1. 0 \in 0..1 /\ 1 \in 0..1
    OBVIOUS
  <2>. QED BY <1>0, <2>1, SettingsPut
<1>4. /\ Only(router, {"rules"}) /\ Only(a, {"rules"}) /\ Only(b, {"rules"})
      /\ b.rules = 1
  BY <1>0 DEF Only, Field, Router
<1>. HIDE DEF a, b, n
<1>5. /\ FirewallCourse \in Courses /\ Last(FirewallCourse) = b
      /\ Range(FirewallCourse) = {router, a, b}
  BY <1>0, <1>2, <1>3, CourseOf3
<1>6. Did("firewall", b, {router, a, b}, "restart", "restart")
  BY <1>5, TryDoes DEF OpenFirewallPort
<1>. QED BY <1>4, <1>6

(* The removal. *)
LEMMA RemovalDoes ==
    ASSUME TypeOK
    PROVE  /\ RemoveInitScript => \E whole, states :
                 /\ Did("rmInit", whole, states, "rmApp", "rmApp")
                 /\ whole.S99yonder = "none"
                 /\ \A x \in states : Only(x, {"S99yonder", "exec"})
           /\ RemoveApp => \E whole, states :
                 /\ Did("rmApp", whole, states, "closePort", "closePort")
                 /\ whole.yonderd = "none" /\ whole.staging["yonderd"] = <<>>
                 /\ \A x \in states : /\ Only(x, {"yonderd", "exec", "staging", "held"})
                                      /\ x.held => router.held
           /\ CloseFirewallPort => \E whole, states :
                 /\ Did("closePort", whole, states, "uninstalled", "uninstalled")
                 /\ whole.rules = 0 /\ \A x \in states : Only(x, {"rules"})
<1>0. router \in Router /\ rel \in Releases
  BY DEF TypeOK
<1>1. ASSUME RemoveInitScript
      PROVE  \E whole, states :
                 /\ Did("rmInit", whole, states, "rmApp", "rmApp")
                 /\ whole.S99yonder = "none"
                 /\ \A x \in states : Only(x, {"S99yonder", "exec"})
  <2>. DEFINE x == Gone(router, "S99yonder")
  <2>1. x \in Router
    BY <1>0, ExecAndStaging DEF Ours
  <2>2. Only(x, {"S99yonder", "exec"}) /\ x.S99yonder = "none"
    BY <1>0 DEF Gone, Only, Field, Router
  <2>3. Try("rmInit", <<router, x>>, "rmApp")
    BY <1>1 DEF RemoveInitScript
  <2>. HIDE DEF x
  <2>4. Did("rmInit", x, {router, x}, "rmApp", "rmApp")
    BY <1>0, <2>1, <2>3, CourseOf2, TryDoes
  <2>. QED BY <2>2, <2>4 DEF Only
<1>2. ASSUME RemoveApp
      PROVE  \E whole, states :
                 /\ Did("rmApp", whole, states, "closePort", "closePort")
                 /\ whole.yonderd = "none" /\ whole.staging["yonderd"] = <<>>
                 /\ \A x \in states : /\ Only(x, {"yonderd", "exec", "staging", "held"})
                                      /\ x.held => router.held
  <2>. DEFINE g == Gone(router, "yonderd")
              u == Unstaged(g, "yonderd")
              x == [u EXCEPT !.held = FALSE]
  <2>1. g \in Router /\ Only(g, {"yonderd", "exec"}) /\ g.yonderd = "none"
    <3>1. g \in Router
      BY <1>0, ExecAndStaging DEF Ours
    <3>. QED BY <1>0, <3>1 DEF Gone, Only, Field, Router
  <2>. HIDE DEF g
  <2>2. /\ u \in Router /\ u.staging["yonderd"] = <<>>
        /\ \A f \in Field : f # "staging" => u[f] = g[f]
    <3>1. u \in Router
      BY <1>0, <2>1, ExecAndStaging DEF Ours
    <3>. QED BY <2>1, <3>1 DEF Unstaged, Field, Router, Ours
  <2>. HIDE DEF u
  <2>3. /\ x \in Router /\ x.held = FALSE
        /\ \A f \in Field : f # "held" => x[f] = u[f]
    <3>1. x \in Router
      BY <2>2, SettingsPut
    <3>. QED BY <2>2, <3>1 DEF Field, Router
  <2>4. Try("rmApp", <<router, x>>, "closePort")
    BY <1>2 DEF RemoveApp, u, g
  <2>. HIDE DEF x
  <2>5. Only(x, {"yonderd", "exec", "staging", "held"})
    BY <2>1, <2>2, <2>3 DEF Only
  <2>6. x.yonderd = "none" /\ x.staging["yonderd"] = <<>>
    BY <2>1, <2>2, <2>3 DEF Field
  <2>7. Did("rmApp", x, {router, x}, "closePort", "closePort")
    BY <1>0, <2>3, <2>4, CourseOf2, TryDoes
  <2>. QED BY <2>3, <2>5, <2>6, <2>7 DEF Only
<1>3. ASSUME CloseFirewallPort
      PROVE  \E whole, states :
                 /\ Did("closePort", whole, states, "uninstalled", "uninstalled")
                 /\ whole.rules = 0 /\ \A x \in states : Only(x, {"rules"})
  <2>. DEFINE x == [router EXCEPT !.rules = 0]
  <2>1. router.rules \in 0..1
    BY <1>0 DEF Router
  <2>2. (IF router.rules > 0 THEN router.rules - 1 ELSE 0) = 0
    BY <2>1
  <2>3. Try("closePort", <<router, x>>, "uninstalled")
    BY <1>3, <2>2 DEF CloseFirewallPort
  <2>4. x \in Router
    <3>1. 0 \in 0..1
      OBVIOUS
    <3>. QED BY <1>0, <3>1, SettingsPut
  <2>5. Only(x, {"rules"}) /\ x.rules = 0
    BY <1>0 DEF Only, Field, Router
  <2>. HIDE DEF x
  <2>6. Did("closePort", x, {router, x}, "uninstalled", "uninstalled")
    BY <1>0, <2>3, <2>4, CourseOf2, TryDoes
  <2>. QED BY <2>5, <2>6 DEF Only
<1>. QED BY <1>1, <1>2, <1>3

(* The commands that run the script. *)
LEMMA ScriptsDo ==
    ASSUME TypeOK
    PROVE  /\ StopOld => /\ Did("stop", Last(Script("stop", router)),
                                 Range(Script("stop", router)), "bin1", "bin1")
                         /\ Remember("stop", router)
           /\ StopDaemon => /\ Did("stopDaemon", Last(Script("stop", router)),
                                    Range(Script("stop", router)), "rmInit", "rmInit")
                            /\ Remember("stop", router)
           /\ StartDaemon => /\ Did("restart", Last(Script("restart", router)),
                                     Range(Script("restart", router)),
                                     "listening", "listening")
                             /\ Remember("restart", router)
<1>1. \A verb \in Verbs : /\ Script(verb, router) \in Courses
                          /\ router \in Range(Script(verb, router))
  BY ScriptCourse DEF TypeOK
<1>2. "stop" \in Verbs /\ "restart" \in Verbs
  BY DEF Verbs
<1>. QED BY <1>1, <1>2, TryDoes DEF StopOld, StopDaemon, StartDaemon

-----------------------------------------------------------------------------
(* A step of a run, as a row of a table: where it starts, what of the      *)
(* router it may change, where it may lead.                                *)

Ending == IF at = "listening" THEN "done"
          ELSE IF at = "closePort" THEN "uninstalled" ELSE "failed"

Goal(step) == IF step \in Verdict THEN "off" ELSE step

Row(step, fields, to) ==
    /\ at = step /\ at' \in to
    /\ router' \in Router /\ Only(router', fields)
    /\ UNCHANGED <<runs, job, rel>>
    /\ trusted \subseteq trusted' /\ trusted' \subseteq Kept
    /\ link' \in BOOLEAN /\ trouble' \in BOOLEAN /\ (trouble => trouble')
    /\ at' \in Steps /\ said' \in Verdict \cup {""}
    /\ at' = "off" => /\ said' = Ending
                      /\ \/ Ending # "failed"
                         \/ trouble' \/ at \in {"ready", "verify", "bin4"}

(* A command as a row. *)
LEMMA DidRow ==
    ASSUME TypeOK, NEW step, NEW whole, NEW states, NEW next, NEW otherwise, NEW fields,
           Did(step, whole, states, next, otherwise),
           \A x \in states : Only(x, fields),
           next # "failed", next \in Steps \ {"off"} \/ next = Ending,
           otherwise \in Steps \ {"off"} \/ otherwise = Ending
    PROVE  /\ Row(step, fields, {Goal(next), Goal(otherwise)})
           /\ \/ /\ link /\ router' = whole /\ trouble' = trouble
                 /\ at' = Goal(next)
              \/ trouble' /\ at' = Goal(otherwise)
           /\ trusted' = trusted
<1>1. Verdict \cap Steps = {} /\ Ending \in Verdict /\ "off" \in Steps
  BY DEF Verdict, Steps, Ending
<1>2. ASSUME NEW n, n \in Steps \ {"off"} \/ n = Ending, Goes(n)
      PROVE  /\ at' = Goal(n) /\ at' \in Steps /\ said' \in Verdict \cup {""}
             /\ at' = "off" => said' = Ending /\ n = Ending
  BY <1>1, <1>2 DEF Goes, Goal, TypeOK
<1>3. router' \in states /\ router' \in Router /\ Only(router', fields)
  BY DEF Did
<1>4. /\ at = step /\ UNCHANGED <<runs, job, rel, link, trusted>>
      /\ link \in BOOLEAN /\ trusted \subseteq Kept /\ trouble \in BOOLEAN
  BY DEF Did, TypeOK
<1>. QED BY <1>1, <1>2, <1>3, <1>4 DEF Did, Row

(* A test as a row. *)
LEMMA TestedRow ==
    ASSUME TypeOK, NEW step, NEW holds \in BOOLEAN, NEW files \in SUBSET Kept, NEW yes, NEW no,
           Tested(step, holds, files, yes, no),
           yes \in Steps \ {"off"},
           \/ no \in Steps \ {"off", yes}
           \/ no = "failed" /\ step = "verify"
    PROVE  /\ Row(step, {}, {yes, Goal(no)}) /\ router' = router
           /\ at' = yes => /\ holds
                           /\ \A f \in files : router[f] = "part" => f \in trusted'
           /\ at' = Goal(no) => trouble' \/ ~holds
<1>1. Verdict \cap Steps = {} /\ "failed" \in Verdict /\ "off" \in Steps
  BY DEF Verdict, Steps
<1>2. Goal(yes) = yes /\ yes # "off" /\ yes # Goal(no)
  BY <1>1 DEF Goal
<1>3. /\ Goes(yes) => at' = yes /\ said' = said
      /\ Goes(no) => /\ at' = Goal(no)
                     /\ said' = IF at' = "off" THEN Ending ELSE said
                     /\ at' = "off" => step = "verify"
  <2>1. CASE no \in Steps \ {"off", yes}
    BY <1>1, <2>1 DEF Goes, Goal
  <2>2. CASE no = "failed" /\ step = "verify"
    <3>1. at = "verify"
      BY <2>2 DEF Tested
    <3>. QED BY <1>1, <2>2, <3>1 DEF Goes, Goal, Ending
  <2>. QED BY <2>1, <2>2
<1>4. /\ at = step /\ UNCHANGED <<router, runs, job, rel, link>>
      /\ link \in BOOLEAN /\ trusted \subseteq Kept /\ trouble \in BOOLEAN
      /\ router \in Router /\ said \in Verdict \cup {""}
  BY DEF Tested, TypeOK
<1>5. Only(router', {})
  BY <1>4 DEF Only
<1>6. /\ trusted \subseteq trusted' /\ trusted' \subseteq Kept
      /\ trouble' \in BOOLEAN /\ (trouble => trouble')
  BY <1>4 DEF Tested
<1>7. at' \in {yes, Goal(no)} /\ at' \in Steps /\ said' \in Verdict \cup {""}
      /\ (at' = "off" => said' = Ending /\ step = "verify")
  <2>1. Goes(yes) \/ Goes(no)
    BY DEF Tested
  <2>2. Goal(no) \in Steps
    BY <1>1 DEF Goal
  <2>3. Ending \in Verdict
    BY DEF Ending, Verdict
  <2>. QED BY <1>2, <1>3, <1>4, <2>1, <2>2, <2>3
<1>8. Row(step, {}, {yes, Goal(no)})
  BY <1>4, <1>5, <1>6, <1>7 DEF Row
<1>9. at' = yes => /\ holds
                   /\ \A f \in files : router[f] = "part" => f \in trusted'
  BY <1>2, <1>3 DEF Tested
<1>10. at' = Goal(no) => trouble' \/ ~holds
  BY <1>2, <1>3 DEF Tested
<1>. QED BY <1>4, <1>8, <1>9, <1>10

Volatile == {"diskSet", "tarball", "daemon", "held", "pidfile", "rules"}

(* The verdicts are no steps. *)
LEMMA Goals ==
    /\ \A step \in Steps : Goal(step) = step
    /\ Goal("failed") = "off" /\ Goal("done") = "off" /\ Goal("uninstalled") = "off"
BY DEF Goal, Steps, Verdict

(* A checked command. *)
LEMMA MustRow ==
    ASSUME TypeOK, NEW step, NEW whole, NEW states, NEW next, NEW fields,
           Did(step, whole, states, next, "failed"),
           \A x \in states : Only(x, fields),
           step \notin {"listening", "closePort"}, next \in Steps \ {"off"}
    PROVE  /\ Row(step, fields, {next, "off"})
           /\ at' = next => router' = whole
           /\ at' = "off" => trouble'
           /\ trouble' \/ at' = next
<1>1. Ending = "failed" /\ next # "failed"
  BY DEF Did, Ending, Steps
<1>2. Goal(next) = next /\ Goal("failed") = "off" /\ next # "off"
  BY Goals
<1>3. /\ Row(step, fields, {Goal(next), Goal("failed")})
      /\ \/ link /\ router' = whole /\ trouble' = trouble /\ at' = Goal(next)
         \/ trouble' /\ at' = Goal("failed")
  BY <1>1, DidRow
<1>. QED BY <1>2, <1>3

(* One whose failure is ignored. *)
LEMMA TryRow ==
    ASSUME TypeOK, NEW step, NEW whole, NEW states, NEW next, NEW fields,
           Did(step, whole, states, next, next),
           \A x \in states : Only(x, fields),
           next \in Steps \ {"off"}
    PROVE  Row(step, fields, {next}) /\ (trouble' \/ router' = whole)
<1>1. next # "failed" /\ Goal(next) = next
  BY Goals DEF Steps
<1>2. /\ Row(step, fields, {Goal(next), Goal(next)})
      /\ (router' = whole \/ trouble')
  BY <1>1, DidRow
<1>3. {Goal(next), Goal(next)} = {next}
  BY <1>1
<1>. QED BY <1>2, <1>3
(* The bootstrap of Entware, row by row. *)
LEMMA BootstrapRows ==
    ASSUME TypeOK
    PROVE  /\ Ready =>
                 /\ Row("ready", {}, {"shell", "preflight", "off"})
                 /\ at' = "off" => trouble' \/ (job = "uninstall" /\ ~router.entware)
           /\ Preflight => Row("preflight", {}, {"disk", "off"})
           /\ OpkgDisk =>
                 /\ Row("disk", {"diskSet", "tarball"}, {"undisk", "save", "off"})
                 /\ at' = "save" => router'.diskSet /\ router'.tarball = "pending"
           /\ NoOpkgDisk =>
                 /\ Row("undisk", {"diskSet"}, {"disk2", "off"})
                 /\ at' = "disk2" => ~router'.diskSet
           /\ OpkgDiskAgain =>
                 /\ Row("disk2", {"diskSet", "tarball"}, {"save", "off"})
                 /\ at' = "save" => \/ router.diskSet
                                    \/ router'.diskSet /\ router'.tarball = "pending"
           /\ OpkgDiskRefused =>
                 \E step \in {"disk", "disk2"} :
                    Row(step, {"diskSet"}, {"save"}) /\ trouble'
           /\ SaveConfig =>
                 /\ Row("save", {"diskSaved"}, {"reboot", "off"})
                 /\ at' = "reboot" => router'.diskSaved = router.diskSet
           /\ Wait => Row("wait", {}, {"shell", "off"})
           /\ Shell => Row("shell", {}, {"xkeen?", "stopDaemon", "off"})
<1>0. /\ router \in Router /\ link \in BOOLEAN /\ trouble \in BOOLEAN
      /\ trusted \subseteq Kept /\ said \in Verdict \cup {""} /\ at \in Steps
      /\ router.entware \in BOOLEAN
  BY DEF TypeOK, Router
<1>1. Only(router, {})
  BY DEF Only
<1>. DEFINE Plain == /\ UNCHANGED <<router, runs, job, rel, trusted>>
                     /\ link' \in BOOLEAN /\ trouble' \in BOOLEAN /\ (trouble => trouble')
<1>2. ASSUME NEW step, NEW S \in SUBSET (Steps \ {"off"}), at = step, step \notin {"listening", "closePort"},
             Plain, \/ \E n \in S : Goes(n)
                    \/ Goes("failed") /\ (trouble' \/ step = "ready")
      PROVE  Row(step, {}, S \cup {"off"})
  <2>1. Ending = "failed"
    BY <1>2 DEF Ending
  <2>2. router' = router /\ Only(router', {}) /\ router' \in Router
    BY <1>0, <1>1, <1>2
  <2>3. CASE \E n \in S : Goes(n)
    <3>1. PICK n \in S : Goes(n)
      BY <2>3
    <3>2. at' = n /\ said' = said /\ n \in Steps /\ n # "off"
      BY <3>1 DEF Goes, Steps, Verdict
    <3>. QED BY <1>0, <1>2, <2>2, <3>2 DEF Row
  <2>4. CASE Goes("failed") /\ (trouble' \/ step = "ready")
    <3>1. at' = "off" /\ said' = "failed" /\ "off" \in Steps /\ "failed" \in Verdict
      BY <2>4 DEF Goes, Steps, Verdict
    <3>. QED BY <1>0, <1>2, <2>1, <2>2, <2>4, <3>1 DEF Row
  <2>. QED BY <1>2, <2>3, <2>4
<1>3. ASSUME Ready
      PROVE  /\ Row("ready", {}, {"shell", "preflight", "off"})
             /\ at' = "off" => trouble' \/ (job = "uninstall" /\ ~router.entware)
  <2>1. {"shell", "preflight"} \in SUBSET (Steps \ {"off"})
    BY DEF Steps
  <2>2. Plain /\ at = "ready"
    BY <1>0, <1>3 DEF Ready
  <2>3. \/ \E n \in {"shell", "preflight"} : Goes(n)
        \/ Goes("failed")
    BY <1>3 DEF Ready
  <2>4. Row("ready", {}, {"shell", "preflight"} \cup {"off"})
    BY <1>2, <2>1, <2>2, <2>3
  <2>5. at' = "off" => trouble' \/ (job = "uninstall" /\ ~router.entware)
    <3>1. job \in {"install", "uninstall"}
      BY DEF TypeOK, Job
    <3>2. Goes("shell") => at' # "off"
      BY DEF Goes, Verdict
    <3>3. Goes("preflight") => at' # "off"
      BY DEF Goes, Verdict
    <3>. QED BY <1>0, <1>3, <3>1, <3>2, <3>3 DEF Ready
  <2>6. {"shell", "preflight"} \cup {"off"} = {"shell", "preflight", "off"}
    OBVIOUS
  <2>. QED BY <2>4, <2>5, <2>6
<1>4. ASSUME Preflight PROVE Row("preflight", {}, {"disk", "off"})
  <2>1. {"disk"} \in SUBSET (Steps \ {"off"})
    BY DEF Steps
  <2>2. /\ Plain /\ at = "preflight"
        /\ (\E n \in {"disk"} : Goes(n)) \/ (Goes("failed") /\ trouble')
    BY <1>0, <1>4 DEF Preflight
  <2>3. Row("preflight", {}, {"disk"} \cup {"off"})
    BY <1>2, <2>1, <2>2
  <2>4. {"disk"} \cup {"off"} = {"disk", "off"}
    OBVIOUS
  <2>. QED BY <2>3, <2>4
<1>5. ASSUME Wait PROVE Row("wait", {}, {"shell", "off"})
  <2>1. {"shell"} \in SUBSET (Steps \ {"off"})
    BY DEF Steps
  <2>2. /\ Plain /\ at = "wait"
        /\ (\E n \in {"shell"} : Goes(n)) \/ (Goes("failed") /\ trouble')
    BY <1>0, <1>5 DEF Wait
  <2>3. Row("wait", {}, {"shell"} \cup {"off"})
    BY <1>2, <2>1, <2>2
  <2>4. {"shell"} \cup {"off"} = {"shell", "off"}
    OBVIOUS
  <2>. QED BY <2>3, <2>4
<1>6. ASSUME Shell PROVE Row("shell", {}, {"xkeen?", "stopDaemon", "off"})
  <2>1. {"xkeen?", "stopDaemon"} \in SUBSET (Steps \ {"off"})
    BY DEF Steps
  <2>2. /\ Plain /\ at = "shell"
        /\ \/ \E n \in {"xkeen?", "stopDaemon"} : Goes(n)
           \/ Goes("failed") /\ trouble'
    BY <1>0, <1>6 DEF Shell
  <2>3. Row("shell", {}, {"xkeen?", "stopDaemon"} \cup {"off"})
    BY <1>2, <2>1, <2>2
  <2>4. {"xkeen?", "stopDaemon"} \cup {"off"} = {"xkeen?", "stopDaemon", "off"}
    OBVIOUS
  <2>. QED BY <2>3, <2>4
<1>. HIDE DEF Plain
<1>7. ASSUME NEW step \in {"disk", "disk2"}, Did(step, DiskPending, DiskStates, "save", "failed")
      PROVE  /\ Row(step, {"diskSet", "tarball"}, {"save", "off"})
             /\ at' = "save" => router'.diskSet /\ router'.tarball = "pending"
  <2>1. "save" \in Steps \ {"off"} /\ step \notin {"listening", "closePort"}
    BY <1>7 DEF Steps
  <2>. QED BY <1>7, <2>1, DiskDoes, MustRow
<1>8. ASSUME NEW step \in {"disk", "disk2"}, NEW next \in {"undisk", "save"},
             Did(step, router, {router}, next, "failed")
      PROVE  Row(step, {"diskSet", "tarball"}, {next, "off"})
  <2>1. next \in Steps \ {"off"} /\ step \notin {"listening", "closePort"}
    BY <1>8 DEF Steps
  <2>2. \A x \in {router} : Only(x, {"diskSet", "tarball"})
    BY DEF Only
  <2>. QED BY <1>8, <2>1, <2>2, MustRow
<1>9. ASSUME OpkgDisk
      PROVE  /\ Row("disk", {"diskSet", "tarball"}, {"undisk", "save", "off"})
             /\ at' = "save" => router'.diskSet /\ router'.tarball = "pending"
  <2>1. \/ Did("disk", router, {router}, "undisk", "failed")
        \/ Did("disk", DiskPending, DiskStates, "save", "failed")
    <3>1. at = "disk"
      BY <1>9 DEF OpkgDisk, Must
    <3>2. at # "disk2"
      BY <3>1
    <3>. QED BY <1>9, <3>2, BootstrapDoes DEF Did
  <2>2. CASE Did("disk", router, {router}, "undisk", "failed")
    <3>1. Row("disk", {"diskSet", "tarball"}, {"undisk", "off"})
      BY <1>8, <2>2
    <3>. QED BY <3>1 DEF Row
  <2>3. CASE Did("disk", DiskPending, DiskStates, "save", "failed")
    <3>1. /\ Row("disk", {"diskSet", "tarball"}, {"save", "off"})
          /\ at' = "save" => router'.diskSet /\ router'.tarball = "pending"
      BY <1>7, <2>3
    <3>. QED BY <3>1 DEF Row
  <2>. QED BY <2>1, <2>2, <2>3
<1>10. ASSUME OpkgDiskAgain
       PROVE  /\ Row("disk2", {"diskSet", "tarball"}, {"save", "off"})
              /\ at' = "save" => \/ router.diskSet
                                 \/ router'.diskSet /\ router'.tarball = "pending"
  <2>1. \/ router.diskSet /\ Did("disk2", router, {router}, "save", "failed")
        \/ Did("disk2", DiskPending, DiskStates, "save", "failed")
    <3>1. at = "disk2"
      BY <1>10 DEF OpkgDiskAgain, Must
    <3>2. at # "disk"
      BY <3>1
    <3>. QED BY <1>10, <3>2, BootstrapDoes DEF Did
  <2>. QED BY <1>7, <1>8, <2>1
<1>11. ASSUME NoOpkgDisk
       PROVE  /\ Row("undisk", {"diskSet"}, {"disk2", "off"})
              /\ at' = "disk2" => ~router'.diskSet
  <2>1. Did("undisk", Unset, {router, Unset}, "disk2", "failed")
    BY <1>11, BootstrapDoes
  <2>2. Only(router, {"diskSet"}) /\ Only(Unset, {"diskSet"}) /\ Unset.diskSet = FALSE
    BY <1>0 DEF Unset, Only, Field, Router
  <2>3. "disk2" \in Steps \ {"off"}
    BY DEF Steps
  <2>. QED BY <2>1, <2>2, <2>3, MustRow
<1>12. ASSUME SaveConfig
       PROVE  /\ Row("save", {"diskSaved"}, {"reboot", "off"})
              /\ at' = "reboot" => router'.diskSaved = router.diskSet
  <2>1. Did("save", Saved, {router, Saved}, "reboot", "failed")
    BY <1>12, BootstrapDoes
  <2>2. /\ Only(router, {"diskSaved"}) /\ Only(Saved, {"diskSaved"})
        /\ Saved.diskSaved = router.diskSet
    BY <1>0 DEF Saved, Only, Field, Router
  <2>3. "reboot" \in Steps \ {"off"}
    BY DEF Steps
  <2>. QED BY <2>1, <2>2, <2>3, MustRow
<1>13. ASSUME OpkgDiskRefused
       PROVE  \E step \in {"disk", "disk2"} :
                 Row(step, {"diskSet"}, {"save"}) /\ trouble'
  <2>1. /\ at \in {"disk", "disk2"}
        /\ router' \in {router, [router EXCEPT !.diskSet = TRUE]}
        /\ trouble' = TRUE /\ Goes("save")
        /\ UNCHANGED <<runs, job, rel, link, trusted>>
    BY <1>13 DEF OpkgDiskRefused
  <2>2. at' = "save" /\ said' = said /\ "save" \in Steps
    BY <2>1 DEF Goes, Verdict, Steps
  <2>3. Only(router, {"diskSet"}) /\ Only([router EXCEPT !.diskSet = TRUE], {"diskSet"})
    BY <1>0 DEF Only, Field, Router
  <2>4. router' \in Router
    BY <1>0, <2>1, SettingsPut
  <2>5. Row(at, {"diskSet"}, {"save"}) /\ trouble'
    BY <1>0, <2>1, <2>2, <2>3, <2>4 DEF Row
  <2>. QED BY <2>1, <2>5
<1>. QED BY <1>3, <1>4, <1>5, <1>6, <1>9, <1>10, <1>11, <1>12, <1>13

(* The reboot as a row. *)
LEMMA RebootRow ==
    ASSUME TypeOK, SystemReboot
    PROVE  /\ Row("reboot", Volatile, {"wait"})
           /\ router' = router \/ router' = Boot(router)
           /\ trouble' \/ router' = Boot(router)
           /\ RememberBoot
<1>0. /\ router \in Router /\ trouble \in BOOLEAN /\ trusted \subseteq Kept
      /\ said \in Verdict \cup {""}
  BY DEF TypeOK
<1>1. Boot(router) \in Router /\ Only(Boot(router), Volatile)
  BY <1>0, BootDoes DEF Only, Field, Volatile
<1>2. Only(router, Volatile)
  BY DEF Only
<1>3. /\ at = "reboot" /\ at' = "wait" /\ said' = said /\ link' = FALSE
      /\ UNCHANGED <<runs, job, rel, trusted>> /\ RememberBoot
      /\ \/ router' = Boot(router) /\ trouble' = trouble
         \/ router' = router /\ trouble' = TRUE
  BY DEF SystemReboot, Goes, Verdict
<1>4. "wait" \in Steps /\ "wait" # "off"
  BY DEF Steps
<1>5. /\ router' \in Router /\ Only(router', Volatile)
      /\ link' \in BOOLEAN /\ trouble' \in BOOLEAN /\ (trouble => trouble')
  <2>1. CASE router' = Boot(router) /\ trouble' = trouble
    BY <1>0, <1>1, <1>3, <2>1
  <2>2. CASE router' = router /\ trouble' = TRUE
    BY <1>0, <1>2, <1>3, <2>2
  <2>. QED BY <1>3, <2>1, <2>2
<1>6. trusted \subseteq trusted' /\ trusted' \subseteq Kept
  BY <1>0, <1>3
<1>7. Row("reboot", Volatile, {"wait"})
  BY <1>0, <1>3, <1>4, <1>5, <1>6 DEF Row
<1>. QED BY <1>3, <1>7

(* What is not ours, row by row. *)
LEMMA PackageRows ==
    ASSUME TypeOK
    PROVE  /\ XKeenThere =>
                 /\ Row("xkeen?", {}, {"find?", "cleanup"})
                 /\ at' = "find?" => /\ xkeenFullyInstalled
                                     /\ router.xray = "part" => "xray" \in trusted'
                 /\ at' = "cleanup" => trouble' \/ ~xkeenFullyInstalled
           /\ Cleanup => /\ Row("cleanup", {"xkeen"}, {"curl"})
                         /\ trouble' \/ router'.xkeen = "none"
           /\ InstallCurl => Row("curl", {}, {"xkeen", "off"})
           /\ RunXKeenInstaller =>
                 /\ Row("xkeen", {"xkeen", "xray"}, {"verify"})
                 /\ trouble' \/ (router'.xkeen = "whole" /\ router'.xray = "whole")
           /\ VerifyXKeen =>
                 /\ Row("verify", {}, {"find?", "off"})
                 /\ at' = "find?" => /\ xkeenFullyInstalled
                                     /\ router.xray = "part" => "xray" \in trusted'
                 /\ at' = "off" => trouble' \/ ~xkeenFullyInstalled
           /\ FindThere => /\ Row("find?", {}, {"accounts?", "find"})
                           /\ at' = "accounts?" => router.find # "none"
           /\ InstallFind => /\ Row("find", {"find"}, {"accounts?", "off"})
                             /\ at' = "accounts?" => router'.find = "whole"
                             /\ router'.find \in {router.find, "whole"}
           /\ AccountsThere =>
                 /\ Row("accounts?", {}, {"geo?", "accounts"})
                 /\ at' = "geo?" => /\ router.accounts # "none"
                                    /\ router.accounts = "part" => "accounts" \in trusted'
                 /\ at' = "accounts" => trouble' \/ router.accounts = "none"
           /\ SeedAccounts => /\ Row("accounts", {"accounts"}, {"geo?"})
                              /\ trouble' \/ router'.accounts = "whole"
           /\ GeoThere =>
                 /\ Row("geo?", {}, {"stop", "geoip"})
                 /\ at' = "stop" =>
                       /\ router.geoip # "none" /\ router.geosite # "none"
                       /\ router.geoip = "part" => "geoip" \in trusted'
                       /\ router.geosite = "part" => "geosite" \in trusted'
                 /\ at' = "geoip" => \/ trouble' \/ router.geoip = "none"
                                     \/ router.geosite = "none"
           /\ FetchGeoIP => /\ Row("geoip", {"geoip"}, {"geosite", "off"})
                            /\ at' = "geosite" => router'.geoip = "whole"
                            /\ router.geoip # "none" => router'.geoip # "none"
           /\ FetchGeoSite => /\ Row("geosite", {"geosite"}, {"stop", "off"})
                              /\ at' = "stop" => router'.geosite = "whole"
<1>0. router \in Router
  BY DEF TypeOK
<1>. DEFINE On == Steps \ {"off"}
<1>1. /\ {"find?", "cleanup", "curl", "xkeen", "verify", "accounts?", "find", "geo?",
          "accounts", "stop", "geoip", "geosite"} \subseteq On
      /\ "find?" # "cleanup" /\ "accounts?" # "find" /\ "geo?" # "accounts"
      /\ "stop" # "geoip" /\ Goal("failed") = "off"
      /\ \A step \in On : Goal(step) = step
  BY Goals DEF Steps
<1>2. /\ xkeenFullyInstalled \in BOOLEAN /\ GeoDats \in BOOLEAN
      /\ {"xkeen", "xray"} \in SUBSET Kept /\ {"find"} \in SUBSET Kept
      /\ {"accounts"} \in SUBSET Kept /\ {"geoip", "geosite"} \in SUBSET Kept
  BY DEF Kept, xkeenFullyInstalled, GeoDats
<1>. HIDE DEF On
<1>3. ASSUME XKeenThere
      PROVE  /\ Row("xkeen?", {}, {"find?", "cleanup"})
             /\ at' = "find?" => /\ xkeenFullyInstalled
                                 /\ router.xray = "part" => "xray" \in trusted'
             /\ at' = "cleanup" => trouble' \/ ~xkeenFullyInstalled
  <2>1. Tested("xkeen?", xkeenFullyInstalled, {"xkeen", "xray"}, "find?", "cleanup")
    BY <1>3, PackagesDo
  <2>. QED BY <1>1, <1>2, <2>1, TestedRow DEF On
<1>4. ASSUME Cleanup
      PROVE  Row("cleanup", {"xkeen"}, {"curl"}) /\ (trouble' \/ router'.xkeen = "none")
  <2>1. /\ Did("cleanup", XKeenGone, {router, XKeenGone}, "curl", "curl")
        /\ XKeenGone.xkeen = "none"
        /\ \A x \in {router, XKeenGone} : Only(x, {"xkeen"})
    BY <1>4, PackagesDo
  <2>. QED BY <1>1, <2>1, TryRow DEF On
<1>5. ASSUME InstallCurl PROVE Row("curl", {}, {"xkeen", "off"})
  <2>1. Did("curl", router, {router}, "xkeen", "failed")
    BY <1>5, PackagesDo
  <2>2. \A x \in {router} : Only(x, {})
    BY DEF Only
  <2>. QED BY <1>1, <2>1, <2>2, MustRow DEF On
<1>6. ASSUME RunXKeenInstaller
      PROVE  /\ Row("xkeen", {"xkeen", "xray"}, {"verify"})
             /\ trouble' \/ (router'.xkeen = "whole" /\ router'.xray = "whole")
  BY <1>1, <1>6, XKeenInstallerDoes, TryRow DEF On, XKeenOnly
<1>7. ASSUME VerifyXKeen
      PROVE  /\ Row("verify", {}, {"find?", "off"})
             /\ at' = "find?" => /\ xkeenFullyInstalled
                                 /\ router.xray = "part" => "xray" \in trusted'
             /\ at' = "off" => trouble' \/ ~xkeenFullyInstalled
  <2>1. Tested("verify", xkeenFullyInstalled, {"xkeen", "xray"}, "find?", "failed")
    BY <1>7, PackagesDo
  <2>. QED BY <1>1, <1>2, <2>1, TestedRow DEF On
<1>8. ASSUME FindThere
      PROVE  /\ Row("find?", {}, {"accounts?", "find"})
             /\ at' = "accounts?" => router.find # "none"
  <2>. DEFINE holds == router.find # "none"
  <2>1. Tested("find?", holds, {"find"}, "accounts?", "find")
    BY <1>8, PackagesDo
  <2>0. holds \in BOOLEAN
    OBVIOUS
  <2>. HIDE DEF holds
  <2>2. "find" \in Steps \ {"off", "accounts?"} /\ Goal("find") = "find"
    BY <1>1 DEF On
  <2>3. /\ Row("find?", {}, {"accounts?", "find"})
        /\ at' = "accounts?" => /\ holds
                           /\ \A f \in {"find"} : router[f] = "part" => f \in trusted'
        /\ at' = "find" => trouble' \/ ~holds
    BY <1>1, <1>2, <2>0, <2>1, <2>2, TestedRow DEF On
  <2>. QED BY <2>3 DEF holds
<1>9. ASSUME InstallFind
      PROVE  /\ Row("find", {"find"}, {"accounts?", "off"})
             /\ at' = "accounts?" => router'.find = "whole"
             /\ router'.find \in {router.find, "whole"}
  <2>1. PICK whole, states :
           /\ Did("find", whole, states, "accounts?", "failed")
           /\ whole.find = "whole" /\ \A x \in states : Only(x, {"find"})
    BY <1>9, PackagesDo
  <2>2. /\ Row("find", {"find"}, {"accounts?", "off"})
        /\ at' = "accounts?" => router' = whole
    BY <1>1, <2>1, MustRow DEF On
  <2>3. router'.find \in {router.find, "whole"}
    <3>1. router' \in {router, [router EXCEPT !.find = "whole"]}
      <4>. DEFINE c == <<router, Put("find", "whole")>>
      <4>1. Put("find", "whole") \in Router
        BY <1>0, FilePut
      <4>2. /\ Last(c) = Put("find", "whole")
            /\ Range(c) = {router, Put("find", "whole")}
        BY <1>0, <4>1, CourseOf2
      <4>3. router' \in {router, Put("find", "whole")}
        BY <1>9, <4>2 DEF InstallFind, Must, Succeeds, Fails
      <4>. QED BY <4>3 DEF Put
    <3>. QED BY <1>0, <3>1 DEF Router
  <2>. QED BY <2>1, <2>2, <2>3
<1>10. ASSUME AccountsThere
       PROVE  /\ Row("accounts?", {}, {"geo?", "accounts"})
              /\ at' = "geo?" => /\ router.accounts # "none"
                                 /\ router.accounts = "part" => "accounts" \in trusted'
              /\ at' = "accounts" => trouble' \/ router.accounts = "none"
  <2>. DEFINE holds == router.accounts # "none"
  <2>1. Tested("accounts?", holds, {"accounts"}, "geo?", "accounts")
    BY <1>10, PackagesDo
  <2>0. holds \in BOOLEAN
    OBVIOUS
  <2>. HIDE DEF holds
  <2>2. "accounts" \in Steps \ {"off", "geo?"} /\ Goal("accounts") = "accounts"
    BY <1>1 DEF On
  <2>3. /\ Row("accounts?", {}, {"geo?", "accounts"})
        /\ at' = "geo?" => /\ holds
                           /\ \A f \in {"accounts"} : router[f] = "part" => f \in trusted'
        /\ at' = "accounts" => trouble' \/ ~holds
    BY <1>1, <1>2, <2>0, <2>1, <2>2, TestedRow DEF On
  <2>. QED BY <2>3 DEF holds
<1>11. ASSUME SeedAccounts
       PROVE  /\ Row("accounts", {"accounts"}, {"geo?"})
              /\ trouble' \/ router'.accounts = "whole"
  BY <1>1, <1>11, PackagesDo, TryRow DEF On
<1>12. ASSUME GeoThere
       PROVE  /\ Row("geo?", {}, {"stop", "geoip"})
              /\ at' = "stop" =>
                    /\ router.geoip # "none" /\ router.geosite # "none"
                    /\ router.geoip = "part" => "geoip" \in trusted'
                    /\ router.geosite = "part" => "geosite" \in trusted'
              /\ at' = "geoip" => \/ trouble' \/ router.geoip = "none"
                                  \/ router.geosite = "none"
  <2>1. Tested("geo?", GeoDats, {"geoip", "geosite"}, "stop", "geoip")
    BY <1>12, PackagesDo
  <2>2. /\ Row("geo?", {}, {"stop", "geoip"})
        /\ at' = "stop" => /\ GeoDats
                           /\ \A f \in {"geoip", "geosite"} :
                                 router[f] = "part" => f \in trusted'
        /\ at' = "geoip" => trouble' \/ ~GeoDats
    <3>1. "geoip" \in Steps \ {"off", "stop"} /\ Goal("geoip") = "geoip"
      BY <1>1 DEF On
    <3>2. /\ "stop" \in Steps \ {"off"} /\ {"geoip", "geosite"} \in SUBSET Kept
          /\ GeoDats \in BOOLEAN
      BY <1>1, <1>2 DEF On
    <3>. QED BY <2>1, <3>1, <3>2, TestedRow
  <2>. QED BY <2>2 DEF GeoDats
<1>13. ASSUME FetchGeoIP
       PROVE  /\ Row("geoip", {"geoip"}, {"geosite", "off"})
              /\ at' = "geosite" => router'.geoip = "whole"
              /\ router.geoip # "none" => router'.geoip # "none"
  <2>1. PICK whole, states :
           /\ Did("geoip", whole, states, "geosite", "failed")
           /\ whole.geoip = "whole" /\ \A x \in states : Only(x, {"geoip"})
    BY <1>13, PackagesDo
  <2>2. /\ Row("geoip", {"geoip"}, {"geosite", "off"})
        /\ at' = "geosite" => router' = whole
    BY <1>1, <2>1, MustRow DEF On
  <2>3. router.geoip # "none" => router'.geoip # "none"
    <3>1. Put("geoip", "part") \in Router /\ Put("geoip", "whole") \in Router
      BY <1>0, FilePut
    <3>2. /\ Last(Grows("geoip")) = Put("geoip", "whole")
          /\ Range(Grows("geoip")) = {router, Put("geoip", "part"), Put("geoip", "whole")}
      BY <1>0, <3>1, CourseOf3 DEF Grows
    <3>3. router' \in {router, Put("geoip", "part"), Put("geoip", "whole")}
      BY <1>13, <3>2 DEF FetchGeoIP, Must, Succeeds, Fails
    <3>. QED BY <1>0, <3>3 DEF Put, Router
  <2>. QED BY <2>1, <2>2, <2>3
<1>14. ASSUME FetchGeoSite
       PROVE  /\ Row("geosite", {"geosite"}, {"stop", "off"})
              /\ at' = "stop" => router'.geosite = "whole"
  <2>1. PICK whole, states :
           /\ Did("geosite", whole, states, "stop", "failed")
           /\ whole.geosite = "whole" /\ \A x \in states : Only(x, {"geosite"})
    BY <1>14, PackagesDo
  <2>. QED BY <1>1, <2>1, MustRow DEF On
<1>. QED BY <1>3, <1>4, <1>5, <1>6, <1>7, <1>8, <1>9, <1>10, <1>11, <1>12, <1>13, <1>14
(* An upload of f, which takes four commands. *)
LEMMA UploadRows ==
    ASSUME TypeOK, NEW f \in Ours, NEW steps, Upload(f, steps),
           steps[1] \notin {"listening", "closePort"},
           steps[2] \in Steps \ {"off", "listening", "closePort"},
           steps[3] \in Steps \ {"off", "listening", "closePort"},
           steps[4] \in Steps \ {"off", "listening", "closePort"},
           steps[5] \in Steps \ {"off"}
    PROVE  \/ Row(steps[1], {"staging"}, {steps[2], "off"})
           \/ /\ Row(steps[2], {"staging"}, {steps[3], "off"})
              /\ at' = steps[3] => router'.staging[f] = <<Fragment(1)>>
           \/ /\ Row(steps[3], {"staging"}, {steps[4], "off"})
              /\ at' = steps[4] => router'.staging[f] = Append(router.staging[f], Fragment(2))
           \/ /\ Row(steps[4], {f, "staging", "exec"}, {steps[5], "off"})
              /\ at' = steps[5] => router'[f] = Decoded(f) /\ f \in router'.exec
              /\ router.exec \subseteq router'.exec
              /\ at' = "off" => trouble'
<1>1. CASE \E whole, states :
              /\ Did(steps[1], whole, states, steps[2], "failed")
              /\ \A x \in states : Only(x, {"staging"})
  BY <1>1, MustRow
<1>2. CASE \E whole, states :
              /\ Did(steps[2], whole, states, steps[3], "failed")
              /\ whole.staging[f] = <<Fragment(1)>>
              /\ \A x \in states : Only(x, {"staging"})
  <2>1. PICK whole, states :
              /\ Did(steps[2], whole, states, steps[3], "failed")
              /\ whole.staging[f] = <<Fragment(1)>>
              /\ \A x \in states : Only(x, {"staging"})
    BY <1>2
  <2>2. /\ Row(steps[2], {"staging"}, {steps[3], "off"})
        /\ at' = steps[3] => router' = whole
    BY <2>1, MustRow
  <2>. QED BY <2>1, <2>2
<1>3. CASE \E whole, states :
              /\ Did(steps[3], whole, states, steps[4], "failed")
              /\ whole.staging[f] = Append(router.staging[f], Fragment(2))
              /\ \A x \in states : Only(x, {"staging"})
  <2>1. PICK whole, states :
              /\ Did(steps[3], whole, states, steps[4], "failed")
              /\ whole.staging[f] = Append(router.staging[f], Fragment(2))
              /\ \A x \in states : Only(x, {"staging"})
    BY <1>3
  <2>2. /\ Row(steps[3], {"staging"}, {steps[4], "off"})
        /\ at' = steps[4] => router' = whole
    BY <2>1, MustRow
  <2>. QED BY <2>1, <2>2
<1>4. CASE \E whole, states :
              /\ Did(steps[4], whole, states, steps[5], "failed")
              /\ whole[f] = Decoded(f) /\ f \in whole.exec
              /\ \A x \in states : /\ Only(x, {f, "staging", "exec"})
                                   /\ router.exec \subseteq x.exec
  <2>1. PICK whole, states :
              /\ Did(steps[4], whole, states, steps[5], "failed")
              /\ whole[f] = Decoded(f) /\ f \in whole.exec
              /\ \A x \in states : /\ Only(x, {f, "staging", "exec"})
                                   /\ router.exec \subseteq x.exec
    BY <1>4
  <2>2. /\ Row(steps[4], {f, "staging", "exec"}, {steps[5], "off"})
        /\ at' = steps[5] => router' = whole
        /\ at' = "off" => trouble'
    BY <2>1, MustRow
  <2>3. router' \in states
    BY <2>1 DEF Did
  <2>. QED BY <2>1, <2>2, <2>3
<1>. QED BY <1>1, <1>2, <1>3, <1>4, UploadDoes

UploadedIs(f, one, two, three, four, next) ==
    \/ Row(one, {"staging"}, {two, "off"})
    \/ /\ Row(two, {"staging"}, {three, "off"})
       /\ at' = three => router'.staging[f] = <<Fragment(1)>>
    \/ /\ Row(three, {"staging"}, {four, "off"})
       /\ at' = four => router'.staging[f] = Append(router.staging[f], Fragment(2))
    \/ /\ Row(four, {f, "staging", "exec"}, {next, "off"})
       /\ at' = next => router'[f] = Decoded(f) /\ f \in router'.exec
       /\ router.exec \subseteq router'.exec
       /\ at' = "off" => trouble'

(* What is ours, row by row. *)
LEMMA DeploymentRows ==
    ASSUME TypeOK
    PROVE  /\ UploadDaemon => UploadedIs("yonderd", "bin1", "bin2", "bin3", "bin4", "init1")
           /\ TextBusy => Row("bin4", {}, {"off"}) /\ router.held
           /\ UploadScript => UploadedIs("S99yonder", "init1", "init2", "init3", "init4", "firewall")
           /\ OpenFirewallPort => /\ Row("firewall", {"rules"}, {"restart"})
                                  /\ trouble' \/ router'.rules = 1
           /\ Listening => /\ Row("listening", {}, {"off"})
                           /\ trouble' \/ router.daemon # "none"
<1>0. /\ router \in Router /\ link \in BOOLEAN /\ trouble \in BOOLEAN
      /\ trusted \subseteq Kept /\ said \in Verdict \cup {""}
  BY DEF TypeOK
<1>1. Only(router, {})
  BY DEF Only
<1>2. ASSUME UploadDaemon
      PROVE  UploadedIs("yonderd", "bin1", "bin2", "bin3", "bin4", "init1")
  <2>. DEFINE steps == <<"bin1", "bin2", "bin3", "bin4", "init1">>
  <2>1. /\ steps[1] = "bin1" /\ steps[2] = "bin2" /\ steps[3] = "bin3"
        /\ steps[4] = "bin4" /\ steps[5] = "init1"
    OBVIOUS
  <2>2. Upload("yonderd", steps) /\ "yonderd" \in Ours
    BY <1>2 DEF UploadDaemon, Ours
  <2>3. /\ "bin1" \notin {"listening", "closePort"} /\ "init1" \in Steps \ {"off"}
        /\ \A x \in {"bin2", "bin3", "bin4"} : x \in Steps \ {"off", "listening", "closePort"}
    BY DEF Steps
  <2>. HIDE DEF steps
  <2>. QED BY <2>1, <2>2, <2>3, UploadRows DEF UploadedIs
<1>3. ASSUME UploadScript
      PROVE  UploadedIs("S99yonder", "init1", "init2", "init3", "init4", "firewall")
  <2>. DEFINE steps == <<"init1", "init2", "init3", "init4", "firewall">>
  <2>1. /\ steps[1] = "init1" /\ steps[2] = "init2" /\ steps[3] = "init3"
        /\ steps[4] = "init4" /\ steps[5] = "firewall"
    OBVIOUS
  <2>2. Upload("S99yonder", steps) /\ "S99yonder" \in Ours
    BY <1>3 DEF UploadScript, Ours
  <2>3. /\ "init1" \notin {"listening", "closePort"} /\ "firewall" \in Steps \ {"off"}
        /\ \A x \in {"init2", "init3", "init4"} : x \in Steps \ {"off", "listening", "closePort"}
    BY DEF Steps
  <2>. HIDE DEF steps
  <2>. QED BY <2>1, <2>2, <2>3, UploadRows DEF UploadedIs
<1>4. ASSUME TextBusy PROVE Row("bin4", {}, {"off"}) /\ router.held
  <2>1. /\ at = "bin4" /\ router.held
        /\ UNCHANGED <<router, runs, job, rel, link, trusted, trouble>>
        /\ at' = "off" /\ said' = "failed"
    BY <1>4 DEF TextBusy, Goes, Verdict
  <2>2. "off" \in Steps /\ "failed" \in Verdict
    BY DEF Steps, Verdict
  <2>3. Ending = "failed"
    BY <2>1 DEF Ending
  <2>4. router' \in Router /\ Only(router', {})
    BY <1>0, <1>1, <2>1
  <2>. QED BY <1>0, <2>1, <2>2, <2>3, <2>4 DEF Row
<1>5. ASSUME OpenFirewallPort
      PROVE  Row("firewall", {"rules"}, {"restart"}) /\ (trouble' \/ router'.rules = 1)
  <2>1. "restart" \in Steps \ {"off"}
    BY DEF Steps
  <2>. QED BY <1>5, <2>1, FirewallDoes, TryRow
<1>6. ASSUME Listening
      PROVE  Row("listening", {}, {"off"}) /\ (trouble' \/ router.daemon # "none")
  <2>1. /\ at = "listening" /\ UNCHANGED <<router, runs, job, rel, link, trusted>>
        /\ trouble' = (trouble \/ router.daemon = "none" \/ ~link)
        /\ at' = "off" /\ said' = "done"
    BY <1>6 DEF Listening, Goes, Verdict
  <2>2. "off" \in Steps /\ "done" \in Verdict /\ Ending = "done"
    BY <2>1 DEF Steps, Verdict, Ending
  <2>3. router' \in Router /\ Only(router', {}) /\ link' \in BOOLEAN
    BY <1>0, <1>1, <2>1
  <2>4. trouble' \in BOOLEAN /\ (trouble => trouble')
    BY <1>0, <2>1
  <2>5. trusted \subseteq trusted' /\ trusted' \subseteq Kept
    BY <1>0, <2>1
  <2>6. Row("listening", {}, {"off"})
    BY <2>1, <2>2, <2>3, <2>4, <2>5 DEF Row
  <2>. QED BY <2>1, <2>6
<1>. QED BY <1>2, <1>3, <1>4, <1>5, <1>6

Process == {"daemon", "held", "pidfile"}

(* The scripts and the removal, row by row. *)
LEMMA RemovalRows ==
    ASSUME TypeOK
    PROVE  /\ StopOld => /\ Row("stop", Process, {"bin1"})
                         /\ router' \in Range(Script("stop", router))
                         /\ trouble' \/ router' = Last(Script("stop", router))
           /\ StopDaemon => /\ Row("stopDaemon", Process, {"rmInit"})
                            /\ router' \in Range(Script("stop", router))
                            /\ trouble' \/ router' = Last(Script("stop", router))
           /\ StartDaemon => /\ Row("restart", Process, {"listening"})
                             /\ router' \in Range(Script("restart", router))
                             /\ trouble' \/ router' = Last(Script("restart", router))
           /\ RemoveInitScript => /\ Row("rmInit", {"S99yonder", "exec"}, {"rmApp"})
                                  /\ trouble' \/ router'.S99yonder = "none"
           /\ RemoveApp => /\ Row("rmApp", {"yonderd", "exec", "staging", "held"}, {"closePort"})
                           /\ \/ trouble'
                              \/ router'.yonderd = "none" /\ router'.staging["yonderd"] = <<>>
                           /\ router'.held => router.held
           /\ CloseFirewallPort => /\ Row("closePort", {"rules"}, {"off"})
                                   /\ trouble' \/ router'.rules = 0
<1>0. router \in Router
  BY DEF TypeOK
<1>1. /\ "bin1" \in Steps \ {"off"} /\ "rmInit" \in Steps \ {"off"}
      /\ "listening" \in Steps \ {"off"} /\ "rmApp" \in Steps \ {"off"}
      /\ "closePort" \in Steps \ {"off"}
  BY DEF Steps
<1>2. ASSUME NEW verb \in Verbs, NEW step, NEW next \in Steps \ {"off"},
             Did(step, Last(Script(verb, router)), Range(Script(verb, router)), next, next)
      PROVE  /\ Row(step, Process, {next})
             /\ router' \in Range(Script(verb, router))
             /\ trouble' \/ router' = Last(Script(verb, router))
  <2>1. \A x \in Range(Script(verb, router)) : Only(x, Process)
    BY <1>0, ScriptCourse DEF SameFiles, Only, Field, Process
  <2>2. router' \in Range(Script(verb, router))
    BY <1>2 DEF Did
  <2>. QED BY <1>2, <2>1, <2>2, TryRow
<1>3. "stop" \in Verbs /\ "restart" \in Verbs
  BY DEF Verbs
<1>4. ASSUME StopOld
      PROVE  /\ Row("stop", Process, {"bin1"})
             /\ router' \in Range(Script("stop", router))
             /\ trouble' \/ router' = Last(Script("stop", router))
  BY <1>1, <1>2, <1>3, <1>4, ScriptsDo
<1>5. ASSUME StopDaemon
      PROVE  /\ Row("stopDaemon", Process, {"rmInit"})
             /\ router' \in Range(Script("stop", router))
             /\ trouble' \/ router' = Last(Script("stop", router))
  BY <1>1, <1>2, <1>3, <1>5, ScriptsDo
<1>6. ASSUME StartDaemon
      PROVE  /\ Row("restart", Process, {"listening"})
             /\ router' \in Range(Script("restart", router))
             /\ trouble' \/ router' = Last(Script("restart", router))
  BY <1>1, <1>2, <1>3, <1>6, ScriptsDo
<1>7. ASSUME RemoveInitScript
      PROVE  /\ Row("rmInit", {"S99yonder", "exec"}, {"rmApp"})
             /\ trouble' \/ router'.S99yonder = "none"
  BY <1>1, <1>7, RemovalDoes, TryRow
<1>8. ASSUME RemoveApp
      PROVE  /\ Row("rmApp", {"yonderd", "exec", "staging", "held"}, {"closePort"})
             /\ \/ trouble'
                \/ router'.yonderd = "none" /\ router'.staging["yonderd"] = <<>>
             /\ router'.held => router.held
  <2>1. PICK whole, states :
           /\ Did("rmApp", whole, states, "closePort", "closePort")
           /\ whole.yonderd = "none" /\ whole.staging["yonderd"] = <<>>
           /\ \A x \in states : /\ Only(x, {"yonderd", "exec", "staging", "held"})
                                /\ x.held => router.held
    BY <1>8, RemovalDoes
  <2>2. /\ Row("rmApp", {"yonderd", "exec", "staging", "held"}, {"closePort"})
        /\ trouble' \/ router' = whole
    BY <1>1, <2>1, TryRow
  <2>3. router' \in states
    BY <2>1 DEF Did
  <2>. QED BY <2>1, <2>2, <2>3
<1>9. ASSUME CloseFirewallPort
      PROVE  /\ Row("closePort", {"rules"}, {"off"})
             /\ trouble' \/ router'.rules = 0
  <2>1. PICK whole, states :
           /\ Did("closePort", whole, states, "uninstalled", "uninstalled")
           /\ whole.rules = 0 /\ \A x \in states : Only(x, {"rules"})
    BY <1>9, RemovalDoes
  <2>2. Ending = "uninstalled" /\ Goal("uninstalled") = "off"
    BY <2>1, Goals DEF Did, Ending
  <2>3. /\ Row("closePort", {"rules"}, {"off", "off"})
        /\ trouble' \/ router' = whole
    BY <2>1, <2>2, DidRow
  <2>4. {"off", "off"} = {"off"}
    OBVIOUS
  <2>. QED BY <2>1, <2>3, <2>4
<1>. QED BY <1>4, <1>5, <1>6, <1>7, <1>8, <1>9
(* What a row leaves alone. *)
LEMMA RowKeeps ==
    ASSUME NEW step, NEW fields, NEW to, Row(step, fields, to)
    PROVE  /\ at = step /\ at' \in to /\ rel' = rel /\ job' = job
           /\ trusted \subseteq trusted' /\ (trouble => trouble')
           /\ "diskSet" \in fields \/ router'.diskSet = router.diskSet
           /\ "diskSaved" \in fields \/ router'.diskSaved = router.diskSaved
           /\ "tarball" \in fields \/ router'.tarball = router.tarball
           /\ "entware" \in fields \/ router'.entware = router.entware
           /\ "xkeen" \in fields \/ router'.xkeen = router.xkeen
           /\ "xray" \in fields \/ router'.xray = router.xray
           /\ "find" \in fields \/ router'.find = router.find
           /\ "accounts" \in fields \/ router'.accounts = router.accounts
           /\ "geoip" \in fields \/ router'.geoip = router.geoip
           /\ "geosite" \in fields \/ router'.geosite = router.geosite
           /\ "yonderd" \in fields \/ router'.yonderd = router.yonderd
           /\ "S99yonder" \in fields \/ router'.S99yonder = router.S99yonder
           /\ "exec" \in fields \/ router'.exec = router.exec
           /\ "staging" \in fields \/ router'.staging = router.staging
           /\ "rules" \in fields \/ router'.rules = router.rules
           /\ "daemon" \in fields \/ router'.daemon = router.daemon
           /\ "held" \in fields \/ router'.held = router.held
           /\ "pidfile" \in fields \/ router'.pidfile = router.pidfile
BY DEF Row, Only, Field

(* What happens around a run leaves alone. *)
Beside ==
    /\ UNCHANGED <<runs, job, rel, at, trusted, said>>
    /\ router' \in Router /\ Only(router', Volatile \cup {"entware"})
    /\ link' \in BOOLEAN /\ trouble' \in BOOLEAN /\ (trouble => trouble')
    /\ events' \in 0..MaxEvents
    /\ at # "off" /\ ~trouble' =>
          /\ Only(router', {"tarball", "entware", "pidfile"})
          /\ router.tarball = "pending" => router'.tarball = "pending"
          /\ router.pidfile = "dead" \/ router'.pidfile = router.pidfile
    /\ {died', cutStart', victim'} \subseteq BOOLEAN

(* History stays Boolean. *)
LEMMA RememberTyped ==
    ASSUME TypeOK, NEW verb, NEW r, Remember(verb, r)
    PROVE  {died', cutStart', victim'} \subseteq BOOLEAN
BY DEF Remember, TypeOK

(* Every event around a run is of that kind. *)
LEMMA AroundIs ==
    ASSUME TypeOK, Around
    PROVE  Beside
<1>0. /\ router \in Router /\ link \in BOOLEAN /\ trouble \in BOOLEAN
      /\ events \in 0..MaxEvents /\ MaxEvents \in Nat
      /\ {died, cutStart, victim} \subseteq BOOLEAN
  BY InstallerAssumption DEF TypeOK
<1>1. Event => events' \in 0..MaxEvents
  BY <1>0 DEF Event
<1>2. Disturbed => /\ trouble' \in BOOLEAN /\ (trouble => trouble')
                   /\ (at # "off" => trouble')
  BY <1>0 DEF Disturbed
<1>. DEFINE V == Volatile \cup {"entware"}
<1>3. ASSUME Cut PROVE Beside
  <2>1. /\ UNCHANGED <<router, runs, job, rel, at, trusted, said, past>>
        /\ link' = FALSE /\ trouble' = TRUE /\ Event
    BY <1>3 DEF Cut
  <2>2. Only(router', V) /\ router' \in Router
    BY <1>0, <2>1 DEF Only
  <2>3. {died', cutStart', victim'} \subseteq BOOLEAN
    BY <1>0, <2>1 DEF past
  <2>. QED BY <1>1, <2>1, <2>2, <2>3 DEF Beside
<1>4. ASSUME Reboot PROVE Beside
  <2>1. /\ UNCHANGED <<runs, job, rel, at, trusted, said>>
        /\ router' = Boot(router)
        /\ link' = FALSE /\ Disturbed /\ RememberBoot /\ Event
    BY <1>4 DEF Reboot
  <2>2. Only(router', V) /\ router' \in Router
    BY <1>0, <2>1, BootDoes DEF Only, Field, Volatile
  <2>3. {died', cutStart', victim'} \subseteq BOOLEAN
    BY <1>0, <2>1 DEF RememberBoot
  <2>. QED BY <1>1, <1>2, <2>1, <2>2, <2>3 DEF Beside
<1>5. ASSUME Unpacks PROVE Beside
  <2>1. /\ UNCHANGED <<run, events, past>> /\ router.tarball = "unpacking"
        /\ router' = [router EXCEPT !.tarball = "none", !.entware = TRUE]
    BY <1>5 DEF Unpacks
  <2>2. router' \in Router
    BY <1>0, <2>1, SettingsPut
  <2>3. Only(router', {"tarball", "entware"})
    BY <1>0, <2>1 DEF Only, Field, Router
  <2>4. /\ Only(router', V) /\ Only(router', {"tarball", "entware", "pidfile"})
        /\ router'.pidfile = router.pidfile
    BY <2>3 DEF Only, Volatile, Field
  <2>5. {died', cutStart', victim'} \subseteq BOOLEAN
    BY <1>0, <2>1 DEF past
  <2>. QED BY <1>0, <2>1, <2>2, <2>4, <2>5 DEF Beside, run
<1>6. ASSUME DaemonDies PROVE Beside
  <2>1. /\ UNCHANGED <<runs, job, rel, at, link, trusted, said, cutStart, victim>>
        /\ died' = TRUE /\ Disturbed /\ Event
        /\ router' = [router EXCEPT !.daemon = "none", !.held = FALSE,
                        !.pidfile = IF router.pidfile = "daemon" THEN "dead" ELSE router.pidfile]
    BY <1>6 DEF DaemonDies
  <2>2. router' \in Router
    <3>. DEFINE p == IF router.pidfile = "daemon" THEN "dead" ELSE router.pidfile
    <3>1. p \in PidFile
      BY <1>0 DEF Router, PidFile
    <3>. HIDE DEF p
    <3>2. [router EXCEPT !.daemon = "none", !.held = FALSE, !.pidfile = p] \in Router
      BY <1>0, <3>1 DEF Router
    <3>. QED BY <2>1, <3>2 DEF p
  <2>3. Only(router', V)
    BY <1>0, <2>1 DEF Only, Field, Router, Volatile
  <2>4. {died', cutStart', victim'} \subseteq BOOLEAN
    BY <1>0, <2>1
  <2>. QED BY <1>0, <1>1, <1>2, <2>1, <2>2, <2>3, <2>4 DEF Beside
<1>7. ASSUME PidReused PROVE Beside
  <2>1. /\ UNCHANGED <<run, events, past>> /\ router.pidfile = "dead"
        /\ router' = [router EXCEPT !.pidfile = "foreign"]
    BY <1>7 DEF PidReused
  <2>2. router' \in Router /\ SameFiles(router', router)
        /\ router'.daemon = router.daemon /\ router'.held = router.held
    BY <1>0, <2>1, PidfileSet DEF PidFile
  <2>3. Only(router', {"pidfile"}) /\ router'.tarball = router.tarball
    BY <2>2 DEF Only, Field, SameFiles
  <2>4. Only(router', V) /\ Only(router', {"tarball", "entware", "pidfile"})
    BY <2>3 DEF Only, Volatile
  <2>5. {died', cutStart', victim'} \subseteq BOOLEAN
    BY <1>0, <2>1 DEF past
  <2>. QED BY <1>0, <2>1, <2>2, <2>3, <2>4, <2>5 DEF Beside, run
<1>8. ASSUME FirewallReload PROVE Beside
  <2>1. /\ UNCHANGED <<runs, job, rel, at, link, trusted, said, past>>
        /\ Disturbed /\ Event
        /\ router' = [router EXCEPT !.rules = 0]
    BY <1>8 DEF FirewallReload
  <2>2. router' \in Router
    <3>1. 0 \in 0..1
      OBVIOUS
    <3>. QED BY <1>0, <2>1, <3>1, SettingsPut
  <2>3. Only(router', V)
    BY <1>0, <2>1 DEF Only, Field, Router, Volatile
  <2>4. {died', cutStart', victim'} \subseteq BOOLEAN
    BY <1>0, <2>1 DEF past
  <2>. QED BY <1>0, <1>1, <1>2, <2>1, <2>2, <2>3, <2>4 DEF Beside
<1>9. ASSUME ByHand PROVE Beside
  <2>1. PICK verb \in Verbs :
           /\ router' = Last(Script(verb, router))
           /\ Remember(verb, router)
    BY <1>9 DEF ByHand, Verbs
  <2>2. at = "off" /\ UNCHANGED run /\ Event
    BY <1>9 DEF ByHand
  <2>3. router' \in Router /\ router' \in Range(Script(verb, router))
    BY <1>0, <2>1, ScriptCourse, CourseStates
  <2>4. SameFiles(router', router)
    BY <1>0, <2>3, ScriptCourse
  <2>5. Only(router', V)
    BY <2>4 DEF Only, Field, Volatile, SameFiles
  <2>6. {died', cutStart', victim'} \subseteq BOOLEAN
    BY <2>1, RememberTyped
  <2>. QED BY <1>0, <1>1, <2>2, <2>3, <2>5, <2>6 DEF Beside, run
<1>. QED BY <1>3, <1>4, <1>5, <1>6, <1>7, <1>8, <1>9 DEF Around
-----------------------------------------------------------------------------
(* Types. *)

(* A row keeps the types of the run and the router. *)
LEMMA RowTyped ==
    ASSUME TypeOK, NEW step, NEW fields, NEW to, Row(step, fields, to)
    PROVE  /\ router' \in Router /\ runs' \in 0..MaxRuns /\ job' \in Job
           /\ rel' \in Releases /\ at' \in Steps /\ said' \in Verdict \cup {""}
           /\ trusted' \subseteq Kept /\ link' \in BOOLEAN /\ trouble' \in BOOLEAN
BY DEF Row, TypeOK

(* Every step of a run is some row. *)
LEMMA StepTyped ==
    ASSUME TypeOK, InstallerStep
    PROVE  /\ \E step, fields, to : Row(step, fields, to)
           /\ {died', cutStart', victim'} \subseteq BOOLEAN
           /\ events' = events
<1>0. {died, cutStart, victim} \subseteq BOOLEAN
  BY DEF TypeOK
<1>1. events' = events
  BY DEF InstallerStep
<1>2. ASSUME Preparation /\ UNCHANGED past PROVE \E step, fields, to : Row(step, fields, to)
  BY <1>2, BootstrapRows, PackageRows DEF Preparation
<1>3. ASSUME Deployment /\ UNCHANGED past PROVE \E step, fields, to : Row(step, fields, to)
  BY <1>3, DeploymentRows DEF Deployment, UploadedIs
<1>4. ASSUME Removal /\ UNCHANGED past PROVE \E step, fields, to : Row(step, fields, to)
  BY <1>4, RemovalRows DEF Removal
<1>5. UNCHANGED past => {died', cutStart', victim'} \subseteq BOOLEAN
  BY <1>0 DEF past
<1>6. ASSUME SystemReboot
      PROVE  /\ \E step, fields, to : Row(step, fields, to)
             /\ {died', cutStart', victim'} \subseteq BOOLEAN
  <2>1. RememberBoot /\ \E step, fields, to : Row(step, fields, to)
    BY <1>6, RebootRow
  <2>. QED BY <1>0, <2>1 DEF RememberBoot
<1>7. ASSUME StopOld \/ StartDaemon \/ StopDaemon
      PROVE  /\ \E step, fields, to : Row(step, fields, to)
             /\ {died', cutStart', victim'} \subseteq BOOLEAN
  <2>1. \E step, fields, to : Row(step, fields, to)
    BY <1>7, RemovalRows
  <2>2. {died', cutStart', victim'} \subseteq BOOLEAN
    BY <1>7, ScriptsDo, RememberTyped
  <2>. QED BY <2>1, <2>2
<1>. QED BY <1>1, <1>2, <1>3, <1>4, <1>5, <1>6, <1>7 DEF InstallerStep

(* A new run finds the router as it is. *)
LEMMA BeginTyped ==
    ASSUME TypeOK, Begin
    PROVE  /\ router' = router /\ runs' \in 0..MaxRuns /\ job' \in Job /\ rel' \in Releases
           /\ at = "off" /\ at' = "ready" /\ said' = "" /\ events' = events
           /\ trusted' = {} /\ trouble' = FALSE /\ link' = FALSE
           /\ UNCHANGED <<died, cutStart, victim>>
<1>1. runs \in 0..MaxRuns /\ runs < MaxRuns /\ runs' = runs + 1 /\ MaxRuns \in Nat
  BY InstallerAssumption DEF TypeOK, Begin
<1>2. runs' \in 0..MaxRuns
  BY <1>1
<1>. QED BY <1>2 DEF Begin, past

(* The first state is typed. *)
LEMMA InitTyped == Init => TypeOK
<1>. SUFFICES ASSUME Init PROVE TypeOK
  OBVIOUS
<1>1. router \in Router
  <2>. DEFINE s == [f \in Ours |-> <<>>]
  <2>1. \E d, e \in BOOLEAN : router = Bare(d, e)
    BY DEF Init
  <2>2. s \in [Ours -> Seq(Releases \X (1..2))]
    <3>. DEFINE S == Releases \X (1..2)
    <3>. HIDE DEF S
    <3>1. <<>> \in Seq(S)
      OBVIOUS
    <3>2. [f \in Ours |-> <<>>] \in [Ours -> Seq(S)]
      BY <3>1
    <3>. QED BY <3>2 DEF S
  <2>. HIDE DEF s
  <2>3. 0 \in 0..1 /\ {} \in SUBSET Ours /\ "none" \in Tarball /\ "none" \in PidFile
        /\ FALSE \in BOOLEAN /\ "none" \in {"none", "part", "whole"}
        /\ "none" \in {"none", "whole"} /\ "none" \in Releases \cup {"none", "part"}
        /\ "none" \in Releases \cup {"none"}
    BY DEF Tarball, PidFile
  <2>4. ASSUME NEW d \in BOOLEAN, NEW e \in BOOLEAN PROVE Bare(d, e) \in Router
    <3>. DEFINE b == [diskSet |-> d, diskSaved |-> d, tarball |-> "none",
                      entware |-> e, xkeen |-> "none", xray |-> "none", find |-> "none",
                      accounts |-> "none", geoip |-> "none", geosite |-> "none",
                      yonderd |-> "none", S99yonder |-> "none", exec |-> {}, staging |-> s,
                      rules |-> 0, daemon |-> "none", held |-> FALSE, pidfile |-> "none"]
    <3>1. Bare(d, e) = b
      BY DEF Bare, s
    <3>2. b \in Router
      BY <2>2, <2>3 DEF Router
    <3>. QED BY <3>1, <3>2
  <2>. QED BY <2>1, <2>4
<1>2. runs \in 0..MaxRuns /\ events \in 0..MaxEvents
  <2>1. runs = 0 /\ events = 0
    BY DEF Init
  <2>2. MaxRuns \in Nat /\ MaxEvents \in Nat
    BY InstallerAssumption
  <2>. QED BY <2>1, <2>2
<1>3. job \in Job /\ rel \in Releases /\ at \in Steps /\ said \in Verdict \cup {""}
  BY DEF Init, Job, Steps
<1>4. trusted \subseteq Kept
  BY DEF Init
<1>5. {link, trouble, died, cutStart, orphaned, victim} \subseteq BOOLEAN
  BY DEF Init
<1>. QED BY <1>1, <1>2, <1>3, <1>4, <1>5 DEF TypeOK

(* Every step keeps the types. *)
LEMMA NextTyped == TypeOK /\ [Next]_vars => TypeOK'
<1>. SUFFICES ASSUME TypeOK, [Next]_vars PROVE TypeOK'
  OBVIOUS
<1>0. /\ router \in Router /\ runs \in 0..MaxRuns /\ events \in 0..MaxEvents
      /\ job \in Job /\ rel \in Releases
      /\ at \in Steps /\ said \in Verdict \cup {""} /\ trusted \subseteq Kept
      /\ {link, trouble, died, cutStart, orphaned, victim} \subseteq BOOLEAN
  BY DEF TypeOK
<1>1. ASSUME Noting PROVE orphaned' \in BOOLEAN
  BY <1>0, <1>1 DEF Noting, Orphan
<1>2. CASE Begin /\ Noting
  <2>1. "ready" \in Steps
    BY DEF Steps
  <2>. QED BY <1>0, <1>1, <1>2, <2>1, BeginTyped DEF TypeOK
<1>3. CASE InstallerStep /\ Noting
  <2>1. /\ \E step, fields, to : Row(step, fields, to)
        /\ {died', cutStart', victim'} \subseteq BOOLEAN
        /\ events' = events
    BY <1>3, StepTyped
  <2>2. /\ router' \in Router /\ runs' \in 0..MaxRuns /\ job' \in Job
        /\ rel' \in Releases /\ at' \in Steps /\ said' \in Verdict \cup {""}
        /\ trusted' \subseteq Kept /\ link' \in BOOLEAN /\ trouble' \in BOOLEAN
    BY <2>1, RowTyped
  <2>. QED BY <1>0, <1>1, <1>3, <2>1, <2>2 DEF TypeOK
<1>4. CASE Around /\ Noting
  <2>1. Beside
    BY <1>4, AroundIs
  <2>. QED BY <1>0, <1>1, <1>4, <2>1 DEF Beside, TypeOK
<1>5. CASE UNCHANGED vars
  BY <1>0, <1>5 DEF vars, run, past, TypeOK
<1>. QED BY <1>2, <1>3, <1>4, <1>5 DEF Next

(* Types hold, and with them: however often the installer and the          *)
(* uninstaller are run or cut short, the router never has more than one    *)
(* firewall rule of ours.                                                  *)
THEOREM InstallerTyped == Spec => []TypeOK
<1>. QED BY InitTyped, NextTyped, PTL DEF Spec
-----------------------------------------------------------------------------
(* The daemon and its pid file. *)

(* Whatever a pid file names besides the daemon is what a daemon left      *)
(* behind; a daemon that no pid file names was started by a cut start; one *)
(* that no script can stop was noted.                                      *)
ProcessInv ==
    /\ router.pidfile \in {"dead", "foreign"} => died
    /\ victim => died
    /\ Loose(router) => cutStart
    /\ router.held => router.daemon # "none"
    /\ Orphan(router) => orphaned

(* A whole stop leaves no pid of a dead daemon behind. *)
LEMMA StopEnds ==
    ASSUME NEW r \in Router
    PROVE  Last(Script("stop", r)).pidfile \in {"none", r.pidfile}
<1>1. CASE Runnable(r, "S99yonder")
  <2>1. Script("stop", r) = Stop(r)
    BY <1>1 DEF Script
  <2>. QED BY <2>1, StopCourse
<1>2. CASE ~Runnable(r, "S99yonder")
  <2>1. Script("stop", r) = <<r>>
    BY <1>2 DEF Script
  <2>. QED BY <2>1, CourseOf1
<1>. QED BY <1>1, <1>2

(* A script, whole or cut short, keeps the invariant of the daemon. *)
LEMMA ScriptKeepsProcess ==
    ASSUME TypeOK, ProcessInv, NEW verb \in Verbs,
           router' \in Range(Script(verb, router)), Remember(verb, router), Noting
    PROVE  ProcessInv'
<1>0. router \in Router
  BY DEF TypeOK
<1>1. /\ SameFiles(router', router)
      /\ router'.pidfile = "foreign" => router.pidfile = "foreign"
      /\ Loose(router') => \/ Loose(router)
                           \/ /\ verb # "stop" /\ router' # router
                              /\ router' # Last(Script(verb, router))
      /\ router'.daemon = "none" /\ router'.held => router.daemon = "none" /\ router.held
  BY <1>0, ScriptCourse
<1>2. router'.pidfile \in {"dead", "foreign"} => died'
  <2>1. CASE router'.pidfile = "foreign"
    BY <1>1, <2>1 DEF ProcessInv, Remember
  <2>2. CASE router'.pidfile = "dead" /\ router.pidfile = "dead"
    BY <2>2 DEF ProcessInv, Remember
  <2>3. CASE router'.pidfile = "dead" /\ router.pidfile # "dead"
    <3>1. ~(verb = "stop" /\ router' = Last(Script(verb, router)))
      BY <1>0, <2>3, StopEnds
    <3>. QED BY <2>3, <3>1 DEF Remember
  <2>. QED BY <2>1, <2>2, <2>3
<1>3. victim' => died'
  BY DEF ProcessInv, Remember
<1>4. Loose(router') => cutStart'
  BY <1>1 DEF ProcessInv, Remember, Loose
<1>5. router'.held => router'.daemon # "none"
  BY <1>1 DEF ProcessInv
<1>6. Orphan(router') => orphaned'
  BY DEF Noting
<1>. QED BY <1>2, <1>3, <1>4, <1>5, <1>6 DEF ProcessInv, Loose, Orphan, Runnable

(* So does a restart of the router. *)
LEMMA BootKeepsProcess ==
    ASSUME TypeOK, ProcessInv, router' = router \/ router' = Boot(router),
           RememberBoot, Noting
    PROVE  ProcessInv'
<1>0. router \in Router
  BY DEF TypeOK
<1>1. \/ router' = router
      \/ router'.pidfile # "foreign" /\ ~Loose(router')
         /\ (router'.held => router'.daemon # "none")
  BY <1>0, BootDoes
<1>2. router'.pidfile \in {"dead", "foreign"} => died'
  BY <1>1 DEF ProcessInv, RememberBoot
<1>3. (victim' => died') /\ (Loose(router') => cutStart')
  BY <1>1 DEF ProcessInv, RememberBoot, Loose
<1>4. router'.held => router'.daemon # "none"
  BY <1>1 DEF ProcessInv
<1>5. Orphan(router') => orphaned'
  BY DEF Noting
<1>. QED BY <1>2, <1>3, <1>4, <1>5 DEF ProcessInv, Loose, Orphan, Runnable

(* The other steps of a run let the daemon and its pid file be. *)
LEMMA OthersKeepProcess ==
    ASSUME TypeOK, ProcessInv, Noting, UNCHANGED past,
           router'.daemon = router.daemon,
           router'.pidfile = router.pidfile \/ router.pidfile = "dead",
           router.daemon # "none" /\ router'.pidfile # router.pidfile
              => router.pidfile # "daemon",
           router'.held => router.held
    PROVE  ProcessInv'
<1>1. Orphan(router') => orphaned'
  BY DEF Noting
<1>2. UNCHANGED <<died, victim, cutStart>>
  BY DEF past
<1>3. Loose(router') => Loose(router)
  BY DEF Loose
<1>4. router'.pidfile \in {"dead", "foreign"} => died
  BY DEF ProcessInv
<1>. QED BY <1>1, <1>2, <1>3, <1>4 DEF ProcessInv, Loose, Orphan, Runnable

(* Which rows these are. *)
LEMMA QuietSteps ==
    ASSUME TypeOK, Preparation \/ Deployment \/ Removal
    PROVE  /\ router'.daemon = router.daemon /\ router'.pidfile = router.pidfile
           /\ router'.held => router.held
<1>1. ASSUME NEW step, NEW fields, NEW to, Row(step, fields, to),
             {"daemon", "held", "pidfile"} \cap fields = {}
      PROVE  /\ router'.daemon = router.daemon /\ router'.pidfile = router.pidfile
             /\ router'.held = router.held
  BY <1>1, RowKeeps
<1>2. ASSUME NEW step, NEW to, Row(step, {"yonderd", "exec", "staging", "held"}, to)
      PROVE  router'.daemon = router.daemon /\ router'.pidfile = router.pidfile
  BY <1>2, RowKeeps
<1>3. CASE Preparation
  <2>1. \E step, fields, to : Row(step, fields, to)
                              /\ {"daemon", "held", "pidfile"} \cap fields = {}
    BY <1>3, BootstrapRows, PackageRows DEF Preparation
  <2>. QED BY <1>1, <2>1
<1>4. CASE Deployment
  <2>1. \E step, fields, to : Row(step, fields, to)
                              /\ {"daemon", "held", "pidfile"} \cap fields = {}
    BY <1>4, DeploymentRows DEF Deployment, UploadedIs
  <2>. QED BY <1>1, <2>1
<1>5. CASE Removal
  <2>1. \/ \E step, fields, to : Row(step, fields, to)
                                 /\ {"daemon", "held", "pidfile"} \cap fields = {}
        \/ \E step, to : Row(step, {"yonderd", "exec", "staging", "held"}, to)
                         /\ (router'.held => router.held)
    BY <1>5, RemovalRows DEF Removal
  <2>. QED BY <1>1, <1>2, <2>1
<1>. QED BY <1>3, <1>4, <1>5

(* So does every step. *)
LEMMA ProcessStep == TypeOK /\ ProcessInv /\ [Next]_vars => ProcessInv'
<1>. SUFFICES ASSUME TypeOK, ProcessInv, [Next]_vars PROVE ProcessInv'
  OBVIOUS
<1>0. router \in Router
  BY DEF TypeOK
<1>1. CASE UNCHANGED vars
  BY <1>1 DEF vars, past, ProcessInv, Loose, Orphan, Runnable
<1>2. CASE Begin /\ Noting
  <2>1. router' = router /\ UNCHANGED past
    BY <1>2 DEF Begin
  <2>. QED BY <1>2, <2>1, OthersKeepProcess
<1>3. CASE InstallerStep /\ Noting
  <2>1. CASE (Preparation \/ Deployment \/ Removal) /\ UNCHANGED past
    BY <1>3, <2>1, QuietSteps, OthersKeepProcess
  <2>2. CASE SystemReboot
    BY <1>3, <2>2, RebootRow, BootKeepsProcess
  <2>3. CASE StopOld \/ StopDaemon
    <3>1. router' \in Range(Script("stop", router)) /\ Remember("stop", router)
      BY <2>3, RemovalRows, ScriptsDo
    <3>. QED BY <1>3, <3>1, ScriptKeepsProcess DEF Verbs
  <2>4. CASE StartDaemon
    <3>1. router' \in Range(Script("restart", router)) /\ Remember("restart", router)
      BY <2>4, RemovalRows, ScriptsDo
    <3>. QED BY <1>3, <3>1, ScriptKeepsProcess DEF Verbs
  <2>. QED BY <1>3, <2>1, <2>2, <2>3, <2>4 DEF InstallerStep
<1>4. CASE Around /\ Noting
  <2>1. CASE Cut
    <3>1. router' = router /\ UNCHANGED past
      BY <2>1 DEF Cut
    <3>. QED BY <1>4, <3>1, OthersKeepProcess
  <2>2. CASE Reboot
    <3>1. router' = Boot(router) /\ RememberBoot
      BY <2>2 DEF Reboot
    <3>. QED BY <1>4, <3>1, BootKeepsProcess
  <2>3. CASE Unpacks
    <3>1. UNCHANGED past /\ router' = [router EXCEPT !.tarball = "none", !.entware = TRUE]
      BY <2>3 DEF Unpacks
    <3>2. /\ router'.daemon = router.daemon /\ router'.pidfile = router.pidfile
          /\ router'.held = router.held
      BY <1>0, <3>1 DEF Router
    <3>. QED BY <1>4, <3>1, <3>2, OthersKeepProcess
  <2>4. CASE DaemonDies
    <3>1. /\ router' = [router EXCEPT !.daemon = "none", !.held = FALSE,
                          !.pidfile = IF router.pidfile = "daemon" THEN "dead"
                                      ELSE router.pidfile]
          /\ died' = TRUE /\ UNCHANGED <<cutStart, victim>>
      BY <2>4 DEF DaemonDies
    <3>2. router'.daemon = "none" /\ router'.held = FALSE
      BY <1>0, <3>1 DEF Router
    <3>. QED BY <3>1, <3>2 DEF ProcessInv, Loose, Orphan
  <2>5. CASE PidReused
    <3>1. /\ UNCHANGED past /\ router.pidfile = "dead"
          /\ router' = [router EXCEPT !.pidfile = "foreign"]
      BY <2>5 DEF PidReused
    <3>2. router'.daemon = router.daemon /\ router'.held = router.held
      BY <1>0, <3>1 DEF Router
    <3>. QED BY <1>4, <3>1, <3>2, OthersKeepProcess
  <2>6. CASE FirewallReload
    <3>1. UNCHANGED past /\ router' = [router EXCEPT !.rules = 0]
      BY <2>6 DEF FirewallReload
    <3>2. /\ router'.daemon = router.daemon /\ router'.pidfile = router.pidfile
          /\ router'.held = router.held
      BY <1>0, <3>1 DEF Router
    <3>. QED BY <1>4, <3>1, <3>2, OthersKeepProcess
  <2>7. CASE ByHand
    <3>1. PICK verb \in Verbs : /\ router' = Last(Script(verb, router))
                                /\ Remember(verb, router)
      BY <2>7 DEF ByHand, Verbs
    <3>2. router' \in Range(Script(verb, router))
      BY <1>0, <3>1, ScriptCourse, CourseStates
    <3>. QED BY <1>4, <3>1, <3>2, ScriptKeepsProcess
  <2>. QED BY <1>4, <2>1, <2>2, <2>3, <2>4, <2>5, <2>6, <2>7 DEF Around
<1>. QED BY <1>1, <1>2, <1>3, <1>4 DEF Next

(* No daemon runs at first. *)
LEMMA InitProcess == Init => ProcessInv
<1>. SUFFICES ASSUME Init PROVE ProcessInv
  OBVIOUS
<1>1. router.daemon = "none" /\ router.held = FALSE /\ router.pidfile = "none"
  <2>1. PICK disk, entware \in BOOLEAN : router = Bare(disk, entware)
    BY DEF Init
  <2>2. /\ Bare(disk, entware).daemon = "none" /\ Bare(disk, entware).held = FALSE
        /\ Bare(disk, entware).pidfile = "none"
    BY DEF Bare
  <2>. QED BY <2>1, <2>2
<1>2. victim = FALSE
  BY DEF Init
<1>. QED BY <1>1, <1>2 DEF ProcessInv, Loose, Orphan

(* The daemon and its pid file agree, but for a daemon that died or a      *)
(* start that was cut, in every state.                                     *)
THEOREM ProcessAlways == Spec => [](TypeOK /\ ProcessInv)
<1>1. Init => TypeOK /\ ProcessInv
  BY InitTyped, InitProcess
<1>2. TypeOK /\ ProcessInv /\ [Next]_vars => (TypeOK /\ ProcessInv)'
  BY NextTyped, ProcessStep
<1>. QED BY <1>1, <1>2, PTL DEF Spec

(* The init script kills a process of somebody else's only where a daemon  *)
(* has died and left its pid behind.                                       *)
THEOREM OthersAreSpared == Spec => []StopsOnlyOurs
<1>1. ProcessInv => StopsOnlyOurs
  BY DEF ProcessInv, StopsOnlyOurs
<1>. QED BY <1>1, ProcessAlways, PTL

(* A daemon that its pid file does not name was started by a script that   *)
(* was cut short.                                                          *)
THEOREM LooseNeedsACut == Spec => []LooseOnlyByCut
<1>1. ProcessInv => LooseOnlyByCut
  BY DEF ProcessInv, Loose, LooseOnlyByCut
<1>. QED BY <1>1, ProcessAlways, PTL
-----------------------------------------------------------------------------
(* What a run has put in place by the time it is at a step. *)

AfterXKeen  == {"find?", "find", "accounts?", "accounts", "geo?", "geoip", "geosite",
                "stop", "bin1", "bin2", "bin3", "bin4", "init1", "init2", "init3",
                "init4", "firewall", "restart", "listening"}
AfterFind   == AfterXKeen \ {"find?", "find"}
AfterGeo    == {"stop", "bin1", "bin2", "bin3", "bin4", "init1", "init2", "init3",
                "init4", "firewall", "restart", "listening"}
AfterDaemon == {"init1", "init2", "init3", "init4", "firewall", "restart", "listening"}
AfterScript == {"firewall", "restart", "listening"}

Good(f) == router[f] = "whole" \/ f \in trusted

PlaceInv ==
    /\ at \in AfterXKeen => Good("xkeen") /\ Good("xray")
    /\ at \in AfterFind => Good("find")
    /\ at = "geosite" => router.geoip = "whole"
    /\ at \in AfterGeo => Good("geoip") /\ Good("geosite")
    /\ at = "bin3" => router.staging["yonderd"] = <<Fragment(1)>>
    /\ at = "bin4" => router.staging["yonderd"] = <<Fragment(1), Fragment(2)>>
    /\ at \in AfterDaemon => router.yonderd = rel /\ "yonderd" \in router.exec
    /\ at = "init3" => router.staging["S99yonder"] = <<Fragment(1)>>
    /\ at = "init4" => router.staging["S99yonder"] = <<Fragment(1), Fragment(2)>>
    /\ at \in AfterScript => router.S99yonder = rel /\ "S99yonder" \in router.exec

(* At the steps before, nothing is in place yet. *)
Early == Steps \ AfterXKeen

(* Before xkeen is tested nothing is claimed. *)
LEMMA EarlyPlace == at' \in Early => PlaceInv'
BY DEF Early, AfterXKeen, AfterFind, AfterGeo, AfterDaemon, AfterScript, PlaceInv

(* Steps that change no file keep what is there. *)
LEMMA GoodStays ==
    ASSUME NEW f, router'[f] = router[f], trusted \subseteq trusted', Good(f)
    PROVE  Good(f)'
BY DEF Good

(* A step of the run adds what the next one relies on. *)
LEMMA StepPlace ==
    ASSUME TypeOK, PlaceInv, InstallerStep
    PROVE  PlaceInv'
<1>0. router \in Router /\ rel \in Releases
  BY DEF TypeOK
<1>. USE DEF AfterXKeen, AfterFind, AfterGeo, AfterDaemon, AfterScript
<1>1. ASSUME \E step, fields, to : Row(step, fields, to) /\ to \subseteq Early
      PROVE  PlaceInv'
  BY <1>1, EarlyPlace DEF Row
<1>2. \A S \in {{"shell", "preflight", "off"}, {"disk", "off"}, {"undisk", "save", "off"},
                {"disk2", "off"}, {"save", "off"}, {"save"}, {"reboot", "off"}, {"wait"},
                {"shell", "off"}, {"xkeen?", "stopDaemon", "off"}, {"curl"}, {"xkeen", "off"},
                {"verify"}, {"rmInit"}, {"rmApp"}, {"closePort"}, {"off"}} : S \subseteq Early
  BY DEF Early, Steps
<1>3. CASE XKeenThere \/ VerifyXKeen
  <2>1. PICK step : /\ \/ Row(step, {}, {"find?", "cleanup"})
                       \/ Row(step, {}, {"find?", "off"})
                    /\ at' = "find?" => /\ xkeenFullyInstalled
                                        /\ router.xray = "part" => "xray" \in trusted'
    BY <1>3, PackageRows
  <2>2. router'.xkeen = router.xkeen /\ router'.xray = router.xray
    BY <2>1, RowKeeps
  <2>3. CASE at' = "find?"
    <3>1. Good("xkeen")' /\ Good("xray")'
      BY <1>0, <2>1, <2>2, <2>3 DEF Good, xkeenFullyInstalled, Router
    <3>. QED BY <2>3, <3>1 DEF PlaceInv
  <2>4. CASE at' \in {"cleanup", "off"}
    BY <2>4, EarlyPlace DEF Early, Steps
  <2>. QED BY <2>1, <2>3, <2>4 DEF Row
<1>4. ASSUME NEW step \in AfterXKeen, NEW fields, NEW to, Row(step, fields, to),
             {"xkeen", "xray"} \cap fields = {}
      PROVE  Good("xkeen")' /\ Good("xray")'
  <2>1. /\ router'.xkeen = router.xkeen /\ router'.xray = router.xray
        /\ trusted \subseteq trusted' /\ at \in AfterXKeen
    BY <1>4, RowKeeps
  <2>. QED BY <2>1, GoodStays DEF PlaceInv
<1>5. ASSUME NEW step \in AfterFind, NEW fields, NEW to, Row(step, fields, to),
             "find" \notin fields
      PROVE  Good("find")'
  <2>1. router'.find = router.find /\ trusted \subseteq trusted' /\ at \in AfterFind
    BY <1>5, RowKeeps
  <2>. QED BY <2>1, GoodStays DEF PlaceInv
<1>6. ASSUME NEW step \in AfterGeo, NEW fields, NEW to, Row(step, fields, to),
             {"geoip", "geosite"} \cap fields = {}
      PROVE  Good("geoip")' /\ Good("geosite")'
  <2>1. /\ router'.geoip = router.geoip /\ router'.geosite = router.geosite
        /\ trusted \subseteq trusted' /\ at \in AfterGeo
    BY <1>6, RowKeeps
  <2>. QED BY <2>1, GoodStays DEF PlaceInv
<1>7. CASE FindThere
  <2>1. /\ Row("find?", {}, {"accounts?", "find"})
        /\ at' = "accounts?" => router.find # "none"
    BY <1>7, PackageRows
  <2>2. Good("xkeen")' /\ Good("xray")'
    BY <1>4, <2>1
  <2>3. at' = "accounts?" => Good("find")'
    BY <1>0, <2>1, RowKeeps DEF Good, Router
  <2>4. at' \in {"accounts?", "find"}
    BY <2>1, RowKeeps
  <2>. QED BY <2>2, <2>3, <2>4 DEF PlaceInv
<1>8. CASE InstallFind
  <2>1. /\ Row("find", {"find"}, {"accounts?", "off"})
        /\ at' = "accounts?" => router'.find = "whole"
    BY <1>8, PackageRows
  <2>2. Good("xkeen")' /\ Good("xray")'
    BY <1>4, <2>1
  <2>3. at' \in {"accounts?", "off"}
    BY <2>1, RowKeeps
  <2>. QED BY <2>1, <2>2, <2>3 DEF PlaceInv, Good
<1>9. CASE AccountsThere \/ SeedAccounts
  <2>1. \/ Row("accounts?", {}, {"geo?", "accounts"})
        \/ Row("accounts", {"accounts"}, {"geo?"})
    BY <1>9, PackageRows
  <2>2. Good("xkeen")' /\ Good("xray")' /\ Good("find")'
    BY <1>4, <1>5, <2>1
  <2>3. at' \in {"geo?", "accounts"}
    BY <2>1, RowKeeps
  <2>. QED BY <2>2, <2>3 DEF PlaceInv
<1>10. CASE GeoThere
  <2>1. /\ Row("geo?", {}, {"stop", "geoip"})
        /\ at' = "stop" =>
              /\ router.geoip # "none" /\ router.geosite # "none"
              /\ router.geoip = "part" => "geoip" \in trusted'
              /\ router.geosite = "part" => "geosite" \in trusted'
    BY <1>10, PackageRows
  <2>2. Good("xkeen")' /\ Good("xray")' /\ Good("find")'
    BY <1>4, <1>5, <2>1
  <2>3. at' \in {"stop", "geoip"} /\ router'.geoip = router.geoip /\ router'.geosite = router.geosite
    BY <2>1, RowKeeps
  <2>4. at' = "stop" => Good("geoip")' /\ Good("geosite")'
    BY <1>0, <2>1, <2>3 DEF Good, Router
  <2>. QED BY <2>2, <2>3, <2>4 DEF PlaceInv
<1>11. CASE FetchGeoIP
  <2>1. /\ Row("geoip", {"geoip"}, {"geosite", "off"})
        /\ at' = "geosite" => router'.geoip = "whole"
    BY <1>11, PackageRows
  <2>2. Good("xkeen")' /\ Good("xray")' /\ Good("find")'
    BY <1>4, <1>5, <2>1
  <2>3. at' \in {"geosite", "off"}
    BY <2>1, RowKeeps
  <2>. QED BY <2>1, <2>2, <2>3 DEF PlaceInv
<1>12. CASE FetchGeoSite
  <2>1. /\ Row("geosite", {"geosite"}, {"stop", "off"})
        /\ at' = "stop" => router'.geosite = "whole"
    BY <1>12, PackageRows
  <2>2. Good("xkeen")' /\ Good("xray")' /\ Good("find")'
    BY <1>4, <1>5, <2>1
  <2>3. at' \in {"stop", "off"} /\ router'.geoip = router.geoip /\ at = "geosite"
    BY <2>1, RowKeeps
  <2>4. at' = "stop" => Good("geoip")' /\ Good("geosite")'
    BY <2>1, <2>3 DEF Good, PlaceInv
  <2>. QED BY <2>2, <2>3, <2>4 DEF PlaceInv
<1>. DEFINE Others == /\ Good("xkeen")' /\ Good("xray")' /\ Good("find")'
                      /\ Good("geoip")' /\ Good("geosite")'
<1>13. ASSUME NEW step \in AfterGeo, NEW fields, NEW to, Row(step, fields, to),
              {"xkeen", "xray", "find", "geoip", "geosite"} \cap fields = {}
       PROVE  Others
  BY <1>4, <1>5, <1>6, <1>13
<1>14. CASE StopOld
  <2>1. Row("stop", Process, {"bin1"})
    BY <1>14, RemovalRows
  <2>2. Others
    BY <1>13, <2>1 DEF Process
  <2>3. at' = "bin1"
    BY <2>1, RowKeeps
  <2>. QED BY <2>2, <2>3 DEF PlaceInv
<1>15. ASSUME rel' = rel PROVE Fragment(1)' = Fragment(1) /\ Fragment(2)' = Fragment(2)
  BY <1>15 DEF Fragment
<1>16. Append(<<Fragment(1)>>, Fragment(2)) = <<Fragment(1), Fragment(2)>>
  <2>1. ASSUME NEW a, NEW b PROVE Append(<<a>>, b) = <<a, b>>
    <3>. DEFINE s == Append(<<a>>, b)
                S == {a, b}
    <3>1. <<a>> \in Seq(S) /\ b \in S /\ Len(<<a>>) = 1 /\ <<a>>[1] = a
      OBVIOUS
    <3>2. <<a, b>> \in Seq(S) /\ Len(<<a, b>>) = 2 /\ <<a, b>>[1] = a /\ <<a, b>>[2] = b
      OBVIOUS
    <3>3. s \in Seq(S) /\ Len(s) = 2 /\ s[1] = a /\ s[2] = b
      <4>. HIDE DEF S
      <4>. QED BY <3>1, AppendProperties
    <3>. HIDE DEF s, S
    <3>4. \A i \in 1..Len(s) : s[i] = <<a, b>>[i]
      BY <3>2, <3>3
    <3>5. s = <<a, b>>
      BY <3>2, <3>3, <3>4, SeqEqual
    <3>. QED BY <3>5 DEF s
  <2>. QED BY <2>1
<1>17. ASSUME NEW f \in Ours, router.staging[f] = <<Fragment(1), Fragment(2)>>
       PROVE  Decoded(f) = rel
  BY <1>17 DEF Decoded
<1>18. CASE UploadDaemon
  <2>1. UploadedIs("yonderd", "bin1", "bin2", "bin3", "bin4", "init1")
    BY <1>18, DeploymentRows
  <2>2. CASE Row("bin1", {"staging"}, {"bin2", "off"})
    <3>1. Others
      BY <1>13, <2>2
    <3>2. at' \in {"bin2", "off"}
      BY <2>2, RowKeeps
    <3>. QED BY <3>1, <3>2 DEF PlaceInv
  <2>3. CASE /\ Row("bin2", {"staging"}, {"bin3", "off"})
             /\ at' = "bin3" => router'.staging["yonderd"] = <<Fragment(1)>>
    <3>1. Others
      BY <1>13, <2>3
    <3>2. at' \in {"bin3", "off"} /\ rel' = rel
      BY <2>3, RowKeeps
    <3>3. at' = "bin3" => router'.staging["yonderd"] = <<Fragment(1)'>>
      BY <1>15, <2>3, <3>2
    <3>. QED BY <3>1, <3>2, <3>3 DEF PlaceInv
  <2>4. CASE /\ Row("bin3", {"staging"}, {"bin4", "off"})
             /\ at' = "bin4" => router'.staging["yonderd"]
                                  = Append(router.staging["yonderd"], Fragment(2))
    <3>1. Others
      BY <1>13, <2>4
    <3>2. at' \in {"bin4", "off"} /\ rel' = rel /\ at = "bin3"
      BY <2>4, RowKeeps
    <3>3. at' = "bin4" => router'.staging["yonderd"] = <<Fragment(1)', Fragment(2)'>>
      BY <1>15, <1>16, <2>4, <3>2 DEF PlaceInv
    <3>. QED BY <3>1, <3>2, <3>3 DEF PlaceInv
  <2>5. CASE /\ Row("bin4", {"yonderd", "staging", "exec"}, {"init1", "off"})
             /\ at' = "init1" => router'.yonderd = Decoded("yonderd") /\ "yonderd" \in router'.exec
    <3>1. Others
      BY <1>13, <2>5
    <3>2. at' \in {"init1", "off"} /\ rel' = rel /\ at = "bin4"
      BY <2>5, RowKeeps
    <3>3. Decoded("yonderd") = rel
      BY <1>17, <3>2 DEF PlaceInv, Ours
    <3>. QED BY <2>5, <3>1, <3>2, <3>3 DEF PlaceInv
  <2>. QED BY <2>1, <2>2, <2>3, <2>4, <2>5 DEF UploadedIs
<1>19. CASE TextBusy
  BY <1>1, <1>2, <1>19, DeploymentRows
<1>20. ASSUME NEW step \in AfterDaemon, NEW fields, NEW to, Row(step, fields, to),
              "yonderd" \notin fields, "exec" \notin fields \/ router.exec \subseteq router'.exec
       PROVE  router'.yonderd = rel' /\ "yonderd" \in router'.exec
  BY <1>20, RowKeeps DEF PlaceInv
<1>21. CASE UploadScript
  <2>1. UploadedIs("S99yonder", "init1", "init2", "init3", "init4", "firewall")
    BY <1>21, DeploymentRows
  <2>2. CASE Row("init1", {"staging"}, {"init2", "off"})
    <3>1. Others /\ router'.yonderd = rel' /\ "yonderd" \in router'.exec
      BY <1>13, <1>20, <2>2
    <3>2. at' \in {"init2", "off"}
      BY <2>2, RowKeeps
    <3>. QED BY <3>1, <3>2 DEF PlaceInv
  <2>3. CASE /\ Row("init2", {"staging"}, {"init3", "off"})
             /\ at' = "init3" => router'.staging["S99yonder"] = <<Fragment(1)>>
    <3>1. Others /\ router'.yonderd = rel' /\ "yonderd" \in router'.exec
      BY <1>13, <1>20, <2>3
    <3>2. at' \in {"init3", "off"} /\ rel' = rel
      BY <2>3, RowKeeps
    <3>3. at' = "init3" => router'.staging["S99yonder"] = <<Fragment(1)'>>
      BY <1>15, <2>3, <3>2
    <3>. QED BY <3>1, <3>2, <3>3 DEF PlaceInv
  <2>4. CASE /\ Row("init3", {"staging"}, {"init4", "off"})
             /\ at' = "init4" => router'.staging["S99yonder"]
                                  = Append(router.staging["S99yonder"], Fragment(2))
    <3>1. Others /\ router'.yonderd = rel' /\ "yonderd" \in router'.exec
      BY <1>13, <1>20, <2>4
    <3>2. at' \in {"init4", "off"} /\ rel' = rel /\ at = "init3"
      BY <2>4, RowKeeps
    <3>3. at' = "init4" => router'.staging["S99yonder"] = <<Fragment(1)', Fragment(2)'>>
      BY <1>15, <1>16, <2>4, <3>2 DEF PlaceInv
    <3>. QED BY <3>1, <3>2, <3>3 DEF PlaceInv
  <2>5. CASE /\ Row("init4", {"S99yonder", "staging", "exec"}, {"firewall", "off"})
             /\ at' = "firewall" => router'.S99yonder = Decoded("S99yonder")
                                    /\ "S99yonder" \in router'.exec
             /\ router.exec \subseteq router'.exec
    <3>1. Others /\ router'.yonderd = rel' /\ "yonderd" \in router'.exec
      BY <1>13, <1>20, <2>5
    <3>2. at' \in {"firewall", "off"} /\ rel' = rel /\ at = "init4"
      BY <2>5, RowKeeps
    <3>3. Decoded("S99yonder") = rel
      BY <1>17, <3>2 DEF PlaceInv, Ours
    <3>. QED BY <2>5, <3>1, <3>2, <3>3 DEF PlaceInv
  <2>. QED BY <2>1, <2>2, <2>3, <2>4, <2>5 DEF UploadedIs
<1>22. CASE OpenFirewallPort \/ StartDaemon
  <2>1. \/ Row("firewall", {"rules"}, {"restart"})
        \/ Row("restart", Process, {"listening"})
    BY <1>22, DeploymentRows, RemovalRows
  <2>2. Others /\ router'.yonderd = rel' /\ "yonderd" \in router'.exec
    BY <1>13, <1>20, <2>1 DEF Process
  <2>3. /\ at \in AfterScript /\ at' \in {"restart", "listening"} /\ rel' = rel
        /\ router'.S99yonder = router.S99yonder /\ router'.exec = router.exec
    BY <2>1, RowKeeps DEF Process
  <2>. QED BY <2>2, <2>3 DEF PlaceInv
<1>23. CASE Listening \/ CloseFirewallPort
  BY <1>1, <1>2, <1>23, DeploymentRows, RemovalRows
<1>24. CASE Cleanup \/ InstallCurl \/ RunXKeenInstaller
  BY <1>1, <1>2, <1>24, PackageRows
<1>25. CASE StopDaemon \/ RemoveInitScript \/ RemoveApp
  BY <1>1, <1>2, <1>25, RemovalRows
<1>26. CASE SystemReboot
  BY <1>1, <1>2, <1>26, RebootRow
<1>27. CASE \/ Ready \/ Preflight \/ OpkgDisk \/ NoOpkgDisk \/ OpkgDiskAgain
            \/ OpkgDiskRefused \/ SaveConfig \/ Wait \/ Shell
  BY <1>1, <1>2, <1>27, BootstrapRows
<1>. QED BY <1>3, <1>7, <1>8, <1>9, <1>10, <1>11, <1>12, <1>14, <1>18, <1>19, <1>21,
            <1>22, <1>23, <1>24, <1>25, <1>26, <1>27
         DEF InstallerStep, Preparation, Deployment, Removal

(* Nothing that happens around the run takes it away. *)
LEMMA PlaceStep == TypeOK /\ PlaceInv /\ [Next]_vars => PlaceInv'
<1>. SUFFICES ASSUME TypeOK, PlaceInv, [Next]_vars PROVE PlaceInv'
  OBVIOUS
<1>1. CASE Begin
  <2>1. at' \in Early
    BY <1>1, BeginTyped DEF Early, Steps, AfterXKeen
  <2>. QED BY <2>1, EarlyPlace
<1>2. CASE InstallerStep
  BY <1>2, StepPlace
<1>3. CASE Around
  <2>1. Beside
    BY <1>3, AroundIs
  <2>2. /\ UNCHANGED <<at, rel, trusted>>
        /\ router'.xkeen = router.xkeen /\ router'.xray = router.xray
        /\ router'.find = router.find /\ router'.geoip = router.geoip
        /\ router'.geosite = router.geosite /\ router'.staging = router.staging
        /\ router'.yonderd = router.yonderd /\ router'.exec = router.exec
        /\ router'.S99yonder = router.S99yonder
    BY <2>1 DEF Beside, Only, Field, Volatile
  <2>3. \A f \in {"xkeen", "xray", "find", "geoip", "geosite"} : Good(f) => Good(f)'
    BY <2>2 DEF Good
  <2>. QED BY <2>2, <2>3 DEF PlaceInv, Fragment
<1>4. CASE UNCHANGED vars
  BY <1>4 DEF vars, run, PlaceInv, Good, Fragment
<1>. QED BY <1>1, <1>2, <1>3, <1>4 DEF Next

(* At every step of every run, what the earlier steps put in place is      *)
(* there.                                                                  *)
THEOREM PlaceAlways == Spec => [](TypeOK /\ ProcessInv /\ PlaceInv)
<1>1. Init => PlaceInv
  BY DEF Init, PlaceInv, AfterXKeen, AfterFind, AfterGeo, AfterDaemon, AfterScript
<1>2. TypeOK /\ PlaceInv /\ [Next]_vars => PlaceInv'
  BY PlaceStep
<1>. QED BY <1>1, <1>2, ProcessAlways, PTL DEF Spec

(* Only a step of the run itself ends it, and a row says how. *)
LEMMA EndsByRow ==
    ASSUME TypeOK, [Next]_vars, NEW verdict, Ends(verdict)
    PROVE  /\ InstallerStep /\ verdict = Ending
           /\ trouble => trouble'
           /\ \/ Ending # "failed"
              \/ trouble' \/ at \in {"ready", "verify", "bin4"}
<1>1. at # "off" /\ at' = "off" /\ said' = verdict
  BY DEF Ends
<1>2. ~Begin /\ ~UNCHANGED vars
  BY <1>1 DEF Begin, vars, run
<1>3. ~Around
  BY <1>1, AroundIs DEF Beside
<1>4. InstallerStep
  BY <1>2, <1>3 DEF Next
<1>5. PICK step, fields, to : Row(step, fields, to)
  BY <1>4, StepTyped
<1>. QED BY <1>1, <1>4, <1>5 DEF Row

(* "Done" is printed only when the daemon and its script of this release   *)
(* are in place, and all else but what a test of the run was wrong about.  *)
THEOREM DoneIsInPlace == Spec => DoneMeansInPlace
<1>1. ASSUME TypeOK, PlaceInv, [Next]_vars, Ends("done")
      PROVE  /\ \A f \in Ours : router[f] = rel /\ f \in router.exec
             /\ \A f \in Kept \ {"accounts"} : router[f] = "whole" \/ f \in trusted
  <2>1. at = "listening"
    BY <1>1, EndsByRow DEF Ending
  <2>. QED BY <1>1, <2>1
           DEF PlaceInv, AfterXKeen, AfterFind, AfterGeo, AfterDaemon, AfterScript,
               Good, Ours, Kept
<1>2. TypeOK /\ PlaceInv /\ [Next]_vars =>
        [Ends("done") =>
            /\ \A f \in Ours : router[f] = rel /\ f \in router.exec
            /\ \A f \in Kept \ {"accounts"} : router[f] = "whole" \/ f \in trusted]_vars
  BY <1>1
<1>. QED BY <1>2, PlaceAlways, PTL DEF Spec, DoneMeansInPlace
-----------------------------------------------------------------------------
(* What a run knows as long as nothing has gone wrong in it. *)

(* The two geo files are fetched in one order. *)
GeoInv == router.geosite # "none" => router.geoip # "none"

AfterAccounts == {"geo?", "geoip", "geosite", "stop", "bin1", "bin2", "bin3", "bin4",
                  "init1", "init2", "init3", "init4", "firewall", "restart", "listening"}

Smooth ==
    /\ at = "disk2" => ~router.diskSet
    /\ at = "save" => router.diskSet /\ router.tarball = "pending"
    /\ at = "reboot" => router.diskSaved /\ router.tarball = "pending"
    /\ at = "cleanup" => ~xkeenFullyInstalled
    /\ at \in {"curl", "xkeen"} => router.xkeen = "none"
    /\ at = "verify" => xkeenFullyInstalled
    /\ at = "accounts" => router.accounts = "none"
    /\ at \in AfterAccounts => Good("accounts")
    /\ at \in {"geoip", "geosite"} => router.geosite = "none"
    /\ at \in {"bin1", "bin2", "bin3", "bin4"} => ~router.held \/ cutStart \/ orphaned
    /\ at \in {"restart", "listening"} => router.rules = 1
    /\ at = "listening" => (router.daemon = rel /\ router.pidfile = "daemon") \/ cutStart
    /\ at \in {"rmInit", "rmApp", "closePort"} =>
          router.daemon = "none" \/ cutStart \/ orphaned
    /\ at \in {"rmApp", "closePort"} => router.S99yonder = "none"
    /\ at = "closePort" => router.yonderd = "none" /\ router.staging["yonderd"] = <<>>

SmoothInv == trouble \/ Smooth

(* The history of the router is not forgotten. *)
LEMMA HistoryGrows ==
    ASSUME [Next]_vars
    PROVE  (cutStart => cutStart') /\ (orphaned => orphaned')
<1>1. CASE UNCHANGED vars
  BY <1>1 DEF vars, past
<1>2. CASE Next
  <2>1. Noting
    BY <1>2 DEF Next
  <2>2. \/ UNCHANGED cutStart
        \/ \E verb, r : Remember(verb, r)
    <3>1. CASE Begin
      BY <3>1 DEF Begin, past
    <3>2. CASE InstallerStep
      BY <3>2 DEF InstallerStep, SystemReboot, RememberBoot, StopOld, StartDaemon,
                  StopDaemon, past
    <3>3. CASE Around
      BY <3>3 DEF Around, Cut, Reboot, RememberBoot, Unpacks, DaemonDies, PidReused,
                  FirewallReload, ByHand, past
    <3>. QED BY <1>2, <3>1, <3>2, <3>3 DEF Next
  <2>3. orphaned => orphaned'
    BY <2>1 DEF Noting
  <2>4. ASSUME NEW verb, NEW r, Remember(verb, r), cutStart PROVE cutStart'
    BY <2>4 DEF Remember
  <2>. QED BY <2>2, <2>3, <2>4
<1>. QED BY <1>1, <1>2

(* A step of the run keeps that order. *)
LEMMA StepGeo ==
    ASSUME TypeOK, PlaceInv, GeoInv, InstallerStep
    PROVE  GeoInv'
<1>1. ASSUME NEW step, NEW fields, NEW to, Row(step, fields, to),
             {"geoip", "geosite"} \cap fields = {}
      PROVE  GeoInv'
  BY <1>1, RowKeeps DEF GeoInv
<1>2. CASE FetchGeoIP
  <2>1. /\ Row("geoip", {"geoip"}, {"geosite", "off"})
        /\ router.geoip # "none" => router'.geoip # "none"
    BY <1>2, PackageRows
  <2>. QED BY <2>1, RowKeeps DEF GeoInv
<1>3. CASE FetchGeoSite
  <2>1. Row("geosite", {"geosite"}, {"stop", "off"})
    BY <1>3, PackageRows
  <2>2. router'.geoip = router.geoip /\ at = "geosite"
    BY <2>1, RowKeeps
  <2>. QED BY <2>2 DEF GeoInv, PlaceInv
<1>4. CASE \/ Ready \/ Preflight \/ OpkgDisk \/ NoOpkgDisk \/ OpkgDiskAgain
           \/ OpkgDiskRefused \/ SaveConfig \/ Wait \/ Shell
  BY <1>1, <1>4, BootstrapRows
<1>5. CASE \/ XKeenThere \/ Cleanup \/ InstallCurl \/ RunXKeenInstaller \/ VerifyXKeen
           \/ FindThere \/ InstallFind \/ AccountsThere \/ SeedAccounts \/ GeoThere
  BY <1>1, <1>5, PackageRows
<1>6. CASE Deployment
  BY <1>1, <1>6, DeploymentRows DEF Deployment, UploadedIs
<1>7. CASE Removal \/ StopOld \/ StartDaemon \/ StopDaemon
  <2>1. {"geoip", "geosite"} \cap Process = {}
    BY DEF Process
  <2>. QED BY <1>1, <1>7, <2>1, RemovalRows DEF Removal
<1>8. CASE SystemReboot
  <2>1. {"geoip", "geosite"} \cap Volatile = {}
    BY DEF Volatile
  <2>. QED BY <1>1, <1>8, <2>1, RebootRow
<1>. QED BY <1>2, <1>3, <1>4, <1>5, <1>6, <1>7, <1>8 DEF InstallerStep, Preparation

(* Steps at which nothing is known yet. *)
Idle == {"off", "ready", "preflight", "disk", "undisk", "wait", "shell", "xkeen?",
         "find?", "find", "accounts?", "stopDaemon"}

(* At those nothing has to be shown. *)
LEMMA IdleSmooth == at' \in Idle => Smooth'
BY DEF Idle, AfterAccounts, Smooth

(* A step in which nothing goes wrong leads to what the next one knows. *)
LEMMA StepSmooth ==
    ASSUME TypeOK, ProcessInv, PlaceInv, GeoInv, Smooth, InstallerStep, Noting, ~trouble'
    PROVE  Smooth'
<1>0. router \in Router /\ cutStart \in BOOLEAN /\ orphaned \in BOOLEAN
  BY DEF TypeOK
<1>1. (cutStart => cutStart') /\ (orphaned => orphaned')
  BY HistoryGrows DEF Next
<1>2. ASSUME NEW step, NEW fields, NEW to, Row(step, fields, to), to \subseteq Idle
      PROVE  Smooth'
  BY <1>2, IdleSmooth DEF Row
<1>3. CASE Ready \/ Preflight \/ Wait \/ Shell
  <2>1. \A S \in {{"shell", "preflight", "off"}, {"disk", "off"}, {"shell", "off"},
                  {"xkeen?", "stopDaemon", "off"}} : S \subseteq Idle
    BY DEF Idle
  <2>. QED BY <1>2, <1>3, <2>1, BootstrapRows
<1>4. CASE OpkgDisk
  <2>1. /\ Row("disk", {"diskSet", "tarball"}, {"undisk", "save", "off"})
        /\ at' = "save" => router'.diskSet /\ router'.tarball = "pending"
    BY <1>4, BootstrapRows
  <2>2. at' \in {"undisk", "save", "off"}
    BY <2>1, RowKeeps
  <2>. QED BY <2>1, <2>2 DEF Smooth, AfterAccounts
<1>5. CASE NoOpkgDisk
  <2>1. /\ Row("undisk", {"diskSet"}, {"disk2", "off"})
        /\ at' = "disk2" => ~router'.diskSet
    BY <1>5, BootstrapRows
  <2>2. at' \in {"disk2", "off"}
    BY <2>1, RowKeeps
  <2>. QED BY <2>1, <2>2 DEF Smooth, AfterAccounts
<1>6. CASE OpkgDiskAgain
  <2>1. /\ Row("disk2", {"diskSet", "tarball"}, {"save", "off"})
        /\ at' = "save" => \/ router.diskSet
                           \/ router'.diskSet /\ router'.tarball = "pending"
    BY <1>6, BootstrapRows
  <2>2. at' \in {"save", "off"} /\ at = "disk2"
    BY <2>1, RowKeeps
  <2>. QED BY <2>1, <2>2 DEF Smooth, AfterAccounts
<1>7. CASE OpkgDiskRefused
  BY <1>7, BootstrapRows
<1>8. CASE SaveConfig
  <2>1. /\ Row("save", {"diskSaved"}, {"reboot", "off"})
        /\ at' = "reboot" => router'.diskSaved = router.diskSet
    BY <1>8, BootstrapRows
  <2>2. /\ at' \in {"reboot", "off"} /\ at = "save"
        /\ router'.tarball = router.tarball
    BY <2>1, RowKeeps
  <2>. QED BY <2>1, <2>2 DEF Smooth, AfterAccounts
<1>9. CASE SystemReboot
  <2>1. {"wait"} \subseteq Idle
    BY DEF Idle
  <2>. QED BY <1>2, <1>9, <2>1, RebootRow
<1>10. CASE XKeenThere
  <2>1. /\ Row("xkeen?", {}, {"find?", "cleanup"})
        /\ at' = "cleanup" => ~xkeenFullyInstalled
    BY <1>10, PackageRows
  <2>2. /\ at' \in {"find?", "cleanup"}
        /\ router'.xkeen = router.xkeen /\ router'.xray = router.xray
    BY <2>1, RowKeeps
  <2>. QED BY <2>1, <2>2 DEF Smooth, AfterAccounts, xkeenFullyInstalled
<1>11. CASE Cleanup
  <2>1. Row("cleanup", {"xkeen"}, {"curl"}) /\ router'.xkeen = "none"
    BY <1>11, PackageRows
  <2>2. at' = "curl"
    BY <2>1, RowKeeps
  <2>. QED BY <2>1, <2>2 DEF Smooth, AfterAccounts
<1>12. CASE InstallCurl
  <2>1. Row("curl", {}, {"xkeen", "off"})
    BY <1>12, PackageRows
  <2>2. at' \in {"xkeen", "off"} /\ at = "curl" /\ router'.xkeen = router.xkeen
    BY <2>1, RowKeeps
  <2>. QED BY <2>2 DEF Smooth, AfterAccounts
<1>13. CASE RunXKeenInstaller
  <2>1. /\ Row("xkeen", {"xkeen", "xray"}, {"verify"})
        /\ router'.xkeen = "whole" /\ router'.xray = "whole"
    BY <1>13, PackageRows
  <2>2. at' = "verify"
    BY <2>1, RowKeeps
  <2>. QED BY <2>1, <2>2 DEF Smooth, AfterAccounts, xkeenFullyInstalled
<1>14. CASE VerifyXKeen \/ FindThere \/ InstallFind
  <2>1. \A S \in {{"find?", "off"}, {"accounts?", "find"}, {"accounts?", "off"}} :
           S \subseteq Idle
    BY DEF Idle
  <2>. QED BY <1>2, <1>14, <2>1, PackageRows
<1>15. CASE AccountsThere
  <2>1. /\ Row("accounts?", {}, {"geo?", "accounts"})
        /\ at' = "geo?" => /\ router.accounts # "none"
                           /\ router.accounts = "part" => "accounts" \in trusted'
        /\ at' = "accounts" => router.accounts = "none"
    BY <1>15, PackageRows
  <2>2. at' \in {"geo?", "accounts"} /\ router'.accounts = router.accounts
    BY <2>1, RowKeeps
  <2>3. at' = "geo?" => Good("accounts")'
    BY <1>0, <2>1, <2>2 DEF Good, Router
  <2>. QED BY <2>1, <2>2, <2>3 DEF Smooth, AfterAccounts
<1>16. CASE SeedAccounts
  <2>1. Row("accounts", {"accounts"}, {"geo?"}) /\ router'.accounts = "whole"
    BY <1>16, PackageRows
  <2>2. at' = "geo?"
    BY <2>1, RowKeeps
  <2>. QED BY <2>1, <2>2 DEF Smooth, AfterAccounts, Good
<1>17. ASSUME NEW step \in AfterAccounts, NEW fields, NEW to, Row(step, fields, to),
              "accounts" \notin fields
       PROVE  Good("accounts")'
  <2>1. /\ router'.accounts = router.accounts
        /\ trusted \subseteq trusted' /\ at \in AfterAccounts
    BY <1>17, RowKeeps
  <2>. QED BY <2>1, GoodStays DEF Smooth
<1>18. CASE GeoThere
  <2>1. /\ Row("geo?", {}, {"stop", "geoip"})
        /\ at' = "geoip" => router.geoip = "none" \/ router.geosite = "none"
    BY <1>18, PackageRows
  <2>2. Good("accounts")'
    BY <1>17, <2>1 DEF AfterAccounts
  <2>3. at' \in {"stop", "geoip"} /\ router'.geosite = router.geosite
    BY <2>1, RowKeeps
  <2>. QED BY <2>1, <2>2, <2>3 DEF Smooth, AfterAccounts, GeoInv
<1>19. CASE FetchGeoIP \/ FetchGeoSite
  <2>1. \/ Row("geoip", {"geoip"}, {"geosite", "off"})
        \/ Row("geosite", {"geosite"}, {"stop", "off"})
    BY <1>19, PackageRows
  <2>2. Good("accounts")'
    BY <1>17, <2>1 DEF AfterAccounts
  <2>3. \/ at' \in {"stop", "off"}
        \/ at' \in {"geosite", "off"} /\ at = "geoip" /\ router'.geosite = router.geosite
    BY <2>1, RowKeeps
  <2>. QED BY <2>2, <2>3 DEF Smooth, AfterAccounts
<1>20. ASSUME router' = Last(Script("stop", router))
       PROVE  router'.daemon = "none" \/ cutStart' \/ orphaned'
  <2>1. CASE Loose(router)
    BY <1>1, <2>1 DEF ProcessInv
  <2>2. CASE ~Loose(router)
    <3>1. router'.daemon # "none" => Orphan(router)
      BY <1>0, <1>20, <2>2, ScriptWhole
    <3>. QED BY <1>1, <3>1 DEF ProcessInv
  <2>. QED BY <2>1, <2>2
<1>21. ProcessInv'
  BY ProcessStep DEF Next
<1>22. CASE StopOld
  <2>1. Row("stop", Process, {"bin1"}) /\ router' = Last(Script("stop", router))
    BY <1>22, RemovalRows
  <2>2. Good("accounts")'
    BY <1>17, <2>1 DEF AfterAccounts, Process
  <2>3. ~router'.held \/ cutStart' \/ orphaned'
    BY <1>20, <1>21, <2>1 DEF ProcessInv
  <2>4. at' = "bin1"
    BY <2>1, RowKeeps
  <2>. QED BY <2>2, <2>3, <2>4 DEF Smooth, AfterAccounts
<1>23. CASE UploadDaemon
  <2>1. UploadedIs("yonderd", "bin1", "bin2", "bin3", "bin4", "init1")
    BY <1>23, DeploymentRows
  <2>2. Good("accounts")'
    BY <1>17, <2>1 DEF AfterAccounts, UploadedIs
  <2>3. /\ at \in {"bin1", "bin2", "bin3", "bin4"} /\ router'.held = router.held
        /\ at' \in {"bin2", "bin3", "bin4", "init1", "off"}
    BY <2>1, RowKeeps DEF UploadedIs
  <2>. QED BY <1>1, <2>2, <2>3 DEF Smooth, AfterAccounts
<1>24. CASE TextBusy
  <2>1. {"off"} \subseteq Idle
    BY DEF Idle
  <2>. QED BY <1>2, <1>24, <2>1, DeploymentRows
<1>25. CASE UploadScript
  <2>1. UploadedIs("S99yonder", "init1", "init2", "init3", "init4", "firewall")
    BY <1>25, DeploymentRows
  <2>2. Good("accounts")'
    BY <1>17, <2>1 DEF AfterAccounts, UploadedIs
  <2>3. at' \in {"init2", "init3", "init4", "firewall", "off"}
    BY <2>1, RowKeeps DEF UploadedIs
  <2>. QED BY <2>2, <2>3 DEF Smooth, AfterAccounts
<1>26. CASE OpenFirewallPort
  <2>1. Row("firewall", {"rules"}, {"restart"}) /\ router'.rules = 1
    BY <1>26, DeploymentRows
  <2>2. Good("accounts")'
    BY <1>17, <2>1 DEF AfterAccounts
  <2>3. at' = "restart"
    BY <2>1, RowKeeps
  <2>. QED BY <2>1, <2>2, <2>3 DEF Smooth, AfterAccounts
<1>27. CASE StartDaemon
  <2>1. Row("restart", Process, {"listening"}) /\ router' = Last(Script("restart", router))
    BY <1>27, RemovalRows
  <2>2. Good("accounts")'
    BY <1>17, <2>1 DEF AfterAccounts, Process
  <2>3. /\ at = "restart" /\ at' = "listening" /\ rel' = rel
        /\ router'.rules = router.rules
    BY <2>1, RowKeeps DEF Process
  <2>4. (router'.daemon = rel /\ router'.pidfile = "daemon") \/ cutStart'
    <3>1. CASE Loose(router)
      BY <1>1, <3>1 DEF ProcessInv
    <3>2. CASE ~Loose(router)
      <4>1. Runnable(router, "S99yonder") /\ Runnable(router, "yonderd")
            /\ router.yonderd = rel
        BY <2>3 DEF PlaceInv, Runnable, AfterScript, AfterDaemon, TypeOK
      <4>. QED BY <1>0, <2>1, <3>2, <4>1, ScriptWhole
    <3>. QED BY <3>1, <3>2
  <2>. QED BY <2>2, <2>3, <2>4 DEF Smooth, AfterAccounts
<1>28. CASE Listening \/ CloseFirewallPort
  <2>1. {"off"} \subseteq Idle
    BY DEF Idle
  <2>. QED BY <1>2, <1>28, <2>1, DeploymentRows, RemovalRows
<1>29. CASE StopDaemon
  <2>1. Row("stopDaemon", Process, {"rmInit"}) /\ router' = Last(Script("stop", router))
    BY <1>29, RemovalRows
  <2>2. at' = "rmInit"
    BY <2>1, RowKeeps
  <2>. QED BY <1>20, <2>1, <2>2 DEF Smooth, AfterAccounts
<1>30. CASE RemoveInitScript
  <2>1. /\ Row("rmInit", {"S99yonder", "exec"}, {"rmApp"})
        /\ router'.S99yonder = "none"
    BY <1>30, RemovalRows
  <2>2. at = "rmInit" /\ at' = "rmApp" /\ router'.daemon = router.daemon
    BY <2>1, RowKeeps
  <2>. QED BY <1>1, <2>1, <2>2 DEF Smooth, AfterAccounts
<1>31. CASE RemoveApp
  <2>1. /\ Row("rmApp", {"yonderd", "exec", "staging", "held"}, {"closePort"})
        /\ router'.yonderd = "none" /\ router'.staging["yonderd"] = <<>>
    BY <1>31, RemovalRows
  <2>2. /\ at = "rmApp" /\ at' = "closePort" /\ router'.daemon = router.daemon
        /\ router'.S99yonder = router.S99yonder
    BY <2>1, RowKeeps
  <2>. QED BY <1>1, <2>1, <2>2 DEF Smooth, AfterAccounts
<1>. QED BY <1>3, <1>4, <1>5, <1>6, <1>7, <1>8, <1>9, <1>10, <1>11, <1>12, <1>13, <1>14,
            <1>15, <1>16, <1>18, <1>19, <1>22, <1>23, <1>24, <1>25, <1>26, <1>27, <1>28,
            <1>29, <1>30, <1>31
         DEF InstallerStep, Preparation, Deployment, Removal

(* And so does whatever happens around it. *)
LEMMA SmoothStep ==
    ASSUME TypeOK, ProcessInv, PlaceInv, GeoInv, SmoothInv, [Next]_vars
    PROVE  GeoInv' /\ SmoothInv'
<1>1. CASE Begin /\ Noting
  <2>1. router' = router /\ at' = "ready"
    BY <1>1, BeginTyped
  <2>2. Smooth'
    BY <2>1, IdleSmooth DEF Idle
  <2>. QED BY <2>1, <2>2 DEF GeoInv, SmoothInv
<1>2. CASE InstallerStep /\ Noting
  <2>1. GeoInv'
    BY <1>2, StepGeo
  <2>2. trouble => trouble'
    BY <1>2, StepTyped DEF Row
  <2>3. SmoothInv'
    BY <1>2, <2>2, StepSmooth DEF SmoothInv
  <2>. QED BY <2>1, <2>3
<1>3. CASE Around /\ Noting
  <2>1. Beside
    BY <1>3, AroundIs
  <2>2. UNCHANGED <<at, rel, trusted>> /\ (trouble => trouble')
        /\ router'.geoip = router.geoip /\ router'.geosite = router.geosite
    BY <2>1 DEF Beside, Only, Field, Volatile
  <2>3. CASE at = "off"
    <3>1. Smooth'
      BY <2>2, <2>3, IdleSmooth DEF Idle
    <3>. QED BY <2>2, <3>1 DEF GeoInv, SmoothInv
  <2>4. CASE trouble'
    BY <2>2, <2>4 DEF GeoInv, SmoothInv
  <2>5. CASE at # "off" /\ ~trouble'
    <3>1. /\ Only(router', {"tarball", "entware", "pidfile"})
          /\ router.tarball = "pending" => router'.tarball = "pending"
          /\ router.pidfile = "dead" \/ router'.pidfile = router.pidfile
      BY <2>1, <2>5 DEF Beside
    <3>2. /\ router'.diskSet = router.diskSet /\ router'.diskSaved = router.diskSaved
          /\ router'.xkeen = router.xkeen /\ router'.xray = router.xray
          /\ router'.accounts = router.accounts
          /\ router'.yonderd = router.yonderd /\ router'.S99yonder = router.S99yonder
          /\ router'.staging = router.staging /\ router'.rules = router.rules
          /\ router'.daemon = router.daemon /\ router'.held = router.held
      BY <3>1 DEF Only, Field
    <3>3. (cutStart => cutStart') /\ (orphaned => orphaned')
      BY HistoryGrows
    <3>4. Smooth
      BY <2>2, <2>5 DEF SmoothInv
    <3>5. Good("accounts") => Good("accounts")'
      BY <2>2, <3>2 DEF Good
    <3>6. Smooth'
      BY <2>2, <3>1, <3>2, <3>3, <3>4, <3>5 DEF Smooth, xkeenFullyInstalled
    <3>. QED BY <2>2, <3>6 DEF GeoInv, SmoothInv
  <2>. QED BY <2>3, <2>4, <2>5
<1>4. CASE UNCHANGED vars
  BY <1>4 DEF vars, run, past, GeoInv, SmoothInv, Smooth, Good, xkeenFullyInstalled
<1>. QED BY <1>1, <1>2, <1>3, <1>4 DEF Next

InstallerInv == TypeOK /\ ProcessInv /\ PlaceInv /\ GeoInv /\ SmoothInv

(* The whole invariant holds in every state. *)
LEMMA InstallerAlways == Spec => []InstallerInv
<1>1. Init => GeoInv /\ SmoothInv
  <2>. SUFFICES ASSUME Init PROVE GeoInv /\ SmoothInv
    OBVIOUS
  <2>1. PICK disk, entware \in BOOLEAN : router = Bare(disk, entware)
    BY DEF Init
  <2>2. Bare(disk, entware).geosite = "none"
    BY DEF Bare
  <2>3. at = "off"
    BY DEF Init
  <2>4. Smooth
    BY <2>3 DEF Smooth, AfterAccounts
  <2>. QED BY <2>1, <2>2, <2>4 DEF GeoInv, SmoothInv
<1>2. TypeOK /\ ProcessInv /\ PlaceInv /\ GeoInv /\ SmoothInv /\ [Next]_vars
        => (GeoInv /\ SmoothInv)'
  BY SmoothStep
<1>. QED BY <1>1, <1>2, PlaceAlways, PTL DEF Spec, InstallerInv

(* Without a warning or a failed command, "Done" means that the daemon of  *)
(* this release serves, unless a start had been cut short.                 *)
THEOREM DoneIsServing == Spec => DoneMeansServing
<1>1. ASSUME InstallerInv, [Next]_vars, Ends("done"), ~trouble'
      PROVE  /\ router.rules = 1
             /\ router.accounts = "whole" \/ "accounts" \in trusted
             /\ (router.daemon = rel /\ router.pidfile = "daemon") \/ cutStart
  <2>1. at = "listening" /\ ~trouble
    BY <1>1, EndsByRow DEF InstallerInv, Ending
  <2>. QED BY <1>1, <2>1 DEF InstallerInv, SmoothInv, Smooth, AfterAccounts, Good
<1>2. InstallerInv /\ [Next]_vars =>
        [Ends("done") /\ ~trouble' =>
            /\ router.rules = 1
            /\ router.accounts = "whole" \/ "accounts" \in trusted
            /\ (router.daemon = rel /\ router.pidfile = "daemon") \/ cutStart]_vars
  BY <1>1
<1>. QED BY <1>2, InstallerAlways, PTL DEF Spec, DoneMeansServing

(* Where a run fails though nothing went wrong in it. *)
LEMMA SmoothFailure ==
    ASSUME TypeOK, Smooth, InstallerStep, at' = "off", ~trouble', Ending = "failed"
    PROVE  cutStart \/ orphaned \/ (job = "uninstall" /\ ~router.entware)
<1>1. ASSUME NEW step, NEW fields, NEW to, Row(step, fields, to),
             step \notin {"ready", "verify", "bin4"}
      PROVE  FALSE
  BY <1>1 DEF Row
<1>2. CASE Ready
  BY <1>2, BootstrapRows
<1>3. CASE VerifyXKeen
  <2>1. Row("verify", {}, {"find?", "off"}) /\ (trouble' \/ ~xkeenFullyInstalled)
    BY <1>3, PackageRows
  <2>2. at = "verify"
    BY <2>1, RowKeeps
  <2>. QED BY <2>1, <2>2 DEF Smooth
<1>4. CASE TextBusy
  <2>1. Row("bin4", {}, {"off"}) /\ router.held
    BY <1>4, DeploymentRows
  <2>2. at = "bin4"
    BY <2>1, RowKeeps
  <2>. QED BY <2>1, <2>2 DEF Smooth
<1>5. CASE UploadDaemon
  <2>1. UploadedIs("yonderd", "bin1", "bin2", "bin3", "bin4", "init1")
    BY <1>5, DeploymentRows
  <2>. QED BY <1>1, <2>1 DEF UploadedIs
<1>6. CASE \/ Preflight \/ OpkgDisk \/ NoOpkgDisk \/ OpkgDiskAgain
           \/ OpkgDiskRefused \/ SaveConfig \/ Wait \/ Shell
  BY <1>1, <1>6, BootstrapRows
<1>7. CASE \/ XKeenThere \/ Cleanup \/ InstallCurl \/ RunXKeenInstaller
           \/ FindThere \/ InstallFind \/ AccountsThere \/ SeedAccounts
           \/ GeoThere \/ FetchGeoIP \/ FetchGeoSite
  BY <1>1, <1>7, PackageRows
<1>8. CASE UploadScript \/ OpenFirewallPort \/ Listening
  BY <1>1, <1>8, DeploymentRows DEF UploadedIs
<1>9. CASE Removal \/ StopOld \/ StartDaemon \/ StopDaemon
  BY <1>1, <1>9, RemovalRows DEF Removal
<1>10. CASE SystemReboot
  BY <1>1, <1>10, RebootRow
<1>. QED BY <1>2, <1>3, <1>4, <1>5, <1>6, <1>7, <1>8, <1>9, <1>10
         DEF InstallerStep, Preparation, Deployment

(* A run fails only if something went wrong in it, a daemon runs that no   *)
(* script can stop, or there is nothing to uninstall from.                 *)
THEOREM FailuresHaveACause == Spec => FailsOnlyForCause
<1>1. ASSUME InstallerInv, [Next]_vars, Ends("failed")
      PROVE  \/ trouble'
             \/ cutStart \/ orphaned
             \/ job = "uninstall" /\ ~router.entware
  <2>. SUFFICES ASSUME ~trouble'
                PROVE  cutStart \/ orphaned \/ (job = "uninstall" /\ ~router.entware)
    OBVIOUS
  <2>1. InstallerStep /\ ~trouble /\ at' = "off" /\ Ending = "failed"
    BY <1>1, EndsByRow DEF InstallerInv, Ends
  <2>2. Smooth /\ TypeOK
    BY <1>1, <2>1 DEF InstallerInv, SmoothInv
  <2>. QED BY <2>1, <2>2, SmoothFailure
<1>2. InstallerInv /\ [Next]_vars =>
        [Ends("failed") => \/ trouble'
                           \/ cutStart \/ orphaned
                           \/ job = "uninstall" /\ ~router.entware]_vars
  BY <1>1
<1>. QED BY <1>2, InstallerAlways, PTL DEF Spec, FailsOnlyForCause

(* At two places only one step can be taken. *)
LEMMA StepAtTwo ==
    ASSUME TypeOK, InstallerStep
    PROVE  /\ at = "closePort" => CloseFirewallPort
           /\ at = "reboot" => SystemReboot
<1>1. ASSUME NEW step, NEW fields, NEW to, Row(step, fields, to),
             step \notin {"closePort", "reboot"}
      PROVE  at \notin {"closePort", "reboot"}
  BY <1>1 DEF Row
<1>2. CASE \/ Ready \/ Preflight \/ OpkgDisk \/ NoOpkgDisk \/ OpkgDiskAgain
           \/ OpkgDiskRefused \/ SaveConfig \/ Wait \/ Shell
  BY <1>1, <1>2, BootstrapRows
<1>3. CASE \/ XKeenThere \/ Cleanup \/ InstallCurl \/ RunXKeenInstaller \/ VerifyXKeen
           \/ FindThere \/ InstallFind \/ AccountsThere \/ SeedAccounts
           \/ GeoThere \/ FetchGeoIP \/ FetchGeoSite
  BY <1>1, <1>3, PackageRows
<1>4. CASE Deployment
  BY <1>1, <1>4, DeploymentRows DEF Deployment, UploadedIs
<1>5. CASE RemoveInitScript \/ RemoveApp \/ StopOld \/ StartDaemon \/ StopDaemon
  BY <1>1, <1>5, RemovalRows
<1>6. CASE CloseFirewallPort
  BY <1>6, RemovalRows, RowKeeps
<1>7. CASE SystemReboot
  BY <1>7, RebootRow, RowKeeps
<1>. QED BY <1>2, <1>3, <1>4, <1>5, <1>6, <1>7 DEF InstallerStep, Preparation, Removal

(* An uninstall that tells its user it is done, and in which nothing went  *)
(* wrong, leaves nothing of ours, unless a daemon ran that no script of    *)
(* ours could stop.                                                        *)
THEOREM UninstallIsClean == Spec => UninstallLeavesNothing
<1>1. ASSUME InstallerInv, [Next]_vars, Ends("uninstalled"), ~trouble'
      PROVE  /\ router'.yonderd = "none" /\ router'.S99yonder = "none"
             /\ router'.staging["yonderd"] = <<>> /\ router'.rules = 0
             /\ router'.daemon = "none" \/ cutStart \/ orphaned
  <2>1. InstallerStep /\ ~trouble /\ at = "closePort"
    BY <1>1, EndsByRow DEF InstallerInv, Ending
  <2>2. Smooth /\ TypeOK
    BY <1>1, <2>1 DEF InstallerInv, SmoothInv
  <2>3. CloseFirewallPort
    BY <2>1, <2>2, StepAtTwo
  <2>4. Row("closePort", {"rules"}, {"off"}) /\ router'.rules = 0
    BY <1>1, <2>2, <2>3, RemovalRows
  <2>5. /\ router'.yonderd = router.yonderd /\ router'.S99yonder = router.S99yonder
        /\ router'.staging = router.staging /\ router'.daemon = router.daemon
    BY <2>4, RowKeeps
  <2>. QED BY <2>1, <2>2, <2>4, <2>5 DEF Smooth
<1>2. InstallerInv /\ [Next]_vars =>
        [Ends("uninstalled") /\ ~trouble' =>
            /\ router'.yonderd = "none" /\ router'.S99yonder = "none"
            /\ router'.staging["yonderd"] = <<>> /\ router'.rules = 0
            /\ router'.daemon = "none" \/ cutStart \/ orphaned]_vars
  BY <1>1
<1>. QED BY <1>2, InstallerAlways, PTL DEF Spec, UninstallLeavesNothing

(* A reboot that was ordered and went well finds a tarball to unpack.      *)
THEOREM RebootsUnpack == Spec => RebootsOnlyToUnpack
<1>1. ASSUME InstallerInv, [Next]_vars, at = "reboot", at' = "wait", ~trouble'
      PROVE  router'.tarball = "unpacking"
  <2>1. ~Begin /\ ~UNCHANGED vars
    BY <1>1 DEF Begin, vars, run
  <2>2. TypeOK
    BY <1>1 DEF InstallerInv
  <2>3. ~Around
    BY <1>1, <2>2, AroundIs DEF Beside
  <2>4. InstallerStep
    BY <1>1, <2>1, <2>3 DEF Next
  <2>5. SystemReboot
    BY <1>1, <2>2, <2>4, StepAtTwo
  <2>6. Row("reboot", Volatile, {"wait"}) /\ router' = Boot(router)
    BY <1>1, <2>2, <2>5, RebootRow
  <2>7. ~trouble /\ router \in Router
    BY <1>1, <2>2, <2>6, RowKeeps DEF TypeOK
  <2>8. router.diskSaved /\ router.tarball = "pending"
    BY <1>1, <2>7 DEF InstallerInv, SmoothInv, Smooth
  <2>. QED BY <2>6, <2>7, <2>8, BootDoes
<1>2. InstallerInv /\ [Next]_vars =>
        [at = "reboot" /\ at' = "wait" /\ ~trouble'
            => router'.tarball = "unpacking"]_vars
  BY <1>1
<1>. QED BY <1>2, InstallerAlways, PTL DEF Spec, RebootsOnlyToUnpack

(* What is complete, by name. *)
Packages == {"xkeen", "xray", "find", "accounts", "geoip", "geosite"}

Sets == {{"xkeen", "xray"}, {"find"}, {"accounts"}, {"geoip", "geosite"}}

(* A step of a run in which nothing went wrong before leaves complete sets *)
(* complete.                                                               *)
LEMMA CompleteKept ==
    ASSUME TypeOK, Smooth, InstallerStep, NEW files \in Sets, Complete(files)
    PROVE  Complete(files)'
<1>0. \A f \in files : router[f] = "whole" /\ f \in Packages
  BY DEF Complete, Sets, Packages
<1>1. ASSUME \A f \in files : router'[f] = router[f]
      PROVE  Complete(files)'
  BY <1>0, <1>1 DEF Complete
<1>2. ASSUME NEW step, NEW fields, NEW to, Row(step, fields, to), files \cap fields = {}
      PROVE  Complete(files)'
  <2>1. ASSUME NEW f \in files PROVE router'[f] = router[f]
    <3>1. f \in Field /\ f \notin fields
      BY <1>0, <1>2 DEF Packages, Field
    <3>. QED BY <1>2, <3>1 DEF Row, Only
  <2>. QED BY <1>1, <2>1
<1>3. ASSUME NEW step, NEW fields, NEW to, Row(step, fields, to), Packages \cap fields = {}
      PROVE  Complete(files)'
  <2>1. files \cap fields = {}
    BY <1>0, <1>3
  <2>. QED BY <1>2, <1>3, <2>1
<1>4. CASE \/ Ready \/ Preflight \/ OpkgDisk \/ NoOpkgDisk \/ OpkgDiskAgain
           \/ OpkgDiskRefused \/ SaveConfig \/ Wait \/ Shell
  BY <1>3, <1>4, BootstrapRows DEF Packages
<1>5. CASE \/ XKeenThere \/ InstallCurl \/ VerifyXKeen
           \/ FindThere \/ AccountsThere \/ GeoThere
  BY <1>3, <1>5, PackageRows
<1>6. CASE Cleanup
  <2>1. Row("cleanup", {"xkeen"}, {"curl"})
    BY <1>6, PackageRows
  <2>2. router.xkeen # "whole" \/ router.xray = "none"
    BY <2>1, RowKeeps DEF Smooth, xkeenFullyInstalled
  <2>3. "xkeen" \notin files
    BY <1>0, <2>2 DEF Sets
  <2>. QED BY <1>2, <2>1, <2>3
<1>7. CASE RunXKeenInstaller
  <2>1. Row("xkeen", {"xkeen", "xray"}, {"verify"})
    BY <1>7, PackageRows
  <2>2. router.xkeen = "none"
    BY <2>1, RowKeeps DEF Smooth
  <2>3. files \cap {"xkeen", "xray"} = {}
    BY <1>0, <2>2 DEF Sets
  <2>. QED BY <1>2, <2>1, <2>3
<1>8. CASE InstallFind
  <2>1. /\ Row("find", {"find"}, {"accounts?", "off"})
        /\ router'.find \in {router.find, "whole"}
    BY <1>8, PackageRows
  <2>2. CASE "find" \in files
    <3>1. files = {"find"}
      BY <2>2 DEF Sets
    <3>. QED BY <1>0, <2>1, <3>1 DEF Complete
  <2>3. CASE "find" \notin files
    BY <1>2, <2>1, <2>3
  <2>. QED BY <2>2, <2>3
<1>9. CASE SeedAccounts
  <2>1. Row("accounts", {"accounts"}, {"geo?"})
    BY <1>9, PackageRows
  <2>2. router.accounts = "none"
    BY <2>1, RowKeeps DEF Smooth
  <2>. QED BY <1>0, <1>2, <2>1, <2>2
<1>10. CASE FetchGeoIP \/ FetchGeoSite
  <2>1. \/ Row("geoip", {"geoip"}, {"geosite", "off"})
        \/ Row("geosite", {"geosite"}, {"stop", "off"})
    BY <1>10, PackageRows
  <2>2. router.geosite = "none"
    BY <2>1, RowKeeps DEF Smooth
  <2>3. files \cap {"geoip", "geosite"} = {}
    BY <1>0, <2>2 DEF Sets
  <2>. QED BY <1>2, <2>1, <2>3
<1>11. CASE Deployment
  BY <1>3, <1>11, DeploymentRows DEF Deployment, UploadedIs, Packages
<1>12. CASE Removal \/ StopOld \/ StartDaemon \/ StopDaemon
  BY <1>3, <1>12, RemovalRows DEF Removal, Packages, Process
<1>13. CASE SystemReboot
  BY <1>3, <1>13, RebootRow DEF Packages, Volatile
<1>. QED BY <1>4, <1>5, <1>6, <1>7, <1>8, <1>9, <1>10, <1>11, <1>12, <1>13
         DEF InstallerStep, Preparation

(* No run touches what is complete, unless something had gone wrong in it. *)
THEOREM CompleteIsKept == Spec => KeepsWhatIsThere
<1>1. ASSUME InstallerInv, [Next]_vars, NEW files \in Sets, Complete(files), ~trouble
      PROVE  Complete(files)'
  <2>1. TypeOK /\ Smooth
    BY <1>1 DEF InstallerInv, SmoothInv
  <2>2. CASE Begin \/ UNCHANGED vars
    BY <1>1, <2>2 DEF Begin, vars, Complete
  <2>3. CASE InstallerStep
    BY <1>1, <2>1, <2>3, CompleteKept
  <2>4. CASE Around
    <3>1. Only(router', Volatile \cup {"entware"})
      BY <2>1, <2>4, AroundIs DEF Beside
    <3>2. \A f \in files : f \in Field /\ f \notin Volatile \cup {"entware"}
      BY DEF Sets, Field, Volatile
    <3>. QED BY <1>1, <3>1, <3>2 DEF Only, Complete
  <2>. QED BY <1>1, <2>2, <2>3, <2>4 DEF Next
<1>2. InstallerInv /\ [Next]_vars =>
        [\A files \in {{"xkeen", "xray"}, {"find"}, {"accounts"}, {"geoip", "geosite"}} :
            Complete(files) => Complete(files)' \/ trouble]_vars
  BY <1>1 DEF Sets
<1>. QED BY <1>2, InstallerAlways, PTL DEF Spec, KeepsWhatIsThere
=============================================================================
