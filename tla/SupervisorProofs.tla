-------------------------- MODULE SupervisorProofs --------------------------
(***************************************************************************)
(* What worker and watchdog promise together, for every set of             *)
(* configurations and however many changes, faults and crashes there are.  *)
(***************************************************************************)
EXTENDS SupervisorProps, TLAPS

Phases == Running \cup {"none", "ok", "failed"}
Kinds  == {"none", "restart", "stop"}

(* What changes with one command. *)
LEMMA PhaseChanges ==
    ASSUME TypeOK, NEW c \in Caller, NEW ph \in Phases, Phase(c, ph)
    PROVE  /\ cmd' \in [Caller -> [kind : Kinds, phase : Phases]]
           /\ cmd'[c].phase = ph /\ cmd'[c].kind = cmd[c].kind
           /\ \A o \in Caller : o # c => cmd'[o] = cmd[o]
BY DEF TypeOK, Phase, Phases, Kinds

(* A command that begins. *)
LEMMA CommandRuns ==
    ASSUME TypeOK, NEW c \in Caller, NEW kind \in Kinds, Run(c, kind)
    PROVE  /\ cmd' \in [Caller -> [kind : Kinds, phase : Phases]]
           /\ cmd'[c].phase = "stop" /\ cmd'[c].kind = kind
           /\ \A o \in Caller : o # c => cmd'[o] = cmd[o]
BY DEF TypeOK, Run, Phases, Kinds, Running

(* One whose caller is done with it. *)
LEMMA CommandForgotten ==
    ASSUME TypeOK, NEW c \in Caller, cmd' = [cmd EXCEPT ![c] = NoCmd]
    PROVE  /\ cmd' \in [Caller -> [kind : Kinds, phase : Phases]]
           /\ cmd'[c] = NoCmd
           /\ \A o \in Caller : o # c => cmd'[o] = cmd[o]
BY DEF TypeOK, NoCmd, Phases, Kinds

(* After a crash the commands in flight are the old daemon's. *)
LEMMA CommandsHandedOn ==
    ASSUME TypeOK, CrashAndRestart
    PROVE  /\ cmd' \in [Caller -> [kind : Kinds, phase : Phases]]
           /\ cmd'["worker"] = NoCmd /\ cmd'["dog"] = NoCmd
           /\ cmd'["oldWorker"] = cmd["worker"] /\ cmd'["oldDog"] = cmd["dog"]
BY DEF TypeOK, CrashAndRestart, NoCmd, Phases, Kinds, Caller

-----------------------------------------------------------------------------
(* The inductive invariant. *)

(* A command is at work as long as its caller waits for it, and does what  *)
(* the caller is for.                                                      *)
Control ==
    /\ (worker.pc = "xkeen") <=> (cmd["worker"].phase # "none")
    /\ (dog.pc = "xkeen") <=> (cmd["dog"].phase # "none")
    /\ cmd["dog"].kind # "stop" /\ cmd["oldDog"].kind # "stop"
    /\ \A c \in Caller : /\ cmd[c].phase = "start" => cmd[c].kind = "restart"
                         /\ cmd[c].kind = "none" <=> cmd[c].phase = "none"
    /\ worker.pc # "wait" => worker.read # None
    /\ worker.pc = "xkeen" =>
          cmd["worker"].kind = IF worker.read.on THEN "restart" ELSE "stop"

Quiet == unsent = 0 /\ applyCh = 0

(* Without a signal on its way, what the worker has read is what is        *)
(* wanted, and so is what it has written.                                  *)
Fresh ==
    Quiet =>
        /\ worker.pc # "wait" => worker.read = want
        /\ worker.pc = "routing" => files.outbounds = want.conf
        /\ worker.pc = "xkeen" => files = Both(want.conf)
        /\ Applied => files = Both(want.conf)

(* After the worker's command has stopped xray, only an xray on the        *)
(* present files can be up.                                                *)
OnPresentFiles ==
    (worker.pc = "xkeen" /\ cmd["worker"].phase \in {"start", "ok"}) \/ Applied
        => xray \in {None, files}

(* Clients are redirected, or somebody is about to see to it.              *)
Held == \/ redirect
        \/ undone
        \/ \E c \in Caller : cmd[c].phase = "start"
        \/ cmd["oldWorker"].kind = "stop"

WorkerOk == worker.pc = "xkeen" /\ cmd["worker"].phase = "ok"

Closed ==
    (WorkerOk /\ worker.read.on) \/ (Applied /\ want.on) => Held

(* After a stop that nothing overlapped, nobody brings xray back. *)
Off ==
    Quiet /\ (WorkerOk \/ Applied) /\ ~want.on /\ ~overlap =>
        /\ ~Up /\ ~redirect
        /\ dog.pc = "sleep"
        /\ \A o \in {"oldWorker", "oldDog"} : ~InFlight(o)

IInv == TypeOK /\ Control /\ Fresh /\ OnPresentFiles /\ Closed /\ Off

-----------------------------------------------------------------------------
(* At first nothing is applied and no command runs. *)
LEMMA InitIInv == Init => IInv
<1>. SUFFICES ASSUME Init PROVE IInv
  OBVIOUS
<1>1. want \in [on : BOOLEAN, conf : Config] /\ files \in FilePair /\ want.on \in BOOLEAN
  BY DEF Init, Both, FilePair
<1>2. xray \in FilePair \cup {None} /\ xray \in {None, files}
  BY <1>1 DEF Init
<1>3. \A c \in Caller : cmd[c] = NoCmd
  BY DEF Init
<1>4. TypeOK
  <2>1. cmd \in [Caller -> [kind : Kinds, phase : Phases]]
    BY DEF Init, NoCmd, Kinds, Phases
  <2>2. worker = Idle /\ dog = [pc |-> "sleep", failures |-> 0]
    BY DEF Init
  <2>3. unsent = 0 /\ applyCh = 0 /\ changes = 0 /\ faults = 0 /\ boots = 0 /\ inARow = 0
    BY DEF Init
  <2>4. redirect \in BOOLEAN /\ undone \in BOOLEAN /\ overlap \in BOOLEAN
    BY <1>1 DEF Init
  <2>. QED BY <1>1, <1>2, <2>1, <2>2, <2>3, <2>4 DEF TypeOK, Idle, Kinds, Phases
<1>5. Control
  BY <1>3 DEF Init, Control, NoCmd, Idle, Caller
<1>6. Fresh
  BY DEF Init, Fresh, Idle
<1>7. OnPresentFiles
  BY <1>2 DEF OnPresentFiles
<1>8. Closed
  BY DEF Init, Closed, Held, WorkerOk, Idle
<1>9. Off
  BY <1>3 DEF Init, Off, Up, InFlight, NoCmd, Running, Caller
<1>. QED BY <1>4, <1>5, <1>6, <1>7, <1>8, <1>9 DEF IInv

(* Each part of the invariant is kept by every step: types, *)
LEMMA TypeStep == TypeOK /\ Control /\ [Next]_vars => TypeOK'
<1>. SUFFICES ASSUME TypeOK, Control, [Next]_vars PROVE TypeOK'
  OBVIOUS
<1>. USE DEF TypeOK
<1>1. CASE Change
  BY <1>1 DEF Change, system
<1>2. CASE Signal
  BY <1>2 DEF Signal, Sent, system, counts
<1>3. ASSUME NEW c \in Caller, XKeenStops(c) PROVE TypeOK'
  <2>1. PICK ph \in {"start", "ok"} : Phase(c, ph)
    BY <1>3 DEF XKeenStops
  <2>2. cmd' \in [Caller -> [kind : Kinds, phase : Phases]]
    BY <2>1, PhaseChanges DEF Phases, Running
  <2>. QED BY <1>3, <2>2 DEF XKeenStops, counts, Kinds, Phases
<1>4. ASSUME NEW c \in Caller, XKeenStarts(c) PROVE TypeOK'
  <2>1. cmd' \in [Caller -> [kind : Kinds, phase : Phases]]
    BY <1>4, PhaseChanges DEF XKeenStarts, Phases
  <2>. QED BY <1>4, <2>1 DEF XKeenStarts, counts, Kinds, Phases
<1>5. ASSUME NEW c \in Caller, XKeenFails(c) PROVE TypeOK'
  <2>1. cmd' \in [Caller -> [kind : Kinds, phase : Phases]]
    BY <1>5, PhaseChanges DEF XKeenFails, Phases
  <2>2. xray' \in FilePair \cup {None}
    BY <1>5 DEF XKeenFails
  <2>3. redirect' \in BOOLEAN /\ undone' \in BOOLEAN
    BY <1>5 DEF XKeenFails
  <2>4. faults' \in Nat
    BY <1>5 DEF XKeenFails, Fault
  <2>5. UNCHANGED <<want, unsent, applyCh, worker, dog, files, changes, boots,
                    inARow, overlap>>
    BY <1>5 DEF XKeenFails
  <2>. QED BY <2>1, <2>2, <2>3, <2>4, <2>5 DEF Kinds, Phases
<1>6. CASE XrayDies
  BY <1>6 DEF XrayDies, Fault
<1>7. CASE TakeSignal
  <2>1. applyCh' \in 0..1
    BY <1>7 DEF TakeSignal
  <2>2. worker' = [worker EXCEPT !.pc = "outbounds", !.read = want]
    BY <1>7 DEF TakeSignal
  <2>3. UNCHANGED <<want, unsent, dog, cmd, files, xray, redirect, changes, faults,
                    boots, inARow, undone, overlap>>
    BY <1>7 DEF TakeSignal, WorkerKeeps
  <2>. QED BY <2>1, <2>2, <2>3
<1>8. CASE WriteOutbounds
  <2>1. worker.read.conf \in Config
    BY <1>8 DEF WriteOutbounds, Control
  <2>2. files' \in FilePair
    BY <1>8, <2>1 DEF WriteOutbounds, FilePair
  <2>. QED BY <1>8, <2>2 DEF WriteOutbounds, WorkerKeeps
<1>9. CASE WriteRoutingAndCommand
  <2>1. worker.read.conf \in Config
    BY <1>9 DEF WriteRoutingAndCommand, Control
  <2>2. files' \in FilePair
    BY <1>9, <2>1 DEF WriteRoutingAndCommand, FilePair
  <2>3. cmd' \in [Caller -> [kind : Kinds, phase : Phases]]
    BY <1>9, CommandRuns DEF WriteRoutingAndCommand, Kinds, Caller
  <2>. QED BY <1>9, <2>2, <2>3 DEF WriteRoutingAndCommand, WorkerKeeps, Kinds, Phases
<1>10. CASE WriteFails
  BY <1>10 DEF WriteFails, WorkerKeeps, Finished, Fault
<1>11. CASE CommandEnds
  <2>1. cmd' \in [Caller -> [kind : Kinds, phase : Phases]]
    BY <1>11, CommandForgotten DEF CommandEnds, Caller
  <2>. QED BY <1>11, <2>1 DEF CommandEnds, WorkerKeeps, Finished, Kinds, Phases
<1>12. CASE Tick \/ TickOff \/ FoundRunning
  BY <1>12 DEF Tick, TickOff, FoundRunning, TickEnds, DogKeeps, system
<1>13. CASE FoundDown \/ Misjudged
  <2>1. cmd' \in [Caller -> [kind : Kinds, phase : Phases]]
    BY <1>13, CommandRuns DEF FoundDown, Misjudged, Restart, Kinds, Caller
  <2>. QED BY <1>13, <2>1 DEF FoundDown, Misjudged, Restart, DogKeeps, system,
                              Fault, Kinds, Phases
<1>14. CASE RestartEnds
  <2>1. cmd' \in [Caller -> [kind : Kinds, phase : Phases]]
    BY <1>14, CommandForgotten DEF RestartEnds, Caller
  <2>. QED BY <1>14, <2>1 DEF RestartEnds, TickEnds, DogKeeps, system, Kinds, Phases
<1>15. CASE CrashAndRestart
  <2>1. cmd' \in [Caller -> [kind : Kinds, phase : Phases]]
    BY <1>15, CommandsHandedOn
  <2>. QED BY <1>15, <2>1 DEF CrashAndRestart, Idle, system, Kinds, Phases
<1>16. CASE UNCHANGED vars
  BY <1>16 DEF vars
<1>. QED BY <1>1, <1>2, <1>3, <1>4, <1>5, <1>6, <1>7, <1>8, <1>9, <1>10, <1>11,
            <1>12, <1>13, <1>14, <1>15, <1>16
         DEF Next, XKeenStep, WorkerStep, DogStep

-----------------------------------------------------------------------------
(* callers and their commands, *)
LEMMA ControlStep == TypeOK /\ Control /\ [Next]_vars => Control'
<1>. SUFFICES ASSUME TypeOK, Control, [Next]_vars PROVE Control'
  OBVIOUS
<1>1. CASE Change \/ Signal \/ XrayDies \/ WriteFails \/ UNCHANGED vars
  BY <1>1 DEF Change, Signal, XrayDies, WriteFails, WorkerKeeps, Finished,
              Control, TypeOK, system, counts, vars
<1>2. ASSUME NEW c \in Caller, XKeenStep(c) PROVE Control'
  <2>1. PICK ph \in {"start", "ok", "failed"} :
           /\ Phase(c, ph) /\ InFlight(c)
           /\ ph = "start" => cmd[c].kind = "restart"
    BY <1>2 DEF XKeenStep, XKeenStops, XKeenStarts, XKeenFails, InFlight, Running
  <2>2. /\ cmd'[c].phase = ph /\ cmd'[c].kind = cmd[c].kind
        /\ \A o \in Caller : o # c => cmd'[o] = cmd[o]
    BY <2>1, PhaseChanges DEF Phases, Running
  <2>3. worker' = worker /\ dog' = dog
    BY <1>2 DEF XKeenStep, XKeenStops, XKeenStarts, XKeenFails
  <2>4. cmd[c].phase # "none"
    BY <2>1 DEF InFlight, Running
  <2>. QED BY <2>1, <2>2, <2>3, <2>4 DEF Control, Caller
<1>3. CASE TakeSignal \/ WriteOutbounds
  <2>1. want # None
    BY SupervisorAssumption DEF TypeOK
  <2>2. /\ worker.pc # "xkeen" /\ worker'.pc \in {"outbounds", "routing"}
        /\ worker'.read # None /\ dog' = dog /\ cmd' = cmd
    BY <1>3, <2>1 DEF TakeSignal, WriteOutbounds, WorkerKeeps, Control, TypeOK
  <2>. QED BY <2>2 DEF Control
<1>4. CASE WriteRoutingAndCommand
  <2>1. PICK kind \in {"restart", "stop"} :
           Run("worker", kind) /\ kind = IF worker.read.on THEN "restart" ELSE "stop"
    BY <1>4 DEF WriteRoutingAndCommand
  <2>2. /\ cmd'["worker"].phase = "stop" /\ cmd'["worker"].kind = kind
        /\ \A o \in Caller : o # "worker" => cmd'[o] = cmd[o]
    BY <2>1, CommandRuns DEF Kinds, Caller
  <2>3. worker' = [worker EXCEPT !.pc = "xkeen"] /\ dog' = dog /\ worker.pc = "routing"
    BY <1>4 DEF WriteRoutingAndCommand, WorkerKeeps
  <2>4. worker'.pc = "xkeen" /\ worker'.read = worker.read
    BY <2>3 DEF TypeOK
  <2>. QED BY <2>1, <2>2, <2>3, <2>4 DEF Control, Caller
<1>5. CASE CommandEnds
  <2>1. /\ cmd'["worker"] = NoCmd
        /\ \A o \in Caller : o # "worker" => cmd'[o] = cmd[o]
    BY <1>5, CommandForgotten DEF CommandEnds, Caller
  <2>2. worker'.pc = "wait" /\ dog' = dog
    BY <1>5 DEF CommandEnds, Finished, WorkerKeeps
  <2>. QED BY <2>1, <2>2 DEF Control, NoCmd, Caller
<1>6. CASE Tick \/ TickOff \/ FoundRunning
  BY <1>6 DEF Tick, TickOff, FoundRunning, TickEnds, DogKeeps, Control, TypeOK
<1>7. CASE FoundDown \/ Misjudged
  <2>1. /\ cmd'["dog"].phase = "stop" /\ cmd'["dog"].kind = "restart"
        /\ \A o \in Caller : o # "dog" => cmd'[o] = cmd[o]
    BY <1>7, CommandRuns DEF FoundDown, Misjudged, Restart, Kinds, Caller
  <2>2. dog'.pc = "xkeen" /\ worker' = worker
    BY <1>7 DEF FoundDown, Misjudged, Restart, DogKeeps, TypeOK
  <2>. QED BY <2>1, <2>2 DEF Control, Caller
<1>8. CASE RestartEnds
  <2>1. /\ cmd'["dog"] = NoCmd
        /\ \A o \in Caller : o # "dog" => cmd'[o] = cmd[o]
    BY <1>8, CommandForgotten DEF RestartEnds, Caller
  <2>2. dog'.pc = "sleep" /\ worker' = worker
    BY <1>8 DEF RestartEnds, TickEnds, DogKeeps
  <2>. QED BY <2>1, <2>2 DEF Control, NoCmd, Caller
<1>9. CASE CrashAndRestart
  <2>1. /\ cmd'["worker"] = NoCmd /\ cmd'["dog"] = NoCmd
        /\ cmd'["oldWorker"] = cmd["worker"] /\ cmd'["oldDog"] = cmd["dog"]
    BY <1>9, CommandsHandedOn
  <2>2. worker'.pc = "wait" /\ dog'.pc = "sleep"
    BY <1>9 DEF CrashAndRestart, Idle
  <2>. QED BY <2>1, <2>2 DEF Control, NoCmd, Caller
<1>. QED BY <1>1, <1>2, <1>3, <1>4, <1>5, <1>6, <1>7, <1>8, <1>9
         DEF Next, WorkerStep, DogStep

(* what was read and written, *)
LEMMA FreshStep == TypeOK /\ Control /\ Fresh /\ [Next]_vars => Fresh'
<1>. SUFFICES ASSUME TypeOK, Control, Fresh, [Next]_vars, Quiet' PROVE Fresh'
  BY DEF Fresh
<1>1. CASE UNCHANGED <<want, unsent, applyCh, worker, files, boots>>
  BY <1>1 DEF Fresh, Quiet, Applied
<1>2. ~Change /\ ~Signal
  BY DEF Change, Signal, Sent, Quiet, TypeOK
<1>3. CASE TakeSignal
  BY <1>3 DEF TakeSignal, WorkerKeeps, Fresh, Applied, TypeOK
<1>4. CASE WriteOutbounds
  <2>1. /\ worker.pc = "outbounds" /\ worker'.pc = "routing" /\ worker'.read = worker.read
        /\ files'.outbounds = worker.read.conf /\ want' = want /\ Quiet
    BY <1>4 DEF WriteOutbounds, WorkerKeeps, TypeOK, FilePair, Quiet
  <2>. QED BY <2>1 DEF Fresh, Applied
<1>5. CASE WriteRoutingAndCommand
  <2>1. /\ worker.pc = "routing" /\ worker'.pc = "xkeen" /\ worker'.read = worker.read
        /\ files' = [files EXCEPT !.routing = worker.read.conf] /\ want' = want /\ Quiet
    BY <1>5 DEF WriteRoutingAndCommand, WorkerKeeps, TypeOK, Quiet
  <2>2. worker.read = want /\ files.outbounds = want.conf
    BY <2>1 DEF Fresh
  <2>3. files' = Both(want.conf)
    BY <2>1, <2>2 DEF Both, TypeOK, FilePair
  <2>. QED BY <2>1, <2>2, <2>3 DEF Fresh, Applied
<1>6. CASE WriteFails
  BY <1>6 DEF WriteFails, Finished, Fresh, Applied
<1>7. CASE CommandEnds
  <2>1. Quiet /\ worker.pc = "xkeen" /\ worker'.pc = "wait" /\ UNCHANGED <<want, files>>
    BY <1>7 DEF CommandEnds, Finished, WorkerKeeps, Quiet
  <2>. QED BY <2>1 DEF Fresh
<1>8. CASE CrashAndRestart
  BY <1>8 DEF CrashAndRestart, Idle, Fresh, Applied, TypeOK
<1>9. ASSUME NEW c \in Caller, XKeenStep(c)
      PROVE  UNCHANGED <<want, unsent, applyCh, worker, files, boots>>
  BY <1>9 DEF XKeenStep, XKeenStops, XKeenStarts, XKeenFails, counts
<1>10. ASSUME XrayDies \/ DogStep \/ UNCHANGED vars
       PROVE  UNCHANGED <<want, unsent, applyCh, worker, files, boots>>
  BY <1>10 DEF XrayDies, DogStep, Tick, TickOff, FoundRunning, FoundDown,
               Misjudged, RestartEnds, DogKeeps, system, vars
<1>. QED BY <1>1, <1>2, <1>3, <1>4, <1>5, <1>6, <1>7, <1>8, <1>9, <1>10
         DEF Next, WorkerStep

(* A step of the worker before its command leaves no finished command. *)
LEMMA BeforeCommand ==
    ASSUME TypeOK, TakeSignal \/ WriteOutbounds \/ WriteRoutingAndCommand \/ WriteFails
    PROVE  /\ ~Applied'
           /\ worker'.pc = "xkeen" => cmd'["worker"].phase = "stop"
<1>1. CASE TakeSignal \/ WriteOutbounds
  BY <1>1 DEF TakeSignal, WriteOutbounds, Applied, TypeOK
<1>2. CASE WriteRoutingAndCommand
  <2>1. cmd'["worker"].phase = "stop"
    BY <1>2, CommandRuns DEF WriteRoutingAndCommand, Kinds, Caller
  <2>. QED BY <1>2, <2>1 DEF WriteRoutingAndCommand, Applied, TypeOK
<1>3. CASE WriteFails
  BY <1>3 DEF WriteFails, Finished, Applied
<1>. QED BY <1>1, <1>2, <1>3

(* A step of the watchdog changes its own command at most. *)
LEMMA DogKeepsToItself ==
    ASSUME TypeOK, Control, DogStep
    PROVE  /\ UNCHANGED <<want, unsent, applyCh, worker, files, xray, redirect,
                          boots, undone, overlap>>
           /\ \A o \in Caller : o # "dog" => cmd'[o] = cmd[o]
           /\ \A o \in Caller : cmd[o].phase = "start" => cmd'[o] = cmd[o]
<1>1. UNCHANGED <<want, unsent, applyCh, worker, files, xray, redirect,
                  boots, undone, overlap>>
  BY DEF DogStep, Tick, TickOff, FoundRunning, FoundDown, Misjudged,
         RestartEnds, DogKeeps, system
<1>2. CASE Tick \/ TickOff \/ FoundRunning
  BY <1>1, <1>2 DEF Tick, TickOff, FoundRunning
<1>3. CASE FoundDown \/ Misjudged
  <2>1. \A o \in Caller : o # "dog" => cmd'[o] = cmd[o]
    BY <1>3, CommandRuns DEF FoundDown, Misjudged, Restart, Kinds, Caller
  <2>2. cmd["dog"].phase = "none"
    BY <1>3 DEF FoundDown, Misjudged, Control, TypeOK
  <2>. QED BY <1>1, <2>1, <2>2
<1>4. CASE RestartEnds
  <2>1. \A o \in Caller : o # "dog" => cmd'[o] = cmd[o]
    BY <1>4, CommandForgotten DEF RestartEnds, Caller
  <2>2. cmd["dog"].phase \in {"ok", "failed"}
    BY <1>4 DEF RestartEnds
  <2>. QED BY <1>1, <2>1, <2>2
<1>. QED BY <1>2, <1>3, <1>4 DEF DogStep

(* A crash leaves nobody who knows that anything is applied. *)
LEMMA CrashForgets ==
    ASSUME TypeOK, CrashAndRestart
    PROVE  ~Applied' /\ worker'.pc = "wait"
BY DEF CrashAndRestart, Idle, Applied, TypeOK

(* the files xray is on, *)
LEMMA OnPresentFilesStep ==
    TypeOK /\ Control /\ OnPresentFiles /\ [Next]_vars => OnPresentFiles'
<1>. DEFINE P == (worker.pc = "xkeen" /\ cmd["worker"].phase \in {"start", "ok"})
                 \/ Applied
<1>. SUFFICES ASSUME TypeOK, Control, OnPresentFiles, [Next]_vars, P'
              PROVE  xray' \in {None, files'}
  BY DEF OnPresentFiles
<1>0. P => xray \in {None, files}
  BY DEF OnPresentFiles
<1>1. CASE Change \/ Signal
  <2>1. ~Applied' /\ UNCHANGED <<worker, cmd, xray, files>>
    BY <1>1 DEF Change, Signal, Sent, Applied, TypeOK, system
  <2>. QED BY <1>0, <2>1
<1>2. ASSUME NEW c \in Caller, XKeenStops(c) PROVE xray' = None
  BY <1>2 DEF XKeenStops
<1>3. ASSUME NEW c \in Caller, XKeenStarts(c) PROVE xray' \in {None, files'}
  <2>1. \A o \in Caller : o # c => cmd'[o] = cmd[o]
    BY <1>3, PhaseChanges DEF XKeenStarts, Phases
  <2>2. /\ UNCHANGED <<worker, files, unsent, applyCh, boots>>
        /\ cmd[c].phase = "start" /\ xray' \in {xray, files}
    BY <1>3 DEF XKeenStarts, counts
  <2>3. P
    BY <2>1, <2>2 DEF Applied, Caller
  <2>. QED BY <1>0, <2>2, <2>3
<1>4. ASSUME NEW c \in Caller, XKeenFails(c) PROVE xray' \in {None, files'}
  <2>1. cmd'[c].phase = "failed" /\ \A o \in Caller : o # c => cmd'[o] = cmd[o]
    BY <1>4, PhaseChanges DEF XKeenFails, Phases
  <2>2. /\ UNCHANGED <<worker, files, unsent, applyCh, boots>>
        /\ cmd[c].phase # "none" /\ xray' \in {xray, None, files}
    BY <1>4 DEF XKeenFails, InFlight, Running
  <2>3. P
    <3>1. CASE c = "worker"
      BY <2>1, <2>2, <3>1 DEF Control, Applied
    <3>2. CASE c # "worker"
      BY <2>1, <2>2, <3>2 DEF Applied, Caller
    <3>. QED BY <3>1, <3>2
  <2>. QED BY <1>0, <2>2, <2>3
<1>5. ASSUME XrayDies PROVE xray' = None
  BY <1>5 DEF XrayDies
<1>6. ~(TakeSignal \/ WriteOutbounds \/ WriteRoutingAndCommand \/ WriteFails)
  BY BeforeCommand
<1>7. CASE CommandEnds
  <2>1. /\ worker.pc = "xkeen" /\ worker'.pc = "wait"
        /\ worker'.ok = (cmd["worker"].phase = "ok") /\ UNCHANGED <<xray, files>>
    BY <1>7 DEF CommandEnds, Finished, WorkerKeeps
  <2>2. cmd["worker"].phase = "ok"
    BY <2>1 DEF Applied
  <2>. QED BY <1>0, <2>1, <2>2
<1>8. CASE DogStep
  <2>1. UNCHANGED <<worker, xray, files, unsent, applyCh, boots>> /\ cmd'["worker"] = cmd["worker"]
    BY <1>8, DogKeepsToItself DEF Caller
  <2>. QED BY <1>0, <2>1 DEF Applied
<1>9. ~CrashAndRestart
  BY CrashForgets
<1>10. CASE UNCHANGED vars
  BY <1>0, <1>10 DEF vars, Applied
<1>. QED BY <1>1, <1>2, <1>3, <1>4, <1>5, <1>6, <1>7, <1>8, <1>9, <1>10
         DEF Next, XKeenStep, WorkerStep

(* the redirect, *)
LEMMA ClosedStep == TypeOK /\ Control /\ Fresh /\ Closed /\ [Next]_vars => Closed'
<1>. DEFINE P == (WorkerOk /\ worker.read.on) \/ (Applied /\ want.on)
<1>. SUFFICES ASSUME TypeOK, Control, Fresh, Closed, [Next]_vars, P'
              PROVE  Held'
  BY DEF Closed
<1>0. P => Held
  BY DEF Closed
<1>1. CASE Change \/ Signal
  <2>1. ~Applied' /\ UNCHANGED <<worker, cmd, redirect, undone>>
    BY <1>1 DEF Change, Signal, Sent, Applied, TypeOK, system
  <2>. QED BY <1>0, <2>1 DEF WorkerOk, Held
<1>2. ASSUME NEW c \in Caller, XKeenStops(c) PROVE Held'
  <2>1. CASE cmd[c].kind = "restart"
    <3>1. cmd'[c].phase = "start"
      BY <1>2, <2>1, PhaseChanges DEF XKeenStops, Phases, Running
    <3>. QED BY <3>1 DEF Held
  <2>2. CASE cmd[c].kind # "restart"
    <3>1. cmd[c].phase = "stop" /\ cmd[c].kind = "stop"
      BY <1>2, <2>2 DEF XKeenStops, Control, TypeOK
    <3>2. cmd'[c].phase = "ok" /\ cmd'[c].kind = "stop"
      BY <1>2, <2>2, <3>1, PhaseChanges DEF XKeenStops, Phases, Running
    <3>3. c # "worker"
      <4>. SUFFICES ASSUME c = "worker" PROVE FALSE
        OBVIOUS
      <4>1. worker.pc = "xkeen" /\ ~worker.read.on
        BY <3>1 DEF Control
      <4>2. worker' = worker
        BY <1>2 DEF XKeenStops
      <4>. QED BY <4>1, <4>2 DEF WorkerOk, Applied
    <3>4. c = "oldWorker"
      BY <3>1, <3>3 DEF Control, Caller
    <3>. QED BY <3>2, <3>4 DEF Held
  <2>. QED BY <2>1, <2>2
<1>3. ASSUME NEW c \in Caller, XKeenStarts(c) PROVE Held'
  BY <1>3 DEF XKeenStarts, Held
<1>4. ASSUME NEW c \in Caller, XKeenFails(c) PROVE Held'
  BY <1>4 DEF XKeenFails, Held
<1>5. CASE XrayDies
  BY <1>0, <1>5 DEF XrayDies, WorkerOk, Applied, Held
<1>6. ~(TakeSignal \/ WriteOutbounds \/ WriteRoutingAndCommand \/ WriteFails)
  BY BeforeCommand DEF WorkerOk
<1>7. CASE CommandEnds
  <2>1. /\ worker.pc = "xkeen" /\ worker'.pc = "wait"
        /\ worker'.ok = (cmd["worker"].phase = "ok")
        /\ UNCHANGED <<want, unsent, applyCh, redirect, undone>>
    BY <1>7 DEF CommandEnds, Finished, WorkerKeeps
  <2>2. WorkerOk /\ Quiet /\ want.on
    BY <2>1 DEF Applied, WorkerOk, Quiet
  <2>3. worker.read = want
    BY <2>1, <2>2 DEF Fresh
  <2>4. Held
    BY <1>0, <2>2, <2>3
  <2>5. \A o \in Caller : o # "worker" => cmd'[o] = cmd[o]
    BY <1>7, CommandForgotten DEF CommandEnds, Caller
  <2>. QED BY <2>1, <2>2, <2>4, <2>5 DEF Held, WorkerOk, Caller
<1>8. CASE DogStep
  <2>1. /\ UNCHANGED <<want, worker, unsent, applyCh, boots, redirect, undone>>
        /\ cmd'["worker"] = cmd["worker"] /\ cmd'["oldWorker"] = cmd["oldWorker"]
        /\ \A o \in Caller : cmd[o].phase = "start" => cmd'[o] = cmd[o]
    BY <1>8, DogKeepsToItself DEF Caller
  <2>. QED BY <1>0, <2>1 DEF Applied, WorkerOk, Held
<1>9. ~CrashAndRestart
  BY CrashForgets DEF WorkerOk
<1>10. CASE UNCHANGED vars
  BY <1>0, <1>10 DEF vars, Applied, WorkerOk, Held
<1>. QED BY <1>1, <1>2, <1>3, <1>4, <1>5, <1>6, <1>7, <1>8, <1>9, <1>10
         DEF Next, XKeenStep, WorkerStep

(* and what is left after a stop. *)
LEMMA OffStep == TypeOK /\ Control /\ Fresh /\ Off /\ [Next]_vars => Off'
<1>. DEFINE P == Quiet /\ (WorkerOk \/ Applied) /\ ~want.on /\ ~overlap
            Q == /\ ~Up /\ ~redirect
                 /\ dog.pc = "sleep"
                 /\ \A o \in {"oldWorker", "oldDog"} : ~InFlight(o)
<1>. SUFFICES ASSUME TypeOK, Control, Fresh, Off, [Next]_vars, P'
              PROVE  Q'
  BY DEF Off
<1>0. P => Q
  BY DEF Off
<1>1. ~Change /\ ~Signal
  BY DEF Change, Signal, Sent, Quiet, TypeOK
<1>2. ASSUME NEW c \in Caller, c # "worker", XKeenStep(c) PROVE FALSE
  <2>1. InFlight(c)
    BY <1>2 DEF XKeenStep, XKeenStops, XKeenStarts, XKeenFails, InFlight, Running
  <2>2. \E ph \in Phases : Phase(c, ph)
    BY <1>2 DEF XKeenStep, XKeenStops, XKeenStarts, XKeenFails, Phases, Running
  <2>3. cmd'["worker"] = cmd["worker"]
    BY <1>2, <2>2, PhaseChanges DEF Caller
  <2>4. UNCHANGED <<want, unsent, applyCh, worker, boots, overlap>>
    BY <1>2 DEF XKeenStep, XKeenStops, XKeenStarts, XKeenFails, counts
  <2>5. P
    BY <2>3, <2>4 DEF Quiet, WorkerOk, Applied
  <2>6. dog.pc # "xkeen" /\ ~InFlight("oldWorker") /\ ~InFlight("oldDog")
    BY <1>0, <2>5
  <2>7. c = "dog"
    BY <1>2, <2>1, <2>6 DEF Caller
  <2>. QED BY <2>1, <2>6, <2>7 DEF Control, InFlight, Running
<1>3. CASE XKeenStops("worker")
  <2>1. /\ UNCHANGED dog /\ xray' = None /\ redirect' = FALSE
        /\ overlap' = \/ dog.pc # "sleep"
                      \/ \E o \in {"oldWorker", "oldDog"} : InFlight(o)
    BY <1>3 DEF XKeenStops
  <2>2. cmd'["oldWorker"] = cmd["oldWorker"] /\ cmd'["oldDog"] = cmd["oldDog"]
    <3>1. \E ph \in Phases : Phase("worker", ph)
      BY <1>3 DEF XKeenStops, Phases, Running
    <3>. QED BY <3>1, PhaseChanges DEF Caller
  <2>3. dog.pc = "sleep" /\ ~InFlight("oldWorker") /\ ~InFlight("oldDog")
    BY <2>1
  <2>. QED BY <2>1, <2>2, <2>3 DEF Up, InFlight
<1>4. ASSUME XKeenStarts("worker") PROVE FALSE
  <2>1. /\ cmd["worker"].phase = "start"
        /\ UNCHANGED <<want, unsent, applyCh, worker>>
    BY <1>4 DEF XKeenStarts
  <2>2. worker.pc = "xkeen" /\ worker.read.on
    BY <2>1 DEF Control, Caller
  <2>3. worker.read = want
    BY <2>1, <2>2 DEF Fresh, Quiet
  <2>. QED BY <2>1, <2>2, <2>3
<1>5. ASSUME XKeenFails("worker") PROVE FALSE
  <2>1. cmd'["worker"].phase = "failed" /\ worker' = worker /\ cmd["worker"].phase # "none"
    BY <1>5, PhaseChanges DEF XKeenFails, InFlight, Running, Phases, Caller
  <2>. QED BY <2>1 DEF WorkerOk, Applied, Control
<1>6. ASSUME XrayDies PROVE FALSE
  <2>1. P /\ Up
    BY <1>6 DEF XrayDies, Quiet, WorkerOk, Applied
  <2>. QED BY <1>0, <2>1
<1>7. ~(TakeSignal \/ WriteOutbounds \/ WriteRoutingAndCommand \/ WriteFails)
  BY BeforeCommand DEF WorkerOk
<1>8. CASE CommandEnds
  <2>1. /\ worker.pc = "xkeen" /\ worker'.pc = "wait"
        /\ worker'.ok = (cmd["worker"].phase = "ok")
        /\ UNCHANGED <<want, unsent, applyCh, redirect, xray, dog, overlap>>
    BY <1>8 DEF CommandEnds, Finished, WorkerKeeps
  <2>2. P
    BY <2>1 DEF Applied, WorkerOk, Quiet
  <2>3. cmd'["oldWorker"] = cmd["oldWorker"] /\ cmd'["oldDog"] = cmd["oldDog"]
    BY <1>8, CommandForgotten DEF CommandEnds, Caller
  <2>. QED BY <1>0, <2>1, <2>2, <2>3 DEF Up, InFlight
<1>9. CASE DogStep
  <2>1. /\ UNCHANGED <<want, worker, unsent, applyCh, boots, xray, redirect, overlap>>
        /\ cmd'["worker"] = cmd["worker"] /\ cmd'["oldWorker"] = cmd["oldWorker"]
        /\ cmd'["oldDog"] = cmd["oldDog"]
    BY <1>9, DogKeepsToItself DEF Caller
  <2>2. P
    BY <2>1 DEF Applied, WorkerOk, Quiet
  <2>3. TickOff
    BY <1>0, <1>9, <2>2 DEF DogStep, Tick, FoundRunning, FoundDown, Misjudged,
                            RestartEnds
  <2>4. dog'.pc = "sleep"
    BY <2>3 DEF TickOff, TickEnds
  <2>. QED BY <1>0, <2>1, <2>2, <2>4 DEF Up, InFlight
<1>10. ~CrashAndRestart
  BY CrashForgets DEF WorkerOk
<1>11. CASE UNCHANGED vars
  BY <1>0, <1>11 DEF vars, Applied, WorkerOk, Quiet, Up, InFlight
<1>. QED BY <1>1, <1>2, <1>3, <1>4, <1>5, <1>6, <1>7, <1>8, <1>9, <1>10, <1>11
         DEF Next, XKeenStep, WorkerStep

-----------------------------------------------------------------------------
(* Every variable keeps its type: see TypeOK. *)
THEOREM SupervisorTyped == Spec => []TypeOK
<1>1. Init => TypeOK /\ Control
  BY InitIInv DEF IInv
<1>2. TypeOK /\ Control /\ [Next]_vars => (TypeOK /\ Control)'
  BY TypeStep, ControlStep
<1>. QED BY <1>1, <1>2, PTL DEF Spec

(* So the invariant holds in every state. *)
LEMMA InductiveIInv == Spec => []IInv
<1>1. IInv /\ [Next]_vars => IInv'
  BY TypeStep, ControlStep, FreshStep, OnPresentFilesStep, ClosedStep, OffStep DEF IInv
<1>. QED BY <1>1, InitIInv, PTL DEF Spec

(* A running xray runs on what was last asked for: see RunsWhatWasAsked. *)
THEOREM AskedIsRun == Spec => []RunsWhatWasAsked
<1>1. IInv => RunsWhatWasAsked
  BY DEF IInv, RunsWhatWasAsked, Fresh, OnPresentFiles, Quiet, Applied, Up
<1>. QED BY <1>1, InductiveIInv, PTL

(* The kill switch: see FailsClosed. *)
THEOREM StaysClosed == Spec => []FailsClosed
<1>1. IInv => FailsClosed
  <2>. SUFFICES ASSUME IInv, Applied, want.on, NoCommand, ~undone
                PROVE  redirect \/ cmd["oldWorker"].kind = "stop"
    BY DEF FailsClosed
  <2>1. \A c \in Caller : cmd[c].phase # "start"
    BY DEF NoCommand, InFlight, Running
  <2>. QED BY <2>1 DEF IInv, Closed, Held
<1>. QED BY <1>1, InductiveIInv, PTL

(* Off is off unless something overlapped: see OffUnlessOverlap. *)
THEOREM OffStaysOff == Spec => []OffUnlessOverlap
<1>1. IInv => OffUnlessOverlap
  BY DEF IInv, OffUnlessOverlap, Off, Quiet, Applied
<1>. QED BY <1>1, InductiveIInv, PTL
=============================================================================
