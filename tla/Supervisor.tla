----------------------------- MODULE Supervisor -----------------------------
(***************************************************************************)
(* Who runs xkeen: the apply worker, and the watchdog that restarts xray   *)
(* when it has died (internal/watchdog, main.go's adapter and              *)
(* internal/services).  The two share no lock, and an xkeen command takes  *)
(* seconds, so their commands may overlap; a command also survives the     *)
(* daemon that started it.                                                 *)
(*                                                                         *)
(* The requests of ApplyPath are reduced here to what they ask for: the    *)
(* VPN on or off, and a configuration (server and rules together).  What   *)
(* xkeen and xray do is external and modelled from how this repository     *)
(* uses them: -stop ends xray and removes the iptables rules that redirect *)
(* clients to it, -restart does that and then installs the rules and       *)
(* starts xray on the files it finds, and the rules stay when xray dies.   *)
(***************************************************************************)
EXTENDS Integers

CONSTANTS
    Config,       \* configurations a user may ask for
    None,         \* nothing: no xray, no local variables
    MaxChanges,   \* bound: changes users make
    MaxFaults,    \* bound: everything that may go wrong, deaths of xray included
    MaxBoots      \* bound: crashes of the daemon followed by a restart

ASSUME SupervisorAssumption ==
    /\ None \notin [on : BOOLEAN, conf : Config]
    /\ None \notin [outbounds : Config, routing : Config]
    /\ MaxChanges \in Nat /\ MaxFaults \in Nat /\ MaxBoots \in Nat

VARIABLES
    want,      \* State.data: vpn_on and the configuration
    unsent,    \* handlers that have changed it and not signalled yet
    applyCh,   \* signals in the buffered channel
    worker,    \* applyLoop: where it is, what it read, how its last run ended
    dog,       \* the watchdog: where it is, and failures as its loop counts them
    cmd,       \* xkeen commands, by who started them
    files,     \* the two config files
    xray,      \* what it was started on; None when it is down
    redirect,  \* are clients redirected to xray
    changes, faults, boots,   \* how often so far
    inARow,    \* history: ticks in a row whose restart failed
    undone,    \* history: a command failed, and no restart is complete since
    overlap    \* history: was a tick or an older command under way when the
               \* worker's latest command stopped xray

system == <<files, xray, redirect>>
counts == <<changes, faults, boots>>
vars   == <<want, unsent, applyCh, worker, dog, cmd, files, xray, redirect,
            changes, faults, boots, inARow, undone, overlap>>

(* The old ones were started by a daemon that is no more. *)
Caller  == {"worker", "dog", "oldWorker", "oldDog"}
Running == {"stop", "start"}
NoCmd   == [kind |-> "none", phase |-> "none"]

Both(c) == [outbounds |-> c, routing |-> c]

Up == xray # None

Idle == [pc |-> "wait", read |-> None, ok |-> TRUE, ran |-> FALSE]

Init ==
    /\ want \in [on : BOOLEAN, conf : Config]
    /\ unsent = 0
    /\ applyCh = 0
    /\ worker = Idle
    /\ dog = [pc |-> "sleep", failures |-> 0]
    /\ cmd = [c \in Caller |-> NoCmd]
    /\ files = Both(want.conf)
    /\ xray = IF want.on THEN files ELSE None
    /\ redirect = want.on
    /\ changes = 0 /\ faults = 0 /\ boots = 0
    /\ inARow = 0
    /\ undone = FALSE
    /\ overlap = FALSE

Fault == faults < MaxFaults /\ faults' = faults + 1

-----------------------------------------------------------------------------
(* Requests: a change, and later its signal. *)

Change ==
    /\ changes < MaxChanges
    /\ changes' = changes + 1
    /\ \E w \in [on : BOOLEAN, conf : Config] : want' = w
    /\ unsent' = unsent + 1
    /\ UNCHANGED <<applyCh, worker, dog, cmd, system, faults, boots, inARow,
                   undone, overlap>>

(* Slip: a send that overfills the buffer. *)
SentAlways == applyCh + 1

(* Sent, or dropped because the buffer is full. *)
Sent == 1

Signal ==
    /\ unsent > 0
    /\ unsent' = unsent - 1
    /\ applyCh' = Sent
    /\ UNCHANGED <<want, worker, dog, cmd, system, counts, inARow, undone,
                   overlap>>

-----------------------------------------------------------------------------
(* xkeen, whoever started it. *)

Phase(c, ph) == cmd' = [cmd EXCEPT ![c].phase = ph]

InFlight(c) == cmd[c].phase \in Running

XKeenStops(c) ==
    /\ cmd[c].phase = "stop"
    /\ xray' = None
    /\ redirect' = FALSE
    /\ Phase(c, IF cmd[c].kind = "restart" THEN "start" ELSE "ok")
    /\ overlap' = IF c # "worker" THEN overlap
                  ELSE \/ dog.pc # "sleep"
                       \/ \E o \in {"oldWorker", "oldDog"} : InFlight(o)
    /\ UNCHANGED <<want, unsent, applyCh, worker, dog, files, counts, inARow,
                   undone>>

(* An xray that another command has started meanwhile is left alone, or    *)
(* replaced.                                                               *)
XKeenStarts(c) ==
    /\ cmd[c].phase = "start"
    /\ xray' \in {xray, files} \ {None}
    /\ redirect' = TRUE
    /\ undone' = FALSE
    /\ Phase(c, "ok")
    /\ UNCHANGED <<want, unsent, applyCh, worker, dog, files, counts, inARow,
                   overlap>>

(* A bad exit, or the kill after 90 s, before, within or after the work of *)
(* the phase.                                                              *)
XKeenFails(c) ==
    /\ InFlight(c)
    /\ Fault
    /\ undone' = TRUE
    /\ Phase(c, "failed")
    /\ IF cmd[c].phase = "stop"
       THEN /\ xray' \in {xray, None}
            /\ redirect' \in {redirect, FALSE}
       ELSE /\ xray' \in {xray, files}
            /\ redirect' \in {redirect, TRUE}
    /\ UNCHANGED <<want, unsent, applyCh, worker, dog, files, changes, boots,
                   inARow, overlap>>

(* Its rules stay. *)
XrayDies ==
    /\ Up
    /\ Fault
    /\ xray' = None
    /\ UNCHANGED <<want, unsent, applyCh, worker, dog, cmd, files, redirect,
                   changes, boots, inARow, undone, overlap>>

Run(c, kind) == cmd' = [cmd EXCEPT ![c] = [kind |-> kind, phase |-> "stop"]]

-----------------------------------------------------------------------------
(* applyLoop. *)

WorkerKeeps == UNCHANGED <<want, unsent, dog, xray, redirect, changes, boots,
                           inARow, undone, overlap>>

(* ApplyPath takes the two locks of a read one by one. *)
TakeSignal ==
    /\ worker.pc = "wait"
    /\ applyCh > 0
    /\ applyCh' = applyCh - 1
    /\ worker' = [worker EXCEPT !.pc = "outbounds", !.read = want]
    /\ UNCHANGED <<cmd, files, faults>> /\ WorkerKeeps

WriteOutbounds ==
    /\ worker.pc = "outbounds"
    /\ files' = [files EXCEPT !.outbounds = worker.read.conf]
    /\ worker' = [worker EXCEPT !.pc = "routing"]
    /\ UNCHANGED <<applyCh, cmd, faults>> /\ WorkerKeeps

(* Slip: xkeen is started before the second file is in place. *)
CommandBeforeRouting ==
    /\ worker.pc = "routing"
    /\ worker' = [worker EXCEPT !.pc = "xkeen"]
    /\ Run("worker", IF worker.read.on THEN "restart" ELSE "stop")
    /\ UNCHANGED <<applyCh, files, faults>> /\ WorkerKeeps

(* The command follows the second write. *)
WriteRoutingAndCommand ==
    /\ worker.pc = "routing"
    /\ files' = [files EXCEPT !.routing = worker.read.conf]
    /\ worker' = [worker EXCEPT !.pc = "xkeen"]
    /\ Run("worker", IF worker.read.on THEN "restart" ELSE "stop")
    /\ UNCHANGED <<applyCh, faults>> /\ WorkerKeeps

Finished(ok) == [pc |-> "wait", read |-> None, ok |-> ok, ran |-> TRUE]

WriteFails ==
    /\ worker.pc \in {"outbounds", "routing"}
    /\ Fault
    /\ worker' = Finished(FALSE)
    /\ UNCHANGED <<applyCh, cmd, files>> /\ WorkerKeeps

CommandEnds ==
    /\ worker.pc = "xkeen"
    /\ cmd["worker"].phase \in {"ok", "failed"}
    /\ worker' = Finished(cmd["worker"].phase = "ok")
    /\ cmd' = [cmd EXCEPT !["worker"] = NoCmd]
    /\ UNCHANGED <<applyCh, files, faults>> /\ WorkerKeeps

-----------------------------------------------------------------------------
(* The watchdog. *)

DogKeeps == UNCHANGED <<want, unsent, applyCh, worker, system, changes, boots,
                        undone, overlap>>

(* A tick that ends with n failures; what loop makes of it is Sleep.       *)
TickEnds(n) == /\ dog' = [pc |-> "sleep", failures |-> n]
               /\ inARow' = IF n = 0 THEN 0 ELSE inARow + 1

(* Slip: a tick that does not look at vpn_on. *)
TickBlindly ==
    /\ dog.pc = "sleep"
    /\ dog' = [dog EXCEPT !.pc = "check"]
    /\ UNCHANGED <<cmd, faults, inARow>> /\ DogKeeps

(* time.After fires, and tick reads vpn_on. *)
Tick ==
    /\ dog.pc = "sleep"
    /\ want.on
    /\ dog' = [dog EXCEPT !.pc = "check"]
    /\ UNCHANGED <<cmd, faults, inARow>> /\ DogKeeps

TickOff ==
    /\ dog.pc = "sleep"
    /\ ~want.on
    /\ TickEnds(0)
    /\ UNCHANGED <<cmd, faults>> /\ DogKeeps

FoundRunning ==
    /\ dog.pc = "check"
    /\ Up
    /\ TickEnds(0)
    /\ UNCHANGED <<cmd, faults>> /\ DogKeeps

(* Slip: the adapter calls Stop. *)
RestartStops == /\ dog' = [dog EXCEPT !.pc = "xkeen"]
                /\ Run("dog", "stop")

Restart == /\ dog' = [dog EXCEPT !.pc = "xkeen"]
           /\ Run("dog", "restart")

FoundDown ==
    /\ dog.pc = "check"
    /\ ~Up
    /\ Restart
    /\ UNCHANGED <<faults, inARow>> /\ DogKeeps

(* pidof failed, or took more than 5 s. *)
Misjudged ==
    /\ dog.pc = "check"
    /\ Up
    /\ Fault
    /\ Restart
    /\ UNCHANGED inARow /\ DogKeeps

(* Slip: a watchdog that gives up once a restart has failed. *)
RestartEndsOnce ==
    /\ dog.pc = "xkeen"
    /\ cmd["dog"].phase \in {"ok", "failed"}
    /\ dog' = [pc |-> IF cmd["dog"].phase = "ok" THEN "sleep" ELSE "gone",
               failures |-> 0]
    /\ cmd' = [cmd EXCEPT !["dog"] = NoCmd]
    /\ UNCHANGED <<faults, inARow>> /\ DogKeeps

(* tick reports one failure, however many came before. *)
RestartEnds ==
    /\ dog.pc = "xkeen"
    /\ cmd["dog"].phase \in {"ok", "failed"}
    /\ TickEnds(IF cmd["dog"].phase = "ok" THEN 0 ELSE 1)
    /\ cmd' = [cmd EXCEPT !["dog"] = NoCmd]
    /\ UNCHANGED faults /\ DogKeeps

(* loop's pause after a tick, in units of the 30 s interval. *)
BackoffMax == 10

Pause(failures) == IF 2^failures > BackoffMax THEN BackoffMax ELSE 2^failures

Sleep == IF dog.failures = 0 THEN 1 ELSE Pause(dog.failures)

-----------------------------------------------------------------------------
(* The daemon dies and starts again.  Its commands go on without it; one   *)
(* that has ended is forgotten.  The guard on the old ones is a bound.     *)
CrashAndRestart ==
    /\ boots < MaxBoots
    /\ \A o \in {"oldWorker", "oldDog"} : ~InFlight(o)
    /\ boots' = boots + 1
    /\ unsent' = 0
    /\ applyCh' = 0
    /\ worker' = Idle
    /\ dog' = [pc |-> "sleep", failures |-> 0]
    /\ cmd' = [c \in Caller |->
                 CASE c = "oldWorker" -> cmd["worker"]
                   [] c = "oldDog"    -> cmd["dog"]
                   [] OTHER           -> NoCmd]
    /\ inARow' = 0
    /\ UNCHANGED <<want, system, changes, faults, undone, overlap>>

-----------------------------------------------------------------------------
XKeenStep(c) == XKeenStops(c) \/ XKeenStarts(c) \/ XKeenFails(c)

WorkerStep == \/ TakeSignal
              \/ WriteOutbounds
              \/ WriteRoutingAndCommand
              \/ WriteFails
              \/ CommandEnds

DogStep == \/ Tick
           \/ TickOff
           \/ FoundRunning
           \/ FoundDown
           \/ Misjudged
           \/ RestartEnds

Next ==
    \/ Change
    \/ Signal
    \/ \E c \in Caller : XKeenStep(c)
    \/ XrayDies
    \/ WorkerStep
    \/ DogStep
    \/ CrashAndRestart

Spec == Init /\ [][Next]_vars

(* Handlers, worker and watchdog keep running, and commands end: nobody    *)
(* has to make a change, and nothing has to go wrong.                      *)
FairSpec == /\ Spec
            /\ WF_vars(Signal)
            /\ WF_vars(WorkerStep)
            /\ WF_vars(DogStep)
            /\ \A c \in Caller : WF_vars(XKeenStep(c))
=============================================================================
