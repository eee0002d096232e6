--------------------------- MODULE SupervisorProps ---------------------------
(***************************************************************************)
(* What worker and watchdog promise together, stated over Supervisor.      *)
(***************************************************************************)
EXTENDS Supervisor

FilePair == [outbounds : Config, routing : Config]

(* The type invariant. *)
TypeOK ==
    /\ want \in [on : BOOLEAN, conf : Config]
    /\ unsent \in Nat
    /\ applyCh \in 0..1
    /\ worker \in [pc : {"wait", "outbounds", "routing", "xkeen"},
                   read : [on : BOOLEAN, conf : Config] \cup {None},
                   ok : BOOLEAN, ran : BOOLEAN]
    /\ dog \in [pc : {"sleep", "check", "xkeen"}, failures : 0..1]
    /\ cmd \in [Caller -> [kind : {"none", "restart", "stop"},
                           phase : Running \cup {"none", "ok", "failed"}]]
    /\ files \in FilePair
    /\ xray \in FilePair \cup {None}
    /\ redirect \in BOOLEAN
    /\ changes \in Nat /\ faults \in Nat /\ boots \in Nat /\ inARow \in Nat
    /\ undone \in BOOLEAN /\ overlap \in BOOLEAN

(* No change is waiting for the worker, and its last run succeeded. *)
Applied == /\ unsent = 0 /\ applyCh = 0
           /\ worker.pc = "wait" /\ worker.ok
           /\ worker.ran \/ boots = 0

NoCommand == \A c \in Caller : ~InFlight(c)

(* A restart by the watchdog may run into the worker's writes and start    *)
(* xray on one new file and one old one.  Once the change has been applied *)
(* that xray is gone: while the VPN is on, a running xray runs on what     *)
(* the user last asked for.                                                *)
RunsWhatWasAsked ==
    Applied /\ want.on /\ Up => xray = Both(want.conf)

(* The kill switch: with the VPN on and applied, and no xkeen command at   *)
(* work, clients are redirected to xray even if it is dead, unless a       *)
(* command has failed and no restart has been completed since, or the      *)
(* daemon died in the middle of a stop.                                    *)
FailsClosed ==
    Applied /\ want.on /\ NoCommand /\ ~undone =>
        redirect \/ cmd["oldWorker"].kind = "stop"

(* Off is off, unless a tick of the watchdog that had seen the VPN on, or  *)
(* a command of a daemon that died, was under way when the worker stopped  *)
(* xray.                                                                   *)
OffUnlessOverlap ==
    Applied /\ ~want.on /\ NoCommand /\ ~overlap => ~Up /\ ~redirect

(* Whatever fails, as long as it stops failing: if users leave the VPN on, *)
(* xray is up in the end and stays up.                                     *)
Recovers == <>[](want.on => Up)

-----------------------------------------------------------------------------
(* What the repository says and the code does not do. *)

(* README: "VPN toggle off: stops xkeen".                                  *)
OffMeansOff ==
    Applied /\ ~want.on /\ NoCommand /\ dog.pc = "sleep" => ~Up

(* ARCHITECTURE.md: "on repeated failure: exponential back-off up to 5     *)
(* min".                                                                   *)
BacksOff ==
    dog.pc = "sleep" => Sleep = IF inARow = 0 THEN 1 ELSE Pause(inARow)
=============================================================================
