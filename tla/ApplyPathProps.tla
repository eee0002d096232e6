--------------------------- MODULE ApplyPathProps ---------------------------
(***************************************************************************)
(* What the apply path promises, stated over ApplyPath.                    *)
(***************************************************************************)
EXTENDS ApplyPath

RequestPc == {"new", "snapshot", "fetch", "commit", "mark", "signal"} \cup Ended
WorkerPc  == {"wait", "snapshot", "server", "outbounds", "routing", "xkeen",
              "finish"}

Op == [kind : {"add", "delete", "refresh", "rename"}, sub : SubId]
      \cup [kind : {"server"}, ref : Ref \cup {None}]
      \cup [kind : {"toggle"}, on : BOOLEAN]
      \cup [kind : {"rulesURL", "rulesRefresh"}, url : RulesURL \cup {None}]

Request == [pc : {"new"}, op : {None}, affected : BOOLEAN,
            got : Listing \cup {None}, raced : BOOLEAN]
           \cup [pc : RequestPc \ {"new"}, op : Op, affected : BOOLEAN,
                 got : Listing \cup {None}, raced : BOOLEAN]

(* What the worker reads under separate locks. *)
Part == {"policy", "server"}

Policies == [vpnOn : BOOLEAN, rules : RulesURL \cup {None}]

(* The type invariant. *)
TypeOK ==
    /\ mem \in Data
    /\ disk \in Data \cup {None}
    /\ issued \subseteq SubId
    /\ failedSaves \in Nat
    /\ boots \in Nat
    /\ applyCh \in 0..ApplyChCapacity
    /\ reqs \in [Req -> Request]
    /\ worker \in [pc : WorkerPc,
                   policy : Policies,
                   server : Content \cup {None},
                   ok : BOOLEAN, ran : BOOLEAN]
    /\ files \in Files
    /\ xkeen \in [up : BOOLEAN, conf : Files]
    /\ missed \subseteq Part

-----------------------------------------------------------------------------
(* A signal is on its way to the worker. *)
Pending == \/ applyCh > 0
           \/ \E r \in Req : reqs[r].pc \in {"mark", "signal"}

PolicyUnread == Pending \/ worker.pc = "snapshot"
ServerUnread == Pending \/ worker.pc \in {"snapshot", "server"}

(* No lost wakeup: whenever the policy or the server the worker last read  *)
(* differs from the state, a signal is queued, a handler is about to send  *)
(* one, or the worker has still to read in this iteration.  Dropping the   *)
(* signal of a full channel loses nothing, and neither does reading the    *)
(* state in two halves.  The exceptions are the changes that Update notes  *)
(* in missed, each until the worker's next read of that part: the change   *)
(* whose save failed (the client saw 500), and the deletion or refresh     *)
(* whose subscription was selected between its snapshot and its commit.    *)
NoLostWakeup ==
    /\ worker.policy # Policy(mem) => PolicyUnread \/ "policy" \in missed
    /\ worker.server # ActiveServer(mem) => ServerUnread \/ "server" \in missed

(* The apply path implements LatestWins: the two parts are the policy and  *)
(* the server, which the worker reads under separate locks.                *)
ByPart(policy, server) == [p \in Part |-> IF p = "policy" THEN policy ELSE server]

Unread == {p \in Part : IF p = "policy" THEN PolicyUnread ELSE ServerUnread}

LW == INSTANCE LatestWins WITH
          Value  <- Policies \cup Content \cup {None},
          want   <- ByPart(Policy(mem), ActiveServer(mem)),
          got    <- ByPart(worker.policy, worker.server),
          owed   <- Unread,
          missed <- missed

(* Every step of the daemon is a step of LatestWins, or none.  In          *)
(* particular the worker never applies a value that was not in the state   *)
(* at the moment it read it.                                               *)
ImplementsLatestWins == LW!Spec

-----------------------------------------------------------------------------
Quiet == /\ \A r \in Req : reqs[r].pc \in Ended \cup {"new"}
         /\ applyCh = 0
         /\ worker.pc = "wait"

(* The files say what the state says, and so does xray. *)
InForce == /\ files = Intended(mem)
           /\ xkeen.up = mem.vpnOn
           /\ xkeen.up => xkeen.conf = files

(* When nothing is left to do and the last apply reported success, the     *)
(* state, the two files and the running xray agree, however the requests   *)
(* interleaved with each other and with the worker, unless a change went   *)
(* by unannounced since the last apply (missed).  A restart applies        *)
(* nothing by itself: after one the promise starts with the next apply.    *)
QuietMeansInForce ==
    /\ Quiet
    /\ mem.lastApply # "failed"
    /\ worker.ran \/ boots = 0
    => missed # {} \/ InForce

(* Controls are disabled only while somebody is going to enable them: if   *)
(* applying is set, a signal is queued, about to be sent, or being served. *)
(* A flag read back from the state file at start is the exception, until   *)
(* the first apply of the new process.                                     *)
ApplyingHasOwner ==
    worker.ran /\ mem.applying =>
        \/ applyCh > 0
        \/ \E r \in Req : reqs[r].pc = "signal"
        \/ worker.pc # "wait"

-----------------------------------------------------------------------------
(* Request q, of the given kind, commits in this step. *)
Commits(q, kind) == /\ At(q, kind, "commit")
                    /\ reqs'[q].pc # "commit"

(* ... and another one had committed, between its check and now, what that *)
(* check was about.                                                        *)
CommitsOvertaken(q, kind) == Commits(q, kind) /\ reqs[q].raced

Dangling(d) == d.active # None /\ ~HasServer(d, d.active)

Targetless(d) == d.vpnOn /\ ActiveServer(d) = None

(* A selection comes to point at a server that is gone in one way only     *)
(* (but for a start from a file that says so): postServer commits it after *)
(* a deletion or a refresh of that subscription has committed since its    *)
(* HasServer check.  No deletion and no refresh leaves one dangling.       *)
DanglesOnlyByRace ==
    [][Dangling(mem') =>
          \/ Dangling(mem) /\ mem'.active = mem.active
          \/ boots' # boots
          \/ \E q \in Req : /\ CommitsOvertaken(q, "server")
                            /\ mem'.active = reqs[q].op.ref]_vars

(* The VPN comes to be on without a target in three ways only (but for a   *)
(* start from a file that says so): a deselection, which leaves vpn_on as  *)
(* it is; such an overtaken selection; and switching it on after the       *)
(* target that postToggle looked for was deselected or removed, or after   *)
(* an overtaken selection has replaced it.                                 *)
OnWithoutTargetOnlyBy ==
    [][Targetless(mem') =>
          \/ Targetless(mem)
          \/ boots' # boots
          \/ \E q \in Req : Commits(q, "server") /\ reqs[q].op.ref = None
          \/ \E q \in Req : CommitsOvertaken(q, "server")
          \/ \E q \in Req : CommitsOvertaken(q, "toggle") /\ reqs[q].op.on]_vars

(* The rules in force come to differ from those of the URL on record - the *)
(* bundled ones when there is none - in one way only (but for a start from *)
(* such a file): a refresh commits what it has downloaded from the URL it  *)
(* read, after postRulesURL has committed another one meanwhile.           *)
RulesApartOnlyByRefresh ==
    [][mem'.rules # mem'.rulesURL =>
          \/ mem'.rules = mem.rules /\ mem'.rulesURL = mem.rulesURL
          \/ boots' # boots
          \/ \E q \in Req : /\ CommitsOvertaken(q, "rulesRefresh")
                            /\ mem'.rules = reqs[q].op.url]_vars

-----------------------------------------------------------------------------
(* What makes the invariants above inductive. *)

(* Ids in use, in memory, on disk or in a request that has passed its      *)
(* check, have been issued: a new card never takes over a selection.       *)
Uses(d, s) == HasSubscription(d, s) \/ ActiveIn(d, s)

IssuedInv ==
    /\ \A s \in SubId : Uses(mem, s) => s \in issued
    /\ disk # None => \A s \in SubId : Uses(disk, s) => s \in issued
    /\ \A r \in Req :
          /\ At(r, "server", "commit")
          /\ reqs[r].op.ref # None
          => reqs[r].op.ref.sub \in issued

(* What a request found when it looked still holds in record d. *)
CheckHolds(d, req) ==
    LET op == req.op
    IN /\ op.kind \in {"delete", "refresh"} /\ ~req.affected =>
             ~ActiveIn(d, op.sub)
       /\ op.kind = "server" /\ op.ref # None => HasServer(d, op.ref)
       /\ op.kind = "toggle" /\ op.on => ActiveServer(d) # None
       /\ op.kind = "rulesRefresh" => d.rulesURL = op.url

(* A request about to commit, which nobody has overtaken, commits on what  *)
(* it has checked; and a refresh has a list to commit.                     *)
RaceInv ==
    \A r \in Req : reqs[r].pc = "commit" =>
        /\ ~reqs[r].raced => CheckHolds(mem, reqs[r])
        /\ reqs[r].op.kind = "refresh" => reqs[r].got \in Listing

(* Files and xray say what the worker read. *)
Applied == /\ files = [outbounds |-> worker.server,
                       routing   |-> worker.policy.rules]
           /\ xkeen.up = worker.policy.vpnOn
           /\ xkeen.up => xkeen.conf = files

WorkerInv ==
    /\ worker.pc \in {"routing", "xkeen"} => files.outbounds = worker.server
    /\ worker.pc = "xkeen" => files.routing = worker.policy.rules
    /\ worker.pc = "finish" /\ worker.ok => Applied
    /\ /\ worker.pc = "wait"
       /\ mem.lastApply # "failed"
       /\ worker.ran \/ boots = 0
       => Applied

IInv == /\ TypeOK
        /\ IssuedInv
        /\ RaceInv
        /\ NoLostWakeup
        /\ ApplyingHasOwner
        /\ WorkerInv

-----------------------------------------------------------------------------
(* Under FairSpec. *)

(* Whatever clients do, in the end nothing is owed to the worker's reads.  *)
Delivered == LW!Settles

(* The controls never stay disabled. *)
ControlsComeBack == mem.applying ~> ~mem.applying

(* In the end the state is in force, unless the last apply said it failed  *)
(* or a change has gone by unannounced since.                              *)
EventuallyInForce ==
    <>[](missed # {} \/ mem.lastApply = "failed" \/ InForce)

-----------------------------------------------------------------------------
(* What the repository says and the code does not do. *)

(* ARCHITECTURE.md: "final intent always wins".                            *)
FinalIntentWins ==
    Quiet /\ mem.lastApply # "failed" /\ (\A r \in Req : reqs[r].pc # "error")
    => InForce

(* state.go on Applying: "true between requestApply and the worker         *)
(* finishing its iteration".                                               *)
ApplyingIsTransient == Quiet => ~mem.applying
=============================================================================
