----------------------------- MODULE ApplyPath -----------------------------
(***************************************************************************)
(* The daemon's request handlers, its state file, its single apply worker  *)
(* and the two config files the worker writes before it drives xkeen       *)
(* (cmd/router-app/handlers.go over internal/state, internal/xray and      *)
(* internal/services).                                                     *)
(*                                                                         *)
(* net/http runs every request in a goroutine of its own, so the handlers  *)
(* interleave at each acquisition of the state's lock: one action below is *)
(* one critical section, or one call out of the process.  Each element of  *)
(* Req is one request, made at most once; Req therefore bounds how many    *)
(* requests a behaviour has, and all of them may be in flight together.    *)
(*                                                                         *)
(* Two things are history, which no guard reads: raced, of a request, says *)
(* that another one committed between its check and its commit; missed     *)
(* says what has changed without a signal since the worker last read it.   *)
(*                                                                         *)
(* Not here: the watchdog and xray's own death (module Supervisor), and    *)
(* inputs that a handler turns away before it has looked at the state,     *)
(* which leave everything as it was.                                       *)
(***************************************************************************)
EXTENDS StateData, Integers

CONSTANTS
    Req,            \* requests
    Kinds,          \* bound: the kinds of request clients send
    Saved,          \* state files the daemon may first start from
    MaxBoots,       \* bound: crashes followed by a restart
    MaxFailedSaves  \* bound: writes of state.json that fail

AllKinds == {"add", "delete", "refresh", "server", "toggle",
             "rulesURL", "rulesRefresh", "rename"}

ASSUME KindsAssumption == Kinds \subseteq AllKinds
ASSUME SavedAssumption == Saved \subseteq Data \cup {None}
ASSUME BoundsAssumption == MaxBoots \in Nat /\ MaxFailedSaves \in Nat
ASSUME NoneIsNoData == None \notin Data

VARIABLES
    mem,          \* State.data
    disk,         \* state.json; None when there is no usable file
    issued,       \* every subscription id ever drawn
    failedSaves,  \* writes of state.json that failed so far
    boots,        \* restarts so far
    applyCh,      \* signals in the buffered channel
    reqs,         \* each request: where its handler is, and its locals
    worker,       \* applyLoop: where it is, and what it last read
    files,        \* 04_outbounds.json and 05_routing.json
    xkeen,        \* is xray up, and on which files it was started
    missed        \* history: what was changed unannounced since the last read

store   == <<mem, disk, failedSaves>>
runtime == <<files, xkeen>>
vars    == <<mem, disk, issued, failedSaves, boots, applyCh, reqs, worker,
             files, xkeen, missed>>

ApplyChCapacity == 1

(* What WriteXKeenSplit puts into the two files: outbounds is None when    *)
(* the proxy outbound is omitted, routing is None for the bundled rules.   *)
Files == [outbounds : Content \cup {None}, routing : RulesURL \cup {None}]

(* The part of the state that regenerateAndRestart takes from Snapshot.    *)
Policy(d) == [vpnOn |-> d.vpnOn, rules |-> d.rules]

Intended(d) == [outbounds |-> ActiveServer(d), routing |-> d.rules]

Answered == {"ok", "refused", "error"}   \* 200, 4xx/502, 500
Ended    == Answered \cup {"killed"}     \* killed: the process died first

(* The worker of a process that has just started with data d.  ran tells   *)
(* whether it has finished an iteration in this process.                   *)
Fresh(d) == [pc |-> "wait", policy |-> Policy(d), server |-> ActiveServer(d),
             ok |-> TRUE, ran |-> FALSE]

Init ==
    /\ disk \in Saved
    /\ mem = Load(disk)
    /\ issued = {s \in SubId : HasSubscription(mem, s) \/ ActiveIn(mem, s)}
    /\ failedSaves = 0
    /\ boots = 0
    /\ applyCh = 0
    /\ reqs = [r \in Req |-> [pc |-> "new", op |-> None,
                              affected |-> FALSE, got |-> None,
                              raced |-> FALSE]]
    /\ worker = Fresh(mem)
    /\ files = Intended(mem)
    /\ xkeen = [up |-> mem.vpnOn, conf |-> files]
    /\ missed = {}

-----------------------------------------------------------------------------
(* Steps that handlers share. *)

At(r, kind, pc) == /\ reqs[r].pc = pc
                   /\ reqs[r].op.kind = kind

Goto(r, pc) == reqs' = [reqs EXCEPT ![r].pc = pc]

Begin(r, op, pc) ==
    /\ op.kind \in Kinds
    /\ reqs[r].pc = "new"
    /\ reqs' = [reqs EXCEPT ![r].pc = pc, ![r].op = op]

(* saveLocked writes a temporary file and renames it: all or nothing.  The *)
(* memory keeps the new data either way.                                   *)
Save(d, saved) ==
    /\ mem' = d
    /\ \/ /\ saved
          /\ disk' = d
          /\ UNCHANGED failedSaves
       \/ /\ ~saved
          /\ failedSaves < MaxFailedSaves
          /\ failedSaves' = failedSaves + 1
          /\ UNCHANGED disk

(* History: request r commits between the check of q and the commit of q,  *)
(* and does what that check was about.  A refresh of the active            *)
(* subscription counts whether or not the selected server survives it.     *)
Overtakes(r, q) ==
    LET c == reqs[r].op
        o == reqs[q].op
        removal == c.kind \in {"delete", "refresh"}
        selection == c.kind = "server" /\ c.ref # None
    IN /\ reqs[q].pc = "commit"
       /\ \/ /\ o.kind \in {"delete", "refresh"}
             /\ selection /\ c.ref.sub = o.sub
          \/ /\ o.kind = "server" /\ o.ref # None
             /\ removal /\ c.sub = o.ref.sub
          \/ /\ o.kind = "toggle" /\ o.on
             /\ \/ removal /\ ActiveIn(mem, c.sub)
                \/ c.kind = "server" /\ c.ref = None
                \/ selection /\ reqs[r].raced
          \/ /\ o.kind = "rulesRefresh"
             /\ c.kind = "rulesURL"

(* The parts of the state, as the worker reads them, that differ. *)
Altered(d, e) ==
    {p \in {"policy", "server"} :
        IF p = "policy" THEN Policy(d) # Policy(e)
                        ELSE ActiveServer(d) # ActiveServer(e)}

(* A handler's Update to data d: on to next, or answer 500.  It goes by    *)
(* unannounced when the save fails, and when a deletion or refresh does    *)
(* not signal because the selection it looked for came after it looked.    *)
Update(r, d, next) ==
    /\ \E saved \in BOOLEAN :
          /\ Save(d, saved)
          /\ reqs' = [q \in Req |->
                IF q = r
                THEN [reqs[r] EXCEPT !.pc = IF saved THEN next ELSE "error"]
                ELSE [reqs[q] EXCEPT !.raced = @ \/ Overtakes(r, q)]]
          /\ missed' = IF ~saved \/ (next = "ok" /\ reqs[r].raced)
                       THEN missed \cup Altered(mem, d) ELSE missed
    /\ UNCHANGED <<issued, boots, applyCh, worker, runtime>>

Reading == UNCHANGED <<store, issued, boots, applyCh, worker, runtime, missed>>

(* respondAfterApply, first half: the flag.  A failed save is ignored. *)
MarkApplying(r) ==
    /\ reqs[r].pc = "mark"
    /\ \E saved \in BOOLEAN : Save([mem EXCEPT !.applying = TRUE], saved)
    /\ Goto(r, "signal")
    /\ UNCHANGED <<issued, boots, applyCh, worker, runtime, missed>>

(* Slips: a send that overfills the buffer, and one that needs the worker  *)
(* to be receiving at that moment (an unbuffered channel).                 *)
SendAlways == applyCh + 1
SendUnbuffered == IF worker.pc = "wait" THEN ApplyChCapacity ELSE applyCh

(* A non-blocking send: a signal that finds the buffer full is dropped. *)
AfterSend == IF applyCh < ApplyChCapacity THEN applyCh + 1 ELSE applyCh

RequestApply(r) ==
    /\ reqs[r].pc = "signal"
    /\ applyCh' = AfterSend
    /\ Goto(r, "ok")
    /\ UNCHANGED <<store, issued, boots, worker, runtime, missed>>

-----------------------------------------------------------------------------
(* POST /api/subscriptions.  The fetch reads no state, so it is part of    *)
(* this step.  A new card needs no apply.                                  *)

PostAddSubscription(r) ==
    /\ "add" \in Kinds
    /\ reqs[r].pc = "new"
    /\ \E s \in SubId \ issued, l \in Listing :
          /\ DOMAIN l # {}
          /\ issued' = issued \cup {s}
          /\ \E saved \in BOOLEAN :
                /\ Save(AddSubscription(mem, s, l), saved)
                /\ reqs' = [reqs EXCEPT
                      ![r].pc = IF saved THEN "ok" ELSE "error",
                      ![r].op = [kind |-> "add", sub |-> s]]
    /\ UNCHANGED <<boots, applyCh, worker, runtime, missed>>

-----------------------------------------------------------------------------
(* DELETE /api/subscriptions/{id} *)

DeleteCheck(r) ==
    /\ \E s \in SubId :
          Begin(r, [kind |-> "delete", sub |-> s],
                IF HasSubscription(mem, s) THEN "snapshot" ELSE "refused")
    /\ Reading

(* affected is computed from this snapshot and used after the deletion. *)
DeleteSnapshot(r) ==
    /\ At(r, "delete", "snapshot")
    /\ reqs' = [reqs EXCEPT ![r].pc = "commit",
                            ![r].affected = ActiveIn(mem, reqs[r].op.sub)]
    /\ Reading

DeleteCommit(r) ==
    /\ At(r, "delete", "commit")
    /\ Update(r, DeleteSubscription(mem, reqs[r].op.sub),
              IF reqs[r].affected THEN "signal" ELSE "ok")

-----------------------------------------------------------------------------
(* POST /api/subscriptions/{id}/refresh.  The existence check and the      *)
(* lookup of the source are one step: a subscription deleted between them  *)
(* has an empty source, whose fetch fails.                                 *)

RefreshCheck(r) ==
    /\ \E s \in SubId :
          Begin(r, [kind |-> "refresh", sub |-> s],
                IF HasSubscription(mem, s) THEN "fetch" ELSE "refused")
    /\ Reading

(* The download ends, up to 30 s after the check; then comes the snapshot  *)
(* that wasActiveHere is computed from.                                    *)
RefreshFetched(r) ==
    /\ At(r, "refresh", "fetch")
    /\ \E l \in Listing :
          /\ DOMAIN l # {}
          /\ reqs' = [reqs EXCEPT ![r].pc = "commit", ![r].got = l,
                                  ![r].affected = ActiveIn(mem, reqs[r].op.sub)]
    /\ Reading

RefreshFailed(r) ==
    /\ At(r, "refresh", "fetch")
    /\ Goto(r, "refused")
    /\ Reading

RefreshCommit(r) ==
    /\ At(r, "refresh", "commit")
    /\ Update(r, ReplaceSubscriptionServers(mem, reqs[r].op.sub, reqs[r].got),
              IF reqs[r].affected THEN "signal" ELSE "ok")

-----------------------------------------------------------------------------
(* PATCH /api/subscriptions/{id}: only the label changes, but the whole    *)
(* state is saved again.                                                   *)

PatchCheck(r) ==
    /\ \E s \in SubId :
          Begin(r, [kind |-> "rename", sub |-> s],
                IF HasSubscription(mem, s) THEN "commit" ELSE "refused")
    /\ Reading

PatchCommit(r) ==
    /\ At(r, "rename", "commit")
    /\ Update(r, mem, "ok")

-----------------------------------------------------------------------------
(* POST /api/server: HasServer, then a separate Update; null deselects and *)
(* leaves vpn_on as it is.                                                 *)

SelectCheck(r) ==
    /\ \E ref \in Ref :
          Begin(r, [kind |-> "server", ref |-> ref],
                IF HasServer(mem, ref) THEN "commit" ELSE "refused")
    /\ Reading

DeselectStart(r) ==
    /\ Begin(r, [kind |-> "server", ref |-> None], "commit")
    /\ Reading

ServerCommit(r) ==
    /\ At(r, "server", "commit")
    /\ Update(r, [mem EXCEPT !.active = reqs[r].op.ref], "mark")

-----------------------------------------------------------------------------
(* POST /api/toggle: the target is checked only when switching on. *)

ToggleCheck(r) ==
    /\ \E on \in BOOLEAN :
          Begin(r, [kind |-> "toggle", on |-> on],
                IF on /\ ActiveServer(mem) = None THEN "refused" ELSE "commit")
    /\ Reading

ToggleCommit(r) ==
    /\ At(r, "toggle", "commit")
    /\ Update(r, [mem EXCEPT !.vpnOn = reqs[r].op.on], "mark")

-----------------------------------------------------------------------------
(* POST /api/rules-url and POST /api/rules/refresh.  Both download before  *)
(* the Update; the refresh downloads the URL it read first and leaves      *)
(* rules_url alone.                                                        *)

RulesURLStart(r) ==
    /\ \E u \in RulesURL \cup {None} :
          Begin(r, [kind |-> "rulesURL", url |-> u], "commit")
    /\ Reading

(* Slip: the rules fetched from the previous URL stay. *)
RulesURLOnly(r) ==
    /\ At(r, "rulesURL", "commit")
    /\ Update(r, [mem EXCEPT !.rulesURL = reqs[r].op.url], "mark")

RulesURLCommit(r) ==
    /\ At(r, "rulesURL", "commit")
    /\ Update(r, [mem EXCEPT !.rulesURL = reqs[r].op.url,
                             !.rules    = reqs[r].op.url], "mark")

RulesRefreshCheck(r) ==
    /\ Begin(r, [kind |-> "rulesRefresh", url |-> mem.rulesURL],
             IF mem.rulesURL = None THEN "refused" ELSE "commit")
    /\ Reading

RulesRefreshCommit(r) ==
    /\ At(r, "rulesRefresh", "commit")
    /\ Update(r, [mem EXCEPT !.rules = reqs[r].op.url], "mark")

RulesFetchFailed(r) ==
    /\ \/ At(r, "rulesURL", "commit") /\ reqs[r].op.url # None
       \/ At(r, "rulesRefresh", "commit")
    /\ Goto(r, "refused")
    /\ Reading

-----------------------------------------------------------------------------
(* applyLoop and regenerateAndRestart. *)

TakeSignal ==
    /\ worker.pc = "wait"
    /\ applyCh > 0
    /\ applyCh' = applyCh - 1
    /\ worker' = [worker EXCEPT !.pc = "snapshot"]
    /\ UNCHANGED <<store, issued, boots, reqs, runtime, missed>>

(* Snapshot and ActiveServer take the lock separately. *)
ReadSnapshot ==
    /\ worker.pc = "snapshot"
    /\ worker' = [worker EXCEPT !.pc = "server", !.policy = Policy(mem)]
    /\ missed' = missed \ {"policy"}
    /\ UNCHANGED <<store, issued, boots, applyCh, reqs, runtime>>

(* Slip: the previous server is kept when the selection has none. *)
ReadServerSticky ==
    /\ worker.pc = "server"
    /\ worker' = [worker EXCEPT !.pc = "outbounds",
                     !.server = IF ActiveServer(mem) = None THEN @
                                ELSE ActiveServer(mem)]
    /\ missed' = missed \ {"server"}
    /\ UNCHANGED <<store, issued, boots, applyCh, reqs, runtime>>

ReadServer ==
    /\ worker.pc = "server"
    /\ worker' = [worker EXCEPT !.pc = "outbounds", !.server = ActiveServer(mem)]
    /\ missed' = missed \ {"server"}
    /\ UNCHANGED <<store, issued, boots, applyCh, reqs, runtime>>

Finishing(ok) == [worker EXCEPT !.pc = "finish", !.ok = ok]

WriteOutbounds ==
    /\ worker.pc = "outbounds"
    /\ files' = [files EXCEPT !.outbounds = worker.server]
    /\ worker' = [worker EXCEPT !.pc = "routing"]
    /\ UNCHANGED <<store, issued, boots, applyCh, reqs, xkeen, missed>>

WriteRouting ==
    /\ worker.pc = "routing"
    /\ files' = [files EXCEPT !.routing = worker.policy.rules]
    /\ worker' = [worker EXCEPT !.pc = "xkeen"]
    /\ UNCHANGED <<store, issued, boots, applyCh, reqs, xkeen, missed>>

(* Either write may fail; what was written before it stays. *)
WriteFails ==
    /\ worker.pc \in {"outbounds", "routing"}
    /\ worker' = Finishing(FALSE)
    /\ UNCHANGED <<store, issued, boots, applyCh, reqs, runtime, missed>>

(* Slip: -start, which leaves a running xray on its old files. *)
StartedOnly == IF worker.policy.vpnOn /\ ~xkeen.up
               THEN [up |-> TRUE, conf |-> files]
               ELSE [xkeen EXCEPT !.up = worker.policy.vpnOn]

(* xkeen -restart, xkeen -stop. *)
Commanded == IF worker.policy.vpnOn THEN [up |-> TRUE, conf |-> files]
                                    ELSE [xkeen EXCEPT !.up = FALSE]

DriveXKeen ==
    /\ worker.pc = "xkeen"
    /\ xkeen' = Commanded
    /\ worker' = Finishing(TRUE)
    /\ UNCHANGED <<store, issued, boots, applyCh, reqs, files, missed>>

(* A bad exit, or 90 s without one: the command may have done nothing, all *)
(* of its work, or only the stopping half of a restart.                    *)
XKeenFails ==
    /\ worker.pc = "xkeen"
    /\ xkeen' \in {xkeen, Commanded, [xkeen EXCEPT !.up = FALSE]}
    /\ worker' = Finishing(FALSE)
    /\ UNCHANGED <<store, issued, boots, applyCh, reqs, files, missed>>

(* Slip: the flag is cleared only after a success. *)
ReportedKeepingFlag ==
    [mem EXCEPT !.applying  = @ /\ ~worker.ok,
                !.lastApply = IF worker.ok THEN "ok" ELSE "failed"]

Reported == [mem EXCEPT !.applying  = FALSE,
                        !.lastApply = IF worker.ok THEN "ok" ELSE "failed"]

(* Slip: the loop returns when an apply has failed. *)
FinishAndReturn ==
    /\ worker.pc = "finish"
    /\ \E saved \in BOOLEAN : Save(Reported, saved)
    /\ worker' = [worker EXCEPT !.pc = IF worker.ok THEN "wait" ELSE "returned",
                                !.ran = TRUE]
    /\ UNCHANGED <<issued, boots, applyCh, reqs, runtime, missed>>

FinishApply ==
    /\ worker.pc = "finish"
    /\ \E saved \in BOOLEAN : Save(Reported, saved)
    /\ worker' = [worker EXCEPT !.pc = "wait", !.ran = TRUE]
    /\ UNCHANGED <<issued, boots, applyCh, reqs, runtime, missed>>

-----------------------------------------------------------------------------
(* The process dies (SIGTERM waits for neither the worker nor xkeen) and   *)
(* starts again: the state comes back from the file, the channel is empty, *)
(* nothing is applied.                                                     *)

CrashAndRestart ==
    /\ boots < MaxBoots
    /\ boots' = boots + 1
    /\ mem' = Load(disk)
    /\ applyCh' = 0
    /\ reqs' = [r \in Req |-> IF reqs[r].pc \in Ended \cup {"new"} THEN reqs[r]
                              ELSE [reqs[r] EXCEPT !.pc = "killed"]]
    /\ worker' = Fresh(Load(disk))
    /\ missed' = {}
    /\ UNCHANGED <<disk, issued, failedSaves, runtime>>

-----------------------------------------------------------------------------
Arrive(r) ==
    \/ PostAddSubscription(r)
    \/ DeleteCheck(r)
    \/ RefreshCheck(r)
    \/ PatchCheck(r)
    \/ SelectCheck(r)
    \/ DeselectStart(r)
    \/ ToggleCheck(r)
    \/ RulesURLStart(r)
    \/ RulesRefreshCheck(r)

Continue(r) ==
    \/ DeleteSnapshot(r)
    \/ DeleteCommit(r)
    \/ RefreshFetched(r)
    \/ RefreshFailed(r)
    \/ RefreshCommit(r)
    \/ PatchCommit(r)
    \/ ServerCommit(r)
    \/ ToggleCommit(r)
    \/ RulesURLCommit(r)
    \/ RulesRefreshCommit(r)
    \/ RulesFetchFailed(r)
    \/ MarkApplying(r)
    \/ RequestApply(r)

WorkerStep ==
    \/ TakeSignal
    \/ ReadSnapshot
    \/ ReadServer
    \/ WriteOutbounds
    \/ WriteRouting
    \/ WriteFails
    \/ DriveXKeen
    \/ XKeenFails
    \/ FinishApply

Next ==
    \/ \E r \in Req : Arrive(r) \/ Continue(r)
    \/ WorkerStep
    \/ CrashAndRestart

Spec == Init /\ [][Next]_vars

(* Goroutines keep running, downloads have a 30 s client timeout and xkeen *)
(* is killed after 90 s.  Nobody has to make a request.                    *)
FairSpec == /\ Spec
            /\ \A r \in Req : WF_vars(Continue(r))
            /\ WF_vars(WorkerStep)
=============================================================================
