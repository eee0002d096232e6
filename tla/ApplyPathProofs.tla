-------------------------- MODULE ApplyPathProofs --------------------------
(***************************************************************************)
(* Theorems about ApplyPath, for every set of requests, every set of       *)
(* subscriptions, servers and rules, and every bound.                      *)
(***************************************************************************)
EXTENDS ApplyPathProps, TLAPS

-----------------------------------------------------------------------------
(* What the operators of StateData return. *)

(* A state file, or the lack of one, loads as a well-formed record. *)
LEMMA LoadType ==
    ASSUME NEW f \in Data \cup {None}, None \notin Data
    PROVE  Load(f) \in Data
BY DEF Load, Defaults, Data

(* ActiveServer (state.go) answers with the parameters of a known server,  *)
(* or nil.                                                                 *)
LEMMA ActiveServerType ==
    ASSUME NEW d \in Data
    PROVE  ActiveServer(d) \in Content \cup {None}
<1>1. CASE d.active # None /\ HasServer(d, d.active)
  <2>1. d.active \in Ref /\ d.active.sub \in SubId
    BY <1>1 DEF Data, Ref
  <2>2. d.subs[d.active.sub] \in Listing
    BY <1>1, <2>1 DEF Data, HasServer, HasSubscription
  <2>3. d.subs[d.active.sub][d.active.srv] \in Content
    BY <1>1, <2>2, ListingAssumption DEF HasServer
  <2>. QED BY <1>1, <2>3 DEF ActiveServer
<1>2. CASE ~(d.active # None /\ HasServer(d, d.active))
  BY <1>2 DEF ActiveServer
<1>. QED BY <1>1, <1>2

(* The three updates of the subscription list keep the record well formed. *)
LEMMA AddSubscriptionType ==
    ASSUME NEW d \in Data, NEW s \in SubId, NEW l \in Listing
    PROVE  AddSubscription(d, s, l) \in Data
BY DEF AddSubscription, Data

(* A deletion. *)
LEMMA DeleteSubscriptionType ==
    ASSUME NEW d \in Data, NEW s \in SubId
    PROVE  DeleteSubscription(d, s) \in Data
BY DEF DeleteSubscription, Deselected, Data

(* A refresh. *)
LEMMA ReplaceSubscriptionServersType ==
    ASSUME NEW d \in Data, NEW s \in SubId, NEW l \in Listing \cup {None}
    PROVE  ReplaceSubscriptionServers(d, s, l) \in Data
BY DEF ReplaceSubscriptionServers, Deselected, Data

(* A deletion or a refresh of subscription s only changes what the apply   *)
(* worker derives from the state when the selection points into s.         *)
LEMMA DeleteElsewhere ==
    ASSUME NEW d \in Data, NEW s \in SubId, ~ActiveIn(d, s)
    PROVE  /\ ActiveServer(DeleteSubscription(d, s)) = ActiveServer(d)
           /\ DeleteSubscription(d, s).vpnOn = d.vpnOn
           /\ DeleteSubscription(d, s).rules = d.rules
BY DEF DeleteSubscription, Deselected, ActiveIn, ActiveServer, HasServer,
       HasSubscription, Data, Ref

(* The same of a refresh. *)
LEMMA ReplaceElsewhere ==
    ASSUME NEW d \in Data, NEW s \in SubId, NEW l \in Listing \cup {None},
           ~ActiveIn(d, s)
    PROVE  /\ ActiveServer(ReplaceSubscriptionServers(d, s, l)) = ActiveServer(d)
           /\ ReplaceSubscriptionServers(d, s, l).vpnOn = d.vpnOn
           /\ ReplaceSubscriptionServers(d, s, l).rules = d.rules
BY DEF ReplaceSubscriptionServers, Deselected, ActiveIn, ActiveServer,
       HasServer, HasSubscription, Data, Ref

(* A new card under an unused id changes nothing for the worker, unless a  *)
(* selection already points at that id.                                    *)
LEMMA AddElsewhere ==
    ASSUME NEW d \in Data, NEW s \in SubId, NEW l \in Listing, ~ActiveIn(d, s)
    PROVE  /\ ActiveServer(AddSubscription(d, s, l)) = ActiveServer(d)
           /\ AddSubscription(d, s, l).vpnOn = d.vpnOn
           /\ AddSubscription(d, s, l).rules = d.rules
BY DEF AddSubscription, ActiveIn, ActiveServer, HasServer, HasSubscription,
       Data, Ref

(* No update of the list touches what the apply worker reports, nor the    *)
(* lists of other subscriptions, and none moves the selection elsewhere.   *)
Keeps(d, e, s) == /\ e.lastApply = d.lastApply
                  /\ e.applying = d.applying
                  /\ e.active \in {d.active, None}
                  /\ \A t \in SubId \ {s} : e.subs[t] = d.subs[t]

(* A new card. *)
LEMMA AddKeeps ==
    ASSUME NEW d \in Data, NEW s \in SubId, NEW l \in Listing
    PROVE  Keeps(d, AddSubscription(d, s, l), s)
BY DEF Keeps, AddSubscription, Data

(* A selection that is taken back. *)
LEMMA DeselectedKeeps ==
    ASSUME NEW d \in Data, NEW gone \in BOOLEAN
    PROVE  /\ Deselected(d, gone) \in Data
           /\ Deselected(d, gone).subs = d.subs
           /\ Deselected(d, gone).lastApply = d.lastApply
           /\ Deselected(d, gone).applying = d.applying
           /\ Deselected(d, gone).active \in {d.active, None}
BY DEF Deselected, Data

(* A deletion. *)
LEMMA DeleteKeeps ==
    ASSUME NEW d \in Data, NEW s \in SubId
    PROVE  Keeps(d, DeleteSubscription(d, s), s)
<1>. DEFINE e == Deselected(d, ActiveIn(d, s))
<1>1. /\ e \in Data
      /\ e.subs = d.subs /\ e.lastApply = d.lastApply
      /\ e.applying = d.applying /\ e.active \in {d.active, None}
  BY DeselectedKeeps DEF ActiveIn
<1>2. DeleteSubscription(d, s) = [e EXCEPT !.subs[s] = None]
  BY DEF DeleteSubscription
<1>. HIDE DEF e
<1>. QED BY <1>1, <1>2 DEF Keeps, Data

(* A refresh. *)
LEMMA ReplaceKeeps ==
    ASSUME NEW d \in Data, NEW s \in SubId, NEW l \in Listing \cup {None}
    PROVE  Keeps(d, ReplaceSubscriptionServers(d, s, l), s)
<1>. DEFINE gone == ActiveIn(d, s) /\ d.active.srv \notin DOMAIN l
            e == Deselected(d, gone)
<1>1. /\ e \in Data
      /\ e.subs = d.subs /\ e.lastApply = d.lastApply
      /\ e.applying = d.applying /\ e.active \in {d.active, None}
  <2>1. gone \in BOOLEAN
    BY DEF ActiveIn
  <2>. HIDE DEF gone
  <2>. QED BY <2>1, DeselectedKeeps
<1>2. ReplaceSubscriptionServers(d, s, l)
        = [e EXCEPT !.subs[s] = IF @ = None THEN None ELSE l]
  BY DEF ReplaceSubscriptionServers
<1>. HIDE DEF e
<1>. QED BY <1>1, <1>2 DEF Keeps, Data

-----------------------------------------------------------------------------
(* Type correctness. *)

(* Types: a save, *)
LEMMA SaveType ==
    ASSUME TypeOK, NEW d \in Data, NEW saved \in BOOLEAN, Save(d, saved)
    PROVE  mem' \in Data /\ disk' \in Data \cup {None} /\ failedSaves' \in Nat
BY DEF TypeOK, Save

(* A request that has begun moves on. *)
LEMMA GotoType ==
    ASSUME TypeOK, NEW r \in Req, reqs[r].pc # "new",
           NEW pc \in RequestPc \ {"new"}, Goto(r, pc)
    PROVE  reqs' \in [Req -> Request]
<1>1. reqs[r] \in Request
  BY DEF TypeOK
<1>2. [reqs[r] EXCEPT !.pc = pc] \in Request
  BY <1>1 DEF Request
<1>. QED BY <1>2 DEF TypeOK, Goto

(* the first step of a request, *)
LEMMA BeginType ==
    ASSUME TypeOK, NEW r \in Req, NEW op \in Op, NEW pc \in RequestPc \ {"new"},
           Begin(r, op, pc)
    PROVE  reqs' \in [Req -> Request]
<1>1. reqs[r] \in Request
  BY DEF TypeOK
<1>2. [reqs[r] EXCEPT !.pc = pc, !.op = op] \in Request
  BY <1>1 DEF Request
<1>. QED BY <1>2 DEF TypeOK, Begin

(* one that only reads, *)
LEMMA ReadingType ==
    ASSUME TypeOK, Reading, reqs' \in [Req -> Request]
    PROVE  TypeOK'
BY DEF TypeOK, Reading, store, runtime

(* what a commit leaves unannounced, *)
LEMMA AlteredType ==
    ASSUME NEW d, NEW e
    PROVE  /\ Altered(d, e) \subseteq Part
           /\ "policy" \in Altered(d, e) <=> Policy(d) # Policy(e)
           /\ "server" \in Altered(d, e) <=> ActiveServer(d) # ActiveServer(e)
BY DEF Altered, Part

(* an update of the store, *)
LEMMA UpdateType ==
    ASSUME TypeOK, NEW r \in Req, reqs[r].pc # "new", NEW d \in Data,
           NEW next \in RequestPc \ {"new"}, Update(r, d, next)
    PROVE  TypeOK'
<1>1. PICK saved \in BOOLEAN :
         /\ Save(d, saved)
         /\ reqs' = [q \in Req |->
               IF q = r
               THEN [reqs[r] EXCEPT !.pc = IF saved THEN next ELSE "error"]
               ELSE [reqs[q] EXCEPT !.raced = @ \/ Overtakes(r, q)]]
         /\ missed' = IF ~saved \/ (next = "ok" /\ reqs[r].raced)
                      THEN missed \cup Altered(mem, d) ELSE missed
  BY DEF Update
<1>2. "error" \in RequestPc \ {"new"}
  BY DEF RequestPc, Ended, Answered
<1>3. [reqs[r] EXCEPT !.pc = IF saved THEN next ELSE "error"] \in Request
  BY <1>2 DEF TypeOK, Request
<1>4. ASSUME NEW q \in Req
      PROVE  [reqs[q] EXCEPT !.raced = @ \/ Overtakes(r, q)] \in Request
  <2>1. reqs[q] \in Request /\ reqs[q].raced \in BOOLEAN
    BY DEF TypeOK, Request
  <2>2. PICK b \in BOOLEAN : b = (reqs[q].raced \/ Overtakes(r, q))
    OBVIOUS
  <2>3. [reqs[q] EXCEPT !.raced = b] \in Request
    BY <2>1 DEF Request
  <2>. QED BY <2>2, <2>3
<1>5. reqs' \in [Req -> Request]
  BY <1>1, <1>3, <1>4
<1>6. mem' \in Data /\ disk' \in Data \cup {None} /\ failedSaves' \in Nat
  BY <1>1, SaveType
<1>7. missed' \subseteq Part
  BY <1>1, AlteredType DEF TypeOK
<1>. QED BY <1>5, <1>6, <1>7 DEF Update, TypeOK, runtime

(* What a handler knows of its own request. *)
LEMMA OpType ==
    ASSUME TypeOK, NEW r \in Req, reqs[r].pc # "new"
    PROVE  /\ reqs[r].op \in Op
           /\ reqs[r].op.kind \in {"add", "delete", "refresh", "rename"} =>
                 reqs[r].op.sub \in SubId
           /\ reqs[r].op.kind = "server" => reqs[r].op.ref \in Ref \cup {None}
           /\ reqs[r].op.kind = "toggle" => reqs[r].op.on \in BOOLEAN
           /\ reqs[r].op.kind \in {"rulesURL", "rulesRefresh"} =>
                 reqs[r].op.url \in RulesURL \cup {None}
<1>1. reqs[r] \in Request
  BY DEF TypeOK
<1>2. reqs[r].op \in Op
  BY <1>1 DEF Request
<1>. QED BY <1>2 DEF Op

(* one that only goes on, *)
LEMMA PcType ==
    /\ "ok" \in RequestPc /\ "refused" \in RequestPc /\ "error" \in RequestPc
    /\ "killed" \in RequestPc /\ "snapshot" \in RequestPc
    /\ "fetch" \in RequestPc /\ "commit" \in RequestPc /\ "mark" \in RequestPc
    /\ "signal" \in RequestPc
BY DEF RequestPc, Ended, Answered

(* What the worker reads has the type of a policy and of a server. *)
LEMMA ReadType ==
    ASSUME NEW d \in Data
    PROVE  Policy(d) \in Policies /\ Intended(d) \in Files
<1>1. ActiveServer(d) \in Content \cup {None}
  BY ActiveServerType
<1>. QED BY <1>1 DEF Policy, Policies, Intended, Files, Data

(* a request that arrives, *)
LEMMA ArriveType ==
    ASSUME TypeOK, NEW r \in Req, Arrive(r)
    PROVE  TypeOK'
<1>. USE PcType
<1>1. CASE PostAddSubscription(r)
  <2>0. PICK s \in SubId \ issued, l \in Listing :
           /\ issued' = issued \cup {s}
           /\ \E saved \in BOOLEAN :
                 /\ Save(AddSubscription(mem, s, l), saved)
                 /\ reqs' = [reqs EXCEPT
                       ![r].pc = IF saved THEN "ok" ELSE "error",
                       ![r].op = [kind |-> "add", sub |-> s]]
    BY <1>1, Zenon DEF PostAddSubscription
  <2>1. PICK saved \in BOOLEAN :
           /\ Save(AddSubscription(mem, s, l), saved)
           /\ reqs' = [reqs EXCEPT ![r].pc = IF saved THEN "ok" ELSE "error",
                                   ![r].op = [kind |-> "add", sub |-> s]]
    BY <2>0
  <2>2. AddSubscription(mem, s, l) \in Data
    BY AddSubscriptionType DEF TypeOK
  <2>3. mem' \in Data /\ disk' \in Data \cup {None} /\ failedSaves' \in Nat
    BY <2>1, <2>2, SaveType
  <2>4. reqs[r] \in Request
    BY DEF TypeOK
  <2>5. [reqs[r] EXCEPT !.pc = IF saved THEN "ok" ELSE "error",
                        !.op = [kind |-> "add", sub |-> s]] \in Request
    BY <2>4 DEF Request, Op
  <2>6. reqs' \in [Req -> Request]
    BY <2>1, <2>5 DEF TypeOK
  <2>7. issued' \subseteq SubId
    BY <2>0 DEF TypeOK
  <2>8. UNCHANGED <<boots, applyCh, worker, files, xkeen, missed>>
    BY <1>1 DEF PostAddSubscription, runtime
  <2>. QED BY <2>3, <2>6, <2>7, <2>8 DEF TypeOK
<1>2. CASE DeleteCheck(r)
  <2>1. PICK s \in SubId :
           Begin(r, [kind |-> "delete", sub |-> s],
                 IF HasSubscription(mem, s) THEN "snapshot" ELSE "refused")
    BY <1>2 DEF DeleteCheck
  <2>2. [kind |-> "delete", sub |-> s] \in Op
    BY DEF Op
  <2>. QED BY <1>2, <2>1, <2>2, BeginType, ReadingType DEF DeleteCheck
<1>3. CASE RefreshCheck(r)
  <2>1. PICK s \in SubId :
           Begin(r, [kind |-> "refresh", sub |-> s],
                 IF HasSubscription(mem, s) THEN "fetch" ELSE "refused")
    BY <1>3 DEF RefreshCheck
  <2>2. [kind |-> "refresh", sub |-> s] \in Op
    BY DEF Op
  <2>. QED BY <1>3, <2>1, <2>2, BeginType, ReadingType DEF RefreshCheck
<1>4. CASE PatchCheck(r)
  <2>1. PICK s \in SubId :
           Begin(r, [kind |-> "rename", sub |-> s],
                 IF HasSubscription(mem, s) THEN "commit" ELSE "refused")
    BY <1>4 DEF PatchCheck
  <2>2. [kind |-> "rename", sub |-> s] \in Op
    BY DEF Op
  <2>. QED BY <1>4, <2>1, <2>2, BeginType, ReadingType DEF PatchCheck
<1>5. CASE SelectCheck(r)
  <2>1. PICK ref \in Ref :
           Begin(r, [kind |-> "server", ref |-> ref],
                 IF HasServer(mem, ref) THEN "commit" ELSE "refused")
    BY <1>5 DEF SelectCheck
  <2>2. [kind |-> "server", ref |-> ref] \in Op
    BY DEF Op
  <2>. QED BY <1>5, <2>1, <2>2, BeginType, ReadingType DEF SelectCheck
<1>6. CASE DeselectStart(r)
  <2>1. [kind |-> "server", ref |-> None] \in Op
    BY DEF Op
  <2>. QED BY <1>6, <2>1, BeginType, ReadingType DEF DeselectStart
<1>7. CASE ToggleCheck(r)
  <2>1. PICK on \in BOOLEAN :
           Begin(r, [kind |-> "toggle", on |-> on],
                 IF on /\ ActiveServer(mem) = None THEN "refused" ELSE "commit")
    BY <1>7 DEF ToggleCheck
  <2>2. [kind |-> "toggle", on |-> on] \in Op
    BY DEF Op
  <2>. QED BY <1>7, <2>1, <2>2, BeginType, ReadingType DEF ToggleCheck
<1>8. CASE RulesURLStart(r)
  <2>1. PICK u \in RulesURL \cup {None} :
           Begin(r, [kind |-> "rulesURL", url |-> u], "commit")
    BY <1>8 DEF RulesURLStart
  <2>2. [kind |-> "rulesURL", url |-> u] \in Op
    BY DEF Op
  <2>. QED BY <1>8, <2>1, <2>2, BeginType, ReadingType DEF RulesURLStart
<1>9. CASE RulesRefreshCheck(r)
  <2>1. mem.rulesURL \in RulesURL \cup {None}
    BY DEF TypeOK, Data
  <2>2. [kind |-> "rulesRefresh", url |-> mem.rulesURL] \in Op
    BY <2>1 DEF Op
  <2>. QED BY <1>9, <2>2, BeginType, ReadingType DEF RulesRefreshCheck
<1>. QED BY <1>1, <1>2, <1>3, <1>4, <1>5, <1>6, <1>7, <1>8, <1>9 DEF Arrive

(* one that continues, *)
LEMMA ContinueType ==
    ASSUME TypeOK, NEW r \in Req, Continue(r)
    PROVE  TypeOK'
<1>. USE PcType
<1>. mem \in Data /\ reqs[r] \in Request
  BY DEF TypeOK
<1>1. CASE DeleteSnapshot(r)
  <2>1. [reqs[r] EXCEPT !.pc = "commit",
                        !.affected = ActiveIn(mem, reqs[r].op.sub)] \in Request
    BY <1>1 DEF DeleteSnapshot, At, Request, ActiveIn
  <2>2. reqs' \in [Req -> Request]
    BY <1>1, <2>1 DEF DeleteSnapshot, TypeOK
  <2>. QED BY <1>1, <2>2, ReadingType DEF DeleteSnapshot
<1>2. CASE DeleteCommit(r)
  <2>1. reqs[r].pc # "new" /\ reqs[r].op.sub \in SubId
    BY <1>2, OpType DEF DeleteCommit, At
  <2>2. DeleteSubscription(mem, reqs[r].op.sub) \in Data
    BY <2>1, DeleteSubscriptionType
  <2>. QED BY <1>2, <2>1, <2>2, UpdateType DEF DeleteCommit
<1>3. CASE RefreshFetched(r)
  <2>1. PICK l \in Listing :
           reqs' = [reqs EXCEPT ![r].pc = "commit", ![r].got = l,
                                ![r].affected = ActiveIn(mem, reqs[r].op.sub)]
    BY <1>3 DEF RefreshFetched
  <2>2. [reqs[r] EXCEPT !.pc = "commit", !.got = l,
                        !.affected = ActiveIn(mem, reqs[r].op.sub)] \in Request
    BY <1>3 DEF RefreshFetched, At, Request, ActiveIn
  <2>3. reqs' \in [Req -> Request]
    BY <2>1, <2>2 DEF TypeOK
  <2>. QED BY <1>3, <2>3, ReadingType DEF RefreshFetched
<1>4. CASE RefreshFailed(r)
  BY <1>4, GotoType, ReadingType DEF RefreshFailed, At
<1>5. CASE RefreshCommit(r)
  <2>1. reqs[r].pc # "new" /\ reqs[r].op.sub \in SubId
    BY <1>5, OpType DEF RefreshCommit, At
  <2>2. reqs[r].got \in Listing \cup {None}
    BY DEF Request
  <2>3. ReplaceSubscriptionServers(mem, reqs[r].op.sub, reqs[r].got) \in Data
    BY <2>1, <2>2, ReplaceSubscriptionServersType
  <2>. QED BY <1>5, <2>1, <2>3, UpdateType DEF RefreshCommit
<1>6. CASE PatchCommit(r)
  BY <1>6, UpdateType DEF PatchCommit, At
<1>7. CASE ServerCommit(r)
  <2>1. reqs[r].pc # "new" /\ reqs[r].op.ref \in Ref \cup {None}
    BY <1>7, OpType DEF ServerCommit, At
  <2>2. [mem EXCEPT !.active = reqs[r].op.ref] \in Data
    BY <2>1 DEF Data
  <2>. QED BY <1>7, <2>1, <2>2, UpdateType DEF ServerCommit
<1>8. CASE ToggleCommit(r)
  <2>1. reqs[r].pc # "new" /\ reqs[r].op.on \in BOOLEAN
    BY <1>8, OpType DEF ToggleCommit, At
  <2>2. [mem EXCEPT !.vpnOn = reqs[r].op.on] \in Data
    BY <2>1 DEF Data
  <2>. QED BY <1>8, <2>1, <2>2, UpdateType DEF ToggleCommit
<1>9. CASE RulesURLCommit(r)
  <2>1. reqs[r].pc # "new" /\ reqs[r].op.url \in RulesURL \cup {None}
    BY <1>9, OpType DEF RulesURLCommit, At
  <2>2. [mem EXCEPT !.rulesURL = reqs[r].op.url,
                    !.rules    = reqs[r].op.url] \in Data
    BY <2>1 DEF Data
  <2>. QED BY <1>9, <2>1, <2>2, UpdateType DEF RulesURLCommit
<1>10. CASE RulesRefreshCommit(r)
  <2>1. reqs[r].pc # "new" /\ reqs[r].op.url \in RulesURL \cup {None}
    BY <1>10, OpType DEF RulesRefreshCommit, At
  <2>2. [mem EXCEPT !.rules = reqs[r].op.url] \in Data
    BY <2>1 DEF Data
  <2>. QED BY <1>10, <2>1, <2>2, UpdateType DEF RulesRefreshCommit
<1>11. CASE RulesFetchFailed(r)
  BY <1>11, GotoType, ReadingType DEF RulesFetchFailed, At
<1>12. CASE MarkApplying(r)
  <2>1. PICK saved \in BOOLEAN : Save([mem EXCEPT !.applying = TRUE], saved)
    BY <1>12 DEF MarkApplying
  <2>2. [mem EXCEPT !.applying = TRUE] \in Data
    BY DEF Data
  <2>3. mem' \in Data /\ disk' \in Data \cup {None} /\ failedSaves' \in Nat
    BY <2>1, <2>2, SaveType
  <2>4. reqs' \in [Req -> Request]
    BY <1>12, GotoType DEF MarkApplying
  <2>. QED BY <1>12, <2>3, <2>4 DEF MarkApplying, TypeOK, runtime
<1>13. CASE RequestApply(r)
  <2>1. reqs' \in [Req -> Request]
    BY <1>13, GotoType DEF RequestApply
  <2>2. applyCh' \in 0..ApplyChCapacity
    BY <1>13 DEF RequestApply, AfterSend, TypeOK, ApplyChCapacity
  <2>. QED BY <1>13, <2>1, <2>2 DEF RequestApply, TypeOK, store, runtime
<1>. QED BY <1>1, <1>2, <1>3, <1>4, <1>5, <1>6, <1>7, <1>8, <1>9, <1>10,
            <1>11, <1>12, <1>13 DEF Continue

(* a step of the worker, *)
LEMMA WorkerType ==
    ASSUME TypeOK, WorkerStep
    PROVE  TypeOK'
<1>. USE DEF TypeOK, WorkerPc, store, runtime
<1>1. CASE TakeSignal
  BY <1>1 DEF TakeSignal, ApplyChCapacity
<1>2. CASE ReadSnapshot
  BY <1>2, ReadType DEF ReadSnapshot
<1>3. CASE ReadServer
  BY <1>3, ActiveServerType DEF ReadServer
<1>4. CASE WriteOutbounds
  BY <1>4 DEF WriteOutbounds, Files
<1>5. CASE WriteRouting
  BY <1>5 DEF WriteRouting, Files, Policies
<1>6. CASE WriteFails
  BY <1>6 DEF WriteFails, Finishing
<1>7. CASE DriveXKeen
  BY <1>7 DEF DriveXKeen, Finishing, Commanded, Policies
<1>8. CASE XKeenFails
  <2>1. Commanded \in [up : BOOLEAN, conf : Files]
    BY DEF Commanded
  <2>2. [xkeen EXCEPT !.up = FALSE] \in [up : BOOLEAN, conf : Files]
    OBVIOUS
  <2>3. xkeen' \in [up : BOOLEAN, conf : Files]
    BY <1>8, <2>1, <2>2 DEF XKeenFails
  <2>. QED BY <1>8, <2>3 DEF XKeenFails, Finishing
<1>9. CASE FinishApply
  <2>1. PICK saved \in BOOLEAN : Save(Reported, saved)
    BY <1>9 DEF FinishApply
  <2>2. Reported \in Data
    BY DEF Reported, Data
  <2>3. mem' \in Data /\ disk' \in Data \cup {None} /\ failedSaves' \in Nat
    BY <2>1, <2>2, SaveType
  <2>. QED BY <1>9, <2>3 DEF FinishApply
<1>. QED BY <1>1, <1>2, <1>3, <1>4, <1>5, <1>6, <1>7, <1>8, <1>9 DEF WorkerStep

(* A policy freshly read is well-formed. *)
LEMMA FreshType ==
    ASSUME NEW d \in Data
    PROVE  Fresh(d) \in [pc : WorkerPc, policy : Policies,
                         server : Content \cup {None}, ok : BOOLEAN,
                         ran : BOOLEAN]
BY ReadType, ActiveServerType DEF Fresh, WorkerPc

(* a crash, *)
LEMMA CrashType ==
    ASSUME TypeOK, CrashAndRestart
    PROVE  TypeOK'
<1>1. Load(disk) \in Data
  BY LoadType, NoneIsNoData DEF TypeOK
<1>2. \A r \in Req : reqs[r].pc \notin Ended \cup {"new"} =>
         [reqs[r] EXCEPT !.pc = "killed"] \in Request
  BY PcType DEF TypeOK, Request
<1>3. reqs' \in [Req -> Request]
  BY <1>2 DEF CrashAndRestart, TypeOK
<1>4. worker' \in [pc : WorkerPc, policy : Policies, server : Content \cup {None},
                   ok : BOOLEAN, ran : BOOLEAN]
  BY <1>1, FreshType DEF CrashAndRestart
<1>5. applyCh' \in 0..ApplyChCapacity
  BY DEF CrashAndRestart, ApplyChCapacity
<1>. QED BY <1>1, <1>3, <1>4, <1>5 DEF CrashAndRestart, TypeOK, runtime, Part

(* the first state, *)
LEMMA InitType == Init => TypeOK
<1>. SUFFICES ASSUME Init PROVE TypeOK
  OBVIOUS
<1>1. disk \in Data \cup {None}
  BY SavedAssumption DEF Init
<1>2. mem \in Data
  BY <1>1, LoadType, NoneIsNoData DEF Init
<1>3. worker \in [pc : WorkerPc, policy : Policies, server : Content \cup {None},
                  ok : BOOLEAN, ran : BOOLEAN]
  BY <1>2, FreshType DEF Init
<1>4. reqs \in [Req -> Request]
  BY DEF Init, Request
<1>5. files \in Files /\ xkeen \in [up : BOOLEAN, conf : Files]
  BY <1>2, ReadType DEF Init, Data
<1>6. applyCh \in 0..ApplyChCapacity
  BY DEF Init, ApplyChCapacity
<1>. QED BY <1>1, <1>2, <1>3, <1>4, <1>5, <1>6 DEF Init, TypeOK

(* and so every step. *)
LEMMA NextType == TypeOK /\ [Next]_vars => TypeOK'
<1>1. ASSUME TypeOK, Next PROVE TypeOK'
  BY <1>1, ArriveType, ContinueType, WorkerType, CrashType DEF Next
<1>2. ASSUME TypeOK, UNCHANGED vars PROVE TypeOK'
  BY <1>2 DEF TypeOK, vars
<1>. QED BY <1>1, <1>2

(* Every variable keeps its type, whatever the handlers, the worker and    *)
(* the restarts do.                                                        *)
THEOREM TypeCorrect == Spec => []TypeOK
BY InitType, NextType, PTL DEF Spec
-----------------------------------------------------------------------------
(* What one step of a request's handler does to what the worker looks at.  *)

(* Policy and server are as before, so the worker owes nothing new. *)
SameForWorker(d, e) == /\ Policy(e) = Policy(d)
                       /\ ActiveServer(e) = ActiveServer(d)

(* The step leaves a signal behind, or the handler about to send one. *)
Announced(r) == applyCh' > 0 \/ reqs'[r].pc \in {"mark", "signal"}

(* Another request's record is as it was, but for the note that it has     *)
(* been overtaken.                                                         *)
SameRequest(q) == /\ reqs'[q].pc = reqs[q].pc
                  /\ reqs'[q].op = reqs[q].op
                  /\ reqs'[q].affected = reqs[q].affected
                  /\ reqs'[q].got = reqs[q].got
                  /\ reqs[q].raced => reqs'[q].raced

(* Only the handler's own request goes on, an answered request never does, *)
(* and a step that changes what the worker reads announces it or counts it *)
(* as missed.                                                              *)
RequestShape(r) ==
    /\ UNCHANGED <<worker, boots, files, xkeen>>
    /\ reqs[r].pc \notin Ended
    /\ \A q \in Req \ {r} : SameRequest(q)
    /\ (applyCh > 0 => applyCh' > 0)
    /\ reqs[r].pc \in {"mark", "signal"} => Announced(r)
    /\ mem'.lastApply = mem.lastApply
    /\ reqs[r].pc = "signal" => applyCh' > 0
    /\ mem'.applying = mem.applying \/ reqs'[r].pc = "signal"
    /\ missed \subseteq missed'
    /\ missed' \subseteq missed \cup Altered(mem, mem')
    /\ Announced(r) \/ Altered(mem, mem') \subseteq missed'

(* A step that leaves alone what the worker reads. *)
LEMMA Unaltered ==
    ASSUME NEW d, NEW e, SameForWorker(d, e)
    PROVE  Altered(d, e) = {}
BY DEF SameForWorker, Altered

(* A step that only reads. *)
LEMMA ReadingShape ==
    ASSUME TypeOK, NEW r \in Req, Reading,
           reqs[r].pc \notin Ended \cup {"mark", "signal"},
           \A q \in Req \ {r} : reqs'[q] = reqs[q]
    PROVE  RequestShape(r)
<1>1. Altered(mem, mem') = {}
  BY Unaltered DEF Reading, store, SameForWorker
<1>. QED BY <1>1 DEF TypeOK, Reading, store, runtime, RequestShape, SameRequest,
       Ended, Answered, ApplyChCapacity

(* A step that ends in an Update. *)
LEMMA UpdateShape ==
    ASSUME TypeOK, NEW r \in Req, NEW d, NEW next \in {"ok", "signal", "mark"},
           Update(r, d, next)
    PROVE  /\ mem' = d
           /\ UNCHANGED <<worker, boots, files, xkeen, applyCh>>
           /\ \A q \in Req \ {r} : SameRequest(q)
           /\ \A q \in Req \ {r} : Overtakes(r, q) => reqs'[q].raced
           /\ reqs'[r].pc \in {next, "error"}
           /\ reqs'[r].op = reqs[r].op
           /\ missed \subseteq missed'
           /\ missed' \subseteq missed \cup Altered(mem, d)
           /\ reqs'[r].pc = "error" \/ (next = "ok" /\ reqs[r].raced) =>
                 Altered(mem, d) \subseteq missed'
<1>1. PICK saved \in BOOLEAN :
         /\ Save(d, saved)
         /\ reqs' = [q \in Req |->
               IF q = r
               THEN [reqs[r] EXCEPT !.pc = IF saved THEN next ELSE "error"]
               ELSE [reqs[q] EXCEPT !.raced = @ \/ Overtakes(r, q)]]
         /\ missed' = IF ~saved \/ (next = "ok" /\ reqs[r].raced)
                      THEN missed \cup Altered(mem, d) ELSE missed
  BY DEF Update
<1>2. mem' = d
  BY <1>1 DEF Save
<1>3. reqs'[r] = [reqs[r] EXCEPT !.pc = IF saved THEN next ELSE "error"]
  BY <1>1
<1>4. /\ reqs'[r].pc = IF saved THEN next ELSE "error"
      /\ reqs'[r].op = reqs[r].op
  BY <1>3 DEF TypeOK, Request
<1>5. ASSUME NEW q \in Req \ {r}
      PROVE  SameRequest(q) /\ (Overtakes(r, q) => reqs'[q].raced)
  <2>1. reqs[q] \in Request
    BY DEF TypeOK
  <2>2. PICK b \in BOOLEAN : b <=> (reqs[q].raced \/ Overtakes(r, q))
    OBVIOUS
  <2>3. reqs[q].raced \in BOOLEAN /\ Overtakes(r, q) \in BOOLEAN
    BY <2>1 DEF Request, Overtakes
  <2>4. b = (reqs[q].raced \/ Overtakes(r, q))
    BY <2>2, <2>3
  <2>5. reqs'[q] = [reqs[q] EXCEPT !.raced = b]
    BY <1>1, <2>4
  <2>6. /\ reqs'[q].pc = reqs[q].pc /\ reqs'[q].op = reqs[q].op
        /\ reqs'[q].affected = reqs[q].affected /\ reqs'[q].got = reqs[q].got
        /\ reqs'[q].raced = b
    BY <2>1, <2>5 DEF Request
  <2>. QED BY <2>2, <2>6 DEF SameRequest
<1>6. /\ missed \subseteq missed'
      /\ missed' \subseteq missed \cup Altered(mem, d)
      /\ ~saved \/ (next = "ok" /\ reqs[r].raced) => Altered(mem, d) \subseteq missed'
  BY <1>1
<1>. QED BY <1>2, <1>4, <1>5, <1>6 DEF Update, runtime

(* The Updates that are followed by respondAfterApply. *)
LEMMA AnnouncedUpdateShape ==
    ASSUME TypeOK, NEW r \in Req, reqs[r].pc = "commit",
           NEW d, Update(r, d, "mark"),
           d.lastApply = mem.lastApply, d.applying = mem.applying
    PROVE  RequestShape(r)
<1>. reqs[r].pc \notin Ended \cup {"mark", "signal"}
  BY DEF Ended, Answered
<1>1. /\ mem' = d
      /\ UNCHANGED <<worker, boots, files, xkeen, applyCh>>
      /\ \A q \in Req \ {r} : SameRequest(q)
      /\ reqs'[r].pc \in {"mark", "error"}
      /\ missed \subseteq missed'
      /\ missed' \subseteq missed \cup Altered(mem, d)
      /\ reqs'[r].pc = "error" => Altered(mem, d) \subseteq missed'
  BY UpdateShape
<1>2. (applyCh > 0 => applyCh' > 0)
  BY <1>1 DEF TypeOK, ApplyChCapacity
<1>. QED BY <1>1, <1>2 DEF RequestShape, Announced

(* The Updates of a deletion or a refresh. *)
LEMMA RemovalShape ==
    ASSUME IInv, NEW r \in Req, reqs[r].pc = "commit",
           reqs[r].op.kind \in {"delete", "refresh"}, reqs[r].op.sub \in SubId,
           NEW d, Update(r, d, IF reqs[r].affected THEN "signal" ELSE "ok"),
           d.lastApply = mem.lastApply, d.applying = mem.applying,
           ~ActiveIn(mem, reqs[r].op.sub) => SameForWorker(mem, d)
    PROVE  RequestShape(r)
<1>. DEFINE next == IF reqs[r].affected THEN "signal" ELSE "ok"
<1>. reqs[r].pc \notin Ended \cup {"mark", "signal"}
  BY DEF Ended, Answered
<1>. TypeOK
  BY DEF IInv
<1>1. /\ mem' = d
      /\ UNCHANGED <<worker, boots, files, xkeen, applyCh>>
      /\ \A q \in Req \ {r} : SameRequest(q)
      /\ reqs'[r].pc \in {next, "error"}
      /\ missed \subseteq missed'
      /\ missed' \subseteq missed \cup Altered(mem, d)
      /\ reqs'[r].pc = "error" \/ (next = "ok" /\ reqs[r].raced) =>
            Altered(mem, d) \subseteq missed'
  BY UpdateShape
<1>2. (applyCh > 0 => applyCh' > 0)
  BY <1>1 DEF TypeOK, ApplyChCapacity
<1>3. Announced(r) \/ Altered(mem, d) \subseteq missed'
  <2>1. CASE reqs[r].affected /\ reqs'[r].pc # "error"
    BY <1>1, <2>1 DEF Announced
  <2>2. CASE reqs'[r].pc = "error" \/ (~reqs[r].affected /\ reqs[r].raced)
    BY <1>1, <2>2
  <2>3. CASE ~reqs[r].affected /\ ~reqs[r].raced
    <3>1. ~ActiveIn(mem, reqs[r].op.sub)
      BY <2>3 DEF IInv, RaceInv, CheckHolds
    <3>. QED BY <3>1, Unaltered
  <2>. QED BY <2>1, <2>2, <2>3
<1>. QED BY <1>1, <1>2, <1>3 DEF RequestShape

(* A request that only reads before it goes on. *)
LEMMA BeginShape ==
    ASSUME TypeOK, NEW r \in Req, NEW op, NEW pc, Begin(r, op, pc), Reading
    PROVE  RequestShape(r)
<1>1. reqs[r].pc \notin Ended \cup {"mark", "signal"}
  BY DEF Begin, Ended, Answered
<1>2. \A q \in Req \ {r} : reqs'[q] = reqs[q]
  BY DEF Begin, TypeOK
<1>. QED BY <1>1, <1>2, ReadingShape

(* Every request that arrives has that shape, *)
LEMMA ArriveShape ==
    ASSUME IInv, NEW r \in Req, Arrive(r)
    PROVE  RequestShape(r)
<1>. TypeOK
  BY DEF IInv
<1>1. CASE PostAddSubscription(r)
  <2>1. PICK s \in SubId \ issued, l \in Listing :
           /\ issued' = issued \cup {s}
           /\ \E saved \in BOOLEAN :
                 /\ Save(AddSubscription(mem, s, l), saved)
                 /\ reqs' = [reqs EXCEPT
                       ![r].pc = IF saved THEN "ok" ELSE "error",
                       ![r].op = [kind |-> "add", sub |-> s]]
    BY <1>1, Zenon DEF PostAddSubscription
  <2>2. mem' = AddSubscription(mem, s, l)
    BY <2>1 DEF Save
  <2>3. \A q \in Req \ {r} : reqs'[q] = reqs[q]
    BY <2>1 DEF TypeOK
  <2>4. mem \in Data /\ s \in SubId /\ s \notin issued
    BY DEF TypeOK
  <2>5. ~ActiveIn(mem, s)
    BY <2>4 DEF IInv, IssuedInv, Uses
  <2>6. SameForWorker(mem, mem')
    BY <2>2, <2>4, <2>5, AddElsewhere DEF SameForWorker, Policy
  <2>7. mem'.lastApply = mem.lastApply /\ mem'.applying = mem.applying
    BY <2>2, <2>4, AddKeeps DEF Keeps
  <2>8. /\ UNCHANGED <<worker, boots, files, xkeen, applyCh, missed>>
        /\ reqs[r].pc \notin Ended \cup {"mark", "signal"}
    BY <1>1 DEF PostAddSubscription, runtime, Ended, Answered
  <2>9. (applyCh > 0 => applyCh' > 0)
    BY <2>8 DEF TypeOK, ApplyChCapacity
  <2>10. Altered(mem, mem') = {}
    BY <2>6, Unaltered
  <2>. QED BY <2>3, <2>7, <2>8, <2>9, <2>10 DEF RequestShape, SameRequest
<1>2. CASE DeleteCheck(r)
  BY <1>2, BeginShape DEF DeleteCheck
<1>3. CASE RefreshCheck(r)
  BY <1>3, BeginShape DEF RefreshCheck
<1>4. CASE PatchCheck(r)
  BY <1>4, BeginShape DEF PatchCheck
<1>5. CASE SelectCheck(r)
  BY <1>5, BeginShape DEF SelectCheck
<1>6. CASE DeselectStart(r)
  BY <1>6, BeginShape DEF DeselectStart
<1>7. CASE ToggleCheck(r)
  BY <1>7, BeginShape DEF ToggleCheck
<1>8. CASE RulesURLStart(r)
  BY <1>8, BeginShape DEF RulesURLStart
<1>9. CASE RulesRefreshCheck(r)
  BY <1>9, BeginShape DEF RulesRefreshCheck
<1>. QED BY <1>1, <1>2, <1>3, <1>4, <1>5, <1>6, <1>7, <1>8, <1>9 DEF Arrive

(* and so has every later step of one. *)
LEMMA ContinueShape ==
    ASSUME IInv, NEW r \in Req, Continue(r)
    PROVE  RequestShape(r)
<1>. TypeOK /\ mem \in Data /\ reqs[r] \in Request
  BY DEF IInv, TypeOK
<1>1. CASE DeleteSnapshot(r)
  <2>1. \A q \in Req \ {r} : reqs'[q] = reqs[q]
    BY <1>1 DEF DeleteSnapshot, TypeOK
  <2>. QED BY <1>1, <2>1, ReadingShape DEF DeleteSnapshot, At, Ended, Answered
<1>2. CASE DeleteCommit(r)
  <2>1. /\ reqs[r].pc = "commit" /\ reqs[r].op.kind = "delete"
        /\ reqs[r].op.sub \in SubId
    BY <1>2, OpType DEF DeleteCommit, At
  <2>. DEFINE d == DeleteSubscription(mem, reqs[r].op.sub)
  <2>2. d.lastApply = mem.lastApply /\ d.applying = mem.applying
    BY <2>1, DeleteKeeps DEF Keeps
  <2>3. ~ActiveIn(mem, reqs[r].op.sub) => SameForWorker(mem, d)
    BY <2>1, DeleteElsewhere DEF SameForWorker, Policy
  <2>4. Update(r, d, IF reqs[r].affected THEN "signal" ELSE "ok")
    BY <1>2 DEF DeleteCommit
  <2>. HIDE DEF d
  <2>. QED BY <2>1, <2>2, <2>3, <2>4, RemovalShape
<1>3. CASE RefreshFetched(r)
  <2>1. \A q \in Req \ {r} : reqs'[q] = reqs[q]
    BY <1>3 DEF RefreshFetched, TypeOK
  <2>. QED BY <1>3, <2>1, ReadingShape DEF RefreshFetched, At, Ended, Answered
<1>4. CASE RefreshFailed(r)
  <2>1. \A q \in Req \ {r} : reqs'[q] = reqs[q]
    BY <1>4 DEF RefreshFailed, Goto, TypeOK
  <2>. QED BY <1>4, <2>1, ReadingShape DEF RefreshFailed, At, Ended, Answered
<1>5. CASE RefreshCommit(r)
  <2>1. /\ reqs[r].pc = "commit" /\ reqs[r].op.kind = "refresh"
        /\ reqs[r].op.sub \in SubId
    BY <1>5, OpType DEF RefreshCommit, At
  <2>2. reqs[r].got \in Listing \cup {None}
    BY DEF Request
  <2>. DEFINE d == ReplaceSubscriptionServers(mem, reqs[r].op.sub, reqs[r].got)
  <2>3. d.lastApply = mem.lastApply /\ d.applying = mem.applying
    BY <2>1, <2>2, ReplaceKeeps DEF Keeps
  <2>4. ~ActiveIn(mem, reqs[r].op.sub) => SameForWorker(mem, d)
    BY <2>1, <2>2, ReplaceElsewhere DEF SameForWorker, Policy
  <2>5. Update(r, d, IF reqs[r].affected THEN "signal" ELSE "ok")
    BY <1>5 DEF RefreshCommit
  <2>. HIDE DEF d
  <2>. QED BY <2>1, <2>3, <2>4, <2>5, RemovalShape
<1>6. CASE PatchCommit(r)
  <2>1. reqs[r].pc \notin Ended \cup {"mark", "signal"}
    BY <1>6 DEF PatchCommit, At, Ended, Answered
  <2>2. /\ mem' = mem
        /\ UNCHANGED <<worker, boots, files, xkeen, applyCh>>
        /\ \A q \in Req \ {r} : SameRequest(q)
        /\ missed \subseteq missed'
        /\ missed' \subseteq missed \cup Altered(mem, mem)
    BY <1>6, UpdateShape DEF PatchCommit
  <2>3. (applyCh > 0 => applyCh' > 0)
    BY <2>2 DEF TypeOK, ApplyChCapacity
  <2>4. Altered(mem, mem') = {}
    BY <2>2, Unaltered DEF SameForWorker
  <2>. QED BY <2>1, <2>2, <2>3, <2>4 DEF RequestShape
<1>7. CASE ServerCommit(r)
  BY <1>7, AnnouncedUpdateShape DEF ServerCommit, At, Data
<1>8. CASE ToggleCommit(r)
  BY <1>8, AnnouncedUpdateShape DEF ToggleCommit, At, Data
<1>9. CASE RulesURLCommit(r)
  BY <1>9, AnnouncedUpdateShape DEF RulesURLCommit, At, Data
<1>10. CASE RulesRefreshCommit(r)
  BY <1>10, AnnouncedUpdateShape DEF RulesRefreshCommit, At, Data
<1>11. CASE RulesFetchFailed(r)
  <2>1. \A q \in Req \ {r} : reqs'[q] = reqs[q]
    BY <1>11 DEF RulesFetchFailed, Goto, TypeOK
  <2>. QED BY <1>11, <2>1, ReadingShape DEF RulesFetchFailed, At, Ended, Answered
<1>12. CASE MarkApplying(r)
  <2>1. mem' = [mem EXCEPT !.applying = TRUE]
    BY <1>12 DEF MarkApplying, Save
  <2>2. mem'.lastApply = mem.lastApply /\ SameForWorker(mem, mem')
    BY <2>1 DEF Data, SameForWorker, Policy, ActiveServer, HasServer,
                HasSubscription
  <2>3. /\ reqs'[r].pc = "signal"
        /\ \A q \in Req \ {r} : reqs'[q] = reqs[q]
    BY <1>12 DEF MarkApplying, Goto, TypeOK, Request
  <2>4. /\ UNCHANGED <<worker, boots, files, xkeen, applyCh, missed>>
        /\ reqs[r].pc = "mark"
    BY <1>12 DEF MarkApplying, runtime
  <2>5. (applyCh > 0 => applyCh' > 0)
    BY <2>4 DEF TypeOK, ApplyChCapacity
  <2>6. Altered(mem, mem') = {}
    BY <2>2, Unaltered
  <2>. QED BY <2>2, <2>3, <2>4, <2>5, <2>6
           DEF RequestShape, SameRequest, Announced, Ended, Answered
<1>13. CASE RequestApply(r)
  <2>1. /\ reqs'[r].pc = "ok"
        /\ \A q \in Req \ {r} : reqs'[q] = reqs[q]
    BY <1>13 DEF RequestApply, Goto, TypeOK, Request
  <2>2. (applyCh > 0 => applyCh' > 0) /\ applyCh' > 0
    BY <1>13 DEF RequestApply, AfterSend, TypeOK, ApplyChCapacity
  <2>3. Altered(mem, mem') = {}
    BY <1>13, Unaltered DEF RequestApply, store, SameForWorker
  <2>. QED BY <1>13, <2>1, <2>2, <2>3
            DEF RequestApply, RequestShape, SameRequest, Announced, Ended,
                Answered, store, runtime
<1>. QED BY <1>1, <1>2, <1>3, <1>4, <1>5, <1>6, <1>7, <1>8, <1>9, <1>10,
            <1>11, <1>12, <1>13 DEF Continue

-----------------------------------------------------------------------------
(* The inductive invariant, part by part.  Its first part is TypeCorrect.  *)

(* A request loses no wakeup, *)
LEMMA RequestNoLostWakeup ==
    ASSUME IInv, NEW r \in Req, RequestShape(r)
    PROVE  NoLostWakeup'
<1>. TypeOK /\ NoLostWakeup
  BY DEF IInv
<1>1. CASE Announced(r)
  BY <1>1 DEF NoLostWakeup, Announced, PolicyUnread, ServerUnread, Pending
<1>2. CASE ~Announced(r)
  <2>1. reqs[r].pc \notin {"mark", "signal"}
    BY <1>2 DEF RequestShape
  <2>2. Pending => Pending'
    BY <2>1 DEF RequestShape, SameRequest, Pending
  <2>3. Altered(mem, mem') \subseteq missed' /\ missed \subseteq missed'
    BY <1>2 DEF RequestShape
  <2>4. /\ Policy(mem) # Policy(mem') => "policy" \in missed'
        /\ ActiveServer(mem) # ActiveServer(mem') => "server" \in missed'
    BY <2>3, AlteredType
  <2>. QED BY <2>2, <2>3, <2>4 DEF NoLostWakeup, RequestShape, PolicyUnread,
                                   ServerUnread
<1>. QED BY <1>1, <1>2

(* and neither does the worker. *)
LEMMA WorkerNoLostWakeup ==
    ASSUME IInv, WorkerStep
    PROVE  NoLostWakeup'
<1>. TypeOK /\ NoLostWakeup
  BY DEF IInv
<1>1. reqs' = reqs
  BY DEF WorkerStep, TakeSignal, ReadSnapshot, ReadServer, WriteOutbounds,
         WriteRouting, WriteFails, DriveXKeen, XKeenFails, FinishApply
<1>. USE DEF TypeOK, NoLostWakeup, PolicyUnread, ServerUnread, Pending
<1>2. CASE TakeSignal
  BY <1>2 DEF TakeSignal, store
<1>3. CASE ReadSnapshot
  BY <1>3 DEF ReadSnapshot, store
<1>4. CASE ReadServer
  BY <1>4 DEF ReadServer, store
<1>5. CASE WriteOutbounds
  BY <1>5 DEF WriteOutbounds, store
<1>6. CASE WriteRouting
  BY <1>6 DEF WriteRouting, store
<1>7. CASE WriteFails
  BY <1>7 DEF WriteFails, Finishing, store
<1>8. CASE DriveXKeen
  BY <1>8 DEF DriveXKeen, Finishing, store
<1>9. CASE XKeenFails
  BY <1>9 DEF XKeenFails, Finishing, store
<1>10. CASE FinishApply
  <2>1. mem' = Reported
    BY <1>10 DEF FinishApply, Save
  <2>2. Policy(mem') = Policy(mem) /\ ActiveServer(mem') = ActiveServer(mem)
    BY <2>1 DEF Reported, Data, Policy, ActiveServer, HasServer, HasSubscription
  <2>3. /\ worker'.policy = worker.policy /\ worker'.server = worker.server
        /\ worker.pc = "finish" /\ applyCh' = applyCh /\ missed' = missed
    BY <1>10 DEF FinishApply
  <2>. QED BY <1>1, <2>2, <2>3
<1>. QED BY <1>2, <1>3, <1>4, <1>5, <1>6, <1>7, <1>8, <1>9, <1>10 DEF WorkerStep

(* What a handler's step does to the selection and to the ids in use, and  *)
(* to what the requests about to commit have checked.                      *)
StoreShape(r) ==
    /\ issued \subseteq issued'
    /\ disk' \in {disk, mem'}
    /\ \A s \in SubId : HasSubscription(mem', s) =>
                           HasSubscription(mem, s) \/ s \in issued'
    /\ mem'.active \in {mem.active, None} \/ mem'.active.sub \in issued
    /\ At(r, "server", "commit")' /\ reqs'[r].op.ref # None =>
          reqs'[r].op.ref.sub \in issued'
    /\ reqs'[r].pc = "commit" =>
          /\ CheckHolds(mem', reqs'[r])
          /\ reqs'[r].op.kind = "refresh" => reqs'[r].got \in Listing
    /\ \A q \in Req \ {r} :
          reqs[q].pc = "commit" /\ ~reqs'[q].raced /\ CheckHolds(mem, reqs[q]) =>
             CheckHolds(mem', reqs[q])

(* What was checked does not depend on the rest of the record, nor on the  *)
(* rest of the request.                                                    *)
LEMMA SameChecks ==
    ASSUME NEW d, NEW e, e.active = d.active, e.subs = d.subs,
           e.rulesURL = d.rulesURL, NEW req, CheckHolds(d, req)
    PROVE  CheckHolds(e, req)
BY DEF CheckHolds, ActiveIn, ActiveServer, HasServer, HasSubscription

(* The same of two requests. *)
LEMMA SameRequestChecks ==
    ASSUME NEW d, NEW p, NEW q, p.op = q.op, p.affected = q.affected,
           CheckHolds(d, p)
    PROVE  CheckHolds(d, q)
BY DEF CheckHolds

(* Record e is d after subscription s was deleted or refreshed. *)
Removal(d, e, s) ==
    /\ e.rules = d.rules /\ e.rulesURL = d.rulesURL
    /\ \/ e.active = None /\ ~e.vpnOn
       \/ /\ e.active = d.active /\ e.vpnOn = d.vpnOn
          /\ Dangling(e) => Dangling(d)
    /\ \A ref \in Ref : ref.sub # s /\ HasServer(d, ref) => HasServer(e, ref)
    /\ ~ActiveIn(d, s) => ActiveServer(e) = ActiveServer(d)

(* DeleteSubscription is such a removal. *)
LEMMA DeleteRemoval ==
    ASSUME NEW d \in Data, NEW s \in SubId
    PROVE  Removal(d, DeleteSubscription(d, s), s)
<1>. DEFINE e == DeleteSubscription(d, s)
<1>0. ~ActiveIn(d, s) => ActiveServer(e) = ActiveServer(d)
  BY DeleteElsewhere
<1>1. CASE ActiveIn(d, s)
  <2>1. e.active = None /\ ~e.vpnOn /\ e.rules = d.rules /\ e.rulesURL = d.rulesURL
    BY <1>1 DEF DeleteSubscription, Deselected, Data
  <2>2. \A t \in SubId : t # s => e.subs[t] = d.subs[t]
    BY <1>1 DEF DeleteSubscription, Deselected, Data
  <2>. HIDE DEF e
  <2>. QED BY <1>0, <2>1, <2>2 DEF Removal, HasServer, HasSubscription, Ref, e
<1>2. CASE ~ActiveIn(d, s)
  <2>1. /\ e.active = d.active /\ e.vpnOn = d.vpnOn
        /\ e.rules = d.rules /\ e.rulesURL = d.rulesURL
    BY <1>2 DEF DeleteSubscription, Deselected, Data
  <2>2. \A t \in SubId : t # s => e.subs[t] = d.subs[t]
    BY <1>2 DEF DeleteSubscription, Deselected, Data
  <2>3. d.active # None => d.active \in Ref /\ d.active.sub # s
    BY <1>2 DEF ActiveIn, Data
  <2>. HIDE DEF e
  <2>. QED BY <1>0, <2>1, <2>2, <2>3
           DEF Removal, Dangling, HasServer, HasSubscription, Ref, e
<1>. QED BY <1>1, <1>2

(* A refresh is a removal too. *)
LEMMA ReplaceRemoval ==
    ASSUME NEW d \in Data, NEW s \in SubId, NEW l \in Listing
    PROVE  Removal(d, ReplaceSubscriptionServers(d, s, l), s)
<1>. DEFINE e == ReplaceSubscriptionServers(d, s, l)
            gone == ActiveIn(d, s) /\ d.active.srv \notin DOMAIN l
<1>0. gone \in BOOLEAN
  BY DEF ActiveIn
<1>1. /\ e.rules = d.rules /\ e.rulesURL = d.rulesURL
      /\ gone => e.active = None /\ ~e.vpnOn
      /\ ~gone => e.active = d.active /\ e.vpnOn = d.vpnOn
  BY <1>0 DEF ReplaceSubscriptionServers, Deselected, Data
<1>2. /\ \A t \in SubId : t # s => e.subs[t] = d.subs[t]
      /\ e.subs[s] = IF d.subs[s] = None THEN None ELSE l
  BY <1>0 DEF ReplaceSubscriptionServers, Deselected, Data
<1>3. ~gone /\ d.active # None =>
         d.active \in Ref /\ (d.active.sub = s => d.active.srv \in DOMAIN l)
  BY DEF ActiveIn, Data
<1>4. None \notin Listing
  BY NoneAssumption
<1>5. ~ActiveIn(d, s) => ActiveServer(e) = ActiveServer(d)
  BY ReplaceElsewhere
<1>. HIDE DEF e, gone
<1>6. ~gone /\ Dangling(e) => Dangling(d)
  BY <1>1, <1>2, <1>3, <1>4 DEF Dangling, HasServer, HasSubscription, Ref
<1>. QED BY <1>0, <1>1, <1>2, <1>5, <1>6
         DEF Removal, HasServer, HasSubscription, Ref, e

(* After a deletion or refresh, what a request has checked holds still, or *)
(* the request has been overtaken.                                         *)
LEMMA RemovalChecks ==
    ASSUME TypeOK, NEW r \in Req, reqs[r].op.kind \in {"delete", "refresh"},
           NEW e, Removal(mem, e, reqs[r].op.sub),
           NEW q \in Req, reqs[q].pc = "commit", ~Overtakes(r, q),
           CheckHolds(mem, reqs[q])
    PROVE  CheckHolds(e, reqs[q])
<1>. DEFINE o == reqs[q].op
<1>1. o.kind = "server" => o.ref \in Ref \cup {None}
  BY OpType
<1>2. o.kind \in {"delete", "refresh"} /\ ~reqs[q].affected => ~ActiveIn(e, o.sub)
  BY DEF CheckHolds, Removal, ActiveIn
<1>3. o.kind = "server" /\ o.ref # None => HasServer(e, o.ref)
  BY <1>1 DEF CheckHolds, Removal, Overtakes
<1>4. o.kind = "toggle" /\ o.on => ActiveServer(e) # None
  BY DEF CheckHolds, Removal, Overtakes
<1>5. o.kind = "rulesRefresh" => e.rulesURL = o.url
  BY DEF CheckHolds, Removal
<1>. QED BY <1>2, <1>3, <1>4, <1>5 DEF CheckHolds

(* A server that is known has its parameters. *)
LEMMA KnownServer ==
    ASSUME NEW d \in Data, d.active # None, HasServer(d, d.active)
    PROVE  ActiveServer(d) # None
<1>1. d.active \in Ref /\ d.active.sub \in SubId
  BY DEF Data, Ref
<1>2. d.subs[d.active.sub] \in Listing
  BY <1>1 DEF Data, HasServer, HasSubscription
<1>3. d.subs[d.active.sub][d.active.srv] \in Content
  BY <1>2, ListingAssumption DEF HasServer
<1>. QED BY <1>3, NoneAssumption DEF ActiveServer

(* The same of a selection. *)
LEMMA SelectionChecks ==
    ASSUME TypeOK, RaceInv, NEW r \in Req, At(r, "server", "commit"),
           NEW e \in Data, e.active = reqs[r].op.ref, e.subs = mem.subs,
           e.rulesURL = mem.rulesURL,
           NEW q \in Req, reqs[q].pc = "commit", ~Overtakes(r, q),
           CheckHolds(mem, reqs[q])
    PROVE  CheckHolds(e, reqs[q])
<1>. DEFINE o == reqs[q].op
<1>1. o.kind \in {"delete", "refresh"} /\ ~reqs[q].affected => ~ActiveIn(e, o.sub)
  BY DEF Overtakes, ActiveIn, At
<1>2. o.kind = "server" /\ o.ref # None => HasServer(e, o.ref)
  BY DEF CheckHolds, HasServer, HasSubscription
<1>3. o.kind = "toggle" /\ o.on => ActiveServer(e) # None
  <2>1. SUFFICES ASSUME o.kind = "toggle", o.on PROVE ActiveServer(e) # None
    OBVIOUS
  <2>2. reqs[r].op.ref # None /\ ~reqs[r].raced
    BY <2>1 DEF Overtakes, At
  <2>3. HasServer(mem, reqs[r].op.ref)
    BY <2>2 DEF RaceInv, CheckHolds, At
  <2>4. e.active # None /\ HasServer(e, e.active)
    BY <2>2, <2>3 DEF HasServer, HasSubscription
  <2>. QED BY <2>4, KnownServer
<1>4. o.kind = "rulesRefresh" => e.rulesURL = o.url
  BY DEF CheckHolds
<1>. QED BY <1>1, <1>2, <1>3, <1>4 DEF CheckHolds

(* The same of new rules. *)
LEMMA RulesChecks ==
    ASSUME NEW r \in Req, At(r, "rulesURL", "commit"),
           NEW e, e.active = mem.active, e.subs = mem.subs,
           NEW q \in Req, reqs[q].pc = "commit", ~Overtakes(r, q),
           CheckHolds(mem, reqs[q])
    PROVE  CheckHolds(e, reqs[q])
BY DEF CheckHolds, ActiveIn, ActiveServer, HasServer, HasSubscription,
       Overtakes, At

(* A request remembers what it was asked for. *)
LEMMA BeginOp ==
    ASSUME TypeOK, NEW r \in Req, NEW op, NEW pc, Begin(r, op, pc)
    PROVE  reqs'[r].op = op /\ reqs'[r].pc = pc
BY DEF Begin, TypeOK, Request

(* A check that begins a request. *)
LEMMA BeginStore ==
    ASSUME TypeOK, NEW r \in Req, NEW op \in Op, NEW pc, Begin(r, op, pc), Reading,
           pc = "commit" =>
              /\ op.kind # "refresh"
              /\ op.kind = "server" /\ op.ref # None => op.ref.sub \in issued
              /\ CheckHolds(mem, reqs'[r])
    PROVE  StoreShape(r)
<1>1. reqs'[r].pc = pc /\ reqs'[r].op = op
  BY BeginOp
<1>2. issued' = issued /\ mem' = mem /\ disk' = disk
  BY DEF Reading, store
<1>. QED BY <1>1, <1>2 DEF StoreShape, At

(* What the first steps of the requests do to the store, *)
LEMMA ArriveStore ==
    ASSUME IInv, NEW r \in Req, Arrive(r)
    PROVE  StoreShape(r)
<1>. TypeOK /\ IssuedInv
  BY DEF IInv
<1>1. CASE PostAddSubscription(r)
  <2>1. PICK s \in SubId \ issued, l \in Listing :
           /\ issued' = issued \cup {s}
           /\ \E saved \in BOOLEAN :
                 /\ Save(AddSubscription(mem, s, l), saved)
                 /\ reqs' = [reqs EXCEPT
                       ![r].pc = IF saved THEN "ok" ELSE "error",
                       ![r].op = [kind |-> "add", sub |-> s]]
    BY <1>1, Zenon DEF PostAddSubscription
  <2>2. mem' = AddSubscription(mem, s, l) /\ disk' \in {disk, mem'}
    BY <2>1 DEF Save
  <2>3. reqs'[r].pc \in {"ok", "error"}
    BY <2>1 DEF TypeOK, Request
  <2>4. mem'.active = mem.active
    BY <2>2 DEF AddSubscription, TypeOK, Data
  <2>5. \A t \in SubId \ {s} : mem'.subs[t] = mem.subs[t]
    BY <2>2, AddKeeps DEF TypeOK, Keeps
  <2>6. ASSUME NEW q \in Req, reqs[q].pc = "commit", CheckHolds(mem, reqs[q])
        PROVE  CheckHolds(mem', reqs[q])
    <3>. DEFINE o == reqs[q].op
    <3>1. ~ActiveIn(mem, s)
      BY DEF IssuedInv, Uses
    <3>2. ActiveServer(mem') = ActiveServer(mem) /\ mem'.rulesURL = mem.rulesURL
      BY <2>2, <3>1, AddElsewhere DEF TypeOK, AddSubscription, Data
    <3>3. ~HasSubscription(mem, s)
      BY DEF IssuedInv, Uses
    <3>4. o.kind = "server" /\ o.ref # None => HasServer(mem', o.ref)
      <4>1. o.kind = "server" /\ o.ref # None => o.ref \in Ref
        BY <2>6, OpType
      <4>. QED BY <2>5, <2>6, <3>3, <4>1
               DEF CheckHolds, HasServer, HasSubscription, Ref
    <3>. QED BY <2>4, <2>6, <3>2, <3>4 DEF CheckHolds, ActiveIn
  <2>. QED BY <2>1, <2>2, <2>3, <2>4, <2>5, <2>6
           DEF StoreShape, At, HasSubscription
<1>2. CASE DeleteCheck(r)
  <2>1. \A s \in SubId : [kind |-> "delete", sub |-> s] \in Op
    BY DEF Op
  <2>. QED BY <1>2, <2>1, BeginStore DEF DeleteCheck
<1>3. CASE RefreshCheck(r)
  <2>1. \A s \in SubId : [kind |-> "refresh", sub |-> s] \in Op
    BY DEF Op
  <2>. QED BY <1>3, <2>1, BeginStore DEF RefreshCheck
<1>4. CASE PatchCheck(r)
  <2>1. PICK s \in SubId :
           Begin(r, [kind |-> "rename", sub |-> s],
                 IF HasSubscription(mem, s) THEN "commit" ELSE "refused")
    BY <1>4 DEF PatchCheck
  <2>2. [kind |-> "rename", sub |-> s] \in Op
    BY DEF Op
  <2>3. CheckHolds(mem, reqs'[r])
    BY <2>1, BeginOp DEF CheckHolds
  <2>. QED BY <1>4, <2>1, <2>2, <2>3, BeginStore DEF PatchCheck
<1>5. CASE SelectCheck(r)
  <2>1. PICK ref \in Ref :
           Begin(r, [kind |-> "server", ref |-> ref],
                 IF HasServer(mem, ref) THEN "commit" ELSE "refused")
    BY <1>5 DEF SelectCheck
  <2>2. [kind |-> "server", ref |-> ref] \in Op
    BY DEF Op
  <2>3. HasServer(mem, ref) => ref.sub \in issued
    BY DEF HasServer, IssuedInv, Uses, Ref
  <2>4. HasServer(mem, ref) => CheckHolds(mem, reqs'[r])
    BY <2>1, BeginOp DEF CheckHolds
  <2>. QED BY <1>5, <2>1, <2>2, <2>3, <2>4, BeginStore DEF SelectCheck
<1>6. CASE DeselectStart(r)
  <2>1. [kind |-> "server", ref |-> None] \in Op
    BY DEF Op
  <2>2. CheckHolds(mem, reqs'[r])
    BY <1>6, BeginOp DEF DeselectStart, CheckHolds
  <2>. QED BY <1>6, <2>1, <2>2, BeginStore DEF DeselectStart
<1>7. CASE ToggleCheck(r)
  <2>1. PICK on \in BOOLEAN :
           Begin(r, [kind |-> "toggle", on |-> on],
                 IF on /\ ActiveServer(mem) = None THEN "refused" ELSE "commit")
    BY <1>7 DEF ToggleCheck
  <2>2. [kind |-> "toggle", on |-> on] \in Op
    BY DEF Op
  <2>3. ~(on /\ ActiveServer(mem) = None) => CheckHolds(mem, reqs'[r])
    BY <2>1, BeginOp DEF CheckHolds
  <2>. QED BY <1>7, <2>1, <2>2, <2>3, BeginStore DEF ToggleCheck
<1>8. CASE RulesURLStart(r)
  <2>1. PICK u \in RulesURL \cup {None} :
           Begin(r, [kind |-> "rulesURL", url |-> u], "commit")
    BY <1>8 DEF RulesURLStart
  <2>2. [kind |-> "rulesURL", url |-> u] \in Op
    BY DEF Op
  <2>3. CheckHolds(mem, reqs'[r])
    BY <2>1, BeginOp DEF CheckHolds
  <2>. QED BY <1>8, <2>1, <2>2, <2>3, BeginStore DEF RulesURLStart
<1>9. CASE RulesRefreshCheck(r)
  <2>1. [kind |-> "rulesRefresh", url |-> mem.rulesURL] \in Op
    BY DEF Op, TypeOK, Data
  <2>2. CheckHolds(mem, reqs'[r])
    BY <1>9, BeginOp DEF RulesRefreshCheck, CheckHolds
  <2>. QED BY <1>9, <2>1, <2>2, BeginStore DEF RulesRefreshCheck
<1>. QED BY <1>1, <1>2, <1>3, <1>4, <1>5, <1>6, <1>7, <1>8, <1>9 DEF Arrive

(* An Update to data that keeps or drops the selection and adds no card.   *)
LEMMA UpdateStore ==
    ASSUME TypeOK, NEW r \in Req, NEW d \in Data,
           NEW next \in {"ok", "signal", "mark"}, Update(r, d, next),
           \A s \in SubId : HasSubscription(d, s) => HasSubscription(mem, s),
           d.active \in {mem.active, None} \/ d.active.sub \in issued,
           \A q \in Req \ {r} :
              reqs[q].pc = "commit" /\ ~Overtakes(r, q) /\ CheckHolds(mem, reqs[q]) =>
                 CheckHolds(d, reqs[q])
    PROVE  StoreShape(r)
<1>1. /\ mem' = d
      /\ reqs'[r].pc \in {next, "error"}
      /\ \A q \in Req \ {r} : Overtakes(r, q) => reqs'[q].raced
  BY UpdateShape
<1>2. issued' = issued /\ disk' \in {disk, mem'}
  BY DEF Update, Save
<1>3. reqs'[r].pc # "commit"
  BY <1>1
<1>. QED BY <1>1, <1>2, <1>3 DEF StoreShape, At

(* and what their later steps do. *)
LEMMA ContinueStore ==
    ASSUME IInv, NEW r \in Req, Continue(r)
    PROVE  StoreShape(r)
<1>. TypeOK /\ IssuedInv /\ RaceInv /\ mem \in Data /\ reqs[r] \in Request
  BY DEF IInv, TypeOK
<1>1. CASE DeleteSnapshot(r)
  <2>1. /\ reqs'[r].op = reqs[r].op
        /\ reqs'[r].affected = ActiveIn(mem, reqs[r].op.sub)
    BY <1>1 DEF DeleteSnapshot, TypeOK, Request
  <2>2. CheckHolds(mem, reqs'[r])
    BY <1>1, <2>1 DEF DeleteSnapshot, At, CheckHolds
  <2>. QED BY <1>1, <2>1, <2>2
           DEF DeleteSnapshot, StoreShape, At, Reading, store, TypeOK
<1>2. CASE DeleteCommit(r)
  <2>1. /\ reqs[r].pc = "commit" /\ reqs[r].op.sub \in SubId
        /\ reqs[r].op.kind = "delete"
    BY <1>2, OpType DEF DeleteCommit, At
  <2>. DEFINE d == DeleteSubscription(mem, reqs[r].op.sub)
  <2>2. d \in Data /\ d.active \in {mem.active, None}
    BY <2>1, DeleteKeeps, DeleteSubscriptionType DEF Keeps
  <2>3. d.subs[reqs[r].op.sub] = None
    <3>1. Deselected(mem, ActiveIn(mem, reqs[r].op.sub)) \in Data
      BY DeselectedKeeps DEF ActiveIn
    <3>. QED BY <2>1, <3>1 DEF DeleteSubscription, Data
  <2>4. \A s \in SubId : HasSubscription(d, s) => HasSubscription(mem, s)
    BY <2>1, <2>3, DeleteKeeps DEF Keeps, HasSubscription
  <2>5. Update(r, d, IF reqs[r].affected THEN "signal" ELSE "ok")
    BY <1>2 DEF DeleteCommit
  <2>6. Removal(mem, d, reqs[r].op.sub)
    BY <2>1, DeleteRemoval
  <2>. HIDE DEF d
  <2>. QED BY <2>1, <2>2, <2>4, <2>5, <2>6, RemovalChecks, UpdateStore
<1>3. CASE RefreshFetched(r)
  <2>1. /\ reqs'[r].op = reqs[r].op
        /\ reqs'[r].affected = ActiveIn(mem, reqs[r].op.sub)
        /\ reqs'[r].got \in Listing
    BY <1>3 DEF RefreshFetched, TypeOK, Request
  <2>2. CheckHolds(mem, reqs'[r])
    BY <1>3, <2>1 DEF RefreshFetched, At, CheckHolds
  <2>. QED BY <1>3, <2>1, <2>2
           DEF RefreshFetched, StoreShape, At, Reading, store, TypeOK
<1>4. CASE RefreshFailed(r)
  <2>1. reqs'[r].pc = "refused"
    BY <1>4 DEF RefreshFailed, Goto, TypeOK, Request
  <2>. QED BY <1>4, <2>1 DEF RefreshFailed, StoreShape, At, Reading, store
<1>5. CASE RefreshCommit(r)
  <2>1. /\ reqs[r].pc = "commit" /\ reqs[r].op.sub \in SubId
        /\ reqs[r].op.kind = "refresh" /\ reqs[r].got \in Listing
    BY <1>5, OpType DEF RefreshCommit, At, RaceInv
  <2>. DEFINE d == ReplaceSubscriptionServers(mem, reqs[r].op.sub, reqs[r].got)
              e == Deselected(mem, /\ ActiveIn(mem, reqs[r].op.sub)
                                   /\ mem.active.srv \notin DOMAIN reqs[r].got)
  <2>2. d \in Data /\ d.active \in {mem.active, None}
    BY <2>1, ReplaceKeeps, ReplaceSubscriptionServersType DEF Keeps
  <2>3. d.subs[reqs[r].op.sub] # None => mem.subs[reqs[r].op.sub] # None
    <3>1. e \in Data /\ e.subs = mem.subs
      BY DeselectedKeeps DEF ActiveIn
    <3>2. d = [e EXCEPT !.subs[reqs[r].op.sub] =
                  IF @ = None THEN None ELSE reqs[r].got]
      BY DEF ReplaceSubscriptionServers
    <3>. HIDE DEF d, e
    <3>. QED BY <2>1, <3>1, <3>2 DEF Data
  <2>4. \A s \in SubId : HasSubscription(d, s) => HasSubscription(mem, s)
    BY <2>1, <2>3, ReplaceKeeps DEF Keeps, HasSubscription
  <2>5. Update(r, d, IF reqs[r].affected THEN "signal" ELSE "ok")
    BY <1>5 DEF RefreshCommit
  <2>6. Removal(mem, d, reqs[r].op.sub)
    BY <2>1, ReplaceRemoval
  <2>. HIDE DEF d
  <2>. QED BY <2>1, <2>2, <2>4, <2>5, <2>6, RemovalChecks, UpdateStore
<1>6. CASE PatchCommit(r)
  <2>1. Update(r, mem, "ok")
    BY <1>6 DEF PatchCommit
  <2>. QED BY <2>1, UpdateStore
<1>7. CASE ServerCommit(r)
  <2>1. /\ At(r, "server", "commit") /\ reqs[r].pc = "commit"
        /\ reqs[r].op.kind = "server" /\ reqs[r].op.ref \in Ref \cup {None}
    BY <1>7, OpType DEF ServerCommit, At
  <2>. DEFINE d == [mem EXCEPT !.active = reqs[r].op.ref]
  <2>2. /\ d \in Data /\ d.active = reqs[r].op.ref /\ d.subs = mem.subs
        /\ d.rulesURL = mem.rulesURL
    BY <2>1 DEF Data
  <2>3. reqs[r].op.ref # None => reqs[r].op.ref.sub \in issued
    BY <2>1 DEF IssuedInv
  <2>4. Update(r, d, "mark")
    BY <1>7 DEF ServerCommit
  <2>. HIDE DEF d
  <2>5. d.active \in {mem.active, None} \/ d.active.sub \in issued
    BY <2>2, <2>3
  <2>. QED BY <2>1, <2>2, <2>4, <2>5, SelectionChecks, UpdateStore
           DEF HasSubscription
<1>8. CASE ToggleCommit(r)
  <2>1. reqs[r].pc = "commit" /\ reqs[r].op.on \in BOOLEAN
    BY <1>8, OpType DEF ToggleCommit, At
  <2>. DEFINE d == [mem EXCEPT !.vpnOn = reqs[r].op.on]
  <2>2. /\ d \in Data /\ d.active = mem.active /\ d.subs = mem.subs
        /\ d.rulesURL = mem.rulesURL
    BY <2>1 DEF Data
  <2>3. Update(r, d, "mark")
    BY <1>8 DEF ToggleCommit
  <2>. HIDE DEF d
  <2>. QED BY <2>1, <2>2, <2>3, SameChecks, UpdateStore DEF HasSubscription
<1>9. CASE RulesURLCommit(r)
  <2>1. reqs[r].pc = "commit" /\ reqs[r].op.url \in RulesURL \cup {None}
    BY <1>9, OpType DEF RulesURLCommit, At
  <2>. DEFINE d == [mem EXCEPT !.rulesURL = reqs[r].op.url,
                               !.rules    = reqs[r].op.url]
  <2>2. d \in Data /\ d.active = mem.active /\ d.subs = mem.subs
    BY <2>1 DEF Data
  <2>3. Update(r, d, "mark")
    BY <1>9 DEF RulesURLCommit
  <2>. HIDE DEF d
  <2>. QED BY <1>9, <2>1, <2>2, <2>3, RulesChecks, UpdateStore
           DEF RulesURLCommit, HasSubscription
<1>10. CASE RulesRefreshCommit(r)
  <2>1. reqs[r].pc = "commit" /\ reqs[r].op.url \in RulesURL \cup {None}
    BY <1>10, OpType DEF RulesRefreshCommit, At
  <2>. DEFINE d == [mem EXCEPT !.rules = reqs[r].op.url]
  <2>2. /\ d \in Data /\ d.active = mem.active /\ d.subs = mem.subs
        /\ d.rulesURL = mem.rulesURL
    BY <2>1 DEF Data
  <2>3. Update(r, d, "mark")
    BY <1>10 DEF RulesRefreshCommit
  <2>. HIDE DEF d
  <2>. QED BY <2>1, <2>2, <2>3, SameChecks, UpdateStore DEF HasSubscription
<1>11. CASE RulesFetchFailed(r)
  <2>1. reqs'[r].pc = "refused"
    BY <1>11 DEF RulesFetchFailed, Goto, TypeOK, Request
  <2>. QED BY <1>11, <2>1 DEF RulesFetchFailed, StoreShape, At, Reading, store
<1>12. CASE MarkApplying(r)
  <2>1. mem' = [mem EXCEPT !.applying = TRUE] /\ disk' \in {disk, mem'}
    BY <1>12 DEF MarkApplying, Save
  <2>2. reqs'[r].pc = "signal" /\ issued' = issued
    BY <1>12 DEF MarkApplying, Goto, TypeOK, Request
  <2>3. /\ mem'.active = mem.active /\ mem'.subs = mem.subs
        /\ mem'.rulesURL = mem.rulesURL
    BY <2>1 DEF Data
  <2>. QED BY <2>1, <2>2, <2>3, SameChecks DEF StoreShape, At, HasSubscription
<1>13. CASE RequestApply(r)
  <2>1. reqs'[r].pc = "ok"
    BY <1>13 DEF RequestApply, Goto, TypeOK, Request
  <2>. QED BY <1>13, <2>1 DEF RequestApply, StoreShape, At, store
<1>. QED BY <1>1, <1>2, <1>3, <1>4, <1>5, <1>6, <1>7, <1>8, <1>9, <1>10,
            <1>11, <1>12, <1>13 DEF Continue

(* A request uses only ids that were issued. *)
LEMMA RequestIssued ==
    ASSUME IInv, TypeOK', NEW r \in Req, RequestShape(r), StoreShape(r)
    PROVE  IssuedInv'
<1>. IssuedInv /\ TypeOK
  BY DEF IInv
<1>1. \A s \in SubId : Uses(mem', s) => s \in issued'
  <2>. SUFFICES ASSUME NEW s \in SubId, Uses(mem', s) PROVE s \in issued'
    OBVIOUS
  <2>1. CASE HasSubscription(mem', s)
    BY <2>1 DEF StoreShape, IssuedInv, Uses
  <2>2. CASE ActiveIn(mem', s)
    BY <2>2 DEF StoreShape, IssuedInv, Uses, ActiveIn
  <2>. QED BY <2>1, <2>2 DEF Uses
<1>2. disk' # None => \A s \in SubId : Uses(disk', s) => s \in issued'
  BY <1>1 DEF StoreShape, IssuedInv
<1>3. \A q \in Req : At(q, "server", "commit")' /\ reqs'[q].op.ref # None =>
         reqs'[q].op.ref.sub \in issued'
  <2>. SUFFICES ASSUME NEW q \in Req, At(q, "server", "commit")',
                       reqs'[q].op.ref # None
                PROVE  reqs'[q].op.ref.sub \in issued'
    OBVIOUS
  <2>1. CASE q = r
    BY <2>1 DEF StoreShape
  <2>2. CASE q # r
    BY <2>2 DEF RequestShape, SameRequest, StoreShape, IssuedInv, At
  <2>. QED BY <2>1, <2>2
<1>. QED BY <1>1, <1>2, <1>3 DEF IssuedInv

(* A request leaves the others with what they have checked, or overtaken.  *)
LEMMA RequestRace ==
    ASSUME IInv, NEW r \in Req, RequestShape(r), StoreShape(r)
    PROVE  RaceInv'
<1>. SUFFICES ASSUME NEW q \in Req, reqs'[q].pc = "commit"
              PROVE  /\ ~reqs'[q].raced => CheckHolds(mem', reqs'[q])
                     /\ reqs'[q].op.kind = "refresh" => reqs'[q].got \in Listing
  BY DEF RaceInv
<1>1. CASE q = r
  BY <1>1 DEF StoreShape
<1>2. CASE q # r
  <2>1. SameRequest(q)
    BY <1>2 DEF RequestShape
  <2>2. reqs[q].pc = "commit"
    BY <2>1 DEF SameRequest
  <2>3. reqs'[q].op.kind = "refresh" => reqs'[q].got \in Listing
    BY <2>1, <2>2 DEF SameRequest, IInv, RaceInv
  <2>4. ASSUME ~reqs'[q].raced PROVE CheckHolds(mem', reqs'[q])
    <3>1. ~reqs[q].raced
      BY <2>1, <2>4 DEF SameRequest
    <3>2. CheckHolds(mem, reqs[q])
      BY <2>2, <3>1 DEF IInv, RaceInv
    <3>3. CheckHolds(mem', reqs[q])
      BY <1>2, <2>2, <2>4, <3>2 DEF StoreShape
    <3>. QED BY <2>1, <3>3, SameRequestChecks DEF SameRequest
  <2>. QED BY <2>3, <2>4
<1>. QED BY <1>1, <1>2

(* A request keeps an owner for the applying flag. *)
LEMMA RequestFlag ==
    ASSUME IInv, NEW r \in Req, RequestShape(r)
    PROVE  ApplyingHasOwner'
<1>. SUFFICES ASSUME worker'.ran, mem'.applying, worker'.pc = "wait",
                     ~(applyCh' > 0)
              PROVE  \E q \in Req : reqs'[q].pc = "signal"
  BY DEF ApplyingHasOwner
<1>1. CASE reqs'[r].pc = "signal"
  BY <1>1
<1>2. CASE reqs'[r].pc # "signal"
  <2>1. worker.ran /\ mem.applying /\ worker.pc = "wait" /\ ~(applyCh > 0)
    BY <1>2 DEF RequestShape
  <2>2. PICK q \in Req : reqs[q].pc = "signal"
    BY <2>1 DEF IInv, ApplyingHasOwner
  <2>3. q # r
    BY <2>2 DEF RequestShape
  <2>. QED BY <2>2, <2>3 DEF RequestShape, SameRequest
<1>. QED BY <1>1, <1>2

(* A request does not touch what the worker holds. *)
LEMMA RequestWorker ==
    ASSUME IInv, NEW r \in Req, RequestShape(r)
    PROVE  WorkerInv'
BY DEF IInv, RequestShape, WorkerInv, Applied

(* Together: a request keeps the invariant. *)
LEMMA RequestIInv ==
    ASSUME IInv, NEW r \in Req, Arrive(r) \/ Continue(r)
    PROVE  IInv'
<1>1. TypeOK'
  BY ArriveType, ContinueType DEF IInv
<1>2. RequestShape(r) /\ StoreShape(r)
  BY ArriveShape, ContinueShape, ArriveStore, ContinueStore
<1>. QED BY <1>1, <1>2, RequestIssued, RequestRace, RequestNoLostWakeup,
            RequestFlag, RequestWorker DEF IInv

(* The worker keeps its promises to itself. *)
LEMMA WorkerIInv ==
    ASSUME IInv, WorkerStep
    PROVE  IInv'
<1>. TypeOK /\ IssuedInv /\ RaceInv /\ ApplyingHasOwner /\ WorkerInv
  BY DEF IInv
<1>1. TypeOK'
  BY WorkerType
<1>2. NoLostWakeup'
  BY WorkerNoLostWakeup
<1>3. UNCHANGED <<reqs, issued, boots>>
  BY DEF WorkerStep, TakeSignal, ReadSnapshot, ReadServer, WriteOutbounds,
         WriteRouting, WriteFails, DriveXKeen, XKeenFails, FinishApply
<1>4. /\ mem'.active = mem.active /\ mem'.subs = mem.subs
      /\ mem'.rulesURL = mem.rulesURL
      /\ disk' \in {disk, mem'}
  <2>1. CASE FinishApply
    <3>1. mem' = Reported /\ disk' \in {disk, mem'}
      BY <2>1 DEF FinishApply, Save
    <3>. QED BY <3>1 DEF Reported, TypeOK, Data
  <2>2. CASE ~FinishApply
    BY <2>2 DEF WorkerStep, TakeSignal, ReadSnapshot, ReadServer,
                WriteOutbounds, WriteRouting, WriteFails, DriveXKeen,
                XKeenFails, store
  <2>. QED BY <2>1, <2>2
<1>5. IssuedInv'
  BY <1>3, <1>4 DEF IssuedInv, Uses, HasSubscription, ActiveIn, At
<1>6. RaceInv'
  BY <1>3, <1>4, SameChecks DEF RaceInv
<1>7. ApplyingHasOwner' /\ WorkerInv'
  <2>. USE DEF ApplyingHasOwner, WorkerInv
  <2>1. CASE TakeSignal
    BY <2>1 DEF TakeSignal, TypeOK
  <2>2. CASE ReadSnapshot
    BY <2>2 DEF ReadSnapshot, TypeOK
  <2>3. CASE ReadServer
    BY <2>3 DEF ReadServer, TypeOK
  <2>4. CASE WriteOutbounds
    BY <2>4 DEF WriteOutbounds, TypeOK, Files
  <2>5. CASE WriteRouting
    BY <2>5 DEF WriteRouting, TypeOK, Files
  <2>6. CASE WriteFails
    BY <2>6 DEF WriteFails, Finishing, TypeOK
  <2>7. CASE DriveXKeen
    <3>1. /\ xkeen' = Commanded /\ files' = files /\ worker.pc = "xkeen"
          /\ worker' = [worker EXCEPT !.pc = "finish", !.ok = TRUE]
      BY <2>7 DEF DriveXKeen, Finishing
    <3>2. files = [outbounds |-> worker.server,
                   routing   |-> worker.policy.rules]
      BY <3>1 DEF TypeOK, Files
    <3>3. xkeen'.up = worker.policy.vpnOn /\ (xkeen'.up => xkeen'.conf = files)
      BY <3>1 DEF Commanded, TypeOK, Policies
    <3>4. /\ worker'.server = worker.server /\ worker'.policy = worker.policy
          /\ worker'.pc = "finish"
      BY <3>1 DEF TypeOK
    <3>. QED BY <3>1, <3>2, <3>3, <3>4 DEF Applied
  <2>8. CASE XKeenFails
    BY <2>8 DEF XKeenFails, Finishing, TypeOK
  <2>9. CASE FinishApply
    <3>1. mem' = Reported /\ files' = files /\ xkeen' = xkeen
      BY <2>9 DEF FinishApply, Save, runtime
    <3>2. ~mem'.applying /\ (mem'.lastApply = "failed" \/ worker.ok)
      BY <3>1 DEF Reported, TypeOK, Data
    <3>3. /\ worker.pc = "finish" /\ worker'.pc = "wait"
          /\ worker'.policy = worker.policy /\ worker'.server = worker.server
      BY <2>9 DEF FinishApply, TypeOK
    <3>. QED BY <3>1, <3>2, <3>3 DEF Applied
  <2>. QED BY <2>1, <2>2, <2>3, <2>4, <2>5, <2>6, <2>7, <2>8, <2>9 DEF WorkerStep
<1>. QED BY <1>1, <1>2, <1>5, <1>6, <1>7 DEF IInv

(* A restart forgets the signals and the requests, and with them every     *)
(* obligation.                                                             *)
LEMMA CrashIInv ==
    ASSUME IInv, CrashAndRestart
    PROVE  IInv'
<1>. TypeOK /\ IssuedInv
  BY DEF IInv
<1>1. TypeOK'
  BY CrashType
<1>2. /\ mem' = Load(disk) /\ worker' = Fresh(mem') /\ boots' = boots + 1
      /\ disk' = disk /\ issued' = issued
  BY DEF CrashAndRestart
<1>3. \A r \in Req : reqs'[r].pc # "commit"
  BY DEF CrashAndRestart, TypeOK, Ended, Answered, Request
<1>4. NoLostWakeup'
  BY <1>2 DEF NoLostWakeup, Fresh
<1>5. \A s \in SubId : Uses(mem', s) => s \in issued'
  <2>1. \A s \in SubId : ~Uses(Defaults, s)
    BY DEF Uses, HasSubscription, ActiveIn, Defaults
  <2>. QED BY <1>2, <2>1 DEF IssuedInv, Load
<1>6. IssuedInv'
  BY <1>2, <1>3, <1>5 DEF IssuedInv, At
<1>7. RaceInv'
  BY <1>3 DEF RaceInv
<1>8. ApplyingHasOwner'
  BY <1>2 DEF ApplyingHasOwner, Fresh
<1>9. WorkerInv'
  BY <1>2 DEF WorkerInv, Fresh, TypeOK
<1>. QED BY <1>1, <1>4, <1>6, <1>7, <1>8, <1>9 DEF IInv

(* It holds at first, *)
LEMMA InitIInv == Init => IInv
<1>. SUFFICES ASSUME Init PROVE IInv
  OBVIOUS
<1>1. TypeOK
  BY InitType
<1>2. \A r \in Req : reqs[r].pc = "new"
  BY DEF Init
<1>3. mem = Load(disk) /\ worker = Fresh(mem)
  BY DEF Init
<1>4. NoLostWakeup
  BY <1>3 DEF NoLostWakeup, Fresh
<1>5. \A s \in SubId : Uses(mem, s) => s \in issued
  BY DEF Init, Uses
<1>6. IssuedInv
  BY <1>2, <1>3, <1>5 DEF IssuedInv, At, Load
<1>7. RaceInv
  BY <1>2 DEF RaceInv
<1>8. ApplyingHasOwner
  BY <1>3 DEF ApplyingHasOwner, Fresh
<1>9. WorkerInv
  <2>1. Applied
    BY <1>3 DEF Init, Applied, Fresh, Intended, Policy
  <2>. QED BY <1>3, <2>1 DEF WorkerInv, Fresh
<1>. QED BY <1>1, <1>4, <1>6, <1>7, <1>8, <1>9 DEF IInv

(* and every step keeps it. *)
LEMMA NextIInv == IInv /\ [Next]_vars => IInv'
<1>1. ASSUME IInv, Next PROVE IInv'
  BY <1>1, RequestIInv, WorkerIInv, CrashIInv DEF Next
<1>2. ASSUME IInv, UNCHANGED vars PROVE IInv'
  <2>. USE <1>2 DEF vars
  <2>1. TypeOK'
    BY DEF IInv, TypeOK
  <2>2. IssuedInv' /\ RaceInv'
    BY DEF IInv, IssuedInv, RaceInv, At
  <2>3. NoLostWakeup' /\ ApplyingHasOwner'
    BY DEF IInv, NoLostWakeup, ApplyingHasOwner, PolicyUnread, ServerUnread,
           Pending
  <2>4. WorkerInv'
    BY DEF IInv, WorkerInv, Applied
  <2>. QED BY <2>1, <2>2, <2>3, <2>4 DEF IInv
<1>. QED BY <1>1, <1>2

(* The whole inductive invariant holds in every state of the daemon. *)
THEOREM Inductive == Spec => []IInv
BY InitIInv, NextIInv, PTL DEF Spec

-----------------------------------------------------------------------------
(* No lost wakeup: the buffered channel and its dropped signals never      *)
(* leave the worker with an outdated view it has no reason to refresh,     *)
(* except a change whose save failed, and a deletion or refresh overtaken  *)
(* by a selection, and each only until the worker's next read.             *)
THEOREM WakeupsAreNotLost == Spec => []NoLostWakeup
<1>1. IInv => NoLostWakeup
  BY DEF IInv
<1>. QED BY <1>1, Inductive, PTL

(* The flag that disables the controls is set only while somebody is going *)
(* to clear it.                                                            *)
THEOREM FlagHasOwner == Spec => []ApplyingHasOwner
<1>1. IInv => ApplyingHasOwner
  BY DEF IInv
<1>. QED BY <1>1, Inductive, PTL

(* When the daemon is quiet after a successful apply, state, files and     *)
(* xray agree, with the exceptions NoLostWakeup has.                       *)
THEOREM QuietIsInForce == Spec => []QuietMeansInForce
<1>1. ASSUME IInv PROVE QuietMeansInForce
  <2>. SUFFICES ASSUME Quiet, mem.lastApply # "failed",
                       worker.ran \/ boots = 0, missed = {}
                PROVE  InForce
    BY DEF QuietMeansInForce
  <2>1. ~Pending /\ worker.pc = "wait"
    BY DEF Quiet, Pending, Ended, Answered
  <2>2. worker.policy = Policy(mem) /\ worker.server = ActiveServer(mem)
    BY <1>1, <2>1 DEF IInv, NoLostWakeup, PolicyUnread, ServerUnread
  <2>3. Applied
    BY <1>1, <2>1 DEF IInv, WorkerInv
  <2>. QED BY <2>2, <2>3 DEF Applied, InForce, Intended, Policy
<1>. QED BY <1>1, Inductive, PTL

-----------------------------------------------------------------------------
(* Handlers, channel and worker implement LatestWins. *)

Values == Policies \cup Content \cup {None}

Wanted == ByPart(Policy(mem), ActiveServer(mem))
Read   == ByPart(worker.policy, worker.server)

(* What is wanted has a value for each part. *)
LEMMA WantedType ==
    ASSUME NEW d \in Data
    PROVE  ByPart(Policy(d), ActiveServer(d)) \in [Part -> Values]
BY ReadType, ActiveServerType DEF ByPart, Values

(* The two parts, one by one. *)
LEMMA ByPartValues ==
    ASSUME NEW p, NEW s
    PROVE  /\ ByPart(p, s) = [ByPart(p, s) EXCEPT !["policy"] = p]
           /\ ByPart(p, s)["policy"] = p
           /\ ByPart(p, s)["server"] = s
           /\ \A q : [ByPart(p, s) EXCEPT !["policy"] = q] = ByPart(q, s)
           /\ \A t : [ByPart(p, s) EXCEPT !["server"] = t] = ByPart(p, t)
BY DEF ByPart, Part

(* The set of unread parts, member by member. *)
LEMMA UnreadMembers ==
    /\ Unread \subseteq Part
    /\ "policy" \in Unread <=> PolicyUnread
    /\ "server" \in Unread <=> ServerUnread
    /\ "policy" \in Unread' <=> PolicyUnread'
    /\ "server" \in Unread' <=> ServerUnread'
    /\ Unread' \subseteq Part
BY DEF Unread, Part

(* Sets that differ in one element at most. *)
LEMMA OneLess ==
    ASSUME NEW A, NEW B, NEW p \in A, \A q : q # p => (q \in A <=> q \in B)
    PROVE  B \in {A, A \ {p}}
<1>1. CASE p \in B
  <2>1. B = A
    BY <1>1
  <2>. QED BY <2>1
<1>2. CASE p \notin B
  <2>1. B = A \ {p}
    BY <1>2
  <2>. QED BY <2>1
<1>. QED BY <1>1, <1>2

(* A step of a request is a Change: what it alters is owed, or missed. *)
LEMMA RequestChanges ==
    ASSUME IInv, IInv', NEW r \in Req, RequestShape(r)
    PROVE  LW!Change
<1>. mem' \in Data
  BY DEF IInv, TypeOK
<1>1. Wanted' \in [Part -> Values]
  BY WantedType DEF Wanted
<1>2. missed \subseteq missed' /\ missed' \subseteq missed \cup LW!Changed
  <2>1. Altered(mem, mem') \subseteq LW!Changed
    <3>1. Altered(mem, mem') \subseteq Part
      BY AlteredType
    <3>2. ASSUME Policy(mem) # Policy(mem') PROVE "policy" \in LW!Changed
      BY <3>2 DEF LW!Changed, ByPart, Part
    <3>3. ASSUME ActiveServer(mem) # ActiveServer(mem')
          PROVE  "server" \in LW!Changed
      BY <3>3 DEF LW!Changed, ByPart, Part
    <3>. QED BY <3>1, <3>2, <3>3, AlteredType DEF Part
  <2>. QED BY <2>1 DEF RequestShape
<1>3. Pending => Pending'
  BY DEF RequestShape, SameRequest, Announced, Pending
<1>4. Unread \subseteq Unread'
  BY <1>3, UnreadMembers DEF RequestShape, PolicyUnread, ServerUnread, Part
<1>. Read' = Read
  BY DEF Read, RequestShape
<1>5. LW!Changed \subseteq Unread' \cup missed'
  <2>1. CASE Announced(r)
    <3>1. Unread' = Part
      BY <2>1, UnreadMembers
         DEF Announced, Pending, PolicyUnread, ServerUnread, Part
    <3>. QED BY <3>1 DEF LW!Changed
  <2>2. CASE ~Announced(r)
    <3>1. Altered(mem, mem') \subseteq missed'
      BY <2>2 DEF RequestShape
    <3>2. LW!Changed \subseteq Altered(mem, mem')
      BY DEF LW!Changed, Altered, ByPart, Part
    <3>. QED BY <3>1, <3>2
  <2>. QED BY <2>1, <2>2
<1>. QED BY <1>1, <1>2, <1>4, <1>5, UnreadMembers DEF LW!Change, Wanted, Values, Read

(* The worker's two reads are Reads; its other steps change nothing that   *)
(* LatestWins sees.                                                        *)
LEMMA WorkerReads ==
    ASSUME TypeOK, WorkerStep
    PROVE  (\E p \in Part : LW!Read(p)) \/ UNCHANGED LW!vars
<1>1. reqs' = reqs
  BY DEF WorkerStep, TakeSignal, ReadSnapshot, ReadServer, WriteOutbounds,
         WriteRouting, WriteFails, DriveXKeen, XKeenFails, FinishApply
<1>2. CASE ReadSnapshot
  <2>1. /\ worker.pc = "snapshot" /\ worker'.pc = "server"
        /\ worker'.policy = Policy(mem) /\ worker'.server = worker.server
        /\ mem' = mem /\ applyCh' = applyCh /\ missed' = missed \ {"policy"}
    BY <1>2 DEF ReadSnapshot, store, TypeOK
  <2>2. Pending' = Pending
    BY <1>1, <2>1 DEF Pending
  <2>3. Wanted' = Wanted /\ Read' = [Read EXCEPT !["policy"] = Wanted["policy"]]
    BY <2>1, ByPartValues DEF Wanted, Read
  <2>4. "policy" \in Unread /\ Unread' \in {Unread, Unread \ {"policy"}}
    <3>1. PolicyUnread
      BY <2>1 DEF PolicyUnread
    <3>2. "policy" \in Unread
      BY <3>1, UnreadMembers
    <3>3. ServerUnread' = ServerUnread
      BY <2>1, <2>2 DEF ServerUnread
    <3>4. "server" \in Unread' <=> "server" \in Unread
      BY <3>3, UnreadMembers
    <3>5. Unread' \in {Unread, Unread \ {"policy"}}
      <4>1. \A q : q # "policy" => (q \in Unread <=> q \in Unread')
        BY <3>4, UnreadMembers DEF Part
      <4>. QED BY <3>2, <4>1, OneLess
    <3>. QED BY <3>2, <3>5
  <2>. QED BY <2>1, <2>3, <2>4 DEF LW!Read, Wanted, Read, Part
<1>3. CASE ReadServer
  <2>1. /\ worker.pc = "server" /\ worker'.pc = "outbounds"
        /\ worker'.server = ActiveServer(mem) /\ worker'.policy = worker.policy
        /\ mem' = mem /\ applyCh' = applyCh /\ missed' = missed \ {"server"}
    BY <1>3 DEF ReadServer, store, TypeOK
  <2>2. Pending' = Pending
    BY <1>1, <2>1 DEF Pending
  <2>3. Wanted' = Wanted /\ Read' = [Read EXCEPT !["server"] = Wanted["server"]]
    BY <2>1, ByPartValues DEF Wanted, Read
  <2>4. "server" \in Unread /\ Unread' \in {Unread, Unread \ {"server"}}
    <3>1. ServerUnread
      BY <2>1 DEF ServerUnread
    <3>2. "server" \in Unread
      BY <3>1, UnreadMembers
    <3>3. PolicyUnread' = PolicyUnread
      BY <2>1, <2>2 DEF PolicyUnread
    <3>4. "policy" \in Unread' <=> "policy" \in Unread
      BY <3>3, UnreadMembers
    <3>5. Unread' \in {Unread, Unread \ {"server"}}
      <4>1. \A q : q # "server" => (q \in Unread <=> q \in Unread')
        BY <3>4, UnreadMembers DEF Part
      <4>. QED BY <3>2, <4>1, OneLess
    <3>. QED BY <3>2, <3>5
  <2>. QED BY <2>1, <2>3, <2>4 DEF LW!Read, Wanted, Read, Part
<1>4. CASE ~ReadSnapshot /\ ~ReadServer
  <2>1. /\ Policy(mem') = Policy(mem) /\ ActiveServer(mem') = ActiveServer(mem)
        /\ worker'.policy = worker.policy /\ worker'.server = worker.server
    <3>1. CASE FinishApply
      <4>1. mem' = Reported
        BY <3>1 DEF FinishApply, Save
      <4>2. Policy(mem') = Policy(mem) /\ ActiveServer(mem') = ActiveServer(mem)
        BY <4>1 DEF Reported, TypeOK, Data, Policy, ActiveServer, HasServer,
                    HasSubscription
      <4>3. worker'.policy = worker.policy /\ worker'.server = worker.server
        BY <3>1 DEF FinishApply, TypeOK
      <4>. QED BY <4>2, <4>3
    <3>2. CASE ~FinishApply
      BY <1>4, <3>2 DEF WorkerStep, TakeSignal, WriteOutbounds, WriteRouting,
         WriteFails, DriveXKeen, XKeenFails, Finishing, store, TypeOK
    <3>. QED BY <3>1, <3>2
  <2>2. Wanted' = Wanted /\ Read' = Read
    BY <2>1 DEF Wanted, Read, ByPart
  <2>3. PolicyUnread' = PolicyUnread /\ ServerUnread' = ServerUnread
    <3>1. CASE TakeSignal
      BY <3>1 DEF TakeSignal, PolicyUnread, ServerUnread, Pending, TypeOK
    <3>2. CASE ~TakeSignal
      <4>1. applyCh' = applyCh
        BY <1>4, <3>2 DEF WorkerStep, WriteOutbounds, WriteRouting,
           WriteFails, DriveXKeen, XKeenFails, FinishApply
      <4>2. /\ worker.pc \notin {"snapshot", "server"}
            /\ worker'.pc \notin {"snapshot", "server"}
        BY <1>4, <3>2 DEF WorkerStep, WriteOutbounds, WriteRouting,
           WriteFails, DriveXKeen, XKeenFails, FinishApply, Finishing, TypeOK
      <4>. QED BY <1>1, <4>1, <4>2 DEF PolicyUnread, ServerUnread, Pending
    <3>. QED BY <3>1, <3>2
  <2>4. Unread' = Unread
    BY <2>3 DEF Unread
  <2>5. missed' = missed
    BY <1>4 DEF WorkerStep, TakeSignal, WriteOutbounds, WriteRouting,
       WriteFails, DriveXKeen, XKeenFails, FinishApply
  <2>. QED BY <2>2, <2>4, <2>5 DEF LW!vars, Wanted, Read
<1>. QED BY <1>2, <1>3, <1>4

(* A crash is a Restart. *)
LEMMA CrashRestarts ==
    ASSUME IInv', CrashAndRestart
    PROVE  LW!Restart
<1>1. mem' \in Data
  BY DEF IInv, TypeOK
<1>2. Wanted' \in [Part -> Values]
  BY <1>1, WantedType DEF Wanted
<1>3. Read' = Wanted'
  BY DEF CrashAndRestart, Fresh, Read, Wanted
<1>4. ~Pending' /\ worker'.pc = "wait"
  <2>1. reqs' = [r \in Req |-> IF reqs[r].pc \in Ended \cup {"new"} THEN reqs[r]
                               ELSE [reqs[r] EXCEPT !.pc = "killed"]]
    BY DEF CrashAndRestart
  <2>2. \A r \in Req : reqs'[r] \in Request
    BY DEF IInv, TypeOK
  <2>3. \A r \in Req : reqs'[r].pc \notin {"mark", "signal"}
    BY <2>1, <2>2 DEF Ended, Answered, Request
  <2>. QED BY <2>3 DEF CrashAndRestart, Fresh, Pending
<1>5. Unread' = {}
  BY <1>4, UnreadMembers DEF PolicyUnread, ServerUnread, Part
<1>6. missed' = {}
  BY DEF CrashAndRestart
<1>. QED BY <1>2, <1>3, <1>5, <1>6 DEF LW!Restart, Wanted, Read, Values

(* The first states are first states of the abstraction, *)
LEMMA InitRefines ==
    ASSUME Init
    PROVE  LW!Init
<1>1. mem \in Data
  BY InitType DEF TypeOK
<1>2. Wanted \in [Part -> Values]
  BY <1>1, WantedType DEF Wanted
<1>3. Read = Wanted
  BY DEF Init, Fresh, Read, Wanted
<1>4. ~Pending /\ worker.pc = "wait"
  BY DEF Init, Fresh, Pending
<1>5. Unread = {}
  BY <1>4, UnreadMembers DEF PolicyUnread, ServerUnread, Part
<1>6. missed = {}
  BY DEF Init
<1>. QED BY <1>2, <1>3, <1>5, <1>6 DEF LW!Init, Wanted, Read, Values

(* and every step is a step of it, or none. *)
LEMMA NextRefines ==
    ASSUME IInv, IInv', [Next]_vars
    PROVE  [LW!Next]_LW!vars
<1>1. CASE \E r \in Req : Arrive(r) \/ Continue(r)
  <2>1. PICK r \in Req : Arrive(r) \/ Continue(r)
    BY <1>1
  <2>2. RequestShape(r)
    BY <2>1, ArriveShape, ContinueShape DEF IInv
  <2>. QED BY <2>2, RequestChanges DEF LW!Next
<1>2. CASE WorkerStep
  BY <1>2, WorkerReads DEF IInv, LW!Next
<1>3. CASE CrashAndRestart
  BY <1>3, CrashRestarts DEF LW!Next
<1>4. CASE UNCHANGED vars
  <2>1. Unread' = Unread
    BY <1>4 DEF vars, Unread, PolicyUnread, ServerUnread, Pending
  <2>. QED BY <1>4, <2>1 DEF vars, LW!vars
<1>. QED BY <1>1, <1>2, <1>3, <1>4 DEF Next

(* Every step of the daemon is a step of the abstract apply queue, or      *)
(* changes nothing it speaks of: the worker only ever applies what was in  *)
(* the state when it read it, and what changed since is still owed.        *)
THEOREM Refinement == Spec => ImplementsLatestWins
<1>1. Init => LW!Init
  BY InitRefines
<1>2. IInv /\ IInv' /\ [Next]_vars => [LW!Next]_LW!vars
  BY NextRefines
<1>. QED BY <1>1, <1>2, Inductive, PTL DEF Spec, ImplementsLatestWins, LW!Spec

=============================================================================
