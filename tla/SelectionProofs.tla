-------------------------- MODULE SelectionProofs --------------------------
(***************************************************************************)
(* How the state may come to contradict itself: a selection that points at *)
(* nothing, a VPN without a target, rules that are not those of the URL.   *)
(* Each begins with the commit of a request that another one has overtaken *)
(* (or with a deselection), which follows from RaceInv: a request that     *)
(* nobody has overtaken commits on what it has checked.                    *)
(***************************************************************************)
EXTENDS ApplyPathProofs

(* The parts of the record the three properties speak of. *)
SameSelection(d, e) == /\ e.active = d.active
                       /\ e.vpnOn = d.vpnOn
                       /\ e.subs = d.subs
                       /\ e.rules = d.rules
                       /\ e.rulesURL = d.rulesURL

(* The actions of a request that commit something of it. *)
ChangesSelection(r) == \/ PostAddSubscription(r)
                       \/ DeleteCommit(r)
                       \/ RefreshCommit(r)
                       \/ ServerCommit(r)
                       \/ ToggleCommit(r)
                       \/ RulesURLCommit(r)
                       \/ RulesRefreshCommit(r)

(* No other step touches them, but for a restart. *)
LEMMA QuietSteps ==
    ASSUME TypeOK, [Next]_vars, \A r \in Req : ~ChangesSelection(r)
    PROVE  SameSelection(mem, mem') \/ boots' # boots
<1>. mem \in Data /\ boots \in Nat
  BY DEF TypeOK
<1>1. CASE UNCHANGED vars
  BY <1>1 DEF vars, SameSelection
<1>2. CASE CrashAndRestart
  BY <1>2 DEF CrashAndRestart
<1>3. CASE WorkerStep
  <2>1. CASE FinishApply
    <3>1. mem' = Reported
      BY <2>1 DEF FinishApply, Save
    <3>. QED BY <3>1 DEF Reported, SameSelection, Data
  <2>2. CASE ~FinishApply
    BY <1>3, <2>2 DEF WorkerStep, TakeSignal, ReadSnapshot, ReadServer,
       WriteOutbounds, WriteRouting, WriteFails, DriveXKeen, XKeenFails, store,
       SameSelection
  <2>. QED BY <2>1, <2>2
<1>4. CASE \E r \in Req : Arrive(r) \/ Continue(r)
  <2>1. PICK r \in Req : Arrive(r) \/ Continue(r)
    BY <1>4
  <2>2. CASE Reading \/ RequestApply(r)
    BY <2>2 DEF Reading, RequestApply, store, SameSelection
  <2>3. CASE PatchCommit(r)
    BY <2>3, UpdateShape DEF PatchCommit, SameSelection
  <2>4. CASE MarkApplying(r)
    <3>1. mem' = [mem EXCEPT !.applying = TRUE]
      BY <2>4 DEF MarkApplying, Save
    <3>. QED BY <3>1 DEF SameSelection, Data
  <2>5. Reading \/ RequestApply(r) \/ PatchCommit(r) \/ MarkApplying(r)
    BY <2>1 DEF ChangesSelection, Arrive, Continue, DeleteCheck, RefreshCheck,
       PatchCheck, SelectCheck, DeselectStart, ToggleCheck, RulesURLStart,
       RulesRefreshCheck, DeleteSnapshot, RefreshFetched, RefreshFailed,
       RulesFetchFailed
  <2>. QED BY <2>2, <2>3, <2>4, <2>5
<1>. QED BY <1>1, <1>2, <1>3, <1>4 DEF Next

(* A step that keeps the selection, or drops it with the VPN, or only adds *)
(* a card, makes nothing dangle and leaves no VPN without a target.        *)
Harmless(d, e) ==
    /\ e.rules = d.rules /\ e.rulesURL = d.rulesURL
    /\ \/ e.active = None /\ ~e.vpnOn
       \/ /\ e.active = d.active /\ e.vpnOn = d.vpnOn
          /\ Dangling(e) => Dangling(d)

(* A card that is added. *)
LEMMA AddHarmless ==
    ASSUME IInv, NEW r \in Req, PostAddSubscription(r)
    PROVE  Harmless(mem, mem')
<1>. mem \in Data
  BY DEF IInv, TypeOK
<1>1. PICK s \in SubId \ issued, l \in Listing :
         \E saved \in BOOLEAN : Save(AddSubscription(mem, s, l), saved)
  BY Zenon DEF PostAddSubscription
<1>2. mem' = AddSubscription(mem, s, l)
  BY <1>1 DEF Save
<1>3. ~ActiveIn(mem, s)
  BY DEF IInv, IssuedInv, Uses
<1>4. /\ mem'.active = mem.active /\ mem'.vpnOn = mem.vpnOn
      /\ mem'.rules = mem.rules /\ mem'.rulesURL = mem.rulesURL
      /\ \A t \in SubId : t # s => mem'.subs[t] = mem.subs[t]
  BY <1>2 DEF AddSubscription, Data
<1>5. mem.active # None => mem.active.sub \in SubId /\ mem.active.sub # s
  BY <1>3 DEF ActiveIn, Data, Ref
<1>. QED BY <1>4, <1>5 DEF Harmless, Dangling, HasServer, HasSubscription

(* A card that is deleted or refreshed. *)
LEMMA RemovalHarmless ==
    ASSUME IInv, NEW r \in Req, DeleteCommit(r) \/ RefreshCommit(r)
    PROVE  Harmless(mem, mem')
<1>. TypeOK /\ mem \in Data
  BY DEF IInv, TypeOK
<1>. DEFINE s == reqs[r].op.sub
<1>1. CASE DeleteCommit(r)
  <2>1. mem' = DeleteSubscription(mem, s)
    BY <1>1, UpdateShape DEF DeleteCommit
  <2>2. s \in SubId
    BY <1>1, OpType DEF DeleteCommit, At
  <2>. QED BY <2>1, <2>2, DeleteRemoval DEF Removal, Harmless
<1>2. CASE RefreshCommit(r)
  <2>1. mem' = ReplaceSubscriptionServers(mem, s, reqs[r].got)
    BY <1>2, UpdateShape DEF RefreshCommit
  <2>2. s \in SubId /\ reqs[r].got \in Listing
    BY <1>2, OpType DEF RefreshCommit, At, IInv, RaceInv
  <2>. QED BY <2>1, <2>2, ReplaceRemoval DEF Removal, Harmless
<1>. QED BY <1>1, <1>2

(* What the other commits do to the record. *)
LEMMA CommitEffects ==
    ASSUME TypeOK, NEW r \in Req
    PROVE  /\ ServerCommit(r) => /\ mem' = [mem EXCEPT !.active = reqs[r].op.ref]
                                 /\ Commits(r, "server")
           /\ ToggleCommit(r) => /\ mem' = [mem EXCEPT !.vpnOn = reqs[r].op.on]
                                 /\ Commits(r, "toggle")
           /\ RulesURLCommit(r) =>
                 mem' = [mem EXCEPT !.rulesURL = reqs[r].op.url,
                                    !.rules    = reqs[r].op.url]
           /\ RulesRefreshCommit(r) =>
                 /\ mem' = [mem EXCEPT !.rules = reqs[r].op.url]
                 /\ Commits(r, "rulesRefresh")
<1>1. ASSUME NEW d, Update(r, d, "mark")
      PROVE  mem' = d /\ reqs'[r].pc # "commit"
  BY <1>1, UpdateShape
<1>. QED BY <1>1 DEF ServerCommit, ToggleCommit, RulesURLCommit,
                     RulesRefreshCommit, Commits

(* Without a target is without a selection, or with a dangling one.        *)
LEMMA TargetlessIs ==
    ASSUME NEW d \in Data
    PROVE  Targetless(d) <=> d.vpnOn /\ (d.active = None \/ Dangling(d))
<1>1. d.active = None \/ Dangling(d) => ActiveServer(d) = None
  BY DEF Dangling, ActiveServer
<1>2. d.active # None /\ ~Dangling(d) => ActiveServer(d) # None
  BY KnownServer DEF Dangling
<1>. QED BY <1>1, <1>2 DEF Targetless

(* A harmless step. *)
LEMMA HarmlessStep ==
    ASSUME NEW d \in Data, NEW e \in Data, Harmless(d, e)
    PROVE  /\ Dangling(e) => Dangling(d) /\ e.active = d.active
           /\ Targetless(e) => Targetless(d)
           /\ e.rules = d.rules /\ e.rulesURL = d.rulesURL
<1>1. Dangling(e) => Dangling(d) /\ e.active = d.active
  BY DEF Harmless, Dangling
<1>2. Targetless(e) => Targetless(d)
  BY <1>1, TargetlessIs DEF Harmless
<1>. QED BY <1>1, <1>2 DEF Harmless

(* The other steps are harmless, too. *)
LEMMA SameIsHarmless ==
    ASSUME NEW d, NEW e, SameSelection(d, e)
    PROVE  Harmless(d, e)
BY DEF SameSelection, Harmless, Dangling, HasServer, HasSubscription

-----------------------------------------------------------------------------
(* The four commits that are not harmless by themselves. *)

(* postServer stores what it has checked, or was overtaken. *)
LEMMA ServerStep ==
    ASSUME IInv, NEW r \in Req, ServerCommit(r)
    PROVE  /\ Dangling(mem') => /\ CommitsOvertaken(r, "server")
                                /\ mem'.active = reqs[r].op.ref
           /\ Targetless(mem') => \/ reqs[r].op.ref = None
                                  \/ CommitsOvertaken(r, "server")
           /\ Commits(r, "server")
           /\ mem'.rules = mem.rules /\ mem'.rulesURL = mem.rulesURL
<1>. TypeOK /\ mem \in Data
  BY DEF IInv, TypeOK
<1>0. mem' \in Data
  BY ContinueType DEF Continue, TypeOK
<1>1. mem' = [mem EXCEPT !.active = reqs[r].op.ref] /\ Commits(r, "server")
  BY CommitEffects
<1>2. /\ mem'.active = reqs[r].op.ref /\ mem'.subs = mem.subs
      /\ mem'.rules = mem.rules /\ mem'.rulesURL = mem.rulesURL
  BY <1>1 DEF Data
<1>3. ~reqs[r].raced /\ reqs[r].op.ref # None => HasServer(mem, reqs[r].op.ref)
  BY DEF ServerCommit, At, IInv, RaceInv, CheckHolds
<1>4. Dangling(mem') => CommitsOvertaken(r, "server")
  BY <1>1, <1>2, <1>3
     DEF Dangling, HasServer, HasSubscription, CommitsOvertaken
<1>5. Targetless(mem') => reqs[r].op.ref = None \/ CommitsOvertaken(r, "server")
  BY <1>0, <1>2, <1>4, TargetlessIs
<1>. QED BY <1>1, <1>2, <1>4, <1>5

(* postToggle switches on with the target it has checked, or was overtaken. *)
LEMMA ToggleStep ==
    ASSUME IInv, NEW r \in Req, ToggleCommit(r)
    PROVE  /\ Dangling(mem') => Dangling(mem) /\ mem'.active = mem.active
           /\ Targetless(mem') =>
                 CommitsOvertaken(r, "toggle") /\ reqs[r].op.on
           /\ mem'.rules = mem.rules /\ mem'.rulesURL = mem.rulesURL
<1>. TypeOK /\ mem \in Data
  BY DEF IInv, TypeOK
<1>1. mem' = [mem EXCEPT !.vpnOn = reqs[r].op.on] /\ Commits(r, "toggle")
  BY CommitEffects
<1>2. /\ mem'.active = mem.active /\ mem'.subs = mem.subs
      /\ mem'.vpnOn = reqs[r].op.on
      /\ mem'.rules = mem.rules /\ mem'.rulesURL = mem.rulesURL
  BY <1>1 DEF Data
<1>3. Dangling(mem') => Dangling(mem)
  BY <1>2 DEF Dangling, HasServer, HasSubscription
<1>4. ActiveServer(mem') = ActiveServer(mem)
  BY <1>2 DEF ActiveServer, HasServer, HasSubscription
<1>5. ~reqs[r].raced /\ reqs[r].op.on => ActiveServer(mem) # None
  BY DEF ToggleCommit, At, IInv, RaceInv, CheckHolds
<1>6. Targetless(mem') => reqs[r].op.on /\ reqs[r].raced
  BY <1>2, <1>4, <1>5 DEF Targetless
<1>. QED BY <1>1, <1>2, <1>3, <1>6 DEF CommitsOvertaken

(* The two that set the rules leave the selection alone, and set the rules *)
(* to those of the URL, unless the refresh was overtaken.                  *)
LEMMA RulesStep ==
    ASSUME IInv, NEW r \in Req, RulesURLCommit(r) \/ RulesRefreshCommit(r)
    PROVE  /\ Dangling(mem') => Dangling(mem) /\ mem'.active = mem.active
           /\ Targetless(mem') => Targetless(mem)
           /\ mem'.rules # mem'.rulesURL =>
                 /\ CommitsOvertaken(r, "rulesRefresh")
                 /\ mem'.rules = reqs[r].op.url
<1>. TypeOK /\ mem \in Data
  BY DEF IInv, TypeOK
<1>1. /\ mem'.active = mem.active /\ mem'.subs = mem.subs
      /\ mem'.vpnOn = mem.vpnOn
  BY CommitEffects DEF Data
<1>2. Dangling(mem') => Dangling(mem)
  BY <1>1 DEF Dangling, HasServer, HasSubscription
<1>3. Targetless(mem') => Targetless(mem)
  BY <1>1 DEF Targetless, ActiveServer, HasServer, HasSubscription
<1>4. CASE RulesURLCommit(r)
  <2>1. mem' = [mem EXCEPT !.rulesURL = reqs[r].op.url,
                           !.rules = reqs[r].op.url]
    BY <1>4, CommitEffects
  <2>2. mem'.rules = mem'.rulesURL
    BY <2>1 DEF Data
  <2>. QED BY <1>1, <1>2, <1>3, <2>2
<1>5. CASE RulesRefreshCommit(r)
  <2>0. /\ mem' = [mem EXCEPT !.rules = reqs[r].op.url]
        /\ Commits(r, "rulesRefresh")
    BY <1>5, CommitEffects
  <2>1. mem'.rules = reqs[r].op.url /\ mem'.rulesURL = mem.rulesURL
    BY <2>0 DEF Data
  <2>2. ~reqs[r].raced => mem.rulesURL = reqs[r].op.url
    BY <1>5 DEF RulesRefreshCommit, At, IInv, RaceInv, CheckHolds
  <2>. QED BY <1>1, <1>2, <1>3, <2>0, <2>1, <2>2 DEF CommitsOvertaken
<1>. QED BY <1>4, <1>5

(* So every step is harmless, a restart, or one of these. *)
LEMMA AllSteps ==
    ASSUME IInv, IInv', [Next]_vars
    PROVE  \/ Harmless(mem, mem')
           \/ boots' # boots
           \/ \E r \in Req : \/ ServerCommit(r)
                             \/ ToggleCommit(r)
                             \/ RulesURLCommit(r)
                             \/ RulesRefreshCommit(r)
<1>1. CASE \A r \in Req : ~ChangesSelection(r)
  BY <1>1, QuietSteps, SameIsHarmless DEF IInv
<1>2. CASE \E r \in Req : ChangesSelection(r)
  BY <1>2, AddHarmless, RemovalHarmless DEF ChangesSelection
<1>. QED BY <1>1, <1>2

-----------------------------------------------------------------------------
(* A selection comes to dangle only when postServer commits it after a     *)
(* deletion or refresh of its subscription has committed since its check.  *)
THEOREM DanglingNeedsARace == Spec => DanglesOnlyByRace
<1>. DEFINE Step == Dangling(mem') =>
                       \/ Dangling(mem) /\ mem'.active = mem.active
                       \/ boots' # boots
                       \/ \E q \in Req : /\ CommitsOvertaken(q, "server")
                                         /\ mem'.active = reqs[q].op.ref
<1>1. IInv /\ IInv' /\ [Next]_vars => Step
  <2>. SUFFICES ASSUME IInv, IInv', [Next]_vars PROVE Step
    OBVIOUS
  <2>1. CASE Harmless(mem, mem')
    BY <2>1, HarmlessStep DEF IInv, TypeOK
  <2>2. CASE \E r \in Req : ServerCommit(r)
    BY <2>2, ServerStep
  <2>3. CASE \E r \in Req : ToggleCommit(r)
    BY <2>3, ToggleStep
  <2>4. CASE \E r \in Req : RulesURLCommit(r) \/ RulesRefreshCommit(r)
    BY <2>4, RulesStep
  <2>. QED BY <2>1, <2>2, <2>3, <2>4, AllSteps
<1>2. IInv /\ IInv' /\ [Next]_vars => [Step]_vars
  BY <1>1
<1>. QED BY <1>2, Inductive, PTL DEF Spec, DanglesOnlyByRace

(* vpn_on comes to have no target, which postToggle and deleteSubscription *)
(* otherwise exclude, only by a deselection, by such a race of postServer, *)
(* or by one of postToggle.                                                *)
THEOREM TargetlessHasACause == Spec => OnWithoutTargetOnlyBy
<1>. DEFINE Step == Targetless(mem') =>
                       \/ Targetless(mem)
                       \/ boots' # boots
                       \/ \E q \in Req :
                             Commits(q, "server") /\ reqs[q].op.ref = None
                       \/ \E q \in Req : CommitsOvertaken(q, "server")
                       \/ \E q \in Req :
                             CommitsOvertaken(q, "toggle") /\ reqs[q].op.on
<1>1. IInv /\ IInv' /\ [Next]_vars => Step
  <2>. SUFFICES ASSUME IInv, IInv', [Next]_vars PROVE Step
    OBVIOUS
  <2>1. CASE Harmless(mem, mem')
    BY <2>1, HarmlessStep DEF IInv, TypeOK
  <2>2. CASE \E r \in Req : ServerCommit(r)
    BY <2>2, ServerStep
  <2>3. CASE \E r \in Req : ToggleCommit(r)
    BY <2>3, ToggleStep
  <2>4. CASE \E r \in Req : RulesURLCommit(r) \/ RulesRefreshCommit(r)
    BY <2>4, RulesStep
  <2>. QED BY <2>1, <2>2, <2>3, <2>4, AllSteps
<1>2. IInv /\ IInv' /\ [Next]_vars => [Step]_vars
  BY <1>1
<1>. QED BY <1>2, Inductive, PTL DEF Spec, OnWithoutTargetOnlyBy

(* The rules come to differ from those of the URL on record only when a    *)
(* refresh commits after a change of the URL that followed its read of it  *)
(* (postRulesRefresh, postRulesURL).                                       *)
THEOREM RulesApartNeedARace == Spec => RulesApartOnlyByRefresh
<1>. DEFINE Step == mem'.rules # mem'.rulesURL =>
                       \/ mem'.rules = mem.rules /\ mem'.rulesURL = mem.rulesURL
                       \/ boots' # boots
                       \/ \E q \in Req : /\ CommitsOvertaken(q, "rulesRefresh")
                                         /\ mem'.rules = reqs[q].op.url
<1>1. IInv /\ IInv' /\ [Next]_vars => Step
  <2>. SUFFICES ASSUME IInv, IInv', [Next]_vars PROVE Step
    OBVIOUS
  <2>1. CASE Harmless(mem, mem')
    BY <2>1 DEF Harmless
  <2>2. CASE \E r \in Req : ServerCommit(r)
    BY <2>2, ServerStep
  <2>3. CASE \E r \in Req : ToggleCommit(r)
    BY <2>3, ToggleStep
  <2>4. CASE \E r \in Req : RulesURLCommit(r) \/ RulesRefreshCommit(r)
    BY <2>4, RulesStep
  <2>. QED BY <2>1, <2>2, <2>3, <2>4, AllSteps
<1>2. IInv /\ IInv' /\ [Next]_vars => [Step]_vars
  BY <1>1
<1>. QED BY <1>2, Inductive, PTL DEF Spec, RulesApartOnlyByRefresh
=============================================================================
