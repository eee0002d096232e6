--------------------------- MODULE UiClientProofs ---------------------------
(***************************************************************************)
(* What a tab shows and picks, for every set of cards and any number of    *)
(* requests, of changes elsewhere and of answers lost or overtaken.        *)
(***************************************************************************)
EXTENDS UiClientProps, SequenceTheorems, FiniteSetTheorems, TLAPS

-----------------------------------------------------------------------------
(* The inductive invariant. *)

(* What a request that is on its way holds. *)
Holds ==
    /\ post.at # "none" => post.op \in OpType
    /\ post.at \in {"done", "answered"} => post.snap \in State
    /\ get.at = "answered" => get.snap \in State

(* Whatever was sent out is at most as new as the daemon's state.          *)
Older ==
    /\ shown # None => shown.ver <= server.ver
    /\ get.at = "answered" => get.snap.ver <= server.ver
    /\ post.at = "answered" => post.snap.ver <= server.ver

(* An answer that was not overtaken is at least as new as the page, and of *)
(* two answers on their way the one that was served later is; the empty    *)
(* one is older than any.                                                  *)
Newer ==
    /\ get.at = "answered" /\ ~get.overtaken /\ shown # None =>
           shown.ver <= get.snap.ver
    /\ post.at = "answered" /\ ~post.overtaken /\ shown # None =>
           post.snap = Empty \/ shown.ver <= post.snap.ver
    /\ get.at = "answered" /\ post.at = "answered" =>
           IF get.late THEN post.snap.ver <= get.snap.ver
                       ELSE post.snap = Empty \/ get.snap.ver <= post.snap.ver

(* While no other tab interferes, a card that was added is the last one in *)
(* the daemon, then in the answer, and the one that is picked, and nothing *)
(* is selected in between.                                                 *)
Onboarding ==
    /\ post.at = "done" /\ post.op.kind = "add" /\ ~post.raced =>
           server.cards # <<>> /\ Last(server.cards) = post.mine
    /\ post.at = "answered" /\ post.op.kind = "add" /\ ~post.raced =>
           /\ post.snap.cards # <<>> /\ Last(post.snap.cards) = post.mine
           /\ post.snap.active = server.active
    /\ post.at = "sent" /\ post.op.kind = "autopick" /\ ~post.raced =>
           post.op.card = post.mine /\ server.active = None

IInv == TypeOK /\ Holds /\ Older /\ Newer /\ Onboarding
-----------------------------------------------------------------------------
(* The daemon's operations. *)

(* A deletion leaves a list of cards. *)
LEMMA WithoutType ==
    ASSUME NEW cards \in Seq(Card), NEW c \in Range(cards)
    PROVE  RemoveAt(cards, PositionOf(cards, c)) \in Seq(Card)
<1>. DEFINE n == Len(cards)
            i == PositionOf(cards, c)
<1>1. n \in Nat /\ DOMAIN cards = 1..n /\ \A j \in 1..n : cards[j] \in Card
  BY LenProperties
<1>2. i \in 1..n
  BY <1>1 DEF PositionOf, Range
<1>. HIDE DEF n, i
<1>3. SubSeq(cards, 1, i - 1) \in Seq(Card)
  <2>1. 1 \in Int /\ i - 1 \in Int /\ \A j \in 1..(i - 1) : cards[j] \in Card
    BY <1>1, <1>2
  <2>. QED BY <2>1, SubSeqProperties
<1>4. SubSeq(cards, i + 1, n) \in Seq(Card)
  <2>1. i + 1 \in Int /\ n \in Int /\ \A j \in (i + 1)..n : cards[j] \in Card
    BY <1>1, <1>2
  <2>. QED BY <2>1, SubSeqProperties
<1>5. SubSeq(cards, 1, i - 1) \o SubSeq(cards, i + 1, n) \in Seq(Card)
  BY <1>3, <1>4, ConcatProperties
<1>. QED BY <1>5 DEF RemoveAt, n, i

(* A card that is listed is one. *)
LEMMA InRange ==
    ASSUME NEW cards \in Seq(Card)
    PROVE  Range(cards) \subseteq Card
BY LenProperties DEF Range

(* What was appended is last. *)
LEMMA LastOf ==
    ASSUME NEW cards \in Seq(Card), NEW c \in Card
    PROVE  /\ Append(cards, c) \in Seq(Card)
           /\ Append(cards, c) # <<>>
           /\ Last(Append(cards, c)) = c
BY AppendProperties DEF Last

(* And the last of a list is on it. *)
LEMMA LastType ==
    ASSUME NEW cards \in Seq(Card), cards # <<>>
    PROVE  Last(cards) \in Card
<1>1. Len(cards) \in 1..Len(cards)
  BY EmptySeq
<1>. QED BY <1>1, ElementOfSeq DEF Last

(* Each operation leaves a state, one version on. *)
LEMMA ChangedIs ==
    ASSUME NEW d \in State
    PROVE  /\ Changed(d) \in State
           /\ Changed(d).ver = d.ver + 1
           /\ Changed(d).cards = d.cards
           /\ Changed(d).active = d.active
BY DEF Changed, State

LEMMA WithCardIs ==
    ASSUME NEW d \in State, NEW c \in Card
    PROVE  /\ WithCard(d, c) \in State
           /\ WithCard(d, c).ver = d.ver + 1
           /\ WithCard(d, c).active = d.active
           /\ WithCard(d, c).cards # <<>>
           /\ Last(WithCard(d, c).cards) = c
<1>. DEFINE cards == Append(d.cards, c)
            e == [d EXCEPT !.cards = cards]
<1>1. cards \in Seq(Card) /\ cards # <<>> /\ Last(cards) = c
  BY LastOf DEF State
<1>. HIDE DEF cards
<1>2. e \in State /\ e.cards = cards /\ e.ver = d.ver /\ e.active = d.active
  BY <1>1 DEF State
<1>3. WithCard(d, c) = Changed(e)
  BY DEF WithCard, cards
<1>. HIDE DEF e
<1>. QED BY <1>1, <1>2, <1>3, ChangedIs

LEMMA SelectedIs ==
    ASSUME NEW d \in State, NEW c \in Card \cup {None}
    PROVE  Selected(d, c) \in State /\ Selected(d, c).ver = d.ver + 1
<1>. DEFINE e == [d EXCEPT !.active = c]
<1>1. e \in State /\ e.ver = d.ver
  BY DEF State
<1>2. Selected(d, c) = Changed(e)
  BY DEF Selected
<1>. HIDE DEF e
<1>. QED BY <1>1, <1>2, ChangedIs

LEMMA WithoutCardIs ==
    ASSUME NEW d \in State, NEW c \in Range(d.cards)
    PROVE  WithoutCard(d, c) \in State /\ WithoutCard(d, c).ver = d.ver + 1
<1>. DEFINE cards == RemoveAt(d.cards, PositionOf(d.cards, c))
            active == IF d.active = c THEN None ELSE d.active
            e == [d EXCEPT !.cards = cards, !.active = active]
<1>1. cards \in Seq(Card)
  BY WithoutType DEF State
<1>2. active \in Card \cup {None}
  BY DEF State
<1>3. WithoutCard(d, c) = Changed(e)
  BY DEF WithoutCard
<1>. HIDE DEF cards, active
<1>4. e \in State /\ e.ver = d.ver
  BY <1>1, <1>2 DEF State
<1>. HIDE DEF e
<1>. QED BY <1>3, <1>4, ChangedIs

LEMMA EditedIs ==
    ASSUME NEW d \in State, NEW c \in Card, NEW e \in Edited(d, c)
    PROVE  e \in State /\ e.ver = d.ver + 1
<1>. DEFINE active == IF d.active = c THEN None ELSE d.active
<1>1. active \in Card \cup {None}
  BY DEF State
<1>2. e = Changed(d) \/ e = Selected(d, active)
  BY DEF Edited, Selected
<1>. HIDE DEF active
<1>. QED BY <1>1, <1>2, ChangedIs, SelectedIs

LEMMA MarkedIs ==
    ASSUME NEW d \in State
    PROVE  /\ Marked(d) \in State /\ Marked(d).ver = d.ver + 1
           /\ Marked(d).cards = d.cards /\ Marked(d).active = d.active
<1>. DEFINE e == [d EXCEPT !.applying = TRUE]
<1>1. /\ e \in State /\ e.ver = d.ver
      /\ e.cards = d.cards /\ e.active = d.active
  BY DEF State
<1>2. Marked(d) = Changed(e)
  BY DEF Marked
<1>. HIDE DEF e
<1>. QED BY <1>1, <1>2, ChangedIs

(* The empty state is one, of an age before any. *)
LEMMA EmptyIs == Empty \in State /\ Empty.ver = 0
<1>1. <<>> \in Seq(Card)
  BY EmptySeq
<1>. QED BY <1>1 DEF Empty, State

(* A card that is issued is a new one. *)
LEMMA IssueIs ==
    ASSUME TypeOK, Issue
    PROVE  NewCard \in Card /\ issued' \subseteq Card
<1>1. \E c \in Card \ issued : TRUE
  BY DEF Issue, TypeOK
<1>2. NewCard \in Card \ issued
  BY <1>1 DEF NewCard
<1>. QED BY <1>2 DEF Issue, TypeOK

-----------------------------------------------------------------------------
(* The types of the two requests, by name. *)

GetType  == [at : {"none", "sent", "answered"}, of : {"init", "tick"},
             snap : State \cup {None}, late : BOOLEAN, overtaken : BOOLEAN]
PostType == [at : {"none", "sent", "done", "answered", "refused"},
             op : OpType \cup {None},
             mine : Card \cup {None}, raced : BOOLEAN,
             snap : State \cup {None}, overtaken : BOOLEAN]

(* What TypeOK says, in parts. *)
TabType ==
    /\ shown \in State \cup {None}
    /\ error \in {"", "load", "action"} /\ timer \in {"armed", "off"}
    /\ busy \in BOOLEAN /\ (busy <=> post.at # "none")
    /\ timer = "off" <=> get.at # "none" /\ get.of = "tick"

DaemonType ==
    server \in State /\ issued \subseteq Card /\ others \in 0..MaxOthers

BoundsType == used \in [actions : 0..MaxActions, lost : 0..MaxLost,
                       unsaved : 0..MaxUnsaved]

LEMMA TypeParts ==
    TypeOK <=> /\ TabType /\ DaemonType /\ BoundsType
               /\ get \in GetType /\ post \in PostType
<1>1. TypeOK <=> /\ shown \in State \cup {None}
                 /\ error \in {"", "load", "action"} /\ timer \in {"armed", "off"}
                 /\ DaemonType /\ BoundsType
                 /\ get \in GetType /\ post \in PostType
                 /\ busy = (post.at # "none")
                 /\ (timer = "off") = (get.at # "none" /\ get.of = "tick")
  BY DEF TypeOK, DaemonType, BoundsType, GetType, PostType
<1>2. busy = (post.at # "none") <=>
          busy \in BOOLEAN /\ (busy <=> post.at # "none")
  OBVIOUS
<1>3. (timer = "off") = (get.at # "none" /\ get.of = "tick") <=>
          (timer = "off" <=> get.at # "none" /\ get.of = "tick")
  OBVIOUS
<1>. QED BY <1>1, <1>2, <1>3 DEF TabType

(* The same after a step. *)
LEMMA TypeNext ==
    ASSUME TabType', DaemonType', BoundsType', get' \in GetType, post' \in PostType
    PROVE  TypeOK'
<1>1. (TabType /\ DaemonType /\ BoundsType /\ get \in GetType
          /\ post \in PostType)' => TypeOK'
  BY TypeParts, PTL
<1>. QED BY <1>1

(* One more request, one more that is lost, or one more failed save, within *)
(* the bound.                                                              *)
LEMMA UsedUp ==
    ASSUME BoundsType
    PROVE  /\ used.actions < MaxActions /\ used' = [used EXCEPT !.actions = @ + 1]
                  => BoundsType'
           /\ Lost => BoundsType'
           /\ Unsaved => BoundsType'
<1>. DEFINE a == used.actions
            l == used.lost
            u == used.unsaved
<1>1. a \in 0..MaxActions /\ l \in 0..MaxLost /\ u \in 0..MaxUnsaved
  BY DEF BoundsType
<1>2. /\ a < MaxActions => a + 1 \in 0..MaxActions
      /\ l < MaxLost => l + 1 \in 0..MaxLost
      /\ u < MaxUnsaved => u + 1 \in 0..MaxUnsaved
  BY <1>1, UiAssumption
<1>3. ASSUME NEW x \in 0..MaxActions, used' = [used EXCEPT !.actions = x]
      PROVE  BoundsType'
  BY <1>3 DEF BoundsType
<1>4. ASSUME NEW x \in 0..MaxLost, used' = [used EXCEPT !.lost = x]
      PROVE  BoundsType'
  BY <1>4 DEF BoundsType
<1>5. ASSUME NEW x \in 0..MaxUnsaved, used' = [used EXCEPT !.unsaved = x]
      PROVE  BoundsType'
  BY <1>5 DEF BoundsType
<1>. QED BY <1>2, <1>3, <1>4, <1>5 DEF Lost, Unsaved

(* No request on its way is well-formed. *)
LEMMA NoRequest ==
    /\ NoGet \in GetType /\ NoPost \in PostType
    /\ NoGet.at = "none" /\ NoPost.at = "none"
BY DEF NoGet, NoPost, GetType, PostType
-----------------------------------------------------------------------------
(* One lemma per action. *)

(* A poll is sent. *)
LEMMA TickStep == IInv /\ Tick => IInv'
<1>. SUFFICES ASSUME IInv, Tick PROVE IInv'
  OBVIOUS
<1>0. /\ TabType /\ DaemonType /\ BoundsType
      /\ get \in GetType /\ post \in PostType
  BY TypeParts DEF IInv
<1>1. /\ UNCHANGED <<shown, busy, error, post, server, issued, others, used>>
      /\ timer' = "off" /\ get' = GetSent
  BY DEF Tick, daemon
<1>2. GetSent \in GetType /\ GetSent.at = "sent" /\ GetSent.of = "tick"
  BY DEF GetSent, NoGet, GetType
<1>3. TypeOK'
  <2>1. TabType'
    BY <1>0, <1>1, <1>2 DEF TabType
  <2>2. DaemonType' /\ BoundsType'
    BY <1>0, <1>1, <1>2 DEF DaemonType, BoundsType
  <2>. QED BY <1>0, <1>1, <1>2, <2>1, <2>2, TypeNext
<1>4. Holds' /\ Older' /\ Newer' /\ Onboarding'
  BY <1>1, <1>2 DEF IInv, Holds, Older, Newer, Onboarding
<1>. QED BY <1>3, <1>4 DEF IInv

(* It is answered with the state as it is. *)
LEMMA GetServedStep == IInv /\ GetServed => IInv'
<1>. SUFFICES ASSUME IInv, GetServed PROVE IInv'
  OBVIOUS
<1>0. /\ TabType /\ DaemonType /\ BoundsType
      /\ get \in GetType /\ post \in PostType
  BY TypeParts DEF IInv
<1>1. /\ UNCHANGED <<shown, busy, error, timer, post, server, issued, others, used>>
      /\ get.at = "sent"
      /\ get' = [get EXCEPT !.at = "answered", !.snap = server,
                            !.late = (post.at = "answered")]
  BY DEF GetServed, tab, daemon
<1>2. get \in GetType /\ server \in State
  BY DEF IInv, TypeOK, GetType
<1>3. /\ get' \in GetType /\ get'.at = "answered" /\ get'.snap = server
      /\ get'.late = (post.at = "answered") /\ get'.overtaken = get.overtaken
      /\ get'.of = get.of
  BY <1>1, <1>2 DEF GetType
<1>4. TypeOK'
  <2>1. TabType'
    BY <1>0, <1>1, <1>3 DEF TabType
  <2>2. DaemonType' /\ BoundsType'
    BY <1>0, <1>1, <1>3 DEF DaemonType, BoundsType
  <2>. QED BY <1>0, <1>1, <1>3, <2>1, <2>2, TypeNext
<1>5. Holds'
  BY <1>1, <1>2, <1>3 DEF IInv, Holds
<1>6. Older' /\ Newer'
  <2>1. server.ver <= server.ver
    BY <1>2 DEF State
  <2>2. get'.late <=> post.at = "answered"
    BY <1>3
  <2>3. Older'
    BY <1>1, <1>3, <2>1 DEF IInv, Older
  <2>4. Newer'
    BY <1>1, <1>3, <2>2 DEF IInv, Older, Newer
  <2>. QED BY <2>3, <2>4
<1>7. Onboarding'
  BY <1>1 DEF IInv, Onboarding
<1>. QED BY <1>4, <1>5, <1>6, <1>7 DEF IInv

(* Its answer is shown. *)
LEMMA GetArrivesStep == IInv /\ GetArrives => IInv'
<1>. SUFFICES ASSUME IInv, GetArrives PROVE IInv'
  OBVIOUS
<1>0. /\ TabType /\ DaemonType /\ BoundsType
      /\ get \in GetType /\ post \in PostType
  BY TypeParts DEF IInv
<1>. DEFINE o == post.overtaken \/ (post.at = "answered" /\ get.late)
<1>1. /\ UNCHANGED <<busy, server, issued, others, used>>
      /\ get.at = "answered" /\ shown' = get.snap /\ timer' = "armed"
      /\ get' = NoGet /\ error' \in {"", error}
      /\ post' = [post EXCEPT !.overtaken = o]
  BY DEF GetArrives, GetEnds, daemon
<1>2. get \in GetType /\ post \in PostType /\ get.snap \in State
  BY <1>1 DEF IInv, TypeOK, GetType, PostType, Holds
<1>3. o \in BOOLEAN
  BY <1>2 DEF PostType
<1>. HIDE DEF o
<1>4. /\ post' \in PostType /\ post'.overtaken = o
      /\ post'.at = post.at /\ post'.op = post.op /\ post'.snap = post.snap
      /\ post'.mine = post.mine /\ post'.raced = post.raced
  BY <1>1, <1>2, <1>3 DEF PostType
<1>5. TypeOK'
  <2>1. TabType'
    BY <1>0, <1>1, <1>2, <1>4, NoRequest DEF TabType
  <2>2. DaemonType' /\ BoundsType'
    BY <1>0, <1>1, <1>2, <1>4, NoRequest DEF DaemonType, BoundsType
  <2>. QED BY <1>0, <1>1, <1>2, <1>4, NoRequest, <2>1, <2>2, TypeNext
<1>6. Holds'
  BY <1>1, <1>4, NoRequest DEF IInv, Holds
<1>7. Older'
  BY <1>1, <1>4, NoRequest DEF IInv, Older
<1>8. Newer'
  BY <1>1, <1>4, NoRequest DEF IInv, Newer, o
<1>9. Onboarding'
  BY <1>1, <1>4 DEF IInv, Onboarding
<1>. QED BY <1>5, <1>6, <1>7, <1>8, <1>9 DEF IInv

(* Or it is lost. *)
LEMMA GetLostStep == IInv /\ GetLost => IInv'
<1>. SUFFICES ASSUME IInv, GetLost PROVE IInv'
  OBVIOUS
<1>0. /\ TabType /\ DaemonType /\ BoundsType
      /\ get \in GetType /\ post \in PostType
  BY TypeParts DEF IInv
<1>1. /\ UNCHANGED <<busy, shown, post, server, issued, others>>
      /\ timer' = "armed" /\ get' = NoGet /\ error' \in {"load", error}
      /\ Lost
  BY DEF GetLost, GetEnds, daemon
<1>2. BoundsType'
  BY <1>0, <1>1, UsedUp
<1>3. TypeOK'
  <2>1. TabType'
    BY <1>0, <1>1, <1>2, NoRequest DEF TabType
  <2>2. DaemonType'
    BY <1>0, <1>1, <1>2, NoRequest DEF DaemonType
  <2>. QED BY <1>0, <1>1, <1>2, NoRequest, <2>1, <2>2, TypeNext
<1>4. Holds' /\ Older' /\ Newer' /\ Onboarding'
  BY <1>1, NoRequest DEF IInv, Holds, Older, Newer, Onboarding
<1>. QED BY <1>3, <1>4 DEF IInv

(* The user asks for something. *)
LEMMA SendStep ==
    ASSUME IInv, NEW op \in OpType, op.kind # "autopick", Send(op)
    PROVE  IInv'
<1>0. /\ TabType /\ DaemonType /\ BoundsType
      /\ get \in GetType /\ post \in PostType
  BY TypeParts DEF IInv
<1>1. /\ UNCHANGED <<shown, timer, get, server, issued, others>>
      /\ ~busy /\ busy' = TRUE /\ error' = "" /\ post' = Sent(op)
      /\ used.actions < MaxActions /\ used' = [used EXCEPT !.actions = @ + 1]
  BY DEF Send, busyOrApplying, daemon
<1>2. Sent(op) \in PostType /\ Sent(op).at = "sent" /\ Sent(op).op = op
  BY DEF Sent, NoPost, PostType
<1>3. BoundsType'
  BY <1>0, <1>1, UsedUp
<1>4. TypeOK'
  <2>1. TabType'
    BY <1>0, <1>1, <1>2, <1>3 DEF TabType
  <2>2. DaemonType'
    BY <1>0, <1>1, <1>2, <1>3 DEF DaemonType
  <2>. QED BY <1>0, <1>1, <1>2, <1>3, <2>1, <2>2, TypeNext
<1>5. Holds' /\ Older' /\ Newer' /\ Onboarding'
  BY <1>1, <1>2 DEF IInv, Holds, Older, Newer, Onboarding
<1>. QED BY <1>4, <1>5 DEF IInv

LEMMA UserStep == IInv /\ User => IInv'
<1>. SUFFICES ASSUME IInv, User PROVE IInv'
  OBVIOUS
<1>1. shown # None => Range(shown.cards) \subseteq Card
  <2>1. ASSUME shown # None PROVE shown.cards \in Seq(Card)
    BY <2>1 DEF IInv, TypeOK, State
  <2>. QED BY <2>1, InRange
<1>2. \E op \in OpType : op.kind # "autopick" /\ Send(op)
  <2>1. CASE submitAddSubscription
    <3>. DEFINE op == [kind |-> "add", card |-> None]
    <3>1. op \in OpType /\ op.kind # "autopick" /\ Send(op)
      BY <2>1 DEF submitAddSubscription, OpType
    <3>. QED BY <3>1
  <2>2. CASE toggleVpn
    <3>. DEFINE op == [kind |-> "toggle", card |-> None]
    <3>1. op \in OpType /\ op.kind # "autopick" /\ Send(op)
      BY <2>2 DEF toggleVpn, OpType
    <3>. QED BY <3>1
  <2>3. CASE deleteSubscription
    <3>1. PICK c \in Range(shown.cards) : Send([kind |-> "delete", card |-> c])
      BY <2>3 DEF deleteSubscription
    <3>2. c \in Card
      BY <1>1, <2>3 DEF deleteSubscription
    <3>. DEFINE op == [kind |-> "delete", card |-> c]
    <3>3. op \in OpType /\ op.kind # "autopick" /\ Send(op)
      BY <3>1, <3>2 DEF OpType
    <3>. QED BY <3>3
  <2>5. CASE editSubscription
    <3>1. PICK c \in Range(shown.cards) : Send([kind |-> "edit", card |-> c])
      BY <2>5 DEF editSubscription
    <3>2. c \in Card
      BY <1>1, <2>5 DEF editSubscription
    <3>. DEFINE op == [kind |-> "edit", card |-> c]
    <3>3. op \in OpType /\ op.kind # "autopick" /\ Send(op)
      BY <3>1, <3>2 DEF OpType
    <3>. QED BY <3>3
  <2>4. CASE pickServer
    <3>1. PICK c \in Range(shown.cards) : Send([kind |-> "pick", card |-> c])
      BY <2>4 DEF pickServer
    <3>2. c \in Card
      BY <1>1, <2>4 DEF pickServer
    <3>. DEFINE op == [kind |-> "pick", card |-> c]
    <3>3. op \in OpType /\ op.kind # "autopick" /\ Send(op)
      BY <3>1, <3>2 DEF OpType
    <3>. QED BY <3>3
  <2>. QED BY <2>1, <2>2, <2>3, <2>4, <2>5 DEF User
<1>. QED BY <1>2, SendStep

(* The daemon carries a request out. *)
LEMMA PostCommitsStep == IInv /\ PostCommits => IInv'
<1>. SUFFICES ASSUME IInv, PostCommits PROVE IInv'
  OBVIOUS
<1>0. /\ TabType /\ DaemonType /\ BoundsType
      /\ get \in GetType /\ post \in PostType
  BY TypeParts DEF IInv
<1>1. UNCHANGED <<shown, busy, error, timer, get, others>> /\ post.at = "sent"
  BY DEF PostCommits, tab
<1>2. server \in State /\ server.ver \in Nat /\ post.op \in OpType
  BY <1>0, <1>1 DEF DaemonType, State, IInv, Holds
<1>u. ASSUME NEW mine \in Card \cup {None}, Update(mine)
      PROVE  /\ BoundsType'
             /\ post' \in PostType /\ post'.at \in {"done", "refused"}
             /\ post'.op = post.op
             /\ post'.at = "done" => post'.snap = server /\ post'.mine = mine
  <2>1. CASE /\ post' = [post EXCEPT !.at = "done", !.snap = server, !.mine = mine]
             /\ UNCHANGED used
    BY <1>0, <1>2, <2>1 DEF PostType, BoundsType
  <2>2. CASE post' = [post EXCEPT !.at = "refused"] /\ Unsaved
    <3>1. BoundsType'
      BY <1>0, <2>2, UsedUp
    <3>. QED BY <1>0, <2>2, <3>1 DEF PostType
  <2>. QED BY <1>u, <2>1, <2>2 DEF Update
<1>3. /\ issued' \subseteq Card
      /\ server' \in State /\ server'.ver = server.ver + 1
      /\ BoundsType'
      /\ post' \in PostType /\ post'.at \in {"done", "refused"}
      /\ post'.op = post.op
      /\ post'.at = "done" => post'.snap = server
      /\ post'.at = "done" /\ post.op.kind = "add" =>
            server'.cards # <<>> /\ Last(server'.cards) = post'.mine
  <2>1. CASE /\ post.op.kind = "add"
             /\ Issue
             /\ server' = WithCard(server, NewCard)
             /\ Update(NewCard)
    <3>1. NewCard \in Card /\ issued' \subseteq Card
      BY <2>1, IssueIs DEF IInv
    <3>2. /\ server' \in State /\ server'.ver = server.ver + 1
          /\ server'.cards # <<>> /\ Last(server'.cards) = NewCard
      BY <1>2, <2>1, <3>1, WithCardIs
    <3>. QED BY <1>u, <2>1, <3>1, <3>2
  <2>2. CASE /\ post.op.kind # "add"
             /\ post.op.card # None => Has(server, post.op.card)
             /\ \/ post.op.kind = "delete" /\ server' = WithoutCard(server, post.op.card)
                \/ /\ post.op.kind \in {"pick", "autopick"}
                   /\ server' = Selected(server, post.op.card)
                \/ post.op.kind = "edit" /\ server' \in Edited(server, post.op.card)
                \/ post.op.kind = "toggle" /\ server' = Changed(server)
             /\ Update(post.mine)
             /\ UNCHANGED issued
    <3>1. post.op.kind \in {"delete", "pick", "autopick", "edit"} =>
             post.op.card \in Range(server.cards) /\ post.op.card \in Card
      BY <1>2, <2>2, UiAssumption DEF OpType, Has
    <3>3. server' \in State /\ server'.ver = server.ver + 1
      <4>1. CASE post.op.kind = "delete"
        BY <1>2, <2>2, <3>1, <4>1, WithoutCardIs
      <4>2. CASE post.op.kind \in {"pick", "autopick"}
        BY <1>2, <2>2, <3>1, <4>2, SelectedIs
      <4>3. CASE post.op.kind = "edit"
        BY <1>2, <2>2, <3>1, <4>3, EditedIs
      <4>4. CASE post.op.kind = "toggle"
        BY <1>2, <2>2, <4>4, ChangedIs
      <4>. QED BY <2>2, <4>1, <4>2, <4>3, <4>4
    <3>4. post.mine \in Card \cup {None}
      BY <1>0 DEF PostType
    <3>. QED BY <1>0, <1>u, <2>2, <3>3, <3>4 DEF DaemonType
  <2>. QED BY <2>1, <2>2 DEF PostCommits
<1>4. TypeOK'
  <2>1. TabType'
    BY <1>0, <1>1, <1>3 DEF TabType
  <2>2. DaemonType'
    BY <1>0, <1>1, <1>3 DEF DaemonType
  <2>. QED BY <1>0, <1>1, <1>3, <2>1, <2>2, TypeNext
<1>5. Holds'
  BY <1>1, <1>2, <1>3 DEF IInv, Holds
<1>6. Older'
  <2>1. shown # None => shown.ver \in Nat
    BY <1>0 DEF TabType, State
  <2>2. get.at = "answered" => get.snap.ver \in Nat
    BY DEF IInv, Holds, State
  <2>. QED BY <1>1, <1>2, <1>3, <2>1, <2>2 DEF IInv, Older
<1>7. Newer'
  BY <1>1, <1>3 DEF IInv, Newer
<1>8. Onboarding'
  BY <1>1, <1>3 DEF Onboarding
<1>. QED BY <1>4, <1>5, <1>6, <1>7, <1>8 DEF IInv

(* Or refuses it. *)
LEMMA PostRefusedStep == IInv /\ PostRefused => IInv'
<1>. SUFFICES ASSUME IInv, PostRefused PROVE IInv'
  OBVIOUS
<1>0. /\ TabType /\ DaemonType /\ BoundsType
      /\ get \in GetType /\ post \in PostType
  BY TypeParts DEF IInv
<1>1. /\ UNCHANGED <<shown, busy, error, timer, get, server, issued, others, used>>
      /\ post.at = "sent" /\ post' = [post EXCEPT !.at = "refused"]
  BY DEF PostRefused, tab, daemon
<1>2. post' \in PostType /\ post'.at = "refused" /\ post'.op = post.op
  BY <1>0, <1>1 DEF PostType
<1>3. TypeOK'
  <2>1. TabType'
    BY <1>0, <1>1, <1>2 DEF TabType
  <2>2. DaemonType' /\ BoundsType'
    BY <1>0, <1>1 DEF DaemonType, BoundsType
  <2>. QED BY <1>0, <1>1, <1>2, <2>1, <2>2, TypeNext
<1>4. Holds' /\ Older' /\ Newer' /\ Onboarding'
  BY <1>1, <1>2 DEF IInv, Holds, Older, Newer, Onboarding
<1>. QED BY <1>3, <1>4 DEF IInv

(* The answer goes out, with the state as it is by then or an empty one.   *)
LEMMA PostServedStep == IInv /\ PostServed => IInv'
<1>. SUFFICES ASSUME IInv, PostServed PROVE IInv'
  OBVIOUS
<1>0. /\ TabType /\ DaemonType /\ BoundsType
      /\ get \in GetType /\ post \in PostType
  BY TypeParts DEF IInv
<1>1. /\ UNCHANGED <<shown, busy, error, timer, issued, others>>
      /\ post.at = "done"
      /\ get' = [get EXCEPT !.late = FALSE]
  BY DEF PostServed, tab
<1>2. server \in State /\ server.ver \in Nat
  BY <1>0 DEF DaemonType, State
<1>3. PICK a \in {server', Empty} :
         /\ post' = [post EXCEPT !.at = "answered", !.snap = a]
         /\ a = server' \/ (a = Empty /\ post.op.kind # "add")
  <2>1. CASE post' = [post EXCEPT !.at = "answered", !.snap = server']
    BY <2>1
  <2>2. CASE /\ post.op.kind # "add"
             /\ post' = [post EXCEPT !.at = "answered", !.snap = Empty]
    BY <2>2
  <2>3. \/ post' = [post EXCEPT !.at = "answered", !.snap = server']
        \/ /\ post.op.kind # "add"
           /\ post' = [post EXCEPT !.at = "answered", !.snap = Empty]
    BY DEF PostServed, Answer, Applies
  <2>. QED BY <2>1, <2>2, <2>3
<1>4. /\ server' \in State /\ server'.ver \in {server.ver, server.ver + 1}
      /\ server'.cards = server.cards /\ server'.active = server.active
  BY <1>2, MarkedIs DEF PostServed
<1>5. a = server' \/ (a = Empty /\ post.op.kind # "add")
  BY <1>3
<1>6. a \in State /\ a.ver \in Nat
  BY <1>4, <1>5, EmptyIs DEF State
<1>7. /\ post' \in PostType /\ post'.at = "answered" /\ post'.snap = a
      /\ post'.op = post.op /\ post'.raced = post.raced /\ post'.mine = post.mine
  BY <1>0, <1>3, <1>6 DEF PostType
<1>8. /\ get' \in GetType /\ ~get'.late /\ get'.at = get.at /\ get'.of = get.of
      /\ get'.snap = get.snap /\ get'.overtaken = get.overtaken
  BY <1>0, <1>1 DEF GetType
<1>9. /\ shown # None => shown.ver \in Nat /\ shown.ver <= server'.ver
      /\ get.at = "answered" => get.snap.ver \in Nat /\ get.snap.ver <= server'.ver
  <2>1. /\ shown # None => shown.ver \in Nat
        /\ get.at = "answered" => get.snap.ver \in Nat
    BY <1>0 DEF TabType, IInv, Holds, State
  <2>. QED BY <1>2, <1>4, <2>1 DEF IInv, Older
<1>10. TypeOK'
  <2>1. TabType'
    BY <1>0, <1>1, <1>7, <1>8 DEF TabType
  <2>2. DaemonType'
    BY <1>0, <1>1, <1>4 DEF DaemonType
  <2>3. BoundsType'
    <3>1. UNCHANGED used \/ Unsaved
      BY DEF PostServed
    <3>. QED BY <1>0, <3>1, UsedUp DEF BoundsType
  <2>. QED BY <1>7, <1>8, <2>1, <2>2, <2>3, TypeNext
<1>11. Holds'
  BY <1>1, <1>6, <1>7, <1>8 DEF IInv, Holds
<1>12. Older'
  <2>1. a.ver <= server'.ver
    BY <1>2, <1>4, <1>5, EmptyIs
  <2>. QED BY <1>1, <1>7, <1>8, <1>9, <2>1 DEF Older
<1>13. Newer'
  BY <1>1, <1>5, <1>7, <1>8, <1>9 DEF IInv, Newer
<1>14. Onboarding'
  BY <1>1, <1>4, <1>5, <1>7 DEF IInv, Onboarding
<1>. QED BY <1>10, <1>11, <1>12, <1>13, <1>14 DEF IInv

(* It is shown, and a new card picked. *)
LEMMA PostArrivesStep == IInv /\ PostArrives => IInv'
<1>. SUFFICES ASSUME IInv, PostArrives PROVE IInv'
  OBVIOUS
<1>0. /\ TabType /\ DaemonType /\ BoundsType
      /\ get \in GetType /\ post \in PostType
  BY TypeParts DEF IInv
<1>. DEFINE o == get.overtaken \/ (get.at = "answered" /\ ~get.late)
            op == [kind |-> "autopick", card |-> AddedCard(post.snap)]
            next == [Sent(op) EXCEPT !.mine = post.mine, !.raced = post.raced]
<1>1. /\ UNCHANGED <<error, timer, server, issued, others, used>>
      /\ post.at = "answered" /\ shown' = post.snap
      /\ get' = [get EXCEPT !.overtaken = o]
      /\ \/ Onboards(post.snap) /\ post' = next /\ busy' = busy
         \/ post' = NoPost /\ busy' = FALSE
  BY DEF PostArrives, daemon
<1>2. post.snap \in State /\ post.op \in OpType
  BY <1>1 DEF IInv, Holds
<1>3. o \in BOOLEAN
  BY <1>0 DEF GetType
<1>4. Onboards(post.snap) =>
         /\ next \in PostType /\ next.at = "sent" /\ next.op = op
         /\ next.raced = post.raced /\ next.mine = post.mine
         /\ op \in OpType
  <2>. SUFFICES ASSUME Onboards(post.snap)
                PROVE  /\ next \in PostType /\ next.at = "sent" /\ next.op = op
                       /\ next.raced = post.raced /\ next.mine = post.mine
                       /\ op \in OpType
    OBVIOUS
  <2>1. AddedCard(post.snap) \in Card
    BY <1>2, LastType DEF Onboards, AddedCard, State
  <2>2. op \in OpType
    BY <2>1 DEF OpType
  <2>. HIDE DEF op
  <2>. QED BY <1>0, <2>2 DEF Sent, NoPost, PostType
<1>. HIDE DEF o, next
<1>5. /\ get' \in GetType /\ get'.overtaken = o /\ get'.late = get.late
      /\ get'.at = get.at /\ get'.of = get.of /\ get'.snap = get.snap
  BY <1>0, <1>1, <1>3 DEF GetType
<1>6. post' \in PostType /\ post'.at \in {"none", "sent"}
      /\ (busy' <=> post'.at # "none") /\ busy' \in BOOLEAN
  BY <1>0, <1>1, <1>4, NoRequest DEF TabType
<1>7. TypeOK'
  <2>1. TabType'
    BY <1>0, <1>1, <1>2, <1>5, <1>6 DEF TabType
  <2>2. DaemonType' /\ BoundsType'
    BY <1>0, <1>1 DEF DaemonType, BoundsType
  <2>. QED BY <1>5, <1>6, <2>1, <2>2, TypeNext
<1>8. Holds'
  BY <1>1, <1>4, <1>5, <1>6, NoRequest DEF IInv, Holds
<1>9. Older'
  BY <1>1, <1>5, <1>6 DEF IInv, Older
<1>10. Newer'
  BY <1>1, <1>5, <1>6 DEF IInv, Newer, o
<1>11. Onboarding'
  <2>1. CASE post'.at = "sent" /\ post'.op.kind = "autopick" /\ ~post'.raced
    <3>1. Onboards(post.snap) /\ post' = next
      BY <1>1, <2>1, NoRequest
    <3>2. /\ post.op.kind = "add" /\ post.snap.active = None /\ ~post.raced
          /\ post'.mine = post.mine /\ post'.op.card = Last(post.snap.cards)
      BY <1>4, <2>1, <3>1 DEF Onboards, AddedCard
    <3>. QED BY <1>1, <1>6, <2>1, <3>2 DEF IInv, Onboarding
  <2>. QED BY <1>6, <2>1 DEF Onboarding
<1>. QED BY <1>7, <1>8, <1>9, <1>10, <1>11 DEF IInv

(* It failed, or was lost. *)
LEMMA PostFailsStep == IInv /\ PostFails => IInv'
<1>. SUFFICES ASSUME IInv, PostFails PROVE IInv'
  OBVIOUS
<1>0. /\ TabType /\ DaemonType /\ BoundsType
      /\ get \in GetType /\ post \in PostType
  BY TypeParts DEF IInv
<1>1. /\ UNCHANGED <<shown, timer, get, server, issued, others>>
      /\ used' = used \/ Lost
      /\ post' = NoPost /\ busy' = FALSE /\ error' = "action"
  BY DEF PostFails, daemon
<1>2. BoundsType'
  BY <1>0, <1>1, UsedUp DEF BoundsType
<1>3. TypeOK'
  <2>1. TabType'
    BY <1>0, <1>1, NoRequest DEF TabType
  <2>2. DaemonType'
    BY <1>0, <1>1 DEF DaemonType
  <2>. QED BY <1>0, <1>1, <1>2, <2>1, <2>2, NoRequest, TypeNext
<1>4. Holds' /\ Older' /\ Newer' /\ Onboarding'
  BY <1>1, NoRequest DEF IInv, Holds, Older, Newer, Onboarding
<1>. QED BY <1>3, <1>4 DEF IInv

(* The apply worker is through. *)
LEMMA WorkerDoneStep == IInv /\ WorkerDone => IInv'
<1>. SUFFICES ASSUME IInv, WorkerDone PROVE IInv'
  OBVIOUS
<1>0. /\ TabType /\ DaemonType /\ BoundsType
      /\ get \in GetType /\ post \in PostType
  BY TypeParts DEF IInv
<1>. DEFINE d == [server EXCEPT !.applying = FALSE]
<1>1. /\ UNCHANGED <<shown, busy, error, timer, get, post, issued, others, used>>
      /\ server' = Changed(d)
  BY DEF WorkerDone, tab, wire
<1>2. server \in State /\ server.ver \in Nat
  BY <1>0 DEF DaemonType, State
<1>3. d \in State /\ d.ver = server.ver /\ d.cards = server.cards
      /\ d.active = server.active
  BY <1>2 DEF State
<1>. HIDE DEF d
<1>4. /\ server' \in State /\ server'.ver = server.ver + 1
      /\ server'.cards = server.cards /\ server'.active = server.active
  BY <1>1, <1>3, ChangedIs
<1>5. TypeOK'
  <2>1. TabType'
    BY <1>0, <1>1 DEF TabType
  <2>2. DaemonType' /\ BoundsType'
    BY <1>0, <1>1, <1>4 DEF DaemonType, BoundsType
  <2>. QED BY <1>0, <1>1, <2>1, <2>2, TypeNext
<1>6. Older'
  <2>1. /\ shown # None => shown.ver \in Nat
        /\ get.at = "answered" => get.snap.ver \in Nat
        /\ post.at = "answered" => post.snap.ver \in Nat
    BY <1>0 DEF TabType, IInv, Holds, State
  <2>. QED BY <1>1, <1>2, <1>4, <2>1 DEF IInv, Older
<1>7. Holds' /\ Newer' /\ Onboarding'
  BY <1>1, <1>4 DEF IInv, Holds, Newer, Onboarding
<1>. QED BY <1>5, <1>6, <1>7 DEF IInv

(* Another tab makes a change. *)
LEMMA OtherTabStep == IInv /\ OtherTab => IInv'
<1>. SUFFICES ASSUME IInv, OtherTab PROVE IInv'
  OBVIOUS
<1>0. /\ TabType /\ DaemonType /\ BoundsType
      /\ get \in GetType /\ post \in PostType
  BY TypeParts DEF IInv
<1>1. /\ UNCHANGED <<shown, busy, error, timer, get, used>>
      /\ others < MaxOthers /\ others' = others + 1
      /\ post' = [post EXCEPT !.raced = TRUE]
  BY DEF OtherTab, tab
<1>2. server \in State /\ server.ver \in Nat /\ server.cards \in Seq(Card)
  BY <1>0 DEF DaemonType, State
<1>3. /\ issued' \subseteq Card
      /\ server' \in State
      /\ server'.ver \in {server.ver + 1, server.ver + 2}
  <2>1. CASE Issue /\ server' = WithCard(server, NewCard)
    <3>1. NewCard \in Card /\ issued' \subseteq Card
      BY <2>1, IssueIs DEF IInv
    <3>. QED BY <1>2, <2>1, <3>1, WithCardIs
  <2>2. CASE /\ \E c \in Range(server.cards) :
                   server' \in {WithoutCard(server, c), Marked(Selected(server, c))}
             /\ UNCHANGED issued
    <3>1. PICK c \in Range(server.cards) :
             server' \in {WithoutCard(server, c), Marked(Selected(server, c))}
      BY <2>2
    <3>2. c \in Card
      BY <1>2, <3>1, InRange
    <3>3. WithoutCard(server, c) \in State /\ WithoutCard(server, c).ver = server.ver + 1
      BY <1>2, <3>1, WithoutCardIs
    <3>4. /\ Marked(Selected(server, c)) \in State
          /\ Marked(Selected(server, c)).ver = server.ver + 2
      <4>. DEFINE d == Selected(server, c)
      <4>1. d \in State /\ d.ver = server.ver + 1
        BY <1>2, <3>2, SelectedIs
      <4>. HIDE DEF d
      <4>2. Marked(d) \in State /\ Marked(d).ver = server.ver + 2
        BY <1>2, <4>1, MarkedIs
      <4>. QED BY <4>2 DEF d
    <3>. QED BY <1>0, <2>2, <3>1, <3>3, <3>4 DEF DaemonType
  <2>. QED BY <2>1, <2>2 DEF OtherTab
<1>4. /\ post' \in PostType /\ post'.raced = TRUE
      /\ post'.at = post.at /\ post'.op = post.op /\ post'.snap = post.snap
      /\ post'.overtaken = post.overtaken
  BY <1>0, <1>1 DEF PostType
<1>5. TypeOK'
  <2>1. TabType'
    BY <1>0, <1>1, <1>4 DEF TabType
  <2>2. DaemonType' /\ BoundsType'
    BY <1>0, <1>1, <1>3, UiAssumption DEF DaemonType, BoundsType
  <2>. QED BY <1>0, <1>1, <1>4, <2>1, <2>2, TypeNext
<1>6. Older'
  <2>1. /\ shown # None => shown.ver \in Nat
        /\ get.at = "answered" => get.snap.ver \in Nat
        /\ post.at = "answered" => post.snap.ver \in Nat
    BY <1>0 DEF TabType, IInv, Holds, State
  <2>. QED BY <1>1, <1>2, <1>3, <1>4, <2>1 DEF IInv, Older
<1>7. Holds' /\ Newer'
  BY <1>1, <1>4 DEF IInv, Holds, Newer
<1>8. Onboarding'
  BY <1>4 DEF Onboarding
<1>. QED BY <1>5, <1>6, <1>7, <1>8 DEF IInv

-----------------------------------------------------------------------------
(* Together. *)

(* The daemon's first list of cards, empty or with one card on it. *)
LEMMA FirstCards ==
    ASSUME NEW S \in {{}, {CHOOSE c \in Card : TRUE}}
    PROVE  S \subseteq Card /\ SetToSeq(S) \in Seq(Card)
<1>1. (CHOOSE c \in Card : TRUE) \in Card
  BY UiAssumption
<1>2. S \subseteq Card
  BY <1>1
<1>3. \E f \in [1..Cardinality(S) -> S] : IsInjective(f)
  <2>1. CASE S = {}
    <3>1. Cardinality(S) = 0
      BY <2>1, FS_EmptySet
    <3>. DEFINE f == [i \in 1..0 |-> 0]
    <3>2. f \in [1..0 -> S] /\ IsInjective(f)
      BY DEF IsInjective
    <3>. QED BY <3>1, <3>2
  <2>2. CASE S # {}
    <3>1. PICK c : S = {c}
      BY <2>2
    <3>2. Cardinality(S) = 1
      BY <3>1, FS_Singleton
    <3>. DEFINE f == [i \in 1..1 |-> c]
    <3>3. f \in [1..1 -> S] /\ IsInjective(f)
      BY <3>1 DEF IsInjective
    <3>. QED BY <3>2, <3>3
  <2>. QED BY <2>1, <2>2
<1>4. SetToSeq(S) \in [1..Cardinality(S) -> S]
  BY <1>3 DEF SetToSeq
<1>5. Cardinality(S) \in Nat
  <2>1. CASE S = {}
    BY <2>1, FS_EmptySet
  <2>2. CASE S # {}
    <3>1. PICK c : S = {c}
      BY <2>2
    <3>2. Cardinality(S) = 1
      BY <3>1, FS_Singleton
    <3>. QED BY <3>2
  <2>. QED BY <2>1, <2>2
<1>6. SetToSeq(S) \in [1..Cardinality(S) -> Card]
  BY <1>2, <1>4
<1>. QED BY <1>2, <1>5, <1>6, SeqDef

(* It holds of a page that loads, *)
LEMMA InitIInv == Init => IInv
<1>. SUFFICES ASSUME Init PROVE IInv
  OBVIOUS
<1>1. issued \subseteq Card /\ SetToSeq(issued) \in Seq(Card)
  BY FirstCards DEF Init
<1>2. server \in State
  BY <1>1 DEF Init, State
<1>3. /\ get \in GetType /\ get.at = "sent" /\ get.of = "init"
      /\ post = NoPost /\ shown = None /\ busy = FALSE /\ timer = "armed"
      /\ error = ""
  BY DEF Init, NoGet, GetType
<1>4. TypeOK
  <2>1. TabType
    BY <1>3, NoRequest DEF TabType
  <2>2. DaemonType
    <3>1. others = 0
      BY DEF Init
    <3>2. others \in 0..MaxOthers
      BY <3>1, UiAssumption
    <3>. QED BY <1>1, <1>2, <3>2 DEF DaemonType
  <2>3. BoundsType
    <3>1. 0 \in 0..MaxActions /\ 0 \in 0..MaxLost /\ 0 \in 0..MaxUnsaved
      BY UiAssumption
    <3>2. used = [actions |-> 0, lost |-> 0, unsaved |-> 0]
      BY DEF Init
    <3>. QED BY <3>1, <3>2 DEF BoundsType
  <2>. QED BY <1>3, <2>1, <2>2, <2>3, NoRequest, TypeParts
<1>5. Holds /\ Older /\ Newer /\ Onboarding
  BY <1>3, NoRequest DEF Holds, Older, Newer, Onboarding
<1>. QED BY <1>4, <1>5 DEF IInv

(* every step keeps it, *)
LEMMA NextIInv == IInv /\ [Next]_vars => IInv'
<1>. SUFFICES ASSUME IInv, [Next]_vars PROVE IInv'
  OBVIOUS
<1>1. CASE Tick \/ User \/ GetLost \/ WorkerDone \/ OtherTab
  BY <1>1, TickStep, UserStep, GetLostStep, WorkerDoneStep, OtherTabStep
<1>2. CASE Answered
  BY <1>2, GetServedStep, GetArrivesStep, PostCommitsStep, PostRefusedStep,
     PostServedStep, PostArrivesStep, PostFailsStep DEF Answered
<1>3. CASE UNCHANGED vars
  <2>1. UNCHANGED <<shown, busy, error, timer, get, post, server, issued,
                    others, used>>
    BY <1>3 DEF vars, tab, wire, daemon
  <2>2. TypeOK'
    <3>1. /\ TabType /\ DaemonType /\ BoundsType
          /\ get \in GetType /\ post \in PostType
      BY TypeParts DEF IInv
    <3>2. TabType' /\ DaemonType' /\ BoundsType'
      BY <2>1, <3>1 DEF TabType, DaemonType, BoundsType
    <3>. QED BY <2>1, <3>1, <3>2, TypeNext
  <2>3. Holds' /\ Older' /\ Newer' /\ Onboarding'
    BY <2>1 DEF IInv, Holds, Older, Newer, Onboarding
  <2>. QED BY <2>2, <2>3 DEF IInv
<1>. QED BY <1>1, <1>2, <1>3 DEF Next

(* and so it always holds. *)
LEMMA Inductive == Spec => []IInv
BY InitIInv, NextIInv, PTL DEF Spec

(* The variables keep their types; busy is set just as long as a request   *)
(* is on its way, and the timer is off just as long as a tick's GET is.    *)
THEOREM TabTyped == Spec => []TypeOK
<1>1. IInv => TypeOK
  BY DEF IInv
<1>. QED BY <1>1, Inductive, PTL

(* The page goes back only to an answer that a newer one overtook, or to   *)
(* the empty one after a failed save: of two other answers on their way    *)
(* the later served is the newer.                                          *)
THEOREM PageGoesForward == Spec => GoesBackOnlyIfOvertaken
<1>. DEFINE P == shown # None /\ shown'.ver < shown.ver =>
                   \/ get.overtaken /\ get'.at = "none"
                   \/ post.overtaken /\ post'.at # "answered"
                   \/ post.at = "answered" /\ shown' = Empty
<1>1. ASSUME IInv, IInv', [Next]_vars PROVE [P]_vars
  <2>. SUFFICES ASSUME shown # None, shown'.ver < shown.ver
                PROVE  \/ get.overtaken /\ get'.at = "none"
                       \/ post.overtaken /\ post'.at # "answered"
                       \/ post.at = "answered" /\ shown' = Empty
    OBVIOUS
  <2>0. shown.ver \in Nat
    BY <1>1 DEF IInv, TypeOK, State
  <2>1. shown' # shown
    BY <2>0
  <2>2. GetArrives \/ PostArrives
    BY <1>1, <2>1 DEF Next, Answered, User, Tick, GetServed, PostCommits,
       PostRefused, PostServed, PostFails, submitAddSubscription,
       editSubscription, deleteSubscription, pickServer, toggleVpn, Send, GetLost, WorkerDone,
       OtherTab, vars, tab
  <2>3. CASE GetArrives
    <3>1. get.at = "answered" /\ shown' = get.snap /\ get'.at = "none"
      BY <2>3, NoRequest DEF GetArrives, GetEnds
    <3>2. get.snap.ver \in Nat
      BY <1>1, <3>1 DEF IInv, Holds, State
    <3>. QED BY <1>1, <2>0, <3>1, <3>2 DEF IInv, Newer
  <2>4. CASE PostArrives
    <3>1. post.at = "answered" /\ shown' = post.snap
      BY <2>4 DEF PostArrives
    <3>2. post'.at # "answered"
      BY <2>4, NoRequest DEF PostArrives, Sent, NoPost
    <3>3. post.snap.ver \in Nat
      BY <1>1, <3>1 DEF IInv, Holds, State
    <3>. QED BY <1>1, <2>0, <3>1, <3>2, <3>3 DEF IInv, Newer
  <2>. QED BY <2>2, <2>3, <2>4
<1>2. IInv /\ IInv' /\ [Next]_vars => [P]_vars
  BY <1>1
<1>. QED BY <1>2, Inductive, PTL DEF Spec, GoesBackOnlyIfOvertaken

(* The card picked after an addition is the one that was added, and        *)
(* nothing was selected, as long as no other tab made a change: so the     *)
(* last card of an answer that came back late is still the tab's own.      *)
THEOREM OnboardingIsRight == Spec => AutoPickOnboards
<1>. DEFINE P == post.at = "sent" /\ post'.at = "done" /\ post.op.kind = "autopick" =>
                   post.raced \/ (post.op.card = post.mine /\ server.active = None)
<1>1. IInv => P
  BY DEF IInv, Onboarding
<1>2. IInv => [P]_vars
  BY <1>1
<1>. QED BY <1>2, Inductive, PTL DEF AutoPickOnboards
=============================================================================
