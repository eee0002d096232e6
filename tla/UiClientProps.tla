--------------------------- MODULE UiClientProps ---------------------------
(* What a tab shows and does, stated over UiClient. *)
EXTENDS UiClient

OpType == [kind : {"add", "toggle"}, card : {None}]
          \cup [kind : {"edit", "delete", "pick", "autopick"}, card : Card]

(* The type invariant.  With it: busy is set exactly as long as a POST is  *)
(* on its way, and the timer is off exactly as long as a tick's GET is.    *)
TypeOK ==
    /\ server \in State /\ issued \subseteq Card
    /\ shown \in State \cup {None}
    /\ error \in {"", "load", "action"} /\ timer \in {"armed", "off"}
    /\ get \in [at : {"none", "sent", "answered"}, of : {"init", "tick"},
                snap : State \cup {None}, late : BOOLEAN, overtaken : BOOLEAN]
    /\ post \in [at : {"none", "sent", "done", "answered", "refused"},
                 op : OpType \cup {None},
                 mine : Card \cup {None}, raced : BOOLEAN,
                 snap : State \cup {None}, overtaken : BOOLEAN]
    /\ others \in 0..MaxOthers
    /\ used \in [actions : 0..MaxActions, lost : 0..MaxLost,
                unsaved : 0..MaxUnsaved]
    /\ busy = (post.at # "none")
    /\ (timer = "off") = (get.at # "none" /\ get.of = "tick")

(* The page goes back to an older state only when it shows an answer that  *)
(* another one overtook on its way, or the empty one that a request got    *)
(* whose flag could not be saved.                                          *)
GoesBackOnlyIfOvertaken ==
    [][shown # None /\ shown'.ver < shown.ver =>
         \/ get.overtaken /\ get'.at = "none"
         \/ post.overtaken /\ post'.at # "answered"
         \/ post.at = "answered" /\ shown' = Empty]_vars

(* The automatic pick after an addition selects the card that was added    *)
(* and overrides no selection, unless another tab made a change between    *)
(* the addition and the pick.                                              *)
AutoPickOnboards ==
    [][post.at = "sent" /\ post'.at = "done" /\ post.op.kind = "autopick" =>
         post.raced \/ (post.op.card = post.mine /\ server.active = None)]_vars

(* Whatever is lost, whatever other tabs do and whatever the daemon cannot *)
(* save, the controls come back: they are there and enabled.               *)
ControlsEnabled == shown # None => shown # Empty /\ ~busyOrApplying
ControlsComeBack == ~ControlsEnabled ~> ControlsEnabled

(* Once nobody changes anything any more, the page shows the state of the  *)
(* daemon, and goes on showing it, whatever overtook what.                 *)
EventuallyShown == <>[](shown = server)
=============================================================================
