------------------------------ MODULE UiClient ------------------------------
(***************************************************************************)
(* One browser tab (cmd/router-app/static/app.js) and the daemon it talks  *)
(* to.  The tab keeps the last state it was sent, polls for it, sends one  *)
(* request at a time and shows what comes back.  A GET and the answer to a *)
(* POST may overtake each other; other tabs change the state meanwhile,    *)
(* and so does the apply worker.                                           *)
(*                                                                         *)
(* The daemon is reduced to its cards (subscriptions), the card that the   *)
(* selected server is on, and the applying flag; ApplyPath has the rest.   *)
(* ver counts its changes and serves only to compare ages.  JavaScript     *)
(* runs to completion, so an action here is what runs between two awaits;  *)
(* confirm() blocks, so asking and sending are one step.  The first GET is *)
(* taken to end within the ten seconds before the first tick.  A card has  *)
(* one server here, and a handler's check and its change are one step;     *)
(* ApplyPath takes them apart.                                             *)
(***************************************************************************)
EXTENDS Naturals, Sequences, SequencesExt

CONSTANTS
    Card,        \* subscription ids
    None,
    MaxActions,  \* bound: requests the user makes in this tab
    MaxOthers,   \* bound: changes made in other tabs
    MaxLost,     \* bound: requests that fail on their way
    MaxUnsaved   \* bound: saves of the state that fail in the daemon

ASSUME UiAssumption ==
    /\ Card # {} /\ None \notin Card
    /\ MaxActions \in Nat /\ MaxOthers \in Nat
    /\ MaxLost \in Nat /\ MaxUnsaved \in Nat

VARIABLES
    server,   \* the daemon's state
    issued,   \* cards that were ever there
    shown,    \* state in the tab: the last one it was sent, or None
    busy,     \* the tab has a POST of its own on its way
    error,    \* what the error line is about: "", "load" or "action"
    timer,    \* "armed", or "off" while a tick waits for its refresh
    get,      \* the GET of init or of the latest tick
    post,     \* the POST
    others,   \* changes made in other tabs so far
    used      \* bounds used up: requests made, requests lost, saves failed

tab    == <<shown, busy, error, timer>>
wire   == <<get, post>>
daemon == <<server, issued, others>>
vars   == <<tab, wire, daemon, used>>

State == [ver : Nat, cards : Seq(Card), active : Card \cup {None},
          applying : BOOLEAN]

(* The zero Data that Update returns when the save fails: its lists are    *)
(* null in JSON, where a state with no cards has an empty one.  No state   *)
(* of the daemon has its ver.                                              *)
Empty == [ver |-> 0, cards |-> <<>>, active |-> None, applying |-> FALSE]

(* late: history, a GET served after the answer to the POST that is on its *)
(* way.  overtaken: history, another answer that was served later came     *)
(* first.                                                                  *)
NoGet  == [at |-> "none", of |-> "tick", snap |-> None, late |-> FALSE, overtaken |-> FALSE]
NoPost == [at |-> "none", op |-> None, mine |-> None,
           raced |-> FALSE, snap |-> None, overtaken |-> FALSE]

(* A card not yet used; which one makes no difference. *)
NewCard == CHOOSE c \in Card \ issued : TRUE

Issue == Card # issued /\ issued' = issued \cup {NewCard}

Init ==
    /\ issued \in {{}, {CHOOSE c \in Card : TRUE}}
    /\ server = [ver |-> 1, cards |-> SetToSeq(issued), active |-> None,
                 applying |-> FALSE]
    /\ shown = None /\ busy = FALSE /\ error = "" /\ timer = "armed"
    /\ get = [NoGet EXCEPT !.at = "sent", !.of = "init"]
    /\ post = NoPost
    /\ others = 0 /\ used = [actions |-> 0, lost |-> 0, unsaved |-> 0]

-----------------------------------------------------------------------------
(* The daemon. *)

Changed(d) == [d EXCEPT !.ver = @ + 1]

WithCard(d, c) == Changed([d EXCEPT !.cards = Append(@, c)])

(* Ids are issued once, so a card is in one place. *)
PositionOf(cards, c) == CHOOSE i \in DOMAIN cards : cards[i] = c

WithoutCard(d, c) ==
    Changed([d EXCEPT !.cards  = RemoveAt(@, PositionOf(@, c)),
                      !.active = IF @ = c THEN None ELSE @])

Selected(d, c) == Changed([d EXCEPT !.active = c])

(* A new label, or other servers, among which the selected one may lack.   *)
Edited(d, c) == {Changed(d), Changed([d EXCEPT !.active = IF @ = c THEN None ELSE @])}

(* respondAfterApply raises the flag after the handler's own change.       *)
Marked(d) == Changed([d EXCEPT !.applying = TRUE])

Has(d, c) == c \in Range(d.cards)

WorkerDone ==
    /\ server.applying
    /\ server' = Changed([server EXCEPT !.applying = FALSE])
    /\ UNCHANGED <<tab, wire, issued, others, used>>

(* A selection made elsewhere raises the flag in the same step. *)
OtherTab ==
    /\ others < MaxOthers
    /\ others' = others + 1
    /\ \/ Issue /\ server' = WithCard(server, NewCard)
       \/ \E c \in Range(server.cards) :
             server' \in {WithoutCard(server, c), Marked(Selected(server, c))}
          /\ UNCHANGED issued
    /\ post' = [post EXCEPT !.raced = TRUE]
    /\ UNCHANGED <<tab, get, used>>

-----------------------------------------------------------------------------
(* An answer is shown, and so overtakes one still on its way if it was     *)
(* served after it.                                                        *)

GetSent == [NoGet EXCEPT !.at = "sent"]

(* Slip: a tick that finds the tab busy does not set the next one. *)
TickDropped ==
    /\ timer = "armed" /\ get.at = "none"
    /\ timer' = "off"
    /\ get' = IF busy THEN get ELSE GetSent
    /\ UNCHANGED <<shown, busy, error, post, daemon, used>>

(* _pollTick: skipped while the tab is busy. *)
Tick ==
    /\ timer = "armed" /\ get.at = "none"
    /\ ~busy
    /\ timer' = "off"
    /\ get' = GetSent
    /\ UNCHANGED <<shown, busy, error, post, daemon, used>>

GetServed ==
    /\ get.at = "sent"
    /\ get' = [get EXCEPT !.at = "answered", !.snap = server,
                          !.late = (post.at = "answered")]
    /\ UNCHANGED <<tab, post, daemon, used>>

(* refresh: only the one of init touches the error line. *)
GetEnds(message) ==
    /\ error' = IF get.of = "init" THEN message ELSE error
    /\ timer' = "armed"
    /\ get' = NoGet
    /\ UNCHANGED <<busy, daemon>>

GetArrives ==
    /\ get.at = "answered"
    /\ shown' = get.snap
    /\ post' = [post EXCEPT !.overtaken = @ \/ (post.at = "answered" /\ get.late)]
    /\ GetEnds("")
    /\ UNCHANGED used

Lost == used.lost < MaxLost /\ used' = [used EXCEPT !.lost = @ + 1]

(* Slip: a refresh that fails ends the polling. *)
GetLostForGood ==
    /\ get.at # "none"
    /\ Lost
    /\ get' = NoGet
    /\ UNCHANGED <<tab, post, daemon>>

GetLost ==
    /\ get.at # "none"
    /\ Lost
    /\ GetEnds("load")
    /\ UNCHANGED <<shown, post>>

-----------------------------------------------------------------------------
(* _send, and the actions that call it. *)

busyOrApplying == busy \/ shown.applying

Sent(op) == [NoPost EXCEPT !.at = "sent", !.op = op]

(* Without the list of cards the page has no control at all. *)
Send(op) ==
    /\ shown \notin {None, Empty} /\ ~busyOrApplying
    /\ used.actions < MaxActions
    /\ used' = [used EXCEPT !.actions = @ + 1]
    /\ busy' = TRUE /\ error' = ""
    /\ post' = Sent(op)
    /\ UNCHANGED <<shown, timer, get, daemon>>

submitAddSubscription == Send([kind |-> "add", card |-> None])

deleteSubscription ==
    shown # None /\ \E c \in Range(shown.cards) : Send([kind |-> "delete", card |-> c])

isActive(c) == shown.active = c

pickServer ==
    shown # None /\ \E c \in Range(shown.cards) :
        ~isActive(c) /\ Send([kind |-> "pick", card |-> c])

(* renameSubscription and refreshSubscription. *)
editSubscription ==
    shown # None /\ \E c \in Range(shown.cards) : Send([kind |-> "edit", card |-> c])

(* toggleVpn, and with it setRulesUrl and refreshRules; the page has them  *)
(* below its cards.                                                        *)
toggleVpn ==
    /\ shown # None /\ shown.cards # <<>>
    /\ Send([kind |-> "toggle", card |-> None])

Unsaved == used.unsaved < MaxUnsaved /\ used' = [used EXCEPT !.unsaved = @ + 1]

(* Update: the change is in memory even when the save fails, which the     *)
(* request is then refused for.  snap is what it found.                    *)
Update(mine) ==
    \/ /\ post' = [post EXCEPT !.at = "done", !.snap = server, !.mine = mine]
       /\ UNCHANGED used
    \/ post' = [post EXCEPT !.at = "refused"] /\ Unsaved

(* The daemon carries it out, or refuses it.                               *)
PostCommits ==
    /\ post.at = "sent"
    /\ LET c == post.op.card IN
       \/ /\ post.op.kind = "add"
          /\ Issue
          /\ server' = WithCard(server, NewCard)
          /\ Update(NewCard)
       \/ /\ post.op.kind # "add"
          /\ c # None => Has(server, c)
          /\ \/ post.op.kind = "delete" /\ server' = WithoutCard(server, c)
             \/ post.op.kind \in {"pick", "autopick"} /\ server' = Selected(server, c)
             \/ post.op.kind = "edit" /\ server' \in Edited(server, c)
             \/ post.op.kind = "toggle" /\ server' = Changed(server)
          /\ Update(post.mine)
          /\ UNCHANGED issued
    /\ UNCHANGED <<tab, get, others>>

PostRefused ==
    /\ post.at = "sent"
    /\ \/ post.op.kind \in {"add", "edit", "toggle"}
       \/ post.op.card # None /\ ~Has(server, post.op.card)
    /\ post' = [post EXCEPT !.at = "refused"]
    /\ UNCHANGED <<tab, get, daemon, used>>

(* Slip: the answer is the state that the handler found. *)
AnswerFound == post.snap

(* Those that change what the proxy is to do end in respondAfterApply. *)
Applies == post.op.kind \in {"pick", "autopick", "toggle"}

(* The state as it is when the handler is through. *)
Answer == IF Applies THEN Marked(server) ELSE server

(* The second save may fail too: its error is dropped, and what Update     *)
(* returned is the answer.                                                 *)
PostServed ==
    /\ post.at = "done"
    /\ server' = IF Applies THEN Marked(server) ELSE server
    /\ \/ post' = [post EXCEPT !.at = "answered", !.snap = Answer] /\ UNCHANGED used
       \/ /\ Applies /\ Unsaved
          /\ post' = [post EXCEPT !.at = "answered", !.snap = Empty]
    /\ get' = [get EXCEPT !.late = FALSE]
    /\ UNCHANGED <<tab, issued, others>>

(* Slip: the first card. *)
FirstCard(d) == Head(d.cards)

AddedCard(d) == Last(d.cards)

(* After an addition the newest card is picked at once if nothing is       *)
(* selected.                                                               *)
Onboards(d) == post.op.kind = "add" /\ d.active = None /\ d.cards # <<>>

PostArrives ==
    /\ post.at = "answered"
    /\ shown' = post.snap
    /\ get' = [get EXCEPT !.overtaken = @ \/ (get.at = "answered" /\ ~get.late)]
    /\ IF error = "" /\ Onboards(post.snap)
       THEN /\ post' = [Sent([kind |-> "autopick",
                              card |-> AddedCard(post.snap)])
                           EXCEPT !.mine = post.mine, !.raced = post.raced]
            /\ UNCHANGED <<busy, error>>
       ELSE post' = NoPost /\ busy' = FALSE /\ UNCHANGED error
    /\ UNCHANGED <<timer, daemon, used>>

(* Slip: busy is reset only after a success. *)
FailsBusily ==
    /\ \/ post.at = "refused" /\ UNCHANGED used
       \/ post.at # "none" /\ Lost
    /\ post' = NoPost /\ error' = "action"
    /\ UNCHANGED <<shown, busy, timer, get, daemon>>

PostFails ==
    /\ \/ post.at = "refused" /\ UNCHANGED used
       \/ post.at # "none" /\ Lost
    /\ post' = NoPost /\ busy' = FALSE /\ error' = "action"
    /\ UNCHANGED <<shown, timer, get, daemon>>

-----------------------------------------------------------------------------
Answered == \/ GetServed \/ GetArrives
            \/ PostCommits \/ PostRefused \/ PostServed \/ PostArrives
            \/ PostFails

User == \/ submitAddSubscription \/ editSubscription \/ deleteSubscription
        \/ pickServer \/ toggleVpn

Next == \/ Tick \/ Answered \/ User
        \/ GetLost \/ WorkerDone \/ OtherTab

Spec == Init /\ [][Next]_vars

(* Timers fire, requests are answered or fail, and the apply worker ends   *)
(* its iterations (ApplyPath).                                             *)
FairSpec == /\ Spec
            /\ WF_vars(Tick)
            /\ WF_vars(GetServed \/ GetArrives)
            /\ WF_vars(PostCommits \/ PostRefused \/ PostServed
                         \/ PostArrives \/ PostFails)
            /\ WF_vars(WorkerDone)
=============================================================================
