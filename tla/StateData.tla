----------------------------- MODULE StateData -----------------------------
(***************************************************************************)
(* The record that internal/state keeps behind its lock and in state.json, *)
(* and what each operation of that package computes from it.  This module  *)
(* has no variables: ApplyPath holds the record in memory and on disk and  *)
(* applies these operators one lock acquisition at a time.                 *)
(*                                                                         *)
(* What is abstracted.  A subscription is its list of servers, a partial   *)
(* function from server ids to connection parameters (what BuildOutbound   *)
(* reads); labels, sources, times and the order of the cards are left out. *)
(* A set of user rules is named by the URL it was fetched from.  None      *)
(* stands for Go's nil and "": no subscription under an id, no selection,  *)
(* no server, no rules URL, the bundled rules, no usable state file.       *)
(***************************************************************************)
CONSTANTS
    SubId,      \* subscription ids newSubscriptionID may draw
    ServerId,   \* server ids, unique within one subscription
    Content,    \* connection parameters of a server
    Listing,    \* the server lists a fetch may return
    RulesURL,   \* URLs of user rules
    None

ASSUME ListingAssumption ==
    \A l \in Listing : /\ DOMAIN l \subseteq ServerId
                       /\ \A s \in DOMAIN l : l[s] \in Content

ASSUME NoneAssumption ==
    None \notin Content \cup Listing \cup RulesURL \cup SubId

Ref == [sub : SubId, srv : ServerId]

ASSUME NoneIsNoRef == None \notin Ref

Data == [subs      : [SubId -> Listing \cup {None}],
         active    : Ref \cup {None},
         vpnOn     : BOOLEAN,
         rulesURL  : RulesURL \cup {None},
         rules     : RulesURL \cup {None},
         applying  : BOOLEAN,
         lastApply : {"never", "ok", "failed"}]

Defaults == [subs      |-> [s \in SubId |-> None],
             active    |-> None,
             vpnOn     |-> FALSE,
             rulesURL  |-> None,
             rules     |-> None,
             applying  |-> FALSE,
             lastApply |-> "never"]

(* load: a missing, corrupt or outdated file gives the defaults, any other *)
(* one is taken as it is, the applying flag included.                      *)
Load(file) == IF file = None THEN Defaults ELSE file

-----------------------------------------------------------------------------
(* Queries. *)

HasSubscription(d, s) == d.subs[s] # None

HasServer(d, ref) == /\ HasSubscription(d, ref.sub)
                     /\ ref.srv \in DOMAIN d.subs[ref.sub]

(* The active selection points into subscription s. *)
ActiveIn(d, s) == /\ d.active # None
                  /\ d.active.sub = s

(* None also when the selection points at a server that is gone. *)
ActiveServer(d) ==
    IF d.active # None /\ HasServer(d, d.active)
    THEN d.subs[d.active.sub][d.active.srv]
    ELSE None

-----------------------------------------------------------------------------
(* Updates: the functions the package runs under its write lock. *)

(* Slips the properties must notice: the selection is not cleared, or the  *)
(* VPN is not switched off with it.                                        *)
SelectionKept(d, gone) == d
VPNLeftOn(d, gone) == IF gone THEN [d EXCEPT !.active = None] ELSE d

Deselected(d, gone) == IF gone THEN [d EXCEPT !.active = None, !.vpnOn = FALSE]
                               ELSE d

AddSubscription(d, s, l) == [d EXCEPT !.subs[s] = l]

DeleteSubscription(d, s) ==
    [Deselected(d, ActiveIn(d, s)) EXCEPT !.subs[s] = None]

(* Slip: a refresh that never looks at the selection. *)
ReplaceListOnly(d, s, l) ==
    [d EXCEPT !.subs[s] = IF @ = None THEN None ELSE l]

(* A refresh of a subscription that has been deleted meanwhile changes no  *)
(* list, but still drops a selection that points into it.                  *)
ReplaceSubscriptionServers(d, s, l) ==
    [Deselected(d, ActiveIn(d, s) /\ d.active.srv \notin DOMAIN l)
        EXCEPT !.subs[s] = IF @ = None THEN None ELSE l]
=============================================================================
