----------------------------- MODULE LatestWins -----------------------------
(***************************************************************************)
(* What the apply queue promises, without the queue.  Clients change what  *)
(* is wanted, part by part; a single server reads the parts one at a time  *)
(* and owes a read of every part that changed since it last read it.  It   *)
(* never sees a value that was not wanted at the moment of the read, and   *)
(* how many changes it skips does not matter: the latest one wins.         *)
(*                                                                         *)
(* missed is the abstraction's admission that the change of a part may go  *)
(* by unannounced; the implementation has to say when.  The admission ends *)
(* with the next read of that part.                                        *)
(***************************************************************************)
CONSTANTS Part, Value

VARIABLES
    want,    \* the latest value of each part
    got,     \* the value of each part the server last read
    owed,    \* the parts it has still to read
    missed   \* the parts whose change has gone by unannounced

vars == <<want, got, owed, missed>>

Init == /\ want \in [Part -> Value]
        /\ got = want
        /\ owed = {}
        /\ missed = {}

(* The parts a step alters. *)
Changed == {p \in Part : want'[p] # want[p]}

(* Something else may be wanted.  What changed is owed, or missed; nothing *)
(* else is.                                                                *)
Change ==
    /\ want' \in [Part -> Value]
    /\ owed' \in SUBSET Part
    /\ owed \subseteq owed'
    /\ missed \subseteq missed'
    /\ missed' \subseteq missed \cup Changed
    /\ Changed \subseteq owed' \cup missed'
    /\ UNCHANGED got

(* Reading a part settles it, unless another announcement is on its way. *)
Read(p) ==
    /\ p \in owed
    /\ got' = [got EXCEPT ![p] = want[p]]
    /\ owed' \in {owed, owed \ {p}}
    /\ missed' = missed \ {p}
    /\ UNCHANGED want

(* The server starts over, with what it then finds. *)
Restart ==
    /\ want' \in [Part -> Value]
    /\ got' = want'
    /\ owed' = {}
    /\ missed' = {}

Next == \/ Change
        \/ \E p \in Part : Read(p)
        \/ Restart

Spec == Init /\ [][Next]_vars

(* The safety half of the promise: a part read too early is owed again. *)
Promise == \A p \in Part : got[p] # want[p] => p \in owed \cup missed

(* The live half: what is owed is read, and in the end nothing is owed. *)
Settles == <>[](owed = {})
=============================================================================
