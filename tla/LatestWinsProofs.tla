--------------------------- MODULE LatestWinsProofs ---------------------------
(***************************************************************************)
(* What LatestWins guarantees to whoever implements it.                    *)
(***************************************************************************)
EXTENDS LatestWins, TLAPS

LWInv == /\ want \in [Part -> Value]
         /\ got \in [Part -> Value]
         /\ Promise

(* A read serves its part and disturbs no other. *)
LEMMA ReadKeepsPromise ==
    ASSUME LWInv, NEW p \in Part, Read(p)
    PROVE  LWInv'
<1>1. got' \in [Part -> Value] /\ want' \in [Part -> Value]
  BY DEF LWInv, Read
<1>2. \A q \in Part : got'[q] # want'[q] => got[q] # want[q] /\ q # p
  BY DEF LWInv, Read
<1>3. \A q \in Part \ {p} : q \in owed \cup missed => q \in owed' \cup missed'
  BY DEF Read
<1>4. Promise'
  BY <1>2, <1>3 DEF LWInv, Promise, Read
<1>. QED BY <1>1, <1>4 DEF LWInv

(* A change owes what it alters, or it is a missed one. *)
LEMMA ChangeKeepsPromise ==
    ASSUME LWInv, Change
    PROVE  LWInv'
<1>1. got' = got /\ want' \in [Part -> Value]
  BY DEF Change
<1>2. ASSUME NEW p \in Part, got'[p] # want'[p]
      PROVE  p \in owed' \cup missed'
  <2>1. CASE want'[p] # want[p]
    BY <2>1 DEF Change, Changed
  <2>2. CASE want'[p] = want[p]
    BY <1>1, <1>2, <2>2 DEF LWInv, Promise, Change
  <2>. QED BY <2>1, <2>2
<1>. QED BY <1>1, <1>2 DEF LWInv, Promise

(* A part whose latest value the server has not read is owed a read, or    *)
(* its last change was missed: what NoLostWakeup says of the daemon's      *)
(* channel and worker, at the level of the abstraction they implement.     *)
THEOREM PromiseKept == Spec => []Promise
<1>1. Init => LWInv
  BY DEF Init, LWInv, Promise
<1>2. LWInv /\ [Next]_vars => LWInv'
  <2>1. ASSUME LWInv, Restart PROVE LWInv'
    BY <2>1 DEF LWInv, Restart, Promise
  <2>2. ASSUME LWInv, UNCHANGED vars PROVE LWInv'
    BY <2>2 DEF LWInv, vars, Promise
  <2>. QED BY <2>1, <2>2, ReadKeepsPromise, ChangeKeepsPromise DEF Next
<1>3. LWInv => Promise
  BY DEF LWInv
<1>. QED BY <1>1, <1>2, <1>3, PTL DEF Spec

=============================================================================
