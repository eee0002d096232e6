---------------------------- MODULE MCApplyPath ----------------------------
(* Instances of ApplyPath for TLC. *)
EXTENDS ApplyPathProps, TLC

CONSTANTS x, y,       \* subscription ids
          s1, s2,     \* server ids
          c1, c2,     \* connection parameters
          u1, u2      \* rules URLs

MCSubId    == {x, y}
MCServerId == {s1, s2}
MCContent  == {c1, c2}
MCListing  == {s1 :> c1, s1 :> c2, s2 :> c1}
MCRulesURL == {u1, u2}

SavedOn == [Defaults EXCEPT !.subs[x] = s1 :> c1,
                            !.active = [sub |-> x, srv |-> s1],
                            !.vpnOn = TRUE,
                            !.rulesURL = u1, !.rules = u1,
                            !.lastApply = "ok"]

SavedOff == [Defaults EXCEPT !.subs[x] = s1 :> c1]

MCSaved == {None, SavedOn, SavedOff}

(* The VPN runs through a server of y, and x is another card. *)
SavedTwo == [SavedOn EXCEPT !.subs[y] = s1 :> c2,
                            !.active = [sub |-> y, srv |-> s1]]

MCSavedTwo == {SavedTwo}

Symmetry == Permutations(Req)
=============================================================================
