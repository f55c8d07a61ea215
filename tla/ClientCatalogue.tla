--------------------------- MODULE ClientCatalogue ---------------------------
(***************************************************************************)
(* What publishing promises an HTTP client, without saying how: per region *)
(* a set of complete generations and the one current.json lists.           *)
(*   - generations are only ever added, or retired while a newer complete  *)
(*     one stays;                                                          *)
(*   - the catalogue is only ever replaced as a whole, by the newest       *)
(*     complete generation of every region at that moment.                 *)
(***************************************************************************)
EXTENDS Naturals

CONSTANTS Region, MaxGen

VARIABLES complete, listed

Gen == 1 .. MaxGen

IsNewest(r, g) ==
    \/ complete[r] = {} /\ g = 0
    \/ g \in complete[r] /\ \A h \in complete[r] : h <= g

Init ==
    /\ complete = [r \in Region |-> {}]
    /\ listed = [r \in Region |-> 0]

Publish(r, g) ==
    /\ g \notin complete[r]
    /\ complete' = [complete EXCEPT ![r] = @ \cup {g}]
    /\ UNCHANGED listed

Retire(r, old) ==
    /\ \A g \in old : \E h \in complete[r] \ old : g < h
    /\ complete' = [complete EXCEPT ![r] = @ \ old]
    /\ UNCHANGED listed

Refresh ==
    /\ listed' \in [Region -> 0 .. MaxGen]
    /\ \A r \in Region : IsNewest(r, listed'[r])
    /\ UNCHANGED complete

Next ==
    \/ \E r \in Region, g \in Gen : Publish(r, g)
    \/ \E r \in Region, old \in SUBSET Gen : Retire(r, old)
    \/ Refresh

Spec == Init /\ [][Next]_<<complete, listed>>
=============================================================================
