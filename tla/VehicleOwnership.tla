--------------------------- MODULE VehicleOwnership ---------------------------
(***************************************************************************)
(* What the registration of vehicles promises: a plate in use belongs to   *)
(* one customer, and nobody takes it over before it is given up.           *)
(*                                                                         *)
(* CustomerRegistry, where plates are checked before they are written and  *)
(* rows are archived, not deleted, implements this specification.          *)
(***************************************************************************)
CONSTANTS Customers, Plates, Nobody

VARIABLE owner      \* the customer of the active vehicle of each plate

Free(p) == owner[p] = Nobody

Init == owner = [p \in Plates |-> Nobody]

Register(c, p) == Free(p) /\ owner' = [owner EXCEPT ![p] = c]

\* A vehicle gets another plate, and stays with its customer.
Replate(p, q) ==
    /\ ~Free(p) /\ Free(q)
    /\ owner' = [owner EXCEPT ![p] = Nobody, ![q] = owner[p]]

\* Vehicles of one customer are given up, at once.
GiveUp(c, given) ==
    /\ \A p \in given : owner[p] = c
    /\ owner' = [p \in Plates |-> IF p \in given THEN Nobody ELSE owner[p]]

Next ==
    \/ \E c \in Customers, given \in SUBSET Plates : GiveUp(c, given)
    \/ \E c \in Customers, p \in Plates : Register(c, p)
    \/ \E p, q \in Plates : Replate(p, q)

Spec == Init /\ [][Next]_owner
=============================================================================
