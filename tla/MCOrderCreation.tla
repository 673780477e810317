--------------------------- MODULE MCOrderCreation ---------------------------
(***************************************************************************)
(* Small instances of OrderCreation for TLC.                               *)
(***************************************************************************)
EXTENDS OrderCreation, TLC

CONSTANTS p1, p2, s1

One(ref) == [ref |-> ref, quantity |-> 1]

\* No items; the same parts in two orders, one time after a service (the services come
\* first); a part listed twice.
MCLists == {<<>>, <<One(p1), One(p2)>>, <<One(s1), One(p2), One(p1)>>,
            <<One(p1), One(p1)>>}

\* Only the parts two creations may wait for.
CrossedLists == {<<One(p1), One(p2)>>, <<One(p2), One(p1)>>}

MCInitialStock == [p \in Parts |-> 2]
=============================================================================
