--------------------------- MODULE MCOrderFinishing ---------------------------
(***************************************************************************)
(* A small instance of OrderFinishing for TLC: two mechanics, either of    *)
(* whom may be assigned, and the handlers that write the row of an order.  *)
(***************************************************************************)
EXTENDS OrderFinishing, ServiceOrdersProperties, TLC

\* Requests and mechanics are interchangeable: no property names one.
Symmetry == Permutations(Requests) \cup Permutations(Mechanics)

NoStock == [p \in Parts |-> 0]

OrderOperations ==
    {"createServiceOrder", "assignMechanic", "startDiagnosis", "createEstimate",
     "rejectEstimate", "startService", "finishService", "deliverVehicle",
     "closeServiceOrder", "updateServiceOrderStatus"}
=============================================================================
