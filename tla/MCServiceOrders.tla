--------------------------- MODULE MCServiceOrders ---------------------------
(***************************************************************************)
(* Small instances of ServiceOrders for TLC: the sets of operations and    *)
(* the stocks of its runs.                                                 *)
(***************************************************************************)
EXTENDS ServiceOrdersProperties, OrderQueries, TLC

\* Requests and estimates are interchangeable: no property names one.
Symmetry == Permutations(Requests) \cup Permutations(Estimates)

StockOf(n) == [p \in Parts |-> n]

Stock1 == StockOf(1)

Stock2 == StockOf(2)

AllOperations ==
    {"createServiceOrder", "createServiceOrderWithItems", "assignMechanic",
     "startDiagnosis", "createEstimate", "addEstimateItem", "rejectEstimate",
     "patchEstimateStatus", "receiveExternalDecision", "startService",
     "finishService", "deliverVehicle", "closeServiceOrder",
     "updateServiceOrderStatus"}

WithoutPatch == AllOperations \ {"patchEstimateStatus"}
=============================================================================
