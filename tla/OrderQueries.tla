----------------------------- MODULE OrderQueries -----------------------------
(***************************************************************************)
(* Two readers of the tables of the service-orders context.                *)
(* GET /service-orders lists the orders that are not finished.             *)
(* GET /service-orders/metrics/average-time reads from the status history  *)
(* of all orders the time from the last move to IN_EXECUTION to the last   *)
(* move to FINISHED, in history rows of the order.                         *)
(***************************************************************************)
EXTENDS ServiceOrders, FiniteSetsExt

ListableStatuses == {"IN_EXECUTION", "WAITING_APPROVAL", "IN_DIAGNOSIS", "RECEIVED"}

\* The orders findAll returns; the order it sorts them in is left out.
Listed == {o \in Orders : order[o].status \in ListableStatuses}

MovesTo(o, status) == {i \in 1 .. Len(history[o]) : history[o][i].to = status}

\* Mutant: the rows are read newest first.
ExecutionTimeNewestFirst(o) ==
    [startTime |-> IF MovesTo(o, "IN_EXECUTION") = {} THEN 0
                   ELSE Len(history[o]) + 1 - Max(MovesTo(o, "IN_EXECUTION")),
     endTime   |-> IF MovesTo(o, "FINISHED") = {} THEN 0
                   ELSE Len(history[o]) + 1 - Max(MovesTo(o, "FINISHED"))]

\* Rows come oldest first, and a later one overwrites; 0 is no time.
ExecutionTime(o) ==
    [startTime |-> Max(MovesTo(o, "IN_EXECUTION") \cup {0}),
     endTime   |-> Max(MovesTo(o, "FINISHED") \cup {0})]

\* The orders findExecutionTimes returns.
TimedOrders == {o \in Orders : ExecutionTime(o).startTime > 0 /\ ExecutionTime(o).endTime > 0}

Duration(o) == ExecutionTime(o).endTime - ExecutionTime(o).startTime

Analyzed == Cardinality(TimedOrders)

\* The use case divides their sum by their number, and answers 0 for none.
TotalDuration == MapThenSumSet(Duration, TimedOrders)

-----------------------------------------------------------------------------
\* The two answers agree: the average is over the orders that have left the listing
\* and over no other, though one is read from the history and the other from the rows
\* of the orders, and each order timed took some time.
AverageIsOfFinishedOrders ==
    Quiet => /\ TimedOrders = {o \in Orders : Opened(o)} \ Listed
             /\ TotalDuration >= Analyzed
=============================================================================
