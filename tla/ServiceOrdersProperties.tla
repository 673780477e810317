----------------------- MODULE ServiceOrdersProperties -----------------------
(***************************************************************************)
(* What must hold of the service-orders context.  The properties of the    *)
(* first part hold however requests interleave and wherever they fail; the *)
(* second part needs a system at rest, and says which runs check it.       *)
(***************************************************************************)
EXTENDS ServiceOrders

(***************************************************************************)
(* Any interleaving, any failure.                                          *)
(***************************************************************************)

\* The stock of a part is never negative, though the check of AddEstimateItem
\* is made on a stock read earlier: the conditional update decides.
StockNeverNegative == \A p \in Parts : stock[p] >= 0

\* An order that is CLOSED, or whose closing is on record, has its closing date:
\* a later write of a stale row may move the status but never clears the date.
ClosingIsDated ==
    \A o \in Orders :
        (order[o].status = "CLOSED" \/ \E i \in 1 .. Len(history[o]) :
                                            history[o][i].to = "CLOSED")
            => order[o].closedAt

\* Every history row after the first is an edge of the life cycle, whatever the
\* order of the rows.
HistoryRowsAreEdges ==
    \A o \in Orders : \A i \in 1 .. Len(history[o]) :
        LET row == history[o][i]
        IN  IF i = 1 THEN row = [from |-> Unopened, to |-> "RECEIVED"]
                     ELSE <<row.from, row.to>> \in Edges

-----------------------------------------------------------------------------
(***************************************************************************)
(* A system at rest whose requests all ran to the end (MayFail = FALSE),   *)
(* or ran one at a time.                                                   *)
(***************************************************************************)
Moves(o, from, to) ==
    {i \in 1 .. Len(history[o]) : history[o][i] = [from |-> from, to |-> to]}

\* Each estimate issued for an order has its own history row: two requests that
\* issue one at the same time are both on record.
EstimatesAreRecorded ==
    Quiet => \A o \in Orders :
        Cardinality(EstimatesOf(o))
            <= Cardinality(Moves(o, "IN_DIAGNOSIS", "WAITING_APPROVAL"))

\* An approved estimate started the service of its order: the move to
\* IN_EXECUTION is on record.
ApprovalIsRecorded ==
    Quiet => \A e \in Estimates :
        estimate[e].status = "APPROVED"
            => Moves(estimate[e].serviceOrder, "WAITING_APPROVAL", "IN_EXECUTION") # {}

\* The history of an order is the path it went: each row starts where the one
\* before it ended, and the last one ends at the current status.
HistoryIsThePath ==
    Quiet => \A o \in Orders : Opened(o) =>
        /\ history[o] # <<>>
        /\ \A i \in 1 .. Len(history[o]) - 1 : history[o][i].to = history[o][i + 1].from
        /\ history[o][Len(history[o])].to = order[o].status

\* An approved estimate leaves its order in execution or beyond: nothing reopens
\* what the customer has agreed to.
ApprovedIsUnderWay ==
    Quiet => \A e \in Estimates : estimate[e].status = "APPROVED"
        => order[estimate[e].serviceOrder].status
                \in {"IN_EXECUTION", "FINISHED", "DELIVERED", "CLOSED"}

\* The total of an estimate is the sum over all its items.
TotalIsSumOfItems == Quiet => \A e \in Estimates : estimate[e].totalOf = item[e]

\* Rejections never return more of a part than was ever taken.
StockNeverExceedsInitial == \A p \in Parts : stock[p] <= InitialStock[p]

-----------------------------------------------------------------------------
(***************************************************************************)
(* Action properties.                                                      *)
(***************************************************************************)

\* An APPROVED estimate stays APPROVED.
ApprovedIsFinal ==
    [][\A e \in Estimates : estimate[e].status = "APPROVED"
                                => estimate'[e].status = "APPROVED"]_estimate

\* A rejection notified again, of an estimate already REJECTED, changes nothing.
RepeatedRejectionIsIgnored ==
    [][\A r \in Requests :
        Runs(r, "rejectOrderOf") /\ estimate[Head(todo[r]).estimate].status = "REJECTED"
            => todo'[r] \in {todo[r], <<>>}]_todo

\* One request at a time, failing or not: every order goes through its life cycle.
Lifecycle == INSTANCE OrderLifecycle WITH order <- order

ImplementsLifecycle == Lifecycle!Spec
=============================================================================
