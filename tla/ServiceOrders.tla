---------------------------- MODULE ServiceOrders ----------------------------
(***************************************************************************)
(* The service-orders context: the tables it shares (orders, estimates,    *)
(* estimate items, status history, the stock of parts) and the HTTP        *)
(* handlers that change them.                                              *)
(*                                                                         *)
(* A handler is an async function that awaits one database statement at a  *)
(* time and, except for the creation of an order, runs in no transaction:  *)
(* between two of its statements any statement of another request may run, *)
(* on this replica or on another.  A handler loads what it needs, decides, *)
(* and from then on only writes what it has decided.  So its action does   *)
(* the load and the decision and leaves in todo[r] the statements still to *)
(* run, in order; each statement is an action that takes the head of       *)
(* todo[r].  A handler that throws before its first write changes nothing  *)
(* and is no step.  Fail(r) is the end of a request between two statements:*)
(* the pod is killed, or the statement is refused by the database.         *)
(***************************************************************************)
EXTENDS ServiceOrderEntity, Integers, Sequences, FiniteSets

CONSTANTS
    Orders,         \* ids of service orders
    NoOrder,        \* the order of an estimate not issued yet
    Estimates,      \* ids of estimates
    NoEstimate,     \* an estimate id no row has
    Parts,          \* ids of materials used as PART items
    Services,       \* ids of services of the catalog, used as SERVICE items
    InitialStock,   \* stock of each part when the model starts
    Requests,       \* requests that may be in flight together
    Operations,     \* names of the handlers clients call
    MayFail,        \* TRUE: requests may end between two statements
    MaxQuantity,    \* bound: quantity of one item
    MaxHistory      \* bound: history rows of one order

ASSUME ServiceOrdersAssumption ==
    /\ NoOrder \notin Orders
    /\ NoEstimate \notin Estimates
    /\ Parts \cap Services = {}
    /\ InitialStock \in [Parts -> Nat]
    /\ MayFail \in BOOLEAN
    /\ MaxQuantity \in Nat \ {0}
    /\ MaxHistory \in Nat

VARIABLES
    order,      \* the row of each order
    estimate,   \* the row of each estimate: order, status and total
    item,       \* quantity of each reference in each estimate, 0 where no row is
    stock,      \* stock of each part
    history,    \* the status history of each order, oldest row first
    todo        \* the statements each request has yet to run

tables == <<order, estimate, item, stock, history>>
vars == <<order, estimate, item, stock, history, todo>>

-----------------------------------------------------------------------------
(***************************************************************************)
(* Tables and statements.                                                  *)
(***************************************************************************)
References == Parts \cup Services

EstimateStatuses == {"PENDING", "APPROVED", "REJECTED", "NEGOTIATED"}

Unissued == "UNISSUED"

\* The column totalAmount is a sum over items; the model keeps the items it is
\* the sum of, which tells two sums apart exactly when their items differ.
ItemList == [References -> 0 .. MaxQuantity]

NoItems == [ref \in References |-> 0]

EstimateRow == [serviceOrder : Orders \cup {NoOrder},
                status       : EstimateStatuses \cup {Unissued},
                totalOf      : ItemList]

NoEstimateRow ==
    [serviceOrder |-> NoOrder, status |-> Unissued, totalOf |-> NoItems]

HistoryRow == [from : Statuses \cup {Unopened}, to : Statuses]

\* A part item as a request read it: the parts an estimate took from the stock.
PartItem == [estimate : Estimates, part : Parts, quantity : 1 .. MaxQuantity]

Statement ==
         [kind : {"updateOrder"}, order : Orders, row : Order]
    \cup [kind : {"createHistory"}, order : Orders, row : HistoryRow]
    \cup [kind : {"createEstimate"}, order : Orders]
    \cup [kind : {"updateEstimate"}, estimate : Estimates, status : EstimateStatuses]
    \cup [kind : {"rejectEstimates"}, estimates : SUBSET Estimates]
    \cup [kind : {"returnParts"}, items : SUBSET PartItem]
    \cup [kind : {"decide"}, estimate : Estimates, status : {"APPROVED", "REJECTED"},
          items : SUBSET PartItem]
    \cup [kind : {"rejectOrderOf"}, estimate : Estimates]
    \cup [kind : {"decrementStock"}, part : Parts, quantity : 1 .. MaxQuantity]
    \cup [kind : {"createItem"}, estimate : Estimates \cup {NoEstimate},
          ref : References, quantity : 1 .. MaxQuantity]
    \cup [kind : {"sumItems"}, estimate : Estimates]
    \cup [kind : {"writeTotal"}, estimate : Estimates, totalOf : ItemList]

Opened(o) == order[o].status # Unopened

Issued(e) == estimate[e].status # Unissued

EstimatesOf(o) == {e \in Estimates : Issued(e) /\ estimate[e].serviceOrder = o}

PartItemsOf(E) ==
    {i \in PartItem : i.estimate \in E /\ item[i.estimate][i.part] = i.quantity}

-----------------------------------------------------------------------------
(***************************************************************************)
(* Requests.                                                               *)
(***************************************************************************)
Idle(r) == todo[r] = <<>>

Quiet == \A r \in Requests : Idle(r)

\* Every request in flight adds at most one history row.
HistoryRoom(o) ==
    Len(history[o]) + Cardinality({r \in Requests : ~Idle(r)}) < MaxHistory

Begin(r, statements) ==
    /\ todo' = [todo EXCEPT ![r] = statements]
    /\ UNCHANGED tables

Runs(r, kind) == ~Idle(r) /\ Head(todo[r]).kind = kind

Done(r) == todo' = [todo EXCEPT ![r] = Tail(@)]

Throw(r) == todo' = [todo EXCEPT ![r] = <<>>]

\* One pass of a loop over S: it goes on with rest, or the loop is over.
Loop(r, rest, statement) ==
    todo' = [todo EXCEPT ![r] = IF rest = {} THEN Tail(@)
                                             ELSE <<statement>> \o Tail(@)]

LoopOver(S, statement) == IF S = {} THEN <<>> ELSE <<statement>>

Update(o, row) == [kind |-> "updateOrder", order |-> o, row |-> row]

Record(o, from, to) ==
    [kind |-> "createHistory", order |-> o, row |-> [from |-> from, to |-> to]]

RejectEach(E) == LoopOver(E, [kind |-> "rejectEstimates", estimates |-> E])

ReturnEach(items) == LoopOver(items, [kind |-> "returnParts", items |-> items])

-----------------------------------------------------------------------------
(***************************************************************************)
(* Handlers of the order row: load the order, call one method, write the   *)
(* row, add the history row.                                               *)
(***************************************************************************)
\* Mutant: the method runs whatever the status.
MoveOrderUnchecked(r, o, method, actor) ==
    LET loaded == ToDomain(order[o])
    IN  /\ Idle(r) /\ HistoryRoom(o) /\ Opened(o)
        /\ Begin(r, <<Update(o, Apply(loaded, method)),
                      Record(o, loaded.status, ResultOf[method])>>)

\* Mutant: the previous status is taken after the method has run.
MoveOrderLatePrevious(r, o, method, actor) ==
    LET moved == Apply(ToDomain(order[o]), method)
    IN  /\ Idle(r) /\ HistoryRoom(o)
        /\ Allows(ToDomain(order[o]), method, actor)
        /\ Begin(r, <<Update(o, moved), Record(o, moved.status, moved.status)>>)

MoveOrder(r, o, method, actor) ==
    LET loaded == ToDomain(order[o])
    IN  /\ Idle(r) /\ HistoryRoom(o)
        /\ Allows(loaded, method, actor)
        /\ Begin(r, <<Update(o, Apply(loaded, method)),
                      Record(o, loaded.status, ResultOf[method])>>)

StartDiagnosis(r, o) ==
    "startDiagnosis" \in Operations /\ MoveOrder(r, o, "startDiagnosis", NoMechanic)

StartService(r, o) ==
    "startService" \in Operations /\ MoveOrder(r, o, "startService", NoMechanic)

FinishService(r, o, actor) ==
    "finishService" \in Operations /\ MoveOrder(r, o, "finish", actor)

DeliverVehicle(r, o) ==
    "deliverVehicle" \in Operations /\ MoveOrder(r, o, "deliverVehicle", NoMechanic)

CloseServiceOrder(r, o) ==
    "closeServiceOrder" \in Operations /\ MoveOrder(r, o, "close", NoMechanic)

UpdateServiceOrderStatus(r, o, target, actor) ==
    LET loaded == ToDomain(order[o])
    IN  /\ "updateServiceOrderStatus" \in Operations
        /\ target # loaded.status
        /\ MoveOrder(r, o, MethodFor(loaded, target), actor)

AssignMechanicTo(r, o, mechanic) ==
    LET loaded == ToDomain(order[o])
    IN  /\ "assignMechanic" \in Operations
        /\ Idle(r) /\ CanAssignMechanic(loaded)
        /\ Begin(r, <<Update(o, AssignMechanic(loaded, mechanic))>>)

-----------------------------------------------------------------------------
(***************************************************************************)
(* Handlers of the estimates.                                              *)
(***************************************************************************)

\* The insert of the estimate and the update of the order are started together
\* (Promise.all) and land in either order; the history row follows both.
CreateEstimate(r, o) ==
    LET loaded == ToDomain(order[o])
        insert == [kind |-> "createEstimate", order |-> o]
        update == Update(o, Apply(loaded, "requestApproval"))
        record == Record(o, loaded.status, "WAITING_APPROVAL")
    IN  /\ "createEstimate" \in Operations
        /\ Idle(r) /\ HistoryRoom(o)
        /\ Allows(loaded, "requestApproval", NoMechanic)
        /\ \/ Begin(r, <<insert, update, record>>)
           \/ Begin(r, <<update, insert, record>>)

\* Mutant: every estimate of the order is rejected, and its parts returned.
RejectStatementsOfAll(o) ==
    LET loaded == ToDomain(order[o])
    IN  <<Update(o, Apply(loaded, "rejectEstimate"))>>
            \o RejectEach(EstimatesOf(o))
            \o ReturnEach(PartItemsOf(EstimatesOf(o)))
            \o <<Record(o, loaded.status, "IN_DIAGNOSIS")>>

\* Reject the order's estimate: only estimates PENDING at the load are rejected,
\* and the parts returned are those their items held at the load.
RejectStatements(o) ==
    LET loaded  == ToDomain(order[o])
        pending == {e \in EstimatesOf(o) : estimate[e].status = "PENDING"}
    IN  <<Update(o, Apply(loaded, "rejectEstimate"))>>
            \o RejectEach(pending)
            \o ReturnEach(PartItemsOf(pending))
            \o <<Record(o, loaded.status, "IN_DIAGNOSIS")>>

RejectEstimate(r, o) ==
    /\ "rejectEstimate" \in Operations
    /\ Idle(r) /\ HistoryRoom(o)
    /\ Allows(ToDomain(order[o]), "rejectEstimate", NoMechanic)
    /\ Begin(r, RejectStatements(o))

\* Mutant: an APPROVED estimate is changed like any other.
UpdateEstimateStatusReopening(r, e, status) ==
    /\ Idle(r) /\ Issued(e)
    /\ status # estimate[e].status
    /\ \/ /\ status \in {"APPROVED", "REJECTED"}
          /\ HistoryRoom(estimate[e].serviceOrder)
          /\ Begin(r, <<[kind |-> "decide", estimate |-> e, status |-> status,
                         items |-> PartItemsOf({e})]>>)
       \/ /\ status \in {"PENDING", "NEGOTIATED"}
          /\ Begin(r, <<[kind |-> "updateEstimate", estimate |-> e,
                         status |-> status]>>)

\* A status that decides nothing is written at once; APPROVED and REJECTED go
\* on to load the order (DecideEstimate).  The current status again, and any
\* change of an APPROVED estimate, leave everything as it is.
UpdateEstimateStatus(r, e, status) ==
    /\ Idle(r) /\ Issued(e)
    /\ status # estimate[e].status
    /\ estimate[e].status # "APPROVED"
    /\ \/ /\ status \in {"APPROVED", "REJECTED"}
          /\ HistoryRoom(estimate[e].serviceOrder)
          /\ Begin(r, <<[kind |-> "decide", estimate |-> e, status |-> status,
                         items |-> PartItemsOf({e})]>>)
       \/ /\ status \in {"PENDING", "NEGOTIATED"}
          /\ Begin(r, <<[kind |-> "updateEstimate", estimate |-> e,
                         status |-> status]>>)

PatchEstimateStatus(r, e, status) ==
    "patchEstimateStatus" \in Operations /\ UpdateEstimateStatus(r, e, status)

\* The webhook of the customer's decision.  A rejection finds the estimate and
\* then rejects the order it belongs to.
ReceiveExternalDecision(r, e, decision) ==
    /\ "receiveExternalDecision" \in Operations
    /\ \/ decision = "APPROVED" /\ UpdateEstimateStatus(r, e, decision)
       \/ /\ decision = "REJECTED"
          /\ Idle(r) /\ Issued(e) /\ HistoryRoom(estimate[e].serviceOrder)
          /\ Begin(r, <<[kind |-> "rejectOrderOf", estimate |-> e]>>)

\* A part is checked against the stock as loaded; the decrement follows.
AddEstimateItem(r, e, ref, quantity) ==
    LET create == <<[kind |-> "createItem", estimate |-> e, ref |-> ref,
                     quantity |-> quantity]>>
    IN  /\ "addEstimateItem" \in Operations
        /\ Idle(r) /\ (e # NoEstimate => Issued(e))
        /\ \/ ref \in Services /\ Begin(r, create)
           \/ /\ ref \in Parts /\ stock[ref] >= quantity
              /\ Begin(r, <<[kind |-> "decrementStock", part |-> ref,
                             quantity |-> quantity]>> \o create)

-----------------------------------------------------------------------------
(***************************************************************************)
(* Creation of an order: one transaction.  With items it opens the order,  *)
(* starts the diagnosis, issues the estimate and adds every item; it       *)
(* commits if the stock of every part suffices, and else leaves no trace.  *)
(***************************************************************************)
OpenOrder(o) ==
    /\ "createServiceOrder" \in Operations
    /\ ~Opened(o) /\ MaxHistory >= 1
    /\ order' = [order EXCEPT ![o] = OpenedOrder]
    /\ history' = [history EXCEPT ![o] = <<[from |-> Unopened, to |-> "RECEIVED"]>>]
    /\ UNCHANGED <<estimate, item, stock, todo>>

OpenOrderWithItems(o, e, items) ==
    /\ "createServiceOrderWithItems" \in Operations
    /\ ~Opened(o) /\ ~Issued(e) /\ items # NoItems /\ MaxHistory >= 3
    /\ \A p \in Parts : items[p] <= stock[p]
    /\ order' = [order EXCEPT ![o] = Apply(Apply(OpenedOrder, "startDiagnosis"),
                                           "requestApproval")]
    /\ estimate' = [estimate EXCEPT ![e] = [serviceOrder |-> o, status |-> "PENDING",
                                            totalOf |-> items]]
    /\ item' = [item EXCEPT ![e] = items]
    /\ stock' = [p \in Parts |-> stock[p] - items[p]]
    /\ history' = [history EXCEPT ![o] =
                     <<[from |-> Unopened, to |-> "RECEIVED"],
                       [from |-> "RECEIVED", to |-> "IN_DIAGNOSIS"],
                       [from |-> "IN_DIAGNOSIS", to |-> "WAITING_APPROVAL"]>>]
    /\ UNCHANGED todo

-----------------------------------------------------------------------------
(***************************************************************************)
(* Statements.                                                             *)
(***************************************************************************)

\* Mutant: the update writes null where the entity has no closing date.
UpdateOrderNullDate(r) ==
    /\ Runs(r, "updateOrder")
    /\ order' = [order EXCEPT ![Head(todo[r]).order] = Head(todo[r]).row]
    /\ Done(r)
    /\ UNCHANGED <<estimate, item, stock, history>>

\* toUpdateData leaves closedAt undefined, and so untouched, but after close().
UpdateOrder(r) ==
    /\ Runs(r, "updateOrder")
    /\ LET s == Head(todo[r])
       IN  order' = [order EXCEPT ![s.order] =
                       [s.row EXCEPT !.closedAt = s.row.closedAt \/ order[s.order].closedAt]]
    /\ Done(r)
    /\ UNCHANGED <<estimate, item, stock, history>>

\* Mutant: a row equal to the newest one of its order is taken for a duplicate.
CreateStatusHistoryOnce(r) ==
    /\ Runs(r, "createHistory")
    /\ LET s == Head(todo[r])
       IN  history' = IF history[s.order] # <<>>
                            /\ history[s.order][Len(history[s.order])] = s.row
                         THEN history
                         ELSE [history EXCEPT ![s.order] = Append(@, s.row)]
    /\ Done(r)
    /\ UNCHANGED <<order, estimate, item, stock>>

CreateStatusHistory(r) ==
    /\ Runs(r, "createHistory")
    /\ LET s == Head(todo[r])
       IN  history' = [history EXCEPT ![s.order] = Append(@, s.row)]
    /\ Done(r)
    /\ UNCHANGED <<order, estimate, item, stock>>

InsertEstimate(r, e) ==
    /\ Runs(r, "createEstimate")
    /\ ~Issued(e)
    /\ estimate' = [estimate EXCEPT ![e] = [serviceOrder |-> Head(todo[r]).order,
                                            status |-> "PENDING", totalOf |-> NoItems]]
    /\ Done(r)
    /\ UNCHANGED <<order, item, stock, history>>

SetEstimateStatus(r) ==
    /\ Runs(r, "updateEstimate")
    /\ LET s == Head(todo[r])
       IN  estimate' = [estimate EXCEPT ![s.estimate].status = s.status]
    /\ Done(r)
    /\ UNCHANGED <<order, item, stock, history>>

RejectNextEstimate(r, e) ==
    /\ Runs(r, "rejectEstimates")
    /\ e \in Head(todo[r]).estimates
    /\ estimate' = [estimate EXCEPT ![e].status = "REJECTED"]
    /\ LET rest == Head(todo[r]).estimates \ {e}
       IN  Loop(r, rest, [kind |-> "rejectEstimates", estimates |-> rest])
    /\ UNCHANGED <<order, item, stock, history>>

ReturnNextPart(r, i) ==
    /\ Runs(r, "returnParts")
    /\ i \in Head(todo[r]).items
    /\ stock' = [stock EXCEPT ![i.part] = @ + i.quantity]
    /\ LET rest == Head(todo[r]).items \ {i}
       IN  Loop(r, rest, [kind |-> "returnParts", items |-> rest])
    /\ UNCHANGED <<order, estimate, item, history>>

\* The order is loaded only now; the parts are those of the estimate as first
\* loaded.  The estimate is written before the order.
DecisionMethod(status) ==
    IF status = "APPROVED" THEN "startService" ELSE "rejectEstimate"

\* Mutant: a decision is recorded only if it is a rejection.
DecisionStatementsUnrecorded(o, s) ==
    LET loaded == ToDomain(order[o])
        method == DecisionMethod(s.status)
    IN  <<[kind |-> "updateEstimate", estimate |-> s.estimate, status |-> s.status],
          Update(o, Apply(loaded, method))>>
            \o (IF s.status = "REJECTED"
                THEN ReturnEach(s.items) \o <<Record(o, loaded.status, ResultOf[method])>>
                ELSE <<>>)

DecisionStatements(o, s) ==
    LET loaded == ToDomain(order[o])
        method == DecisionMethod(s.status)
    IN  <<[kind |-> "updateEstimate", estimate |-> s.estimate, status |-> s.status],
          Update(o, Apply(loaded, method))>>
            \o (IF s.status = "REJECTED" THEN ReturnEach(s.items) ELSE <<>>)
            \o <<Record(o, loaded.status, ResultOf[method])>>

DecideEstimate(r) ==
    /\ Runs(r, "decide")
    /\ LET s == Head(todo[r])
           o == estimate[s.estimate].serviceOrder
       IN  IF Allows(ToDomain(order[o]), DecisionMethod(s.status), NoMechanic)
           THEN Begin(r, DecisionStatements(o, s))
           ELSE Throw(r) /\ UNCHANGED tables

RejectOrderOf(r) ==
    /\ Runs(r, "rejectOrderOf")
    /\ LET o == estimate[Head(todo[r]).estimate].serviceOrder
       IN  IF Allows(ToDomain(order[o]), "rejectEstimate", NoMechanic)
           THEN Begin(r, RejectStatements(o))
           ELSE Throw(r) /\ UNCHANGED tables

\* Mutant: the update relies on the check made when the part was loaded.
DecrementStockUnconditionally(r) ==
    /\ Runs(r, "decrementStock")
    /\ LET s == Head(todo[r])
       IN  Done(r) /\ stock' = [stock EXCEPT ![s.part] = @ - s.quantity]
    /\ UNCHANGED <<order, estimate, item, history>>

\* One conditional update: it takes the quantity if the stock still has it.
DecrementStock(r) ==
    /\ Runs(r, "decrementStock")
    /\ LET s == Head(todo[r])
       IN  IF stock[s.part] >= s.quantity
           THEN Done(r) /\ stock' = [stock EXCEPT ![s.part] = @ - s.quantity]
           ELSE Throw(r) /\ UNCHANGED stock
    /\ UNCHANGED <<order, estimate, item, history>>

\* Mutant: an item added again adds its quantity to the row.
CreateItemAdding(r) ==
    /\ Runs(r, "createItem")
    /\ LET s == Head(todo[r])
       IN  IF s.estimate \in Estimates
           THEN /\ item' = [item EXCEPT ![s.estimate][s.ref] = @ + s.quantity]
                /\ todo' = [todo EXCEPT ![r] = <<[kind |-> "sumItems",
                                                  estimate |-> s.estimate]>>]
           ELSE Throw(r) /\ UNCHANGED item
    /\ UNCHANGED <<order, estimate, stock, history>>

\* Mutant: the total is left as it is.
CreateItemWithoutTotal(r) ==
    /\ Runs(r, "createItem")
    /\ LET s == Head(todo[r])
       IN  /\ s.estimate \in Estimates /\ item[s.estimate][s.ref] = 0
           /\ item' = [item EXCEPT ![s.estimate][s.ref] = s.quantity]
    /\ Done(r)
    /\ UNCHANGED <<order, estimate, stock, history>>

\* The row needs its estimate and is unique per estimate and reference.
CreateItem(r) ==
    /\ Runs(r, "createItem")
    /\ LET s == Head(todo[r])
       IN  IF s.estimate \in Estimates /\ item[s.estimate][s.ref] = 0
           THEN /\ item' = [item EXCEPT ![s.estimate][s.ref] = s.quantity]
                /\ todo' = [todo EXCEPT ![r] = <<[kind |-> "sumItems",
                                                  estimate |-> s.estimate]>>]
           ELSE Throw(r) /\ UNCHANGED item
    /\ UNCHANGED <<order, estimate, stock, history>>

SumItems(r) ==
    /\ Runs(r, "sumItems")
    /\ LET e == Head(todo[r]).estimate
       IN  Begin(r, <<[kind |-> "writeTotal", estimate |-> e, totalOf |-> item[e]]>>)

WriteTotal(r) ==
    /\ Runs(r, "writeTotal")
    /\ LET s == Head(todo[r])
       IN  estimate' = [estimate EXCEPT ![s.estimate].totalOf = s.totalOf]
    /\ Done(r)
    /\ UNCHANGED <<order, item, stock, history>>

Fail(r) ==
    /\ MayFail /\ ~Idle(r)
    /\ Throw(r)
    /\ UNCHANGED tables

-----------------------------------------------------------------------------
TypeOK ==
    /\ order \in [Orders -> Order]
    /\ estimate \in [Estimates -> EstimateRow]
    /\ item \in [Estimates -> ItemList]
    /\ stock \in [Parts -> Int]
    /\ history \in [Orders -> Seq(HistoryRow)]
    /\ todo \in [Requests -> Seq(Statement)]

Init ==
    /\ order = [o \in Orders |-> NoOrderRow]
    /\ estimate = [e \in Estimates |-> NoEstimateRow]
    /\ item = [e \in Estimates |-> NoItems]
    /\ stock = InitialStock
    /\ history = [o \in Orders |-> <<>>]
    /\ todo = [r \in Requests |-> <<>>]

Handle(r) ==
    \/ \E o \in Orders :
        \/ StartDiagnosis(r, o)
        \/ StartService(r, o)
        \/ DeliverVehicle(r, o)
        \/ CloseServiceOrder(r, o)
        \/ CreateEstimate(r, o)
        \/ RejectEstimate(r, o)
        \/ \E mechanic \in Mechanics : AssignMechanicTo(r, o, mechanic)
        \/ \E actor \in Actors :
            \/ FinishService(r, o, actor)
            \/ \E target \in UpdateTargets : UpdateServiceOrderStatus(r, o, target, actor)
    \/ \E e \in Estimates :
        \/ \E status \in EstimateStatuses : PatchEstimateStatus(r, e, status)
        \/ \E decision \in {"APPROVED", "REJECTED"} : ReceiveExternalDecision(r, e, decision)
    \/ \E e \in Estimates \cup {NoEstimate}, ref \in References, q \in 1 .. MaxQuantity :
        AddEstimateItem(r, e, ref, q)

Run(r) ==
    \/ UpdateOrder(r)
    \/ CreateStatusHistory(r)
    \/ \E e \in Estimates : InsertEstimate(r, e) \/ RejectNextEstimate(r, e)
    \/ SetEstimateStatus(r)
    \/ \E i \in PartItem : ReturnNextPart(r, i)
    \/ DecideEstimate(r)
    \/ RejectOrderOf(r)
    \/ DecrementStock(r)
    \/ CreateItem(r)
    \/ SumItems(r)
    \/ WriteTotal(r)
    \/ Fail(r)

Next ==
    \/ \E r \in Requests : Handle(r) \/ Run(r)
    \/ \E o \in Orders : OpenOrder(o)
    \/ \E o \in Orders, e \in Estimates, items \in ItemList : OpenOrderWithItems(o, e, items)

Spec == Init /\ [][Next]_vars
=============================================================================
