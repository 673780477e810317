------------------------- MODULE ServiceOrdersProofs -------------------------
(***************************************************************************)
(* Type correctness and the safety invariants of ServiceOrders that hold   *)
(* however requests interleave and wherever they fail, for every value of  *)
(* the constants.                                                          *)
(*                                                                         *)
(* None of them is inductive by itself: a statement waiting in todo may    *)
(* write, long after it was decided, what the invariant forbids.  So the   *)
(* inductive invariant IInv says of every statement still to run that it   *)
(* is sound: what it will write is allowed whatever the tables are then,   *)
(* and the rows it will write exist.                                       *)
(***************************************************************************)
EXTENDS ServiceOrdersProperties, TLAPS

Finished == {"FINISHED", "DELIVERED", "CLOSED"}

\* A row that says the work is finished names a mechanic.
NamesMechanic(row) == row.status \in Finished => row.mechanicId \in Mechanics

\* A CLOSED row has its closing date.
IsDated(row) == row.status = "CLOSED" => row.closedAt

\* What a statement still to run writes is allowed: the order is never unopened
\* again, the history row is an edge, and it records a closing only of an order
\* that has its closing date.
Sound(s) ==
    /\ s.kind = "updateOrder"
        => Opened(s.order) /\ s.row.status # Unopened /\ NamesMechanic(s.row) /\ IsDated(s.row)
    /\ s.kind = "createHistory"
        => /\ Opened(s.order) /\ <<s.row.from, s.row.to>> \in Edges
           /\ s.row.to = "CLOSED" => order[s.order].closedAt
    /\ s.kind \in {"updateEstimate", "decide", "rejectOrderOf"}
        => Issued(s.estimate)
    /\ s.kind = "rejectEstimates"
        => \A e \in s.estimates : Issued(e)

SoundStatements == {s \in Statement : Sound(s)}

TablesTyped ==
    /\ order \in [Orders -> Order]
    /\ estimate \in [Estimates -> EstimateRow]
    /\ item \in [Estimates -> ItemList]
    /\ stock \in [Parts -> Int]
    /\ history \in [Orders -> Seq(HistoryRow)]

OrdersSound == \A o \in Orders : NamesMechanic(order[o]) /\ IsDated(order[o])

EstimatesSound == \A e \in Estimates : Issued(e) => estimate[e].serviceOrder \in Orders

HistorySound ==
    /\ \A o \in Orders : Opened(o) => history[o] # <<>>
    /\ HistoryRowsAreEdges
    /\ \A o \in Orders : \A i \in 1 .. Len(history[o]) :
            history[o][i].to = "CLOSED" => order[o].closedAt

\* The one plan that is not sound statement by statement: its first statement sets
\* the closing date that makes the second one sound.
ClosingPlans ==
    {<<Update(o, row), Record(o, "DELIVERED", "CLOSED")>> :
        o \in {p \in Orders : Opened(p)},
        row \in {x \in Order : x.closedAt /\ x.status # Unopened /\ NamesMechanic(x)}}

Plans == Seq(SoundStatements) \cup ClosingPlans

TodoSound == todo \in [Requests -> Plans]

IInv ==
    /\ TablesTyped
    /\ OrdersSound
    /\ EstimatesSound
    /\ HistorySound
    /\ StockNeverNegative
    /\ TodoSound

-----------------------------------------------------------------------------
(***************************************************************************)
(* Sequences of statements.                                                *)
(***************************************************************************)

\* A sequence over a set is one over every larger set.
LEMMA SeqOfLarger == ASSUME NEW S, NEW T, S \subseteq T PROVE Seq(S) \subseteq Seq(T)
OBVIOUS

\* What is left of a sequence when its head is taken.
LEMMA HeadAndTail ==
    ASSUME NEW S, NEW q \in Seq(S), q # <<>>
    PROVE  Head(q) \in S /\ Tail(q) \in Seq(S)
OBVIOUS

\* One statement put before a sequence.
LEMMA PutFirst ==
    ASSUME NEW S, NEW s \in S, NEW q \in Seq(S)
    PROVE  <<s>> \o q \in Seq(S)
OBVIOUS

LEMMA Short ==
    ASSUME NEW S, NEW s \in S, NEW t \in S, NEW u \in S
    PROVE  <<>> \in Seq(S) /\ <<s>> \in Seq(S) /\ <<s, t>> \in Seq(S) /\ <<s, t, u>> \in Seq(S)
OBVIOUS

-----------------------------------------------------------------------------
(***************************************************************************)
(* What may happen to todo.                                                *)
(***************************************************************************)

\* Orders stay opened and keep their closing date, and estimates stay issued.
Growing ==
    /\ \A o \in Orders : Opened(o) => Opened(o)' /\ (order[o].closedAt => order'[o].closedAt)
    /\ \A e \in Estimates : Issued(e) => Issued(e)'

\* A sound statement stays sound while the tables grow.
LEMMA StaysSound == ASSUME Growing PROVE SoundStatements \subseteq SoundStatements'
<1> SUFFICES ASSUME NEW s \in Statement, Sound(s) PROVE Sound(s)'
  BY DEF SoundStatements
<1>1. s.kind \in {"updateOrder", "createHistory"} => s.order \in Orders
  BY DEF Statement
<1>2. s.kind \in {"updateEstimate", "decide", "rejectOrderOf"} => s.estimate \in Estimates
  BY DEF Statement
<1>3. s.kind = "rejectEstimates" => s.estimates \subseteq Estimates
  BY DEF Statement
<1> QED BY <1>1, <1>2, <1>3 DEF Sound, Growing

\* A closing plan stays one while the tables grow.
LEMMA StaysPlanned == ASSUME Growing PROVE Plans \subseteq Plans'
<1>1. Seq(SoundStatements) \subseteq Seq(SoundStatements')
  BY StaysSound, SeqOfLarger
<1>2. ClosingPlans \subseteq ClosingPlans'
  BY DEF ClosingPlans, Growing
<1> QED BY <1>1, <1>2 DEF Plans

\* A request goes on with a plan.
LEMMA TodoStep ==
    ASSUME TodoSound, Growing, NEW r \in Requests, NEW q \in Plans',
           todo' = [todo EXCEPT ![r] = q]
    PROVE  TodoSound'
<1>1. Plans \subseteq Plans'
  BY StaysPlanned
<1> QED BY <1>1 DEF TodoSound

\* A request goes on with statements that are sound already.
LEMMA SoundTodoStep ==
    ASSUME TodoSound, Growing, NEW r \in Requests, NEW q \in Seq(SoundStatements),
           todo' = [todo EXCEPT ![r] = q]
    PROVE  TodoSound'
<1>1. q \in Plans'
  BY StaysPlanned DEF Plans
<1> QED BY <1>1, TodoStep

\* A statement leaves the tables as they are and the rest of the invariant with them.
LEMMA TablesKept ==
    ASSUME IInv, UNCHANGED tables, NEW r \in Requests, NEW q \in Plans,
           todo' = [todo EXCEPT ![r] = q]
    PROVE  IInv'
<1> USE DEF tables
<1>1. Growing
  BY DEF Growing, Opened, Issued
<1>2. TodoSound'
  BY <1>1, StaysPlanned, TodoStep DEF IInv
<1>3. TablesTyped' /\ OrdersSound' /\ EstimatesSound' /\ StockNeverNegative'
  BY DEF IInv, TablesTyped, OrdersSound, EstimatesSound, StockNeverNegative, Issued
<1>4. HistorySound'
  BY DEF IInv, HistorySound, HistoryRowsAreEdges, Opened
<1> QED BY <1>2, <1>3, <1>4 DEF IInv

\* A closing plan is never empty and starts with the write of its order.
LEMMA ClosingPlanHead ==
    ASSUME NEW q \in ClosingPlans
    PROVE  \E o \in Orders, row \in Order :
              /\ Opened(o) /\ row.closedAt /\ row.status # Unopened /\ NamesMechanic(row)
              /\ q # <<>> /\ Head(q) = Update(o, row)
              /\ Tail(q) = <<Record(o, "DELIVERED", "CLOSED")>>
<1>1. PICK o \in {p \in Orders : Opened(p)},
           row \in {x \in Order : x.closedAt /\ x.status # Unopened /\ NamesMechanic(x)} :
              q = <<Update(o, row), Record(o, "DELIVERED", "CLOSED")>>
  BY DEF ClosingPlans
<1>2. /\ q # <<>> /\ Head(q) = Update(o, row)
      /\ Tail(q) = <<Record(o, "DELIVERED", "CLOSED")>>
  BY <1>1
<1> QED BY <1>1, <1>2

\* The statement a request runs next, and those after it.
LEMMA NextStatement ==
    ASSUME TodoSound, NEW r \in Requests, NEW kind, Runs(r, kind)
    PROVE  /\ Head(todo[r]) \in Statement
           /\ Sound(Head(todo[r]))
           /\ Head(todo[r]).kind = kind
           /\ kind # "updateOrder" => Tail(todo[r]) \in Seq(SoundStatements)
<1>1. todo[r] \in Plans /\ todo[r] # <<>> /\ Head(todo[r]).kind = kind
  BY DEF TodoSound, Runs, Idle
<1>2. CASE todo[r] \in Seq(SoundStatements)
  <2>1. Head(todo[r]) \in SoundStatements /\ Tail(todo[r]) \in Seq(SoundStatements)
    BY <1>1, <1>2, HeadAndTail
  <2> QED BY <2>1, <1>1 DEF SoundStatements
<1>3. CASE todo[r] \in ClosingPlans
  <2>1. PICK o \in Orders, row \in Order :
              /\ Opened(o) /\ row.closedAt /\ row.status # Unopened /\ NamesMechanic(row)
              /\ Head(todo[r]) = Update(o, row)
    BY <1>3, ClosingPlanHead
  <2>2. Update(o, row) \in SoundStatements /\ Update(o, row).kind = "updateOrder"
    BY <2>1 DEF Update, SoundStatements, Statement, Sound, IsDated
  <2> QED BY <2>1, <2>2, <1>1 DEF SoundStatements
<1> QED BY <1>1, <1>2, <1>3 DEF Plans

-----------------------------------------------------------------------------
(***************************************************************************)
(* What the handlers decide to write is sound.                             *)
(***************************************************************************)

\* Each method goes from a status it expects to its result: an edge.
LEMMA EdgeOfMethod ==
    ASSUME NEW method \in Methods, NEW from \in ExpectedIn[method]
    PROVE  /\ <<from, ResultOf[method]>> \in Edges
           /\ from \in Statuses
           /\ ResultOf[method] \in Statuses
<1>1. from \in Statuses /\ ResultOf[method] \in Statuses
  BY DEF Methods, ExpectedIn, ResultOf, Statuses
<1> QED BY <1>1 DEF Edges

\* The entity loaded from a row names its mechanic if the row does.
LEMMA LoadedIsSound ==
    ASSUME NEW row \in Order, NamesMechanic(row)
    PROVE  /\ ToDomain(row) \in Order
           /\ NamesMechanic(ToDomain(row))
           /\ ToDomain(row).status = row.status
BY DEF ToDomain, Order, NamesMechanic

\* A method writes the status and the closing date, not the mechanic.
LEMMA ApplyTyped ==
    ASSUME NEW row \in Order, NEW method \in Methods
    PROVE  /\ Apply(row, method) \in Order
           /\ Apply(row, method).status = ResultOf[method]
           /\ Apply(row, method).mechanicId = row.mechanicId
           /\ Apply(row, method).closedAt = (method = "close")
<1>1. ResultOf[method] \in Statuses /\ (method = "close") \in BOOLEAN
  BY DEF ResultOf, Methods, Statuses
<1> QED BY <1>1 DEF Apply, Order

\* A method that the order allows keeps a mechanic named: finish(), the only way
\* into FINISHED, refuses an order without one.
LEMMA MoveIsSound ==
    ASSUME NEW row \in Order, NamesMechanic(row), NEW method \in Methods, NEW actor,
           Allows(row, method, actor)
    PROVE  /\ Apply(row, method) \in Order
           /\ Apply(row, method).status \in Statuses
           /\ NamesMechanic(Apply(row, method))
           /\ IsDated(Apply(row, method))
<1> DEFINE moved == Apply(row, method)
<1>1. ResultOf[method] \in Statuses
  BY DEF ResultOf, Methods, Statuses
<1>2. moved \in Order /\ moved.mechanicId = row.mechanicId /\ moved.status = ResultOf[method]
  BY ApplyTyped
<1>3. NamesMechanic(moved)
  <2>1. CASE method = "finish"
    BY <2>1, <1>2 DEF Allows, IsAssignedTo, Order, NamesMechanic
  <2>2. CASE method # "finish"
    BY <2>2, <1>2 DEF Allows, NamesMechanic, Finished, ExpectedIn, ResultOf, Methods
  <2> QED BY <2>1, <2>2
<1>4. IsDated(moved)
  <2>1. ResultOf[method] = "CLOSED" => method = "close"
    BY DEF ResultOf, Methods
  <2>2. moved.closedAt = (method = "close")
    BY ApplyTyped
  <2> QED BY <2>1, <2>2, <1>2, Zenon DEF IsDated
<1> QED BY <1>1, <1>2, <1>3, <1>4

\* A write of an opened order.
LEMMA UpdateIsSound ==
    ASSUME NEW o \in Orders, Opened(o), NEW row \in Order, row.status # Unopened,
           NamesMechanic(row), IsDated(row)
    PROVE  Update(o, row) \in SoundStatements
BY DEF Update, SoundStatements, Statement, Sound

\* A history row of an opened order that is an edge and does not close it.
LEMMA RecordIsSound ==
    ASSUME NEW o \in Orders, Opened(o), NEW from \in Statuses, NEW to \in Statuses,
           <<from, to>> \in Edges, to # "CLOSED"
    PROVE  Record(o, from, to) \in SoundStatements
BY DEF Record, SoundStatements, Statement, Sound, HistoryRow

\* The two statements of a move: the write of the order and its history row.  Only
\* close() records a closing, and its write sets the date first.
LEMMA MoveStatements ==
    ASSUME IInv, NEW o \in Orders, NEW method \in Methods, NEW actor,
           Allows(ToDomain(order[o]), method, actor)
    PROVE  LET loaded == ToDomain(order[o])
               update == Update(o, Apply(loaded, method))
               record == Record(o, loaded.status, ResultOf[method])
           IN  /\ update \in SoundStatements
               /\ IF method = "close" THEN <<update, record>> \in ClosingPlans
                                      ELSE record \in SoundStatements
<1> DEFINE loaded == ToDomain(order[o])
<1>1. loaded \in Order /\ NamesMechanic(loaded) /\ loaded.status = order[o].status
  BY LoadedIsSound DEF IInv, TablesTyped, OrdersSound
<1>2. loaded.status \in ExpectedIn[method]
  BY DEF Allows
<1>3. /\ <<loaded.status, ResultOf[method]>> \in Edges
      /\ loaded.status \in Statuses
      /\ ResultOf[method] \in Statuses
  BY <1>2, EdgeOfMethod
<1>4. Opened(o) /\ Unopened \notin Statuses
  BY <1>1, <1>3 DEF Opened, Statuses, Unopened
<1>5. Update(o, Apply(loaded, method)) \in SoundStatements
  BY <1>1, <1>4, MoveIsSound, UpdateIsSound
<1>6. CASE method # "close"
  <2>1. ResultOf[method] # "CLOSED"
    BY <1>6 DEF ResultOf, Methods
  <2> QED BY <2>1, <1>3, <1>4, <1>5, <1>6, RecordIsSound
<1>7. CASE method = "close"
  <2>1. loaded.status = "DELIVERED" /\ ResultOf[method] = "CLOSED"
    BY <1>2, <1>7 DEF ExpectedIn, ResultOf
  <2>2. Apply(loaded, method).closedAt
    BY <1>1, <1>7, ApplyTyped
  <2>3. /\ Apply(loaded, method) \in Order
        /\ Apply(loaded, method).status # Unopened
        /\ NamesMechanic(Apply(loaded, method))
    BY <1>1, <1>4, MoveIsSound
  <2> QED BY <2>1, <2>2, <2>3, <1>4, <1>5, <1>7 DEF ClosingPlans
<1> QED BY <1>6, <1>7

\* Two sequences one after the other.
LEMMA Joined ==
    ASSUME NEW S, NEW p \in Seq(S), NEW q \in Seq(S)
    PROVE  p \o q \in Seq(S)
OBVIOUS

\* Loops over rows that exist.
LEMMA RejectEachIsSound ==
    ASSUME NEW E \in SUBSET Estimates, \A e \in E : Issued(e)
    PROVE  RejectEach(E) \in Seq(SoundStatements)
<1>1. [kind |-> "rejectEstimates", estimates |-> E] \in SoundStatements
  BY DEF SoundStatements, Statement, Sound
<1> QED BY <1>1, Short DEF RejectEach, LoopOver

LEMMA ReturnEachIsSound ==
    ASSUME NEW items \in SUBSET PartItem
    PROVE  ReturnEach(items) \in Seq(SoundStatements)
<1>1. [kind |-> "returnParts", items |-> items] \in SoundStatements
  BY DEF SoundStatements, Statement, Sound
<1> QED BY <1>1, Short DEF ReturnEach, LoopOver

\* The rejection of an order's estimate.
LEMMA RejectStatementsAreSound ==
    ASSUME IInv, NEW o \in Orders, Allows(ToDomain(order[o]), "rejectEstimate", NoMechanic)
    PROVE  RejectStatements(o) \in Seq(SoundStatements)
<1> DEFINE loaded  == ToDomain(order[o])
           pending == {e \in EstimatesOf(o) : estimate[e].status = "PENDING"}
           update  == Update(o, Apply(loaded, "rejectEstimate"))
           record  == Record(o, loaded.status, "IN_DIAGNOSIS")
<1>1. "rejectEstimate" \in Methods /\ ResultOf["rejectEstimate"] = "IN_DIAGNOSIS"
  BY DEF Methods, ResultOf
<1>2. update \in SoundStatements /\ record \in SoundStatements
  BY <1>1, MoveStatements
<1>3. RejectEach(pending) \in Seq(SoundStatements)
  BY RejectEachIsSound DEF EstimatesOf
<1>4. ReturnEach(PartItemsOf(pending)) \in Seq(SoundStatements)
  BY ReturnEachIsSound DEF PartItemsOf
<1> HIDE DEF loaded, pending, update, record
<1>5. <<update>> \o RejectEach(pending) \in Seq(SoundStatements)
  BY <1>2, <1>3, Short, Joined
<1>6. <<update>> \o RejectEach(pending) \o ReturnEach(PartItemsOf(pending))
        \in Seq(SoundStatements)
  BY <1>4, <1>5, Joined
<1>7. <<update>> \o RejectEach(pending) \o ReturnEach(PartItemsOf(pending)) \o <<record>>
        \in Seq(SoundStatements)
  BY <1>2, <1>6, Short, Joined
<1> QED BY <1>7 DEF RejectStatements, loaded, pending, update, record

\* The decision of an estimate, once its order is loaded.
LEMMA DecisionStatementsAreSound ==
    ASSUME IInv, NEW o \in Orders, NEW s \in Statement, s.kind = "decide", Issued(s.estimate),
           Allows(ToDomain(order[o]), DecisionMethod(s.status), NoMechanic)
    PROVE  DecisionStatements(o, s) \in Seq(SoundStatements)
<1> DEFINE loaded == ToDomain(order[o])
           method == DecisionMethod(s.status)
           set    == [kind |-> "updateEstimate", estimate |-> s.estimate, status |-> s.status]
           update == Update(o, Apply(loaded, method))
           back   == IF s.status = "REJECTED" THEN ReturnEach(s.items) ELSE <<>>
           record == Record(o, loaded.status, ResultOf[method])
<1>1. /\ s.estimate \in Estimates
      /\ s.status \in {"APPROVED", "REJECTED"}
      /\ s.items \in SUBSET PartItem
  BY DEF Statement
<1>2. method \in Methods \ {"close"}
  BY DEF DecisionMethod, Methods
<1>3. update \in SoundStatements /\ record \in SoundStatements
  BY <1>2, MoveStatements
<1>4. set \in SoundStatements
  BY <1>1 DEF SoundStatements, Statement, Sound, EstimateStatuses
<1>5. back \in Seq(SoundStatements)
  BY <1>1, ReturnEachIsSound, Short
<1> HIDE DEF loaded, method, set, update, back, record
<1>6. <<set, update>> \in Seq(SoundStatements) /\ <<record>> \in Seq(SoundStatements)
  BY <1>3, <1>4, Short
<1>7. <<set, update>> \o back \in Seq(SoundStatements)
  BY <1>5, <1>6, Joined
<1>8. <<set, update>> \o back \o <<record>> \in Seq(SoundStatements)
  BY <1>6, <1>7, Joined
<1> QED BY <1>8 DEF DecisionStatements, loaded, method, set, update, back, record

-----------------------------------------------------------------------------
(***************************************************************************)
(* The handlers: each leaves the tables alone and sound statements to run. *)
(***************************************************************************)

\* A handler begins with a plan.
LEMMA BeginPlanStep ==
    ASSUME IInv, NEW r \in Requests, NEW q \in Plans, Begin(r, q)
    PROVE  IInv'
BY TablesKept DEF Begin

LEMMA BeginStep ==
    ASSUME IInv, NEW r \in Requests, NEW q \in Seq(SoundStatements), Begin(r, q)
    PROVE  IInv'
BY BeginPlanStep DEF Plans

LEMMA MoveOrderStep ==
    ASSUME IInv, NEW r \in Requests, NEW o \in Orders, NEW method \in Methods, NEW actor,
           MoveOrder(r, o, method, actor)
    PROVE  IInv'
<1> DEFINE loaded == ToDomain(order[o])
           update == Update(o, Apply(loaded, method))
           record == Record(o, loaded.status, ResultOf[method])
<1>1. Allows(loaded, method, actor) /\ Begin(r, <<update, record>>)
  BY DEF MoveOrder
<1>2. /\ update \in SoundStatements
      /\ IF method = "close" THEN <<update, record>> \in ClosingPlans
                             ELSE record \in SoundStatements
  BY <1>1, MoveStatements
<1> HIDE DEF loaded, update, record
<1>3. <<update, record>> \in Plans
  BY <1>2, Short DEF Plans
<1> QED BY <1>1, <1>3, BeginPlanStep

LEMMA AssignMechanicStep ==
    ASSUME IInv, NEW r \in Requests, NEW o \in Orders, NEW mechanic \in Mechanics,
           AssignMechanicTo(r, o, mechanic)
    PROVE  IInv'
<1> DEFINE loaded == ToDomain(order[o])
           row    == AssignMechanic(loaded, mechanic)
<1>1. loaded.status = "RECEIVED" /\ Begin(r, <<Update(o, row)>>)
  BY DEF AssignMechanicTo, CanAssignMechanic
<1>2. loaded \in Order /\ loaded.status = order[o].status
  BY LoadedIsSound DEF IInv, TablesTyped, OrdersSound
<1>3. row \in Order /\ row.status = "RECEIVED"
  BY <1>1, <1>2 DEF AssignMechanic, Order
<1>4. Opened(o) /\ row.status # Unopened /\ NamesMechanic(row) /\ IsDated(row)
  BY <1>1, <1>2, <1>3 DEF Opened, Unopened, NamesMechanic, Finished, IsDated
<1>5. Update(o, row) \in SoundStatements
  BY <1>3, <1>4, UpdateIsSound
<1>6. <<Update(o, row)>> \in Seq(SoundStatements)
  BY <1>5, Short
<1> QED BY <1>1, <1>6, BeginStep

LEMMA CreateEstimateStep ==
    ASSUME IInv, NEW r \in Requests, NEW o \in Orders, CreateEstimate(r, o)
    PROVE  IInv'
<1> DEFINE loaded == ToDomain(order[o])
           insert == [kind |-> "createEstimate", order |-> o]
           update == Update(o, Apply(loaded, "requestApproval"))
           record == Record(o, loaded.status, "WAITING_APPROVAL")
<1>1. /\ Allows(loaded, "requestApproval", NoMechanic)
      /\ Begin(r, <<insert, update, record>>) \/ Begin(r, <<update, insert, record>>)
  BY DEF CreateEstimate
<1>2. "requestApproval" \in Methods /\ ResultOf["requestApproval"] = "WAITING_APPROVAL"
  BY DEF Methods, ResultOf
<1>3. update \in SoundStatements /\ record \in SoundStatements
  BY <1>1, <1>2, MoveStatements
<1>4. insert \in SoundStatements
  BY DEF SoundStatements, Statement, Sound
<1> HIDE DEF loaded, insert, update, record
<1>5. /\ <<insert, update, record>> \in Seq(SoundStatements)
      /\ <<update, insert, record>> \in Seq(SoundStatements)
  BY <1>3, <1>4, Short
<1> QED BY <1>1, <1>5, BeginStep

LEMMA UpdateEstimateStatusStep ==
    ASSUME IInv, NEW r \in Requests, NEW e \in Estimates, NEW status \in EstimateStatuses,
           UpdateEstimateStatus(r, e, status)
    PROVE  IInv'
<1> DEFINE decide == [kind |-> "decide", estimate |-> e, status |-> status,
                      items |-> PartItemsOf({e})]
           set    == [kind |-> "updateEstimate", estimate |-> e, status |-> status]
<1>1. /\ Issued(e)
      /\ \/ status \in {"APPROVED", "REJECTED"} /\ Begin(r, <<decide>>)
         \/ Begin(r, <<set>>)
  BY DEF UpdateEstimateStatus
<1>2. status \in {"APPROVED", "REJECTED"} => decide \in SoundStatements
  BY <1>1 DEF SoundStatements, Statement, Sound, PartItemsOf
<1>3. set \in SoundStatements
  BY <1>1 DEF SoundStatements, Statement, Sound
<1> HIDE DEF decide, set
<1>4. CASE status \in {"APPROVED", "REJECTED"} /\ Begin(r, <<decide>>)
  <2>1. <<decide>> \in Seq(SoundStatements)
    BY <1>2, <1>4, Short
  <2> QED BY <2>1, <1>4, BeginStep
<1>5. CASE Begin(r, <<set>>)
  <2>1. <<set>> \in Seq(SoundStatements)
    BY <1>3, Short
  <2> QED BY <2>1, <1>5, BeginStep
<1> QED BY <1>1, <1>4, <1>5

LEMMA ReceiveExternalDecisionStep ==
    ASSUME IInv, NEW r \in Requests, NEW e \in Estimates,
           NEW decision \in {"APPROVED", "REJECTED"}, ReceiveExternalDecision(r, e, decision)
    PROVE  IInv'
<1> DEFINE reject == [kind |-> "rejectOrderOf", estimate |-> e]
<1>1. CASE UpdateEstimateStatus(r, e, decision)
  BY <1>1, UpdateEstimateStatusStep DEF EstimateStatuses
<1>2. CASE Issued(e) /\ Begin(r, <<reject>>)
  <2>1. reject \in SoundStatements
    BY <1>2 DEF SoundStatements, Statement, Sound
  <2>2. <<reject>> \in Seq(SoundStatements)
    BY <2>1, Short
  <2> QED BY <1>2, <2>2, BeginStep
<1> QED BY <1>1, <1>2 DEF ReceiveExternalDecision

LEMMA AddEstimateItemStep ==
    ASSUME IInv, NEW r \in Requests, NEW e \in Estimates \cup {NoEstimate},
           NEW ref \in References, NEW q \in 1 .. MaxQuantity, AddEstimateItem(r, e, ref, q)
    PROVE  IInv'
<1> DEFINE create == [kind |-> "createItem", estimate |-> e, ref |-> ref, quantity |-> q]
           take   == [kind |-> "decrementStock", part |-> ref, quantity |-> q]
<1>1. \/ Begin(r, <<create>>)
      \/ ref \in Parts /\ Begin(r, <<take>> \o <<create>>)
  BY DEF AddEstimateItem
<1>2. create \in SoundStatements
  BY DEF SoundStatements, Statement, Sound
<1>3. ref \in Parts => take \in SoundStatements
  BY DEF SoundStatements, Statement, Sound
<1> HIDE DEF create, take
<1>4. <<create>> \in Seq(SoundStatements)
  BY <1>2, Short
<1>5. ref \in Parts => <<take>> \o <<create>> \in Seq(SoundStatements)
  BY <1>3, <1>4, PutFirst
<1> QED BY <1>1, <1>4, <1>5, BeginStep

\* Every handler.
LEMMA HandleStep ==
    ASSUME IInv, NEW r \in Requests, Handle(r)
    PROVE  IInv'
<1>1. ASSUME NEW o \in Orders,
             \/ StartDiagnosis(r, o)
             \/ StartService(r, o)
             \/ DeliverVehicle(r, o)
             \/ CloseServiceOrder(r, o)
      PROVE  IInv'
  BY <1>1, MoveOrderStep
     DEF StartDiagnosis, StartService, DeliverVehicle, CloseServiceOrder, Methods
<1>2. ASSUME NEW o \in Orders, CreateEstimate(r, o) PROVE IInv'
  BY <1>2, CreateEstimateStep
<1>3. ASSUME NEW o \in Orders, RejectEstimate(r, o) PROVE IInv'
  BY <1>3, RejectStatementsAreSound, BeginStep DEF RejectEstimate
<1>4. ASSUME NEW o \in Orders, NEW mechanic \in Mechanics, AssignMechanicTo(r, o, mechanic)
      PROVE  IInv'
  BY <1>4, AssignMechanicStep
<1>5. ASSUME NEW o \in Orders, NEW actor \in Actors, FinishService(r, o, actor)
      PROVE  IInv'
  BY <1>5, MoveOrderStep DEF FinishService, Methods
<1>6. ASSUME NEW o \in Orders, NEW actor \in Actors, NEW target \in UpdateTargets,
             UpdateServiceOrderStatus(r, o, target, actor)
      PROVE  IInv'
  <2>1. MethodFor(ToDomain(order[o]), target) \in Methods
    BY DEF MethodFor, UpdateTargets, Statuses, Methods
  <2> QED BY <1>6, <2>1, MoveOrderStep DEF UpdateServiceOrderStatus
<1>7. ASSUME NEW e \in Estimates, NEW status \in EstimateStatuses,
             PatchEstimateStatus(r, e, status)
      PROVE  IInv'
  BY <1>7, UpdateEstimateStatusStep DEF PatchEstimateStatus
<1>8. ASSUME NEW e \in Estimates, NEW decision \in {"APPROVED", "REJECTED"},
             ReceiveExternalDecision(r, e, decision)
      PROVE  IInv'
  BY <1>8, ReceiveExternalDecisionStep
<1>9. ASSUME NEW e \in Estimates \cup {NoEstimate}, NEW ref \in References,
             NEW q \in 1 .. MaxQuantity, AddEstimateItem(r, e, ref, q)
      PROVE  IInv'
  BY <1>9, AddEstimateItemStep
<1> QED BY <1>1, <1>2, <1>3, <1>4, <1>5, <1>6, <1>7, <1>8, <1>9 DEF Handle

-----------------------------------------------------------------------------
(***************************************************************************)
(* The statements.                                                         *)
(***************************************************************************)

\* The order is written; its closing date stays if it was set.  After the write of
\* a closing plan the history row that is left is sound.
LEMMA UpdateOrderStep ==
    ASSUME IInv, NEW r \in Requests, UpdateOrder(r)
    PROVE  IInv'
<1> DEFINE s   == Head(todo[r])
           row == [s.row EXCEPT !.closedAt = s.row.closedAt \/ order[s.order].closedAt]
<1>1. /\ order' = [order EXCEPT ![s.order] = row]
      /\ todo' = [todo EXCEPT ![r] = Tail(todo[r])]
      /\ UNCHANGED <<estimate, item, stock, history>>
  BY DEF UpdateOrder, Done
<1>2. s \in Statement /\ Sound(s) /\ s.kind = "updateOrder"
  BY NextStatement DEF UpdateOrder, IInv
<1>3. /\ s.order \in Orders /\ s.row \in Order /\ Opened(s.order)
      /\ s.row.status # Unopened /\ NamesMechanic(s.row) /\ IsDated(s.row)
  BY <1>2 DEF Sound, Statement
<1>4. (s.row.closedAt \/ order[s.order].closedAt) \in BOOLEAN
  OBVIOUS
<1>5. /\ row \in Order /\ row.status = s.row.status /\ row.mechanicId = s.row.mechanicId
      /\ row.closedAt = (s.row.closedAt \/ order[s.order].closedAt)
  BY <1>3, <1>4 DEF Order
<1>6. row.status # Unopened /\ NamesMechanic(row) /\ IsDated(row)
  <2>1. row.status # Unopened /\ NamesMechanic(row)
    BY <1>3, <1>5 DEF NamesMechanic
  <2>2. IsDated(row)
    BY <1>3, <1>5, Zenon DEF IsDated
  <2> QED BY <2>1, <2>2
<1>7. (order[s.order].closedAt => row.closedAt) /\ (s.row.closedAt => row.closedAt)
  BY <1>5, Zenon
<1> HIDE DEF row
<1>8. order'[s.order] = row /\ \A o \in Orders \ {s.order} : order'[o] = order[o]
  BY <1>1, <1>3 DEF IInv, TablesTyped
<1>9. TablesTyped' /\ OrdersSound'
  BY <1>1, <1>3, <1>5, <1>6 DEF IInv, TablesTyped, OrdersSound
<1>10. Growing /\ \A o \in Orders : Opened(o)' => Opened(o)
  BY <1>1, <1>3, <1>6, <1>7, <1>8 DEF Growing, Opened, Issued
<1>11. EstimatesSound' /\ StockNeverNegative'
  BY <1>1 DEF IInv, EstimatesSound, Issued, StockNeverNegative
<1>12. HistorySound'
  <2>1. ASSUME NEW o \in Orders, NEW i \in 1 .. Len(history[o]), history[o][i].to = "CLOSED"
        PROVE  order'[o].closedAt
    BY <2>1, <1>7, <1>8 DEF IInv, HistorySound
  <2> QED BY <2>1, <1>1, <1>10 DEF IInv, HistorySound, HistoryRowsAreEdges
<1>13. TodoSound'
  <2>1. todo[r] \in Plans /\ todo[r] # <<>>
    BY DEF IInv, TodoSound, UpdateOrder, Runs, Idle
  <2>2. CASE todo[r] \in Seq(SoundStatements)
    <3>1. Tail(todo[r]) \in Seq(SoundStatements)
      BY <2>1, <2>2, HeadAndTail
    <3> QED BY <3>1, <1>1, <1>10, SoundTodoStep DEF IInv
  <2>3. CASE todo[r] \in ClosingPlans
    <3>1. PICK o \in Orders, x \in Order :
              /\ Opened(o) /\ x.closedAt /\ s = Update(o, x)
              /\ Tail(todo[r]) = <<Record(o, "DELIVERED", "CLOSED")>>
      BY <2>3, ClosingPlanHead
    <3> DEFINE record == Record(o, "DELIVERED", "CLOSED")
    <3>2. s.order = o /\ s.row = x
      BY <3>1 DEF Update
    <3>3. Opened(o)' /\ order'[o].closedAt
      BY <3>1, <3>2, <1>7, <1>8, <1>10 DEF Growing
    <3>4. <<"DELIVERED", "CLOSED">> \in Edges
      <4>1. "close" \in Methods /\ ResultOf["close"] = "CLOSED"
            /\ "DELIVERED" \in ExpectedIn["close"]
        BY DEF Methods, ResultOf, ExpectedIn
      <4>2. <<"DELIVERED", ResultOf["close"]>> \in Edges
        BY <4>1, EdgeOfMethod
      <4> QED BY <4>1, <4>2
    <3>5. record \in SoundStatements'
      BY <3>3, <3>4 DEF SoundStatements, Statement, Sound, Record, HistoryRow, Statuses
    <3> HIDE DEF record
    <3>6. <<record>> \in Seq(SoundStatements')
      BY <3>5, Short
    <3>7. <<record>> \in Plans'
      BY <3>6 DEF Plans
    <3> QED BY <3>1, <3>7, <1>1, <1>10, TodoStep DEF IInv, record
  <2> QED BY <2>1, <2>2, <2>3 DEF Plans
<1> QED BY <1>9, <1>11, <1>12, <1>13 DEF IInv

\* A history row is added after the first one, and is an edge.
LEMMA CreateStatusHistoryStep ==
    ASSUME IInv, NEW r \in Requests, CreateStatusHistory(r)
    PROVE  IInv'
<1> DEFINE s == Head(todo[r])
<1>1. /\ history' = [history EXCEPT ![s.order] = Append(@, s.row)]
      /\ todo' = [todo EXCEPT ![r] = Tail(todo[r])]
      /\ UNCHANGED <<order, estimate, item, stock>>
  BY DEF CreateStatusHistory, Done
<1>2. /\ s \in Statement /\ Sound(s) /\ s.kind = "createHistory"
      /\ Tail(todo[r]) \in Seq(SoundStatements)
  BY NextStatement DEF CreateStatusHistory, IInv
<1>3. /\ s.order \in Orders /\ s.row \in HistoryRow
      /\ Opened(s.order) /\ <<s.row.from, s.row.to>> \in Edges
      /\ s.row.to = "CLOSED" => order[s.order].closedAt
  BY <1>2 DEF Sound, Statement
<1> HIDE DEF s
<1>4. history[s.order] \in Seq(HistoryRow) /\ history[s.order] # <<>>
  BY <1>3 DEF IInv, TablesTyped, HistorySound
<1>5. TablesTyped'
  BY <1>1, <1>3, <1>4 DEF IInv, TablesTyped
<1>6. OrdersSound' /\ EstimatesSound' /\ StockNeverNegative'
  BY <1>1 DEF IInv, OrdersSound, EstimatesSound, Issued, StockNeverNegative
<1>7. HistorySound'
  <2>1. ASSUME NEW o \in Orders, Opened(o)' PROVE history'[o] # <<>>
    <3>1. Append(history[s.order], s.row) # <<>>
      <4>1. Len(Append(history[s.order], s.row)) = Len(history[s.order]) + 1
        BY <1>3, <1>4
      <4>2. Len(history[s.order]) \in Nat
        BY <1>4
      <4>3. Append(history[s.order], s.row) = <<>>
              => Len(Append(history[s.order], s.row)) = 0
        OBVIOUS
      <4> QED BY <4>1, <4>2, <4>3
    <3> QED BY <3>1, <2>1, <1>1, <1>3 DEF IInv, HistorySound, Opened, TablesTyped
  <2>2. ASSUME NEW o \in Orders, NEW i \in 1 .. Len(history'[o])
        PROVE  /\ IF i = 1 THEN history'[o][i] = [from |-> Unopened, to |-> "RECEIVED"]
                           ELSE <<history'[o][i].from, history'[o][i].to>> \in Edges
               /\ history'[o][i].to = "CLOSED" => order[o].closedAt
    <3>1. CASE o = s.order
      <4>1. history'[o] = Append(history[o], s.row)
        BY <3>1, <1>1, <1>3 DEF IInv, TablesTyped
      <4>2. CASE i \in 1 .. Len(history[o])
        <5>1. history'[o][i] = history[o][i]
          BY <4>1, <4>2, <1>4, <3>1
        <5> QED BY <5>1, <4>2 DEF IInv, HistorySound, HistoryRowsAreEdges
      <4>3. CASE i = Len(history[o]) + 1
        <5>1. history'[o][i] = s.row /\ i # 1
          BY <4>1, <4>3, <1>4, <3>1
        <5> QED BY <5>1, <1>3, <3>1
      <4> QED BY <4>1, <4>2, <4>3, <1>4, <3>1
    <3>2. CASE o # s.order
      <4>1. history'[o] = history[o]
        BY <3>2, <1>1 DEF IInv, TablesTyped
      <4> QED BY <4>1 DEF IInv, HistorySound, HistoryRowsAreEdges
    <3> QED BY <3>1, <3>2
  <2> QED BY <2>1, <2>2, <1>1 DEF HistorySound, HistoryRowsAreEdges
<1>8. TodoSound'
  BY <1>1, <1>2, SoundTodoStep DEF IInv, Growing, Issued, Opened
<1> QED BY <1>5, <1>6, <1>7, <1>8 DEF IInv

\* Statements that write only estimates: those issued keep their order.
LEMMA EstimateStep ==
    ASSUME IInv, NEW r \in Requests, NEW e \in Estimates, NEW row \in EstimateRow,
           estimate' = [estimate EXCEPT ![e] = row],
           row.status # Unissued => row.serviceOrder \in Orders,
           Issued(e) => row.status # Unissued,
           UNCHANGED <<order, item, stock, history>>,
           NEW q \in Seq(SoundStatements), todo' = [todo EXCEPT ![r] = q]
    PROVE  IInv'
<1>1. TablesTyped' /\ OrdersSound' /\ StockNeverNegative' /\ HistorySound'
  BY DEF IInv, TablesTyped, OrdersSound, StockNeverNegative, HistorySound, HistoryRowsAreEdges,
         Opened
<1>2. EstimatesSound'
  BY DEF IInv, TablesTyped, EstimatesSound, Issued
<1>3. Growing
  BY DEF Growing, Opened, Issued, IInv, TablesTyped
<1>4. TodoSound'
  BY <1>3, SoundTodoStep DEF IInv
<1> QED BY <1>1, <1>2, <1>4 DEF IInv

LEMMA InsertEstimateStep ==
    ASSUME IInv, NEW r \in Requests, NEW e \in Estimates, InsertEstimate(r, e)
    PROVE  IInv'
<1> DEFINE s   == Head(todo[r])
           row == [serviceOrder |-> s.order, status |-> "PENDING", totalOf |-> NoItems]
<1>1. /\ s \in Statement /\ s.kind = "createEstimate"
      /\ Tail(todo[r]) \in Seq(SoundStatements)
  BY NextStatement DEF InsertEstimate, IInv
<1>2. s.order \in Orders
  BY <1>1 DEF Statement
<1>3. NoItems \in ItemList
  BY ServiceOrdersAssumption DEF NoItems, ItemList
<1>4. row \in EstimateRow /\ row.serviceOrder \in Orders /\ row.status # Unissued
  BY <1>2, <1>3 DEF EstimateRow, EstimateStatuses, Unissued
<1> QED BY <1>1, <1>4, EstimateStep DEF InsertEstimate, Done

\* An issued estimate with another status is still an issued estimate.
LEMMA SetStatusStep ==
    ASSUME IInv, NEW r \in Requests, NEW e \in Estimates, Issued(e),
           NEW status \in EstimateStatuses,
           estimate' = [estimate EXCEPT ![e].status = status],
           UNCHANGED <<order, item, stock, history>>,
           NEW q \in Seq(SoundStatements), todo' = [todo EXCEPT ![r] = q]
    PROVE  IInv'
<1> DEFINE row == [estimate[e] EXCEPT !.status = status]
<1>1. estimate[e] \in EstimateRow /\ estimate[e].serviceOrder \in Orders
  BY DEF IInv, TablesTyped, EstimatesSound
<1>2. row \in EstimateRow /\ row.serviceOrder \in Orders /\ row.status # Unissued
  BY <1>1 DEF EstimateRow, EstimateStatuses, Unissued
<1>3. estimate' = [estimate EXCEPT ![e] = row]
  BY DEF IInv, TablesTyped
<1> HIDE DEF row
<1> QED BY <1>2, <1>3, EstimateStep

LEMMA SetEstimateStatusStep ==
    ASSUME IInv, NEW r \in Requests, SetEstimateStatus(r)
    PROVE  IInv'
<1> DEFINE s == Head(todo[r])
<1>1. /\ s \in Statement /\ Sound(s) /\ s.kind = "updateEstimate"
      /\ Tail(todo[r]) \in Seq(SoundStatements)
  BY NextStatement DEF SetEstimateStatus, IInv
<1>2. s.estimate \in Estimates /\ s.status \in EstimateStatuses /\ Issued(s.estimate)
  BY <1>1 DEF Statement, Sound
<1> QED BY <1>1, <1>2, SetStatusStep DEF SetEstimateStatus, Done

LEMMA RejectNextEstimateStep ==
    ASSUME IInv, NEW r \in Requests, NEW e \in Estimates, RejectNextEstimate(r, e)
    PROVE  IInv'
<1> DEFINE s    == Head(todo[r])
           rest == s.estimates \ {e}
           next == [kind |-> "rejectEstimates", estimates |-> rest]
           q    == IF rest = {} THEN Tail(todo[r]) ELSE <<next>> \o Tail(todo[r])
<1>1. /\ s \in Statement /\ Sound(s) /\ s.kind = "rejectEstimates"
      /\ Tail(todo[r]) \in Seq(SoundStatements)
  BY NextStatement DEF RejectNextEstimate, IInv
<1>2. s.estimates \in SUBSET Estimates /\ \A d \in s.estimates : Issued(d)
  BY <1>1 DEF Statement, Sound
<1>3. next \in SoundStatements
  BY <1>2 DEF SoundStatements, Statement, Sound
<1>4. /\ e \in s.estimates
      /\ estimate' = [estimate EXCEPT ![e].status = "REJECTED"]
      /\ UNCHANGED <<order, item, stock, history>>
      /\ todo' = [todo EXCEPT ![r] = q]
  BY DEF RejectNextEstimate, Loop
<1> HIDE DEF s, next, rest
<1>5. q \in Seq(SoundStatements)
  BY <1>1, <1>3, PutFirst
<1> QED BY <1>2, <1>4, <1>5, SetStatusStep DEF EstimateStatuses

\* Statements that write only the stock, or nothing: the stock stays in Nat.
LEMMA StockStep ==
    ASSUME IInv, NEW r \in Requests,
           stock' \in [Parts -> Int], \A p \in Parts : stock'[p] >= 0,
           UNCHANGED <<order, estimate, item, history>>,
           NEW q \in Seq(SoundStatements), todo' = [todo EXCEPT ![r] = q]
    PROVE  IInv'
<1>1. TablesTyped' /\ OrdersSound' /\ EstimatesSound' /\ HistorySound' /\ StockNeverNegative'
  BY DEF IInv, TablesTyped, OrdersSound, EstimatesSound, Issued, HistorySound,
         HistoryRowsAreEdges, Opened, StockNeverNegative
<1>2. TodoSound'
  BY SoundTodoStep DEF IInv, Growing, Issued, Opened
<1> QED BY <1>1, <1>2 DEF IInv

LEMMA ReturnNextPartStep ==
    ASSUME IInv, NEW r \in Requests, NEW i \in PartItem, ReturnNextPart(r, i)
    PROVE  IInv'
<1> DEFINE s    == Head(todo[r])
           rest == s.items \ {i}
           next == [kind |-> "returnParts", items |-> rest]
           q    == IF rest = {} THEN Tail(todo[r]) ELSE <<next>> \o Tail(todo[r])
<1>1. /\ s \in Statement /\ s.kind = "returnParts"
      /\ Tail(todo[r]) \in Seq(SoundStatements)
  BY NextStatement DEF ReturnNextPart, IInv
<1>2. s.items \in SUBSET PartItem
  BY <1>1 DEF Statement
<1>3. next \in SoundStatements
  BY <1>2 DEF SoundStatements, Statement, Sound
<1>4. /\ stock' = [stock EXCEPT ![i.part] = @ + i.quantity]
      /\ UNCHANGED <<order, estimate, item, history>>
      /\ todo' = [todo EXCEPT ![r] = q]
  BY DEF ReturnNextPart, Loop
<1> HIDE DEF s, next, rest
<1>5. q \in Seq(SoundStatements)
  BY <1>1, <1>3, PutFirst
<1>6. i.part \in Parts /\ i.quantity \in Nat
  BY ServiceOrdersAssumption DEF PartItem
<1>7. stock' \in [Parts -> Int] /\ \A p \in Parts : stock'[p] >= 0
  BY <1>4, <1>6 DEF IInv, TablesTyped, StockNeverNegative
<1> QED BY <1>4, <1>5, <1>7, StockStep

\* The conditional update takes only what is there.
LEMMA DecrementStockStep ==
    ASSUME IInv, NEW r \in Requests, DecrementStock(r)
    PROVE  IInv'
<1> DEFINE s == Head(todo[r])
<1>1. /\ s \in Statement /\ s.kind = "decrementStock"
      /\ Tail(todo[r]) \in Seq(SoundStatements)
  BY NextStatement DEF DecrementStock, IInv
<1>2. s.part \in Parts /\ s.quantity \in Nat
  BY <1>1, ServiceOrdersAssumption DEF Statement
<1>3. UNCHANGED <<order, estimate, item, history>>
  BY DEF DecrementStock
<1>4. CASE stock[s.part] >= s.quantity
  <2>1. /\ stock' = [stock EXCEPT ![s.part] = @ - s.quantity]
        /\ todo' = [todo EXCEPT ![r] = Tail(todo[r])]
    BY <1>4 DEF DecrementStock, Done
  <2>2. stock' \in [Parts -> Int] /\ \A p \in Parts : stock'[p] >= 0
    BY <2>1, <1>2, <1>4 DEF IInv, TablesTyped, StockNeverNegative
  <2> QED BY <2>1, <2>2, <1>1, <1>3, StockStep
<1>5. CASE ~(stock[s.part] >= s.quantity)
  <2>1. stock' = stock /\ todo' = [todo EXCEPT ![r] = <<>>]
    BY <1>5 DEF DecrementStock, Throw
  <2>2. stock' \in [Parts -> Int] /\ \A p \in Parts : stock'[p] >= 0
    BY <2>1 DEF IInv, TablesTyped, StockNeverNegative
  <2>3. <<>> \in Seq(SoundStatements)
    OBVIOUS
  <2> QED BY <2>1, <2>2, <2>3, <1>3, StockStep
<1> QED BY <1>4, <1>5

\* Statements that write only items.
LEMMA ItemStep ==
    ASSUME IInv, NEW r \in Requests, item' \in [Estimates -> ItemList],
           UNCHANGED <<order, estimate, stock, history>>,
           NEW q \in Seq(SoundStatements), todo' = [todo EXCEPT ![r] = q]
    PROVE  IInv'
<1>1. TablesTyped' /\ OrdersSound' /\ EstimatesSound' /\ HistorySound' /\ StockNeverNegative'
  BY DEF IInv, TablesTyped, OrdersSound, EstimatesSound, Issued, HistorySound,
         HistoryRowsAreEdges, Opened, StockNeverNegative
<1>2. TodoSound'
  BY SoundTodoStep DEF IInv, Growing, Issued, Opened
<1> QED BY <1>1, <1>2 DEF IInv

LEMMA CreateItemStep ==
    ASSUME IInv, NEW r \in Requests, CreateItem(r)
    PROVE  IInv'
<1> DEFINE s   == Head(todo[r])
           sum == [kind |-> "sumItems", estimate |-> s.estimate]
<1>1. s \in Statement /\ s.kind = "createItem"
  BY NextStatement DEF CreateItem, IInv
<1>2. s.ref \in References /\ s.quantity \in 1 .. MaxQuantity
  BY <1>1 DEF Statement
<1>3. UNCHANGED <<order, estimate, stock, history>>
  BY DEF CreateItem
<1>4. CASE s.estimate \in Estimates /\ item[s.estimate][s.ref] = 0
  <2>1. /\ item' = [item EXCEPT ![s.estimate][s.ref] = s.quantity]
        /\ todo' = [todo EXCEPT ![r] = <<sum>>]
    BY <1>4 DEF CreateItem
  <2>2. sum \in SoundStatements
    BY <1>4 DEF SoundStatements, Statement, Sound
  <2>3. item' \in [Estimates -> ItemList]
    BY <2>1, <1>2, <1>4, ServiceOrdersAssumption DEF IInv, TablesTyped, ItemList
  <2> HIDE DEF sum
  <2>4. <<sum>> \in Seq(SoundStatements)
    BY <2>2, Short
  <2> QED BY <2>1, <2>3, <2>4, <1>3, ItemStep
<1>5. CASE ~(s.estimate \in Estimates /\ item[s.estimate][s.ref] = 0)
  <2>1. item' = item /\ todo' = [todo EXCEPT ![r] = <<>>]
    BY <1>5 DEF CreateItem, Throw
  <2>2. <<>> \in Seq(SoundStatements)
    OBVIOUS
  <2>3. item' \in [Estimates -> ItemList]
    BY <2>1 DEF IInv, TablesTyped
  <2> QED BY <2>1, <2>2, <2>3, <1>3, ItemStep
<1> QED BY <1>4, <1>5

LEMMA SumItemsStep ==
    ASSUME IInv, NEW r \in Requests, SumItems(r)
    PROVE  IInv'
<1> DEFINE s     == Head(todo[r])
           total == [kind |-> "writeTotal", estimate |-> s.estimate,
                     totalOf |-> item[s.estimate]]
<1>1. s \in Statement /\ s.kind = "sumItems"
  BY NextStatement DEF SumItems, IInv
<1>2. s.estimate \in Estimates /\ item[s.estimate] \in ItemList
  BY <1>1 DEF Statement, IInv, TablesTyped
<1>3. total \in SoundStatements
  BY <1>2 DEF SoundStatements, Statement, Sound
<1>4. Begin(r, <<total>>)
  BY DEF SumItems
<1> HIDE DEF total
<1>5. <<total>> \in Seq(SoundStatements)
  BY <1>3, Short
<1> QED BY <1>4, <1>5, BeginStep

LEMMA WriteTotalStep ==
    ASSUME IInv, NEW r \in Requests, WriteTotal(r)
    PROVE  IInv'
<1> DEFINE s   == Head(todo[r])
           row == [estimate[s.estimate] EXCEPT !.totalOf = s.totalOf]
<1>1. /\ s \in Statement /\ s.kind = "writeTotal"
      /\ Tail(todo[r]) \in Seq(SoundStatements)
  BY NextStatement DEF WriteTotal, IInv
<1>2. s.estimate \in Estimates /\ s.totalOf \in ItemList
  BY <1>1 DEF Statement
<1>3. estimate[s.estimate] \in EstimateRow
  BY <1>2 DEF IInv, TablesTyped
<1>4. /\ row \in EstimateRow
      /\ row.status = estimate[s.estimate].status
      /\ row.serviceOrder = estimate[s.estimate].serviceOrder
  BY <1>2, <1>3 DEF EstimateRow
<1>5. /\ row.status # Unissued => row.serviceOrder \in Orders
      /\ Issued(s.estimate) => row.status # Unissued
  BY <1>2, <1>4 DEF IInv, EstimatesSound, Issued
<1>6. /\ estimate' = [estimate EXCEPT ![s.estimate] = row]
      /\ UNCHANGED <<order, item, stock, history>>
      /\ todo' = [todo EXCEPT ![r] = Tail(todo[r])]
  BY <1>2 DEF WriteTotal, Done, IInv, TablesTyped
<1> HIDE DEF s, row
<1> QED BY <1>1, <1>2, <1>4, <1>5, <1>6, EstimateStep

\* A request that throws or is killed leaves the tables as they are.
LEMMA ThrowStep ==
    ASSUME IInv, NEW r \in Requests, Throw(r), UNCHANGED tables
    PROVE  IInv'
<1>1. <<>> \in Seq(SoundStatements)
  OBVIOUS
<1> QED BY <1>1, TablesKept DEF Throw, Plans

LEMMA DecideEstimateStep ==
    ASSUME IInv, NEW r \in Requests, DecideEstimate(r)
    PROVE  IInv'
<1> DEFINE s == Head(todo[r])
           o == estimate[s.estimate].serviceOrder
<1>1. s \in Statement /\ Sound(s) /\ s.kind = "decide"
  BY NextStatement DEF DecideEstimate, IInv
<1>2. Issued(s.estimate) /\ s.estimate \in Estimates
  BY <1>1 DEF Sound, Statement
<1>3. o \in Orders
  BY <1>2 DEF IInv, EstimatesSound
<1>4. CASE Allows(ToDomain(order[o]), DecisionMethod(s.status), NoMechanic)
  <2>1. Begin(r, DecisionStatements(o, s))
    BY <1>4 DEF DecideEstimate
  <2>2. DecisionStatements(o, s) \in Seq(SoundStatements)
    BY <1>1, <1>2, <1>3, <1>4, DecisionStatementsAreSound
  <2> QED BY <2>1, <2>2, BeginStep
<1>5. CASE ~Allows(ToDomain(order[o]), DecisionMethod(s.status), NoMechanic)
  BY <1>5, ThrowStep DEF DecideEstimate
<1> QED BY <1>4, <1>5

LEMMA RejectOrderOfStep ==
    ASSUME IInv, NEW r \in Requests, RejectOrderOf(r)
    PROVE  IInv'
<1> DEFINE s == Head(todo[r])
           o == estimate[s.estimate].serviceOrder
<1>1. s \in Statement /\ Sound(s) /\ s.kind = "rejectOrderOf"
  BY NextStatement DEF RejectOrderOf, IInv
<1>2. o \in Orders
  BY <1>1 DEF Sound, Statement, IInv, EstimatesSound
<1>3. CASE Allows(ToDomain(order[o]), "rejectEstimate", NoMechanic)
  BY <1>2, <1>3, RejectStatementsAreSound, BeginStep DEF RejectOrderOf
<1>4. CASE ~Allows(ToDomain(order[o]), "rejectEstimate", NoMechanic)
  BY <1>4, ThrowStep DEF RejectOrderOf
<1> QED BY <1>3, <1>4

\* Every statement.
LEMMA RunStep ==
    ASSUME IInv, NEW r \in Requests, Run(r)
    PROVE  IInv'
<1>1. ASSUME NEW e \in Estimates, InsertEstimate(r, e) \/ RejectNextEstimate(r, e)
      PROVE  IInv'
  BY <1>1, InsertEstimateStep, RejectNextEstimateStep
<1>2. ASSUME NEW i \in PartItem, ReturnNextPart(r, i) PROVE IInv'
  BY <1>2, ReturnNextPartStep
<1>3. ASSUME Fail(r) PROVE IInv'
  BY <1>3, ThrowStep DEF Fail
<1> QED BY <1>1, <1>2, <1>3, UpdateOrderStep, CreateStatusHistoryStep, SetEstimateStatusStep,
           DecideEstimateStep, RejectOrderOfStep, DecrementStockStep, CreateItemStep,
           SumItemsStep, WriteTotalStep
        DEF Run

-----------------------------------------------------------------------------
(***************************************************************************)
(* The creation of an order.                                               *)
(***************************************************************************)

\* An unopened order gets its row and its first history rows; the todo lists stay.
LEMMA OpeningStep ==
    ASSUME IInv, NEW o \in Orders, ~Opened(o),
           NEW row \in Order, row.status # Unopened, NamesMechanic(row), IsDated(row),
           order' = [order EXCEPT ![o] = row],
           NEW rows \in Seq(HistoryRow), rows # <<>>,
           \A i \in 1 .. Len(rows) :
                IF i = 1 THEN rows[i] = [from |-> Unopened, to |-> "RECEIVED"]
                         ELSE <<rows[i].from, rows[i].to>> \in Edges,
           \A i \in 1 .. Len(rows) : rows[i].to # "CLOSED",
           history' = [history EXCEPT ![o] = rows],
           UNCHANGED todo,
           \A e \in Estimates : Issued(e) => Issued(e)'
    PROVE  /\ order' \in [Orders -> Order] /\ history' \in [Orders -> Seq(HistoryRow)]
           /\ OrdersSound' /\ HistorySound' /\ TodoSound'
<1>1. /\ order' \in [Orders -> Order] /\ OrdersSound'
      /\ history' \in [Orders -> Seq(HistoryRow)]
  BY DEF IInv, TablesTyped, OrdersSound
<1>2. HistorySound'
  BY DEF IInv, TablesTyped, HistorySound, HistoryRowsAreEdges, Opened
<1>3. Growing
  BY DEF Growing, Opened, IInv, TablesTyped
<1>4. TodoSound'
  BY <1>3, StaysPlanned DEF IInv, TodoSound
<1> QED BY <1>1, <1>2, <1>4

LEMMA OpenOrderStep ==
    ASSUME IInv, NEW o \in Orders, OpenOrder(o)
    PROVE  IInv'
<1> DEFINE first == [from |-> Unopened, to |-> "RECEIVED"]
<1>1. first \in HistoryRow
  BY DEF HistoryRow, Statuses
<1>2. /\ OpenedOrder \in Order /\ OpenedOrder.status # Unopened
      /\ NamesMechanic(OpenedOrder) /\ IsDated(OpenedOrder)
  BY DEF OpenedOrder, Order, Statuses, Unopened, NamesMechanic, Finished, IsDated
<1>3. /\ ~Opened(o) /\ order' = [order EXCEPT ![o] = OpenedOrder]
      /\ history' = [history EXCEPT ![o] = <<first>>]
      /\ UNCHANGED <<estimate, item, stock, todo>>
  BY DEF OpenOrder
<1> HIDE DEF first
<1>4. /\ <<first>> \in Seq(HistoryRow) /\ <<first>> # <<>>
      /\ \A i \in 1 .. Len(<<first>>) :
            IF i = 1 THEN <<first>>[i] = first
                     ELSE <<(<<first>>[i]).from, (<<first>>[i]).to>> \in Edges
      /\ \A i \in 1 .. Len(<<first>>) : (<<first>>[i]).to # "CLOSED"
  BY <1>1 DEF first
<1>5. \A e \in Estimates : Issued(e) => Issued(e)'
  BY <1>3 DEF Issued
<1>6. /\ order' \in [Orders -> Order] /\ history' \in [Orders -> Seq(HistoryRow)]
      /\ OrdersSound' /\ HistorySound' /\ TodoSound'
  BY <1>2, <1>3, <1>4, <1>5, OpeningStep DEF first
<1> QED BY <1>3, <1>6
        DEF IInv, TablesTyped, EstimatesSound, Issued, StockNeverNegative

LEMMA OpenOrderWithItemsStep ==
    ASSUME IInv, NEW o \in Orders, NEW e \in Estimates, NEW items \in ItemList,
           OpenOrderWithItems(o, e, items)
    PROVE  IInv'
<1> DEFINE first  == [from |-> Unopened, to |-> "RECEIVED"]
           second == [from |-> "RECEIVED", to |-> "IN_DIAGNOSIS"]
           third  == [from |-> "IN_DIAGNOSIS", to |-> "WAITING_APPROVAL"]
           rows   == <<first, second, third>>
           opened == Apply(Apply(OpenedOrder, "startDiagnosis"), "requestApproval")
           issued == [serviceOrder |-> o, status |-> "PENDING", totalOf |-> items]
<1>1. /\ ~Opened(o) /\ ~Issued(e)
      /\ \A p \in Parts : items[p] <= stock[p]
      /\ order' = [order EXCEPT ![o] = opened]
      /\ estimate' = [estimate EXCEPT ![e] = issued]
      /\ item' = [item EXCEPT ![e] = items]
      /\ stock' = [p \in Parts |-> stock[p] - items[p]]
      /\ history' = [history EXCEPT ![o] = rows]
      /\ UNCHANGED todo
  BY DEF OpenOrderWithItems
<1>2. opened \in Order /\ opened.status = "WAITING_APPROVAL"
  <2>1. OpenedOrder \in Order
    BY DEF OpenedOrder, Order, Statuses
  <2>2. "startDiagnosis" \in Methods /\ "requestApproval" \in Methods
    BY DEF Methods
  <2>3. ResultOf["requestApproval"] = "WAITING_APPROVAL"
    BY DEF ResultOf
  <2> QED BY <2>1, <2>2, <2>3, ApplyTyped
<1>3. opened.status # Unopened /\ NamesMechanic(opened) /\ IsDated(opened)
  BY <1>2 DEF Unopened, NamesMechanic, Finished, IsDated
<1>4. first \in HistoryRow /\ second \in HistoryRow /\ third \in HistoryRow
  BY DEF HistoryRow, Statuses
<1>5. <<"RECEIVED", "IN_DIAGNOSIS">> \in Edges /\ <<"IN_DIAGNOSIS", "WAITING_APPROVAL">> \in Edges
  <2>1. "startDiagnosis" \in Methods /\ "requestApproval" \in Methods
    BY DEF Methods
  <2>2. "RECEIVED" \in ExpectedIn["startDiagnosis"]
        /\ "IN_DIAGNOSIS" \in ExpectedIn["requestApproval"]
    BY DEF ExpectedIn
  <2>3. ResultOf["startDiagnosis"] = "IN_DIAGNOSIS"
        /\ ResultOf["requestApproval"] = "WAITING_APPROVAL"
    BY DEF ResultOf
  <2>4. <<"RECEIVED", ResultOf["startDiagnosis"]>> \in Edges
    BY <2>1, <2>2, EdgeOfMethod
  <2>5. <<"IN_DIAGNOSIS", ResultOf["requestApproval"]>> \in Edges
    BY <2>1, <2>2, EdgeOfMethod
  <2> QED BY <2>3, <2>4, <2>5
<1>6. /\ rows \in Seq(HistoryRow) /\ rows # <<>>
      /\ \A i \in 1 .. Len(rows) : IF i = 1 THEN rows[i] = first
                                            ELSE <<rows[i].from, rows[i].to>> \in Edges
      /\ \A i \in 1 .. Len(rows) : rows[i].to # "CLOSED"
  <2>1. rows \in Seq(HistoryRow)
    BY <1>4
  <2>2. Len(rows) = 3 /\ rows[1] = first /\ rows[2] = second /\ rows[3] = third
    OBVIOUS
  <2>3. ASSUME NEW i \in 1 .. 3 PROVE i \in {1, 2, 3}
    BY <2>3
  <2>4. \A i \in {2, 3} : <<rows[i].from, rows[i].to>> \in Edges
    BY <1>5, <2>2
  <2>5. \A i \in {1, 2, 3} : rows[i].to # "CLOSED"
    BY <2>2
  <2> QED BY <2>1, <2>2, <2>3, <2>4, <2>5
<1>7. issued \in EstimateRow /\ issued.status # Unissued /\ issued.serviceOrder \in Orders
  BY DEF EstimateRow, EstimateStatuses, Unissued
<1>8. \A d \in Estimates : Issued(d) => Issued(d)'
  BY <1>1, <1>7 DEF Issued, IInv, TablesTyped
<1> HIDE DEF opened, rows, issued
<1>9. /\ order' \in [Orders -> Order] /\ history' \in [Orders -> Seq(HistoryRow)]
      /\ OrdersSound' /\ HistorySound' /\ TodoSound'
  BY <1>1, <1>2, <1>3, <1>6, <1>8, OpeningStep
<1>10. estimate' \in [Estimates -> EstimateRow] /\ EstimatesSound'
  BY <1>1, <1>7 DEF IInv, TablesTyped, EstimatesSound, Issued
<1>11. item' \in [Estimates -> ItemList]
  BY <1>1 DEF IInv, TablesTyped
<1>12. stock' \in [Parts -> Int] /\ StockNeverNegative'
  <2>1. \A p \in Parts : items[p] \in Int /\ stock[p] \in Int
    BY ServiceOrdersAssumption DEF ItemList, References, IInv, TablesTyped
  <2> QED BY <1>1, <2>1 DEF StockNeverNegative
<1> QED BY <1>9, <1>10, <1>11, <1>12 DEF IInv, TablesTyped

-----------------------------------------------------------------------------
(***************************************************************************)
(* The theorems.                                                           *)
(***************************************************************************)

\* IInv holds of an empty system.
LEMMA InitSound == Init => IInv
<1> SUFFICES ASSUME Init PROVE IInv
  OBVIOUS
<1> USE DEF Init
<1>1. NoItems \in ItemList
  BY ServiceOrdersAssumption DEF NoItems, ItemList
<1>2. NoOrderRow \in Order /\ NoEstimateRow \in EstimateRow
  BY <1>1 DEF NoOrderRow, Order, NoEstimateRow, EstimateRow
<1>3. TablesTyped
  BY <1>1, <1>2, ServiceOrdersAssumption DEF TablesTyped
<1>4. OrdersSound /\ EstimatesSound
  BY DEF OrdersSound, NamesMechanic, Finished, IsDated, NoOrderRow, Unopened, EstimatesSound,
         Issued, NoEstimateRow
<1>5. HistorySound
  BY DEF HistorySound, HistoryRowsAreEdges, Opened, NoOrderRow
<1>6. StockNeverNegative
  BY ServiceOrdersAssumption DEF StockNeverNegative
<1>7. TodoSound
  <2>1. <<>> \in Seq(SoundStatements)
    OBVIOUS
  <2> QED BY <2>1 DEF TodoSound, Plans
<1> QED BY <1>3, <1>4, <1>5, <1>6, <1>7 DEF IInv

\* Every step keeps IInv.
LEMMA NextSound == IInv /\ [Next]_vars => IInv'
<1> SUFFICES ASSUME IInv, [Next]_vars PROVE IInv'
  OBVIOUS
<1>1. ASSUME NEW r \in Requests, Handle(r) \/ Run(r) PROVE IInv'
  BY <1>1, HandleStep, RunStep
<1>2. ASSUME NEW o \in Orders, OpenOrder(o) PROVE IInv'
  BY <1>2, OpenOrderStep
<1>3. ASSUME NEW o \in Orders, NEW e \in Estimates, NEW items \in ItemList,
             OpenOrderWithItems(o, e, items)
      PROVE  IInv'
  BY <1>3, OpenOrderWithItemsStep
<1>4. CASE UNCHANGED vars
  <2>1. UNCHANGED <<order, estimate, item, stock, history, todo>>
    BY <1>4 DEF vars
  <2>2. SoundStatements' = SoundStatements
    BY <2>1 DEF SoundStatements, Sound, Opened, Issued
  <2>3. Plans' = Plans
    BY <2>1, <2>2 DEF Plans, ClosingPlans, Opened
  <2> QED BY <2>1, <2>3
          DEF IInv, TablesTyped, OrdersSound, EstimatesSound, Issued, HistorySound, Opened,
              HistoryRowsAreEdges, StockNeverNegative, TodoSound
<1> QED BY <1>1, <1>2, <1>3, <1>4 DEF Next

\* The inductive invariant.
THEOREM SoundnessInvariant == Spec => []IInv
BY InitSound, NextSound, PTL DEF Spec

\* A sound statement is a statement, and so are those of a closing plan.
LEMMA SoundIsTyped == IInv => TypeOK
<1> SUFFICES ASSUME IInv PROVE TypeOK
  OBVIOUS
<1>1. SoundStatements \subseteq Statement
  BY DEF SoundStatements
<1>2. Seq(SoundStatements) \subseteq Seq(Statement)
  BY <1>1, SeqOfLarger
<1>3. ClosingPlans \subseteq Seq(Statement)
  <2> SUFFICES ASSUME NEW q \in ClosingPlans PROVE q \in Seq(Statement)
    OBVIOUS
  <2>1. PICK o \in Orders, row \in Order :
            q = <<Update(o, row), Record(o, "DELIVERED", "CLOSED")>>
    BY DEF ClosingPlans
  <2>2. Update(o, row) \in Statement /\ Record(o, "DELIVERED", "CLOSED") \in Statement
    BY DEF Update, Record, Statement, HistoryRow, Statuses
  <2> QED BY <2>1, <2>2, Short
<1> QED BY <1>2, <1>3 DEF IInv, TablesTyped, TodoSound, Plans, TypeOK

\* Every variable has its type: in particular no statement refers to a row that does
\* not exist, and every estimate issued belongs to an order.
THEOREM TypeCorrectness == Spec => []TypeOK
BY SoundIsTyped, SoundnessInvariant, PTL

\* The stock of a part is never negative, however many requests take it at once.
THEOREM StockStaysNonNegative == Spec => []StockNeverNegative
<1>1. IInv => StockNeverNegative
  BY DEF IInv
<1> QED BY <1>1, SoundnessInvariant, PTL

\* The status history holds edges of the life cycle only, in whatever order its rows land.
THEOREM HistoryHoldsEdges == Spec => []HistoryRowsAreEdges
<1>1. IInv => HistoryRowsAreEdges
  BY DEF IInv, HistorySound
<1> QED BY <1>1, SoundnessInvariant, PTL

\* A CLOSED order, and one whose closing is on record, has its closing date, though
\* stale rows are written back and history rows land late.
THEOREM ClosingsAreDated == Spec => []ClosingIsDated
<1>1. IInv => ClosingIsDated
  BY DEF IInv, OrdersSound, IsDated, HistorySound, ClosingIsDated
<1> QED BY <1>1, SoundnessInvariant, PTL
=============================================================================
