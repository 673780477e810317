------------------------- MODULE OrderFinishingProofs -------------------------
(***************************************************************************)
(* That the mechanic an order names past IN_EXECUTION is one who finished  *)
(* it, for every value of the constants and every interleaving.            *)
(*                                                                         *)
(* The table alone cannot carry the induction: a row decided long ago may  *)
(* still be waiting to be written.  So the invariant asks the same of      *)
(* every row a request has yet to write, and rests on the one of           *)
(* ServiceOrdersProofs, of which every step is a step.                     *)
(***************************************************************************)
EXTENDS OrderFinishing, ServiceOrdersProofs

\* A row that says the work is finished names a mechanic who finished it.
Witnessed(o, row) == row.status \in Finished => row.mechanicId \in finishers[o]

Vouched == {s \in Statement : s.kind = "updateOrder" => Witnessed(s.order, s.row)}

Vouching ==
    /\ finishers \in [Orders -> SUBSET Actors]
    /\ \A o \in Orders : Witnessed(o, order[o])
    /\ todo \in [Requests -> Seq(Vouched)]

FinishingInv == IInv /\ Vouching

-----------------------------------------------------------------------------
(***************************************************************************)
(* Statements and the todo lists.                                          *)
(***************************************************************************)

\* Only the write of an order needs a witness.
LEMMA Plain ==
    ASSUME NEW s \in Statement, s.kind # "updateOrder"
    PROVE  s \in Vouched
BY DEF Vouched

LEMMA RecordIsPlain ==
    ASSUME NEW o \in Orders, NEW from \in Statuses, NEW to \in Statuses
    PROVE  Record(o, from, to) \in Vouched
<1>1. Record(o, from, to) \in Statement /\ Record(o, from, to).kind = "createHistory"
  BY DEF Record, Statement, HistoryRow
<1> QED BY <1>1, Plain

LEMMA RejectEachIsPlain ==
    ASSUME NEW E \in SUBSET Estimates
    PROVE  RejectEach(E) \in Seq(Vouched)
<1>1. [kind |-> "rejectEstimates", estimates |-> E] \in Vouched
  BY DEF Statement, Vouched
<1> QED BY <1>1, Short DEF RejectEach, LoopOver

LEMMA ReturnEachIsPlain ==
    ASSUME NEW items \in SUBSET PartItem
    PROVE  ReturnEach(items) \in Seq(Vouched)
<1>1. [kind |-> "returnParts", items |-> items] \in Vouched
  BY DEF Statement, Vouched
<1> QED BY <1>1, Short DEF ReturnEach, LoopOver

\* A request goes on with vouched statements, and the table with witnessed rows.
LEMMA VouchingStep ==
    ASSUME Vouching, UNCHANGED finishers, \A o \in Orders : Witnessed(o, order'[o]),
           NEW r \in Requests, NEW q \in Seq(Vouched), todo' = [todo EXCEPT ![r] = q]
    PROVE  Vouching'
<1>1. Vouched' = Vouched
  BY DEF Vouched, Witnessed
<1>2. \A o \in Orders : Witnessed(o, order[o])'
  BY DEF Witnessed
<1> QED BY <1>1, <1>2 DEF Vouching

\* A statement that does not write an order.
LEMMA OrderKept ==
    ASSUME Vouching, UNCHANGED <<finishers, order>>,
           NEW r \in Requests, NEW q \in Seq(Vouched), todo' = [todo EXCEPT ![r] = q]
    PROVE  Vouching'
<1>1. \A o \in Orders : Witnessed(o, order'[o])
  BY DEF Vouching, Witnessed
<1> QED BY <1>1, VouchingStep

LEMMA BeginVouched ==
    ASSUME Vouching, UNCHANGED finishers,
           NEW r \in Requests, NEW q \in Seq(Vouched), Begin(r, q)
    PROVE  Vouching'
BY OrderKept DEF Begin, tables

\* The statement a request runs next, and those after it.
LEMMA VouchedNext ==
    ASSUME Vouching, NEW r \in Requests, NEW kind, Runs(r, kind)
    PROVE  /\ Head(todo[r]) \in Vouched
           /\ Head(todo[r]) \in Statement
           /\ Head(todo[r]).kind = kind
           /\ Tail(todo[r]) \in Seq(Vouched)
<1>1. todo[r] \in Seq(Vouched) /\ todo[r] # <<>> /\ Head(todo[r]).kind = kind
  BY DEF Vouching, Runs, Idle
<1>2. Head(todo[r]) \in Vouched /\ Tail(todo[r]) \in Seq(Vouched)
  BY <1>1, HeadAndTail
<1> QED BY <1>1, <1>2 DEF Vouched

LEMMA DoneVouched ==
    ASSUME Vouching, UNCHANGED <<finishers, order>>,
           NEW r \in Requests, NEW kind, Runs(r, kind), Done(r)
    PROVE  Vouching'
BY VouchedNext, OrderKept DEF Done

LEMMA ThrowVouched ==
    ASSUME Vouching, UNCHANGED <<finishers, order>>, NEW r \in Requests, Throw(r)
    PROVE  Vouching'
<1>1. <<>> \in Seq(Vouched)
  OBVIOUS
<1> QED BY <1>1, OrderKept DEF Throw

-----------------------------------------------------------------------------
(***************************************************************************)
(* The handlers.                                                           *)
(***************************************************************************)

\* What a handler loads: the entity of a typed row.
LEMMA Loaded ==
    ASSUME IInv, NEW o \in Orders
    PROVE  /\ ToDomain(order[o]) \in Order
           /\ ToDomain(order[o]).status = order[o].status
           /\ ToDomain(order[o]).mechanicId = order[o].mechanicId
BY DEF IInv, TablesTyped, ToDomain, Order

\* Only finish() needs a new witness: deliverVehicle() and close() start from a
\* finished row, and the other methods do not end in one.
LEMMA MoveIsVouched ==
    ASSUME FinishingInv, NEW o \in Orders, NEW method \in Methods \ {"finish"}, NEW actor,
           Allows(ToDomain(order[o]), method, actor)
    PROVE  LET loaded == ToDomain(order[o])
           IN  /\ Update(o, Apply(loaded, method)) \in Vouched
               /\ Record(o, loaded.status, ResultOf[method]) \in Vouched
<1> DEFINE loaded == ToDomain(order[o])
           moved  == Apply(loaded, method)
<1>1. /\ loaded \in Order /\ loaded.status = order[o].status
      /\ loaded.mechanicId = order[o].mechanicId
  BY Loaded DEF FinishingInv
<1>2. loaded.status \in ExpectedIn[method]
  BY DEF Allows
<1>3. moved \in Order /\ moved.status = ResultOf[method] /\ moved.mechanicId = loaded.mechanicId
  BY <1>1, ApplyTyped
<1>4. Witnessed(o, moved)
  <2>1. ResultOf[method] \in Finished => loaded.status \in Finished
    BY <1>2 DEF ResultOf, ExpectedIn, Methods, Finished
  <2> QED BY <2>1, <1>1, <1>3 DEF FinishingInv, Vouching, Witnessed
<1> HIDE DEF moved
<1>5. Update(o, moved) \in Vouched
  BY <1>3, <1>4 DEF Update, Vouched, Statement
<1>6. Record(o, loaded.status, ResultOf[method]) \in Vouched
  BY <1>2, EdgeOfMethod, RecordIsPlain
<1> QED BY <1>5, <1>6 DEF moved

LEMMA MoveOrderVouched ==
    ASSUME FinishingInv, UNCHANGED finishers, NEW r \in Requests, NEW o \in Orders,
           NEW method \in Methods \ {"finish"}, NEW actor, MoveOrder(r, o, method, actor)
    PROVE  Vouching'
<1> DEFINE loaded == ToDomain(order[o])
           update == Update(o, Apply(loaded, method))
           record == Record(o, loaded.status, ResultOf[method])
<1>1. Allows(loaded, method, actor) /\ Begin(r, <<update, record>>)
  BY DEF MoveOrder
<1>2. update \in Vouched /\ record \in Vouched
  BY <1>1, MoveIsVouched
<1> HIDE DEF loaded, update, record
<1>3. <<update, record>> \in Seq(Vouched)
  BY <1>2, Short
<1> QED BY <1>1, <1>3, BeginVouched DEF FinishingInv

LEMMA AssignMechanicVouched ==
    ASSUME FinishingInv, UNCHANGED finishers, NEW r \in Requests, NEW o \in Orders,
           NEW mechanic \in Mechanics, AssignMechanicTo(r, o, mechanic)
    PROVE  Vouching'
<1> DEFINE loaded == ToDomain(order[o])
           row    == AssignMechanic(loaded, mechanic)
<1>1. loaded.status = "RECEIVED" /\ Begin(r, <<Update(o, row)>>)
  BY DEF AssignMechanicTo, CanAssignMechanic
<1>2. loaded \in Order
  BY Loaded DEF FinishingInv
<1>3. row \in Order /\ row.status = "RECEIVED"
  BY <1>1, <1>2 DEF AssignMechanic, Order
<1> HIDE DEF row
<1>4. Update(o, row) \in Vouched
  BY <1>3 DEF Update, Vouched, Statement, Witnessed, Finished
<1>5. <<Update(o, row)>> \in Seq(Vouched)
  BY <1>4, Short
<1> QED BY <1>1, <1>5, BeginVouched DEF FinishingInv

LEMMA CreateEstimateVouched ==
    ASSUME FinishingInv, UNCHANGED finishers, NEW r \in Requests, NEW o \in Orders,
           CreateEstimate(r, o)
    PROVE  Vouching'
<1> DEFINE loaded == ToDomain(order[o])
           insert == [kind |-> "createEstimate", order |-> o]
           update == Update(o, Apply(loaded, "requestApproval"))
           record == Record(o, loaded.status, "WAITING_APPROVAL")
<1>1. /\ Allows(loaded, "requestApproval", NoMechanic)
      /\ Begin(r, <<insert, update, record>>) \/ Begin(r, <<update, insert, record>>)
  BY DEF CreateEstimate
<1>2. /\ "requestApproval" \in Methods \ {"finish"}
      /\ ResultOf["requestApproval"] = "WAITING_APPROVAL"
  BY DEF Methods, ResultOf
<1>3. update \in Vouched /\ record \in Vouched
  BY <1>1, <1>2, MoveIsVouched
<1>4. insert \in Vouched
  BY DEF Vouched, Statement
<1> HIDE DEF loaded, insert, update, record
<1>5. /\ <<insert, update, record>> \in Seq(Vouched)
      /\ <<update, insert, record>> \in Seq(Vouched)
  BY <1>3, <1>4, Short
<1> QED BY <1>1, <1>5, BeginVouched DEF FinishingInv

LEMMA RejectStatementsVouched ==
    ASSUME FinishingInv, NEW o \in Orders,
           Allows(ToDomain(order[o]), "rejectEstimate", NoMechanic)
    PROVE  RejectStatements(o) \in Seq(Vouched)
<1> DEFINE loaded  == ToDomain(order[o])
           pending == {e \in EstimatesOf(o) : estimate[e].status = "PENDING"}
           update  == Update(o, Apply(loaded, "rejectEstimate"))
           record  == Record(o, loaded.status, "IN_DIAGNOSIS")
<1>1. /\ "rejectEstimate" \in Methods \ {"finish"}
      /\ ResultOf["rejectEstimate"] = "IN_DIAGNOSIS"
  BY DEF Methods, ResultOf
<1>2. update \in Vouched /\ record \in Vouched
  BY <1>1, MoveIsVouched
<1>3. RejectEach(pending) \in Seq(Vouched)
  BY RejectEachIsPlain DEF EstimatesOf
<1>4. ReturnEach(PartItemsOf(pending)) \in Seq(Vouched)
  BY ReturnEachIsPlain DEF PartItemsOf
<1> HIDE DEF loaded, pending, update, record
<1>5. <<update>> \in Seq(Vouched) /\ <<record>> \in Seq(Vouched)
  BY <1>2, Short
<1>6. <<update>> \o RejectEach(pending) \o ReturnEach(PartItemsOf(pending)) \in Seq(Vouched)
  BY <1>3, <1>4, <1>5, Joined
<1>7. <<update>> \o RejectEach(pending) \o ReturnEach(PartItemsOf(pending)) \o <<record>>
        \in Seq(Vouched)
  BY <1>5, <1>6, Joined
<1> QED BY <1>7 DEF RejectStatements, loaded, pending, update, record

LEMMA DecisionStatementsVouched ==
    ASSUME FinishingInv, NEW o \in Orders, NEW s \in Statement, s.kind = "decide",
           Allows(ToDomain(order[o]), DecisionMethod(s.status), NoMechanic)
    PROVE  DecisionStatements(o, s) \in Seq(Vouched)
<1> DEFINE loaded == ToDomain(order[o])
           method == DecisionMethod(s.status)
           set    == [kind |-> "updateEstimate", estimate |-> s.estimate, status |-> s.status]
           update == Update(o, Apply(loaded, method))
           back   == IF s.status = "REJECTED" THEN ReturnEach(s.items) ELSE <<>>
           record == Record(o, loaded.status, ResultOf[method])
<1>1. /\ s.estimate \in Estimates
      /\ s.status \in {"APPROVED", "REJECTED"}
      /\ s.items \in SUBSET PartItem
  BY DEF Statement
<1>2. method \in Methods \ {"finish"}
  BY DEF DecisionMethod, Methods
<1>3. update \in Vouched /\ record \in Vouched
  BY <1>2, MoveIsVouched
<1>4. set \in Vouched
  BY <1>1 DEF Vouched, Statement, EstimateStatuses
<1>5. back \in Seq(Vouched)
  BY <1>1, ReturnEachIsPlain, Short
<1> HIDE DEF loaded, method, set, update, back, record
<1>6. <<set, update>> \in Seq(Vouched) /\ <<record>> \in Seq(Vouched)
  BY <1>3, <1>4, Short
<1>7. <<set, update>> \o back \in Seq(Vouched)
  BY <1>5, <1>6, Joined
<1>8. <<set, update>> \o back \o <<record>> \in Seq(Vouched)
  BY <1>6, <1>7, Joined
<1> QED BY <1>8 DEF DecisionStatements, loaded, method, set, update, back, record

LEMMA UpdateEstimateStatusVouched ==
    ASSUME Vouching, UNCHANGED finishers, NEW r \in Requests, NEW e \in Estimates,
           NEW status \in EstimateStatuses, UpdateEstimateStatus(r, e, status)
    PROVE  Vouching'
<1> DEFINE decide == [kind |-> "decide", estimate |-> e, status |-> status,
                      items |-> PartItemsOf({e})]
           set    == [kind |-> "updateEstimate", estimate |-> e, status |-> status]
<1>1. \/ status \in {"APPROVED", "REJECTED"} /\ Begin(r, <<decide>>)
      \/ Begin(r, <<set>>)
  BY DEF UpdateEstimateStatus
<1>2. status \in {"APPROVED", "REJECTED"} => decide \in Vouched
  BY DEF Vouched, Statement, PartItemsOf
<1>3. set \in Vouched
  BY DEF Vouched, Statement
<1> HIDE DEF decide, set
<1>4. /\ status \in {"APPROVED", "REJECTED"} => <<decide>> \in Seq(Vouched)
      /\ <<set>> \in Seq(Vouched)
  BY <1>2, <1>3, Short
<1> QED BY <1>1, <1>4, BeginVouched

LEMMA ReceiveExternalDecisionVouched ==
    ASSUME Vouching, UNCHANGED finishers, NEW r \in Requests, NEW e \in Estimates,
           NEW decision \in {"APPROVED", "REJECTED"}, ReceiveExternalDecision(r, e, decision)
    PROVE  Vouching'
<1> DEFINE reject == [kind |-> "rejectOrderOf", estimate |-> e]
<1>1. reject \in Vouched
  BY DEF Vouched, Statement
<1>2. UpdateEstimateStatus(r, e, decision) \/ Begin(r, <<reject>>)
  BY DEF ReceiveExternalDecision
<1> HIDE DEF reject
<1>3. <<reject>> \in Seq(Vouched)
  BY <1>1, Short
<1> QED BY <1>2, <1>3, BeginVouched, UpdateEstimateStatusVouched DEF EstimateStatuses

LEMMA AddEstimateItemVouched ==
    ASSUME Vouching, UNCHANGED finishers, NEW r \in Requests,
           NEW e \in Estimates \cup {NoEstimate}, NEW ref \in References,
           NEW q \in 1 .. MaxQuantity, AddEstimateItem(r, e, ref, q)
    PROVE  Vouching'
<1> DEFINE create == [kind |-> "createItem", estimate |-> e, ref |-> ref, quantity |-> q]
           take   == [kind |-> "decrementStock", part |-> ref, quantity |-> q]
<1>1. \/ Begin(r, <<create>>)
      \/ ref \in Parts /\ Begin(r, <<take>> \o <<create>>)
  BY DEF AddEstimateItem
<1>2. create \in Vouched /\ (ref \in Parts => take \in Vouched)
  BY DEF Vouched, Statement
<1> HIDE DEF create, take
<1>3. <<create>> \in Seq(Vouched)
  BY <1>2, Short
<1>4. ref \in Parts => <<take>> \o <<create>> \in Seq(Vouched)
  BY <1>2, <1>3, PutFirst
<1> QED BY <1>1, <1>3, <1>4, BeginVouched

\* The handlers other than an accepted finish.
LEMMA HandleVouched ==
    ASSUME FinishingInv, UNCHANGED finishers, NEW r \in Requests, Handle(r),
           \A o \in Orders, actor \in Actors : ~AcceptFinish(r, o, actor)
    PROVE  Vouching'
<1>1. ASSUME NEW o \in Orders,
             \/ StartDiagnosis(r, o)
             \/ StartService(r, o)
             \/ DeliverVehicle(r, o)
             \/ CloseServiceOrder(r, o)
      PROVE  Vouching'
  BY <1>1, MoveOrderVouched
     DEF StartDiagnosis, StartService, DeliverVehicle, CloseServiceOrder, Methods
<1>2. ASSUME NEW o \in Orders, CreateEstimate(r, o) PROVE Vouching'
  BY <1>2, CreateEstimateVouched
<1>3. ASSUME NEW o \in Orders, RejectEstimate(r, o) PROVE Vouching'
  BY <1>3, RejectStatementsVouched, BeginVouched DEF RejectEstimate, FinishingInv
<1>4. ASSUME NEW o \in Orders, NEW mechanic \in Mechanics, AssignMechanicTo(r, o, mechanic)
      PROVE  Vouching'
  BY <1>4, AssignMechanicVouched
<1>5. ASSUME NEW o \in Orders, NEW actor \in Actors, NEW target \in UpdateTargets,
             UpdateServiceOrderStatus(r, o, target, actor)
      PROVE  Vouching'
  <2>1. target # "FINISHED"
    BY <1>5 DEF AcceptFinish
  <2>2. MethodFor(ToDomain(order[o]), target) \in Methods \ {"finish"}
    BY <2>1 DEF MethodFor, UpdateTargets, Statuses, Methods
  <2> QED BY <1>5, <2>2, MoveOrderVouched DEF UpdateServiceOrderStatus
<1>6. ASSUME NEW o \in Orders, NEW actor \in Actors, FinishService(r, o, actor)
      PROVE  Vouching'
  BY <1>6 DEF AcceptFinish
<1>7. ASSUME NEW e \in Estimates, NEW status \in EstimateStatuses,
             PatchEstimateStatus(r, e, status)
      PROVE  Vouching'
  BY <1>7, UpdateEstimateStatusVouched DEF PatchEstimateStatus, FinishingInv
<1>8. ASSUME NEW e \in Estimates, NEW decision \in {"APPROVED", "REJECTED"},
             ReceiveExternalDecision(r, e, decision)
      PROVE  Vouching'
  BY <1>8, ReceiveExternalDecisionVouched DEF FinishingInv
<1>9. ASSUME NEW e \in Estimates \cup {NoEstimate}, NEW ref \in References,
             NEW q \in 1 .. MaxQuantity, AddEstimateItem(r, e, ref, q)
      PROVE  Vouching'
  BY <1>9, AddEstimateItemVouched DEF FinishingInv
<1> QED BY <1>1, <1>2, <1>3, <1>4, <1>5, <1>6, <1>7, <1>8, <1>9 DEF Handle

-----------------------------------------------------------------------------
(***************************************************************************)
(* The statements and the creation of an order.                            *)
(***************************************************************************)

\* The row a request writes was witnessed when it was decided.
LEMMA UpdateOrderVouched ==
    ASSUME FinishingInv, UNCHANGED finishers, NEW r \in Requests, UpdateOrder(r)
    PROVE  Vouching'
<1> DEFINE s   == Head(todo[r])
           row == [s.row EXCEPT !.closedAt = s.row.closedAt \/ order[s.order].closedAt]
<1>1. /\ order' = [order EXCEPT ![s.order] = row]
      /\ todo' = [todo EXCEPT ![r] = Tail(todo[r])]
  BY DEF UpdateOrder, Done
<1>2. /\ s \in Vouched /\ s \in Statement /\ s.kind = "updateOrder"
      /\ Tail(todo[r]) \in Seq(Vouched)
  BY VouchedNext DEF UpdateOrder, FinishingInv
<1>3. s.order \in Orders /\ s.row \in Order /\ Witnessed(s.order, s.row)
  BY <1>2 DEF Vouched, Statement
<1>4. row.status = s.row.status /\ row.mechanicId = s.row.mechanicId
  BY <1>3 DEF Order
<1>5. Witnessed(s.order, row)
  BY <1>3, <1>4 DEF Witnessed
<1> HIDE DEF s, row
<1>6. \A o \in Orders : Witnessed(o, order'[o])
  BY <1>1, <1>3, <1>5 DEF FinishingInv, Vouching, IInv, TablesTyped
<1> QED BY <1>1, <1>2, <1>6, VouchingStep DEF FinishingInv

\* Loops put the rest of their rows back in front.
LEMMA LoopVouched ==
    ASSUME Vouching, UNCHANGED <<finishers, order>>, NEW r \in Requests, NEW kind, Runs(r, kind),
           NEW rest, NEW statement \in Vouched, Loop(r, rest, statement)
    PROVE  Vouching'
<1>1. Tail(todo[r]) \in Seq(Vouched)
  BY VouchedNext
<1>2. <<statement>> \o Tail(todo[r]) \in Seq(Vouched)
  BY <1>1, PutFirst
<1> DEFINE q == IF rest = {} THEN Tail(todo[r]) ELSE <<statement>> \o Tail(todo[r])
<1>3. q \in Seq(Vouched) /\ todo' = [todo EXCEPT ![r] = q]
  BY <1>1, <1>2 DEF Loop
<1> QED BY <1>3, OrderKept

LEMMA RejectNextEstimateVouched ==
    ASSUME Vouching, UNCHANGED finishers, NEW r \in Requests, NEW e \in Estimates,
           RejectNextEstimate(r, e)
    PROVE  Vouching'
<1> DEFINE s    == Head(todo[r])
           rest == s.estimates \ {e}
<1>1. s \in Statement /\ s.kind = "rejectEstimates"
  BY VouchedNext DEF RejectNextEstimate
<1>2. s.estimates \in SUBSET Estimates
  BY <1>1 DEF Statement
<1>3. [kind |-> "rejectEstimates", estimates |-> rest] \in Vouched
  BY <1>2 DEF Vouched, Statement
<1> QED BY <1>3, LoopVouched DEF RejectNextEstimate

LEMMA ReturnNextPartVouched ==
    ASSUME Vouching, UNCHANGED finishers, NEW r \in Requests, NEW i \in PartItem,
           ReturnNextPart(r, i)
    PROVE  Vouching'
<1> DEFINE s    == Head(todo[r])
           rest == s.items \ {i}
<1>1. s \in Statement /\ s.kind = "returnParts"
  BY VouchedNext DEF ReturnNextPart
<1>2. s.items \in SUBSET PartItem
  BY <1>1 DEF Statement
<1>3. [kind |-> "returnParts", items |-> rest] \in Vouched
  BY <1>2 DEF Vouched, Statement
<1> QED BY <1>3, LoopVouched DEF ReturnNextPart

LEMMA DecideEstimateVouched ==
    ASSUME FinishingInv, UNCHANGED finishers, NEW r \in Requests, DecideEstimate(r)
    PROVE  Vouching'
<1> DEFINE s == Head(todo[r])
           o == estimate[s.estimate].serviceOrder
<1>1. s \in Statement /\ Sound(s) /\ s.kind = "decide"
  BY NextStatement DEF DecideEstimate, FinishingInv, IInv
<1>2. o \in Orders
  BY <1>1 DEF Sound, Statement, FinishingInv, IInv, EstimatesSound
<1>3. CASE Allows(ToDomain(order[o]), DecisionMethod(s.status), NoMechanic)
  <2>1. Begin(r, DecisionStatements(o, s))
    BY <1>3 DEF DecideEstimate
  <2>2. DecisionStatements(o, s) \in Seq(Vouched)
    BY <1>1, <1>2, <1>3, DecisionStatementsVouched
  <2> QED BY <2>1, <2>2, BeginVouched DEF FinishingInv
<1>4. CASE ~Allows(ToDomain(order[o]), DecisionMethod(s.status), NoMechanic)
  BY <1>4, ThrowVouched DEF DecideEstimate, tables, FinishingInv
<1> QED BY <1>3, <1>4

LEMMA RejectOrderOfVouched ==
    ASSUME FinishingInv, UNCHANGED finishers, NEW r \in Requests, RejectOrderOf(r)
    PROVE  Vouching'
<1> DEFINE o == estimate[Head(todo[r]).estimate].serviceOrder
<1>1. /\ Head(todo[r]) \in Statement /\ Sound(Head(todo[r]))
      /\ Head(todo[r]).kind = "rejectOrderOf"
  BY NextStatement DEF RejectOrderOf, FinishingInv, IInv
<1>2. o \in Orders
  BY <1>1 DEF Sound, Statement, FinishingInv, IInv, EstimatesSound
<1>3. CASE Allows(ToDomain(order[o]), "rejectEstimate", NoMechanic)
  BY <1>2, <1>3, RejectStatementsVouched, BeginVouched DEF RejectOrderOf, FinishingInv
<1>4. CASE ~Allows(ToDomain(order[o]), "rejectEstimate", NoMechanic)
  BY <1>4, ThrowVouched DEF RejectOrderOf, tables, FinishingInv
<1> QED BY <1>3, <1>4

\* The statements that add an item and write the total of its estimate.
LEMMA ItemVouched ==
    ASSUME FinishingInv, UNCHANGED finishers, NEW r \in Requests,
           CreateItem(r) \/ SumItems(r) \/ WriteTotal(r)
    PROVE  Vouching'
<1> DEFINE s     == Head(todo[r])
           sum   == [kind |-> "sumItems", estimate |-> s.estimate]
           total == [kind |-> "writeTotal", estimate |-> s.estimate,
                     totalOf |-> item[s.estimate]]
<1>1. CASE CreateItem(r)
  <2>1. CASE s.estimate \in Estimates /\ item[s.estimate][s.ref] = 0
    <3>1. todo' = [todo EXCEPT ![r] = <<sum>>] /\ UNCHANGED order
      BY <1>1, <2>1 DEF CreateItem
    <3>2. sum \in Vouched
      BY <2>1 DEF Vouched, Statement
    <3> HIDE DEF sum
    <3>3. <<sum>> \in Seq(Vouched)
      BY <3>2, Short
    <3> QED BY <3>1, <3>3, OrderKept DEF FinishingInv
  <2>2. CASE ~(s.estimate \in Estimates /\ item[s.estimate][s.ref] = 0)
    BY <1>1, <2>2, ThrowVouched DEF CreateItem, FinishingInv
  <2> QED BY <2>1, <2>2
<1>2. CASE SumItems(r)
  <2>1. s \in Statement /\ s.kind = "sumItems" /\ Begin(r, <<total>>)
    BY <1>2, VouchedNext DEF SumItems, FinishingInv
  <2>2. total \in Vouched
    BY <2>1 DEF Vouched, Statement, FinishingInv, IInv, TablesTyped
  <2> HIDE DEF total
  <2>3. <<total>> \in Seq(Vouched)
    BY <2>2, Short
  <2> QED BY <2>1, <2>3, BeginVouched DEF FinishingInv
<1>3. CASE WriteTotal(r)
  BY <1>3, DoneVouched DEF WriteTotal, FinishingInv
<1> QED BY <1>1, <1>2, <1>3

\* Every statement.
LEMMA RunVouched ==
    ASSUME FinishingInv, UNCHANGED finishers, NEW r \in Requests, Run(r)
    PROVE  Vouching'
<1>1. ASSUME CreateStatusHistory(r) \/ SetEstimateStatus(r) PROVE Vouching'
  BY <1>1, DoneVouched DEF CreateStatusHistory, SetEstimateStatus, FinishingInv
<1>2. ASSUME NEW e \in Estimates, InsertEstimate(r, e) PROVE Vouching'
  BY <1>2, DoneVouched DEF InsertEstimate, FinishingInv
<1>3. ASSUME NEW e \in Estimates, RejectNextEstimate(r, e) PROVE Vouching'
  BY <1>3, RejectNextEstimateVouched DEF FinishingInv
<1>4. ASSUME NEW i \in PartItem, ReturnNextPart(r, i) PROVE Vouching'
  BY <1>4, ReturnNextPartVouched DEF FinishingInv
<1>5. ASSUME DecrementStock(r) PROVE Vouching'
  BY <1>5, DoneVouched, ThrowVouched DEF DecrementStock, FinishingInv
<1>6. ASSUME Fail(r) PROVE Vouching'
  BY <1>6, ThrowVouched DEF Fail, tables, FinishingInv
<1> QED BY <1>1, <1>2, <1>3, <1>4, <1>5, <1>6, UpdateOrderVouched, DecideEstimateVouched,
           RejectOrderOfVouched, ItemVouched
        DEF Run

\* An order is opened in a status that needs no witness.
LEMMA OpeningVouched ==
    ASSUME FinishingInv, UNCHANGED <<finishers, todo>>, NEW o \in Orders, NEW row,
           row.status \notin Finished, order' = [order EXCEPT ![o] = row]
    PROVE  Vouching'
<1>1. Vouched' = Vouched
  BY DEF Vouched, Witnessed
<1>2. \A p \in Orders : Witnessed(p, order[p])'
  BY DEF FinishingInv, Vouching, IInv, TablesTyped, Witnessed
<1> QED BY <1>1, <1>2 DEF FinishingInv, Vouching

LEMMA OpenOrderVouched ==
    ASSUME FinishingInv, UNCHANGED finishers, NEW o \in Orders, OpenOrder(o)
    PROVE  Vouching'
<1>1. OpenedOrder.status \notin Finished
  BY DEF OpenedOrder, Finished
<1> QED BY <1>1, OpeningVouched DEF OpenOrder

LEMMA OpenOrderWithItemsVouched ==
    ASSUME FinishingInv, UNCHANGED finishers, NEW o \in Orders, NEW e \in Estimates,
           NEW items \in ItemList, OpenOrderWithItems(o, e, items)
    PROVE  Vouching'
<1> DEFINE opened == Apply(Apply(OpenedOrder, "startDiagnosis"), "requestApproval")
<1>1. OpenedOrder \in Order /\ "startDiagnosis" \in Methods /\ "requestApproval" \in Methods
  BY DEF OpenedOrder, Order, Statuses, Methods
<1>2. opened.status = ResultOf["requestApproval"]
  BY <1>1, ApplyTyped
<1>3. opened.status \notin Finished
  BY <1>2 DEF ResultOf, Finished
<1>4. order' = [order EXCEPT ![o] = opened] /\ UNCHANGED todo
  BY DEF OpenOrderWithItems
<1> HIDE DEF opened
<1> QED BY <1>3, <1>4, OpeningVouched

-----------------------------------------------------------------------------
(***************************************************************************)
(* An accepted finish.                                                     *)
(***************************************************************************)

\* What was witnessed stays so when more users have finished.
LEMMA StaysVouched ==
    ASSUME \A o \in Orders : finishers[o] \subseteq finishers'[o]
    PROVE  /\ Vouched \subseteq Vouched'
           /\ \A o \in Orders : UNCHANGED order /\ Witnessed(o, order[o])
                                    => Witnessed(o, order[o])'
<1>1. \A s \in Statement : s.kind = "updateOrder" => s.order \in Orders
  BY DEF Statement
<1> QED BY <1>1 DEF Vouched, Witnessed

\* finish() ran, so the order names the user who called it: the row it writes has
\* its witness from now on.
LEMMA FinishingVouched ==
    ASSUME FinishingInv, NEW r \in Requests, NEW o \in Orders, NEW actor \in Actors,
           Finishing(r, o, actor)
    PROVE  Vouching'
<1> DEFINE loaded == ToDomain(order[o])
           moved  == Apply(loaded, "finish")
           update == Update(o, moved)
           record == Record(o, loaded.status, ResultOf["finish"])
<1>1. MoveOrder(r, o, "finish", actor)
  <2>1. MethodFor(loaded, "FINISHED") = "finish"
    BY DEF MethodFor
  <2> QED BY <2>1 DEF Finishing, AcceptFinish, FinishService, UpdateServiceOrderStatus
<1>2. Allows(loaded, "finish", actor) /\ Begin(r, <<update, record>>)
  BY <1>1 DEF MoveOrder
<1>3. "finish" \in Methods /\ loaded \in Order /\ loaded.status \in ExpectedIn["finish"]
  BY <1>2, Loaded DEF Methods, FinishingInv, Allows
<1>4. moved \in Order /\ moved.mechanicId = actor
  BY <1>2, <1>3, ApplyTyped DEF Allows, IsAssignedTo
<1>5. /\ finishers' = [finishers EXCEPT ![o] = @ \cup {actor}]
      /\ finishers' \in [Orders -> SUBSET Actors]
      /\ actor \in finishers'[o]
      /\ \A p \in Orders : finishers[p] \subseteq finishers'[p]
  BY DEF Finishing, FinishingInv, Vouching
<1>6. record \in Vouched
  BY <1>3, EdgeOfMethod, RecordIsPlain
<1> HIDE DEF moved
<1>7. update \in Vouched'
  BY <1>4, <1>5 DEF Update, Vouched, Statement, Witnessed
<1> HIDE DEF update, record, loaded
<1>8. Vouched \subseteq Vouched'
  BY <1>5, StaysVouched
<1>9. <<update, record>> \in Seq(Vouched') /\ Seq(Vouched) \subseteq Seq(Vouched')
  BY <1>6, <1>7, <1>8, Short, SeqOfLarger
<1>10. todo' = [todo EXCEPT ![r] = <<update, record>>] /\ UNCHANGED order
  BY <1>2 DEF Begin, tables
<1>11. todo' \in [Requests -> Seq(Vouched')]
  BY <1>9, <1>10 DEF FinishingInv, Vouching
<1>12. \A p \in Orders : Witnessed(p, order[p])'
  BY <1>5, <1>10, StaysVouched DEF FinishingInv, Vouching
<1> QED BY <1>5, <1>11, <1>12 DEF Vouching

-----------------------------------------------------------------------------
(***************************************************************************)
(* The theorems.                                                           *)
(***************************************************************************)

\* An accepted finish is a handler of ServiceOrders.
LEMMA FinishingIsAStep ==
    ASSUME NEW r \in Requests, NEW o \in Orders, NEW actor \in Actors, Finishing(r, o, actor)
    PROVE  Next
<1>1. "FINISHED" \in UpdateTargets
  BY DEF UpdateTargets, Statuses
<1>2. Handle(r)
  BY <1>1 DEF Finishing, AcceptFinish, Handle
<1> QED BY <1>2 DEF Next

\* The history variable constrains nothing: every behaviour is one of ServiceOrders.
THEOREM WitnessesOnlyWatch == WitnessedSpec => Spec
<1>1. WitnessedInit => Init
  BY DEF WitnessedInit
<1>2. [WitnessedNext]_witnessedVars => [Next]_vars
  BY FinishingIsAStep DEF WitnessedNext, FinishesNothing, witnessedVars
<1> QED BY <1>1, <1>2, PTL DEF WitnessedSpec, Spec

LEMMA FinishingInit == WitnessedInit => FinishingInv
<1> SUFFICES ASSUME WitnessedInit PROVE FinishingInv
  OBVIOUS
<1>1. IInv
  BY InitSound DEF WitnessedInit
<1>2. <<>> \in Seq(Vouched)
  OBVIOUS
<1>3. Vouching
  BY <1>2 DEF WitnessedInit, Init, Vouching, Witnessed, NoOrderRow, Unopened, Finished
<1> QED BY <1>1, <1>3 DEF FinishingInv

LEMMA FinishingNext == FinishingInv /\ [WitnessedNext]_witnessedVars => FinishingInv'
<1> SUFFICES ASSUME FinishingInv, [WitnessedNext]_witnessedVars PROVE FinishingInv'
  OBVIOUS
<1>1. [Next]_vars
  BY FinishingIsAStep DEF WitnessedNext, FinishesNothing, witnessedVars
<1>2. IInv'
  BY <1>1, NextSound DEF FinishingInv
<1>3. CASE \E r \in Requests, o \in Orders, actor \in Actors : Finishing(r, o, actor)
  BY <1>2, <1>3, FinishingVouched DEF FinishingInv
<1>4. CASE FinishesNothing
  <2>1. ASSUME NEW r \in Requests, Handle(r) PROVE Vouching'
    BY <1>4, <2>1, HandleVouched DEF FinishesNothing
  <2>2. ASSUME NEW r \in Requests, Run(r) PROVE Vouching'
    BY <1>4, <2>2, RunVouched DEF FinishesNothing
  <2>3. ASSUME NEW o \in Orders, OpenOrder(o) PROVE Vouching'
    BY <1>4, <2>3, OpenOrderVouched DEF FinishesNothing
  <2>4. ASSUME NEW o \in Orders, NEW e \in Estimates, NEW items \in ItemList,
               OpenOrderWithItems(o, e, items)
        PROVE  Vouching'
    BY <1>4, <2>4, OpenOrderWithItemsVouched DEF FinishesNothing
  <2> QED BY <1>2, <1>4, <2>1, <2>2, <2>3, <2>4 DEF FinishesNothing, Next, FinishingInv
<1>5. CASE UNCHANGED witnessedVars
  <2>1. UNCHANGED <<order, todo, finishers>>
    BY <1>5 DEF witnessedVars, vars
  <2>2. Vouched' = Vouched
    BY <2>1 DEF Vouched, Witnessed
  <2> QED BY <1>2, <2>1, <2>2 DEF FinishingInv, Vouching, Witnessed
<1> QED BY <1>3, <1>4, <1>5 DEF WitnessedNext

\* Whatever stale rows are written back, an order past IN_EXECUTION names a mechanic,
\* and that mechanic called finish() on it: nobody finishes the order of another.
THEOREM OnlyItsMechanicFinishes == WitnessedSpec => []FinishedByItsMechanic
<1>1. FinishingInv => FinishedByItsMechanic
  BY DEF FinishingInv, Vouching, Witnessed, IInv, OrdersSound, NamesMechanic, Finished,
         FinishedByItsMechanic
<1>2. WitnessedSpec => []FinishingInv
  BY FinishingInit, FinishingNext, PTL DEF WitnessedSpec
<1> QED BY <1>1, <1>2, PTL
=============================================================================
