------------------------- MODULE OrderLifecycleProofs -------------------------
(***************************************************************************)
(* What the life cycle promises, proved for every set of orders and of     *)
(* mechanics.                                                              *)
(***************************************************************************)
EXTENDS OrderLifecycle, TLAPS

\* What a row of the table of orders may be: the inductive invariant, which holds
\* of each order on its own.
SoundRow(row) ==
    /\ row \in Order
    /\ row.closedAt <=> row.status = "CLOSED"

LifecycleInv == order \in [Orders -> Order] /\ \A o \in Orders : SoundRow(order[o])

\* A method that a sound order allows leaves it sound, and its mechanic alone.
LEMMA MoveIsSound ==
    ASSUME NEW row, SoundRow(row), NEW method \in Methods, NEW actor,
           Allows(row, method, actor)
    PROVE  SoundRow(Apply(row, method)) /\ Apply(row, method).mechanicId = row.mechanicId
<1> DEFINE moved == Apply(row, method)
<1>1. moved \in Order /\ moved.mechanicId = row.mechanicId
  <2>1. ResultOf[method] \in Statuses
    BY DEF ResultOf, Methods, Statuses
  <2>2. (method = "close") \in BOOLEAN
    OBVIOUS
  <2> QED BY <2>1, <2>2 DEF SoundRow, Apply, Order
<1>2. moved.closedAt <=> moved.status = "CLOSED"
  <2>1. moved.status = ResultOf[method] /\ moved.closedAt = (method = "close")
    BY DEF SoundRow, Apply, Order
  <2>2. method = "close" <=> ResultOf[method] = "CLOSED"
    BY DEF ResultOf, Methods
  <2> QED BY <2>1, <2>2, Zenon
<1> QED BY <1>1, <1>2 DEF SoundRow

\* Assigning a mechanic at reception leaves a sound order sound.
LEMMA AssignIsSound ==
    ASSUME NEW row, SoundRow(row), CanAssignMechanic(row), NEW mechanic \in Mechanics
    PROVE  SoundRow(AssignMechanic(row, mechanic))
BY DEF SoundRow, CanAssignMechanic, AssignMechanic, Order

\* An order is opened without a mechanic and without a closing date.
LEMMA OpenIsSound ==
    ASSUME NEW status \in {"RECEIVED", "WAITING_APPROVAL"}
    PROVE  SoundRow([OpenedOrder EXCEPT !.status = status])
BY DEF SoundRow, OpenedOrder, Order, Statuses

\* Every order of the table is sound in every state.
THEOREM LifecycleInvariant == Spec => []LifecycleInv
<1>1. Init => LifecycleInv
  BY DEF Init, LifecycleInv, SoundRow, NoOrderRow, Order, Statuses, Unopened
<1>2. LifecycleInv /\ [Next]_order => LifecycleInv'
  <2> SUFFICES ASSUME LifecycleInv, [Next]_order PROVE LifecycleInv'
    OBVIOUS
  <2>1. ASSUME NEW o \in Orders, Open(o) PROVE LifecycleInv'
    <3>1. PICK status \in {"RECEIVED", "WAITING_APPROVAL"} :
            order' = [order EXCEPT ![o] = [OpenedOrder EXCEPT !.status = status]]
      BY <2>1 DEF Open
    <3>2. SoundRow([OpenedOrder EXCEPT !.status = status])
      BY OpenIsSound
    <3> QED BY <3>1, <3>2 DEF LifecycleInv, SoundRow
  <2>2. ASSUME NEW o \in Orders, NEW mechanic \in Mechanics, Assign(o, mechanic)
        PROVE  LifecycleInv'
    <3>1. SoundRow(AssignMechanic(order[o], mechanic))
      BY <2>2, AssignIsSound DEF Assign, LifecycleInv
    <3> QED BY <2>2, <3>1 DEF Assign, LifecycleInv, SoundRow
  <2>3. ASSUME NEW o \in Orders, NEW method \in Methods, NEW actor \in Actors,
               Move(o, method, actor)
        PROVE  LifecycleInv'
    <3>1. SoundRow(Apply(order[o], method))
      BY <2>3, MoveIsSound DEF Move, LifecycleInv
    <3> QED BY <2>3, <3>1 DEF Move, LifecycleInv, SoundRow
  <2>4. CASE UNCHANGED order
    BY <2>4 DEF LifecycleInv, SoundRow
  <2> QED BY <2>1, <2>2, <2>3, <2>4 DEF Next
<1> QED BY <1>1, <1>2, PTL DEF Spec

\* The closing date of an order is set exactly when close() has run.
THEOREM DatedExactlyWhenClosed == Spec => []ClosedExactlyWhenDated
<1>1. LifecycleInv => ClosedExactlyWhenDated
  BY DEF LifecycleInv, SoundRow, ClosedExactlyWhenDated
<1> QED BY <1>1, LifecycleInvariant, PTL

\* The mechanic is decided at reception: no method of the entity changes it later.
THEOREM MechanicIsFixed == Spec => MechanicFixedAfterReception
<1>1. LifecycleInv /\ [Next]_order
        => [\A o \in Orders : order[o].status \notin {Unopened, "RECEIVED"}
                => order'[o].mechanicId = order[o].mechanicId]_order
  <2> SUFFICES ASSUME LifecycleInv, Next, NEW p \in Orders,
                      order[p].status \notin {Unopened, "RECEIVED"}
               PROVE  order'[p].mechanicId = order[p].mechanicId
    OBVIOUS
  <2>1. ASSUME NEW o \in Orders, Open(o)
        PROVE  order'[p].mechanicId = order[p].mechanicId
    BY <2>1 DEF Open, LifecycleInv
  <2>2. ASSUME NEW o \in Orders, NEW mechanic \in Mechanics, Assign(o, mechanic)
        PROVE  order'[p].mechanicId = order[p].mechanicId
    BY <2>2 DEF Assign, CanAssignMechanic, LifecycleInv
  <2>3. ASSUME NEW o \in Orders, NEW method \in Methods, NEW actor \in Actors,
               Move(o, method, actor)
        PROVE  order'[p].mechanicId = order[p].mechanicId
    <3>1. Apply(order[o], method).mechanicId = order[o].mechanicId
      BY <2>3, MoveIsSound DEF Move, LifecycleInv
    <3> QED BY <2>3, <3>1 DEF Move, LifecycleInv
  <2> QED BY <2>1, <2>2, <2>3 DEF Next
<1> QED BY <1>1, LifecycleInvariant, PTL DEF Spec, MechanicFixedAfterReception

\* CLOSED is the end of the life cycle.
THEOREM ClosedStaysClosed == Spec => ClosedIsFinal
<1>1. LifecycleInv /\ [Next]_order
        => [\A o \in Orders : order[o].status = "CLOSED" => order'[o] = order[o]]_order
  <2> SUFFICES ASSUME LifecycleInv, Next, NEW p \in Orders, order[p].status = "CLOSED"
               PROVE  order'[p] = order[p]
    OBVIOUS
  <2>1. ASSUME NEW o \in Orders, Open(o) PROVE order'[p] = order[p]
    BY <2>1 DEF Open, LifecycleInv, Unopened
  <2>2. ASSUME NEW o \in Orders, NEW mechanic \in Mechanics, Assign(o, mechanic)
        PROVE  order'[p] = order[p]
    BY <2>2 DEF Assign, CanAssignMechanic, LifecycleInv
  <2>3. ASSUME NEW o \in Orders, NEW method \in Methods, NEW actor \in Actors,
               Move(o, method, actor)
        PROVE  order'[p] = order[p]
    BY <2>3 DEF Move, Allows, ExpectedIn, Methods, LifecycleInv
  <2> QED BY <2>1, <2>2, <2>3 DEF Next
<1> QED BY <1>1, LifecycleInvariant, PTL DEF Spec, ClosedIsFinal
=============================================================================
