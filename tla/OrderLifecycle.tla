--------------------------- MODULE OrderLifecycle ---------------------------
(***************************************************************************)
(* What the life cycle of a service order promises, as the entity enforces *)
(* it: the order is opened, a mechanic is assigned while it is RECEIVED,   *)
(* and every later change is one of the entity's methods applied to the    *)
(* current order.  Every change is one atomic step.  The diagram           *)
(* docs/diagrams/03-maquina-estados.mmd has one edge more, from RECEIVED   *)
(* to WAITING_APPROVAL, which requestApproval() refuses.                   *)
(*                                                                         *)
(* ServiceOrders, where a change is a read and a later write, implements   *)
(* this specification when requests run one at a time.                     *)
(***************************************************************************)
EXTENDS ServiceOrderEntity

CONSTANT Orders     \* ids of service orders

VARIABLE order      \* the row of each order

Init == order = [o \in Orders |-> NoOrderRow]

\* Creation with items leaves the creating transaction as a WAITING_APPROVAL order.
Open(o) ==
    /\ order[o].status = Unopened
    /\ \E status \in {"RECEIVED", "WAITING_APPROVAL"} :
            order' = [order EXCEPT ![o] = [OpenedOrder EXCEPT !.status = status]]

Assign(o, mechanic) ==
    /\ CanAssignMechanic(order[o])
    /\ order' = [order EXCEPT ![o] = AssignMechanic(@, mechanic)]

Move(o, method, actor) ==
    /\ Allows(order[o], method, actor)
    /\ order' = [order EXCEPT ![o] = Apply(@, method)]

Next ==
    \E o \in Orders :
        \/ Open(o)
        \/ \E mechanic \in Mechanics : Assign(o, mechanic)
        \/ \E method \in Methods, actor \in Actors : Move(o, method, actor)

Spec == Init /\ [][Next]_order

-----------------------------------------------------------------------------
TypeOK == order \in [Orders -> Order]

(***************************************************************************)
(* The closing date is set exactly on a CLOSED order.                      *)
(***************************************************************************)
ClosedExactlyWhenDated ==
    \A o \in Orders : order[o].closedAt <=> order[o].status = "CLOSED"

(***************************************************************************)
(* Who repairs is decided at reception: once an order has left RECEIVED    *)
(* its mechanic never changes.                                             *)
(***************************************************************************)
MechanicFixedAfterReception ==
    [][\A o \in Orders : order[o].status \notin {Unopened, "RECEIVED"}
            => order'[o].mechanicId = order[o].mechanicId]_order

(***************************************************************************)
(* Nothing moves a CLOSED order.                                           *)
(***************************************************************************)
ClosedIsFinal ==
    [][\A o \in Orders : order[o].status = "CLOSED" => order'[o] = order[o]]_order
=============================================================================
