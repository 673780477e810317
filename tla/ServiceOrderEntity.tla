------------------------- MODULE ServiceOrderEntity -------------------------
(***************************************************************************)
(* The domain entity ServiceOrder: the statuses of an order, the methods   *)
(* that move it from one status to the next and the guards they check      *)
(* before they do.  Constant operators on the record of an entity; the     *)
(* modules that own an order as state EXTEND this one.                     *)
(*                                                                         *)
(* An order is a record of the three columns the entity writes back.       *)
(* closedAt says only whether a date is set.  A table row that does not    *)
(* exist yet has the status Unopened.                                      *)
(***************************************************************************)
CONSTANTS
    Mechanics,      \* ids of the users whose role is MECHANIC
    NoMechanic      \* the null of the column mechanic_id

ASSUME MechanicsAssumption == NoMechanic \notin Mechanics

Statuses == {"RECEIVED", "IN_DIAGNOSIS", "WAITING_APPROVAL", "IN_EXECUTION",
             "FINISHED", "DELIVERED", "CLOSED"}

Unopened == "UNOPENED"

Order == [status     : Statuses \cup {Unopened},
          mechanicId : Mechanics \cup {NoMechanic},
          closedAt   : BOOLEAN]

NoOrderRow == [status |-> Unopened, mechanicId |-> NoMechanic, closedAt |-> FALSE]

(***************************************************************************)
(* ServiceOrder.open, and ServiceOrderMapper.toDomain: an entity loaded    *)
(* from a row knows the status and the mechanic, never the closing date.   *)
(***************************************************************************)
OpenedOrder == [status |-> "RECEIVED", mechanicId |-> NoMechanic, closedAt |-> FALSE]

ToDomain(row) == [row EXCEPT !.closedAt = FALSE]

(***************************************************************************)
(* The methods that change the status: where each may start, where it ends.*)
(***************************************************************************)
Methods == {"startDiagnosis", "requestApproval", "rejectEstimate",
            "startService", "finish", "deliverVehicle", "close"}

\* Mutant: a rejection may also reopen an order in execution.
ExpectedInReopening ==
    [startDiagnosis  |-> {"RECEIVED", "IN_DIAGNOSIS"},
     requestApproval |-> {"IN_DIAGNOSIS"},
     rejectEstimate  |-> {"WAITING_APPROVAL", "IN_EXECUTION"},
     startService    |-> {"WAITING_APPROVAL"},
     finish          |-> {"IN_EXECUTION"},
     deliverVehicle  |-> {"FINISHED"},
     close           |-> {"DELIVERED"}]

ExpectedIn ==
    [startDiagnosis  |-> {"RECEIVED", "IN_DIAGNOSIS"},
     requestApproval |-> {"IN_DIAGNOSIS"},
     rejectEstimate  |-> {"WAITING_APPROVAL"},
     startService    |-> {"WAITING_APPROVAL"},
     finish          |-> {"IN_EXECUTION"},
     deliverVehicle  |-> {"FINISHED"},
     close           |-> {"DELIVERED"}]

ResultOf ==
    [startDiagnosis  |-> "IN_DIAGNOSIS",
     requestApproval |-> "WAITING_APPROVAL",
     rejectEstimate  |-> "IN_DIAGNOSIS",
     startService    |-> "IN_EXECUTION",
     finish          |-> "FINISHED",
     deliverVehicle  |-> "DELIVERED",
     close           |-> "CLOSED"]

\* The authenticated user of a request; NoMechanic stands for every user who is
\* not a mechanic.
Actors == Mechanics \cup {NoMechanic}

\* Mutant: any user may finish an order that has a mechanic.
IsAssignedToSomebody(order, actor) == order.mechanicId # NoMechanic

IsAssignedTo(order, actor) ==
    order.mechanicId # NoMechanic /\ order.mechanicId = actor

\* The method does not throw.
Allows(order, method, actor) ==
    /\ order.status \in ExpectedIn[method]
    /\ method = "finish" => IsAssignedTo(order, actor)

Apply(order, method) ==
    [order EXCEPT !.status   = ResultOf[method],
                  !.closedAt = (method = "close")]

CanAssignMechanic(order) == order.status = "RECEIVED"

AssignMechanic(order, mechanic) == [order EXCEPT !.mechanicId = mechanic]

(***************************************************************************)
(* updateStatus(target): the method it dispatches to.  No target reaches   *)
(* RECEIVED, and none repeats the current status.                          *)
(***************************************************************************)
UpdateTargets == Statuses \ {"RECEIVED"}

MethodFor(order, target) ==
    CASE target = "IN_DIAGNOSIS"     -> IF order.status = "WAITING_APPROVAL"
                                        THEN "rejectEstimate"
                                        ELSE "startDiagnosis"
      [] target = "WAITING_APPROVAL" -> "requestApproval"
      [] target = "IN_EXECUTION"     -> "startService"
      [] target = "FINISHED"         -> "finish"
      [] target = "DELIVERED"        -> "deliverVehicle"
      [] target = "CLOSED"           -> "close"

\* The edges of the life cycle, as pairs <<previous status, new status>>.
Edges == UNION {{<<from, ResultOf[m]>> : from \in ExpectedIn[m]} : m \in Methods}
=============================================================================
