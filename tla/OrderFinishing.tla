---------------------------- MODULE OrderFinishing ----------------------------
(***************************************************************************)
(* Who finished an order.  The tables do not say it: a row names the       *)
(* mechanic who was assigned, and the user of a request is known only      *)
(* while its handler decides.  So the history variable finishers keeps,    *)
(* next to ServiceOrders, the users whose finish the handlers have         *)
(* accepted; it is read by no action and constrains none.                  *)
(***************************************************************************)
EXTENDS ServiceOrders

VARIABLE finishers      \* for each order, the users whose finish was accepted

witnessedVars == <<vars, finishers>>

(***************************************************************************)
(* The two handlers that call finish(): each passes on the user of the     *)
(* request, for the entity to compare with the mechanic of the order.      *)
(***************************************************************************)
AcceptFinish(r, o, actor) ==
    \/ FinishService(r, o, actor)
    \/ UpdateServiceOrderStatus(r, o, "FINISHED", actor)

Finishing(r, o, actor) ==
    /\ AcceptFinish(r, o, actor)
    /\ finishers' = [finishers EXCEPT ![o] = @ \cup {actor}]

FinishesNothing ==
    /\ Next
    /\ ~ \E r \in Requests, o \in Orders, actor \in Actors : AcceptFinish(r, o, actor)
    /\ UNCHANGED finishers

WitnessedInit == Init /\ finishers = [o \in Orders |-> {}]

WitnessedNext ==
    \/ \E r \in Requests, o \in Orders, actor \in Actors : Finishing(r, o, actor)
    \/ FinishesNothing

WitnessedSpec == WitnessedInit /\ [][WitnessedNext]_witnessedVars

-----------------------------------------------------------------------------
\* An order past IN_EXECUTION was finished by the mechanic it names: that user,
\* and not only some user, called finish().  Every handler writes back the whole
\* row it loaded, so a stale row may bring back an earlier status or another
\* mechanic; it never pairs a finished status with a mechanic who did not finish.
FinishedByItsMechanic ==
    \A o \in Orders : order[o].status \in {"FINISHED", "DELIVERED", "CLOSED"}
        => order[o].mechanicId \in finishers[o] \cap Mechanics
=============================================================================
