---------------------------- MODULE OrderCreation ----------------------------
(***************************************************************************)
(* The creation of service orders, the one handler that runs in a          *)
(* transaction: CreateServiceOrderUseCase, InitialEstimateOrchestrator and *)
(* the use cases it calls, against PostgreSQL at its default isolation     *)
(* level, read committed, through a pool of connections.                   *)
(*                                                                         *)
(* Until it commits, the rows a transaction inserts are seen by nobody     *)
(* else: they are its draft.  The rows of the parts are shared: an update  *)
(* takes the lock of the row, waits while another transaction holds it,    *)
(* and then evaluates its condition on the row as it is.  The items are    *)
(* taken in the order the client lists them, so two creations may wait for *)
(* each other; the database breaks such a cycle.  A transaction ends with  *)
(* its commit or with a rollback: a statement throws, the five seconds are *)
(* over, the pod is killed.  Other handlers use the same materials, and    *)
(* may delete one while an order that asks for it is created.              *)
(***************************************************************************)
EXTENDS OrderOpening, FiniteSets

CONSTANT Connections    \* connections of the pool

ASSUME CreationAssumption == Connections \in Nat \ {0}

VARIABLES
    stage,      \* the statement each request runs next
    position,   \* the item of its list each request is at
    draft,      \* the rows each transaction has inserted so far
    taken       \* what each transaction has taken from the parts it locked

tx == <<position, draft, taken>>
vars == <<input, opened, stock, deleted, gone, answer, stage, position, draft, taken>>

-----------------------------------------------------------------------------
NothingTaken == [p \in Parts |-> 0]

InTransaction == {"order", "diagnosis", "estimate", "look", "reread",
                  "take", "insert", "read back"}

Stages == InTransaction \cup {"idle", "begin", "committed", "over"}

Item(r) == input[r][position[r]]

Listed(r) == position[r] <= Len(input[r])

Transactions == {r \in Requests : stage[r] \in InTransaction}

\* The transaction that holds the lock of a row: it has updated it.
Holds(r, p) == taken[r][p] > 0

LockedByOther(r, p) == \E other \in Requests \ {r} : Holds(other, p)

\* A transaction sees the committed stock and its own updates.
Visible(r, p) == stock[p] - taken[r][p]

GoTo(r, place) == stage' = [stage EXCEPT ![r] = place]

\* A private row: no other transaction can tell when it is written.
Draft(r, rows) ==
    /\ draft' = [draft EXCEPT ![r] = rows]
    /\ UNCHANGED <<position, taken>>

\* The connection goes back to the pool, and the locks are released.
EndTransaction(r) ==
    /\ position' = [position EXCEPT ![r] = 1]
    /\ draft' = [draft EXCEPT ![r] = NoRows]
    /\ taken' = [taken EXCEPT ![r] = NothingTaken]

Rollback(r, told) ==
    /\ GoTo(r, "over")
    /\ answer' = [answer EXCEPT ![r] = told]
    /\ EndTransaction(r)
    /\ UNCHANGED <<input, opened, stock, deleted, gone>>

Throw(r) == Rollback(r, "refused")

-----------------------------------------------------------------------------
(***************************************************************************)
(* The statements.                                                         *)
(***************************************************************************)

\* The request arrives, and its customer and vehicle are found: that is checked
\* before the transaction begins.
Receive(r) ==
    /\ stage[r] = "idle" /\ Send(r) /\ GoTo(r, "begin")
    /\ UNCHANGED tx

\* A connection of the pool is free.
BeginTransaction(r) ==
    /\ stage[r] = "begin" /\ Cardinality(Transactions) < Connections
    /\ GoTo(r, "order")
    /\ UNCHANGED <<input, opened, stock, deleted, gone, answer, tx>>

\* None became free in time: the statements of all other handlers use the same pool.
NoConnection(r) == stage[r] = "begin" /\ Throw(r)

\* The row of the order and its first history row.
InsertOrder(r) ==
    /\ stage[r] = "order"
    /\ Draft(r, [NoRows EXCEPT !.order = OpenedOrder, !.history = <<OpenedOrder.status>>])
    /\ GoTo(r, IF input[r] = <<>> THEN "read back" ELSE "diagnosis")
    /\ UNCHANGED <<input, opened, stock, deleted, gone, answer>>

Moved(rows, method) ==
    [rows EXCEPT !.order = Apply(rows.order, method),
                 !.history = Append(@, ResultOf[method])]

StartDiagnosis(r) ==
    /\ stage[r] = "diagnosis"
    /\ Draft(r, Moved(draft[r], "startDiagnosis"))
    /\ GoTo(r, "estimate")
    /\ UNCHANGED <<input, opened, stock, deleted, gone, answer>>

CreateEstimate(r) ==
    /\ stage[r] = "estimate"
    /\ Draft(r, [Moved(draft[r], "requestApproval") EXCEPT !.issued = TRUE])
    /\ GoTo(r, "look")
    /\ UNCHANGED <<input, opened, stock, deleted, gone, answer>>

HasStock(r, p, quantity) == p \notin deleted /\ Visible(r, p) >= quantity

\* Mutant: the checks of the part are left to decrementStock.
LookUpItemUnchecked(r) ==
    /\ stage[r] = "look" /\ Listed(r)
    /\ GoTo(r, IF Item(r).ref \in Services THEN "insert" ELSE "reread")
    /\ UNCHANGED <<input, opened, stock, deleted, gone, answer, tx>>

\* AddEstimateItem finds the row.  A service has no stock, that of a part must suffice.
\* It throws if not, or when the catalog has no such row.
LookUpItem(r) ==
    /\ stage[r] = "look" /\ Listed(r)
    /\ \/ /\ Item(r).ref \in Services
          /\ GoTo(r, "insert")
          /\ UNCHANGED <<input, opened, stock, deleted, gone, answer, tx>>
       \/ /\ Item(r).ref \in Parts /\ HasStock(r, Item(r).ref, Item(r).quantity)
          /\ GoTo(r, "reread")
          /\ UNCHANGED <<input, opened, stock, deleted, gone, answer, tx>>
       \/ /\ Item(r).ref \in Parts => ~HasStock(r, Item(r).ref, Item(r).quantity)
          /\ Throw(r)

\* Mutant: the part is read through a connection of its own, not the transaction's.
RereadElsewhere(r) ==
    /\ stage[r] = "reread" /\ Cardinality(Transactions) < Connections
    /\ GoTo(r, IF Item(r).ref \in deleted THEN "insert" ELSE "take")
    /\ UNCHANGED <<input, opened, stock, deleted, gone, answer, tx>>

\* decrementStock finds the part a second time.  One that is gone is passed over
\* without a word, and the item follows.
Reread(r) ==
    /\ stage[r] = "reread"
    /\ \/ /\ Item(r).ref \in deleted
          /\ GoTo(r, "insert")
          /\ UNCHANGED <<input, opened, stock, deleted, gone, answer, tx>>
       \/ /\ HasStock(r, Item(r).ref, Item(r).quantity)
          /\ GoTo(r, "take")
          /\ UNCHANGED <<input, opened, stock, deleted, gone, answer, tx>>
       \/ /\ Item(r).ref \notin deleted
          /\ ~HasStock(r, Item(r).ref, Item(r).quantity)
          /\ Throw(r)

\* Mutant: the update adds to the stock.
TakeStockAdding(r) ==
    /\ stage[r] = "take" /\ ~LockedByOther(r, Item(r).ref)
    /\ taken' = [taken EXCEPT ![r][Item(r).ref] = @ - Item(r).quantity]
    /\ GoTo(r, "insert")
    /\ UNCHANGED <<input, opened, stock, deleted, gone, answer, position, draft>>

\* Mutant: the update relies on the stock that was read.
TakeStockUnguarded(r) ==
    /\ stage[r] = "take" /\ ~LockedByOther(r, Item(r).ref)
    /\ taken' = [taken EXCEPT ![r][Item(r).ref] = @ + Item(r).quantity]
    /\ GoTo(r, "insert")
    /\ UNCHANGED <<input, opened, stock, deleted, gone, answer, position, draft>>

\* Mutant: the number of rows the update changed is not looked at.
TakeStockUncounted(r) ==
    /\ stage[r] = "take" /\ ~LockedByOther(r, Item(r).ref)
    /\ taken' = IF HasStock(r, Item(r).ref, Item(r).quantity)
                THEN [taken EXCEPT ![r][Item(r).ref] = @ + Item(r).quantity]
                ELSE taken
    /\ GoTo(r, "insert")
    /\ UNCHANGED <<input, opened, stock, deleted, gone, answer, position, draft>>

\* Mutant: the update is tried again until the stock suffices.
TakeStockRetrying(r) ==
    /\ stage[r] = "take" /\ ~LockedByOther(r, Item(r).ref)
    /\ HasStock(r, Item(r).ref, Item(r).quantity)
    /\ taken' = [taken EXCEPT ![r][Item(r).ref] = @ + Item(r).quantity]
    /\ GoTo(r, "insert")
    /\ UNCHANGED <<input, opened, stock, deleted, gone, answer, position, draft>>

\* The conditional update: no step while another transaction holds the row.  It
\* changes no row, and then throws, if the stock does not suffice or the row is gone.
TakeStock(r) ==
    /\ stage[r] = "take" /\ ~LockedByOther(r, Item(r).ref)
    /\ \/ /\ HasStock(r, Item(r).ref, Item(r).quantity)
          /\ taken' = [taken EXCEPT ![r][Item(r).ref] = @ + Item(r).quantity]
          /\ GoTo(r, "insert")
          /\ UNCHANGED <<input, opened, stock, deleted, gone, answer, position, draft>>
       \/ /\ ~HasStock(r, Item(r).ref, Item(r).quantity)
          /\ Throw(r)

NextItem(r) ==
    /\ position' = [position EXCEPT ![r] = @ + 1]
    /\ GoTo(r, "look")
    /\ UNCHANGED <<input, opened, stock, deleted, gone, answer, taken>>

WithItem(rows, ref, quantity) ==
    LET items == [rows.items EXCEPT ![ref] = quantity]
    IN  [rows EXCEPT !.items = items, !.totalOf = items]

\* The item and the new total.  A second item of the same reference is a duplicate
\* key: the statement throws, as every statement after it would.
InsertItem(r) ==
    /\ stage[r] = "insert"
    /\ \/ /\ draft[r].items[Item(r).ref] = 0
          /\ draft' = [draft EXCEPT ![r] = WithItem(@, Item(r).ref, Item(r).quantity)]
          /\ NextItem(r)
       \/ /\ draft[r].items[Item(r).ref] # 0
          /\ Throw(r)

ReadBack(r) ==
    /\ stage[r] = "look" /\ ~Listed(r)
    /\ GoTo(r, "read back")
    /\ UNCHANGED <<input, opened, stock, deleted, gone, answer, tx>>

Commit(r) ==
    /\ stage[r] = "read back"
    /\ opened' = [opened EXCEPT ![r] = draft[r]]
    /\ stock' = [p \in Parts |-> stock[p] - taken[r][p]]
    /\ EndTransaction(r)
    /\ GoTo(r, "committed")
    /\ UNCHANGED <<input, deleted, gone, answer>>

Respond(r) ==
    /\ stage[r] = "committed"
    /\ GoTo(r, "over")
    /\ answer' = [answer EXCEPT ![r] = "created"]
    /\ UNCHANGED <<input, opened, stock, deleted, gone, tx>>

-----------------------------------------------------------------------------
(***************************************************************************)
(* What goes wrong.                                                        *)
(***************************************************************************)
\* The five seconds are over, or a statement fails for a reason of its own.
Timeout(r) == stage[r] \in InTransaction /\ Throw(r)

\* The pod is killed, or the answer is lost on its way.
Kill(r) ==
    \/ stage[r] \in InTransaction \cup {"begin"} /\ Rollback(r, "lost")
    \/ /\ stage[r] = "committed"
       /\ GoTo(r, "over")
       /\ answer' = [answer EXCEPT ![r] = "lost"]
       /\ UNCHANGED <<input, opened, stock, deleted, gone, tx>>

WaitsFor(r, other) ==
    stage[r] = "take" /\ other # r /\ Holds(other, Item(r).ref)

\* Some transactions wait for each other, in a circle, and r is one of them.
InCycle(r) ==
    \E D \in SUBSET Requests :
        /\ r \in D
        /\ \A d \in D : \E other \in D : WaitsFor(d, other)
        /\ \A d \in D : \E other \in D : WaitsFor(other, d)

\* PostgreSQL finds the cycle and makes the statement of one of them fail.
DetectDeadlock(r) == stage[r] = "take" /\ InCycle(r) /\ Throw(r)

\* The handlers that change or delete a material outside a transaction: they, too,
\* wait for the lock of the row, but hold nothing while they do.
Unlocked(p) == \A r \in Requests : ~Holds(r, p)

MoveStockElsewhere(p) == Unlocked(p) /\ MoveStock(p) /\ UNCHANGED <<stage, tx>>

DeleteElsewhere(p) == Unlocked(p) /\ Delete(p) /\ UNCHANGED <<stage, tx>>

-----------------------------------------------------------------------------
CreationInit ==
    /\ Init
    /\ stage = [r \in Requests |-> "idle"]
    /\ position = [r \in Requests |-> 1]
    /\ draft = [r \in Requests |-> NoRows]
    /\ taken = [r \in Requests |-> NothingTaken]

\* The next statement of a request, or the end of its wait.
Advance(r) ==
    \/ BeginTransaction(r)
    \/ InsertOrder(r)
    \/ StartDiagnosis(r)
    \/ CreateEstimate(r)
    \/ LookUpItem(r)
    \/ Reread(r)
    \/ TakeStock(r)
    \/ InsertItem(r)
    \/ ReadBack(r)
    \/ Commit(r)
    \/ Respond(r)
    \/ DetectDeadlock(r)

CreationNext ==
    \/ \E r \in Requests :
        \/ Receive(r)
        \/ Advance(r)
        \/ NoConnection(r)
        \/ Timeout(r)
        \/ Kill(r)
    \/ \E p \in Parts : MoveStockElsewhere(p)
    \/ \E p \in Deletable : DeleteElsewhere(p)

(***************************************************************************)
(* Node runs every promise that is resolved and PostgreSQL every statement *)
(* that is not blocked; it looks for a cycle whenever a wait has lasted a  *)
(* second.  Requests are finitely many, so a lock or a connection that is  *)
(* free again and again is in the end free for good.                       *)
(***************************************************************************)
CreationSpec ==
    /\ CreationInit /\ [][CreationNext]_vars
    /\ \A r \in Requests : WF_vars(Advance(r))

-----------------------------------------------------------------------------
CreationTypeOK ==
    /\ input \in [Requests -> Lists \cup {NotSent}]
    /\ opened \in [Requests -> Rows]
    /\ stock \in [Parts -> Int]
    /\ deleted \subseteq Parts
    /\ gone \in [Requests -> SUBSET Parts]
    /\ answer \in [Requests -> Answers]
    /\ stage \in [Requests -> Stages]
    /\ position \in [Requests -> Nat]
    /\ draft \in [Requests -> Rows]
    /\ taken \in [Requests -> [Parts -> Nat]]

\* What a transaction has taken is there when it commits, however the stock moved
\* meanwhile: a condition that held at the update still holds at the commit.
TakenIsBacked == \A r \in Requests, p \in Parts : taken[r][p] <= stock[p]

\* Every request is answered, or its answer is lost: transactions that lock the same
\* parts in different orders, and wait for one connection, do not wait for ever.
EveryRequestIsAnswered ==
    \A r \in Requests : IsSent(r) ~> answer[r] # "none"

\* A creation is atomic: it opens a complete order and takes its parts, all but those
\* deleted meanwhile, or does nothing; and its client is not told otherwise.
Opening == INSTANCE OrderOpening
             WITH input <- input, opened <- opened, stock <- stock, deleted <- deleted,
                  gone <- gone, answer <- answer

ImplementsOpening == Opening!Spec
=============================================================================
