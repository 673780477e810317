# Formal model of the workshop API (TechChallange)

TLA+ modules, TLC configurations and TLAPS proofs kept beside the code of the
workshop-management API: a NestJS modular monolith over Prisma and PostgreSQL.
Source paths below are relative to the repository root.

## 1. The system

Several replicas of one stateless process serve HTTP requests; all state is in
one PostgreSQL database at READ COMMITTED. A handler is an async function that
awaits one database statement at a time, so between two of its statements any
statement of another request may run. Only the creation of an order and the
archiving of a customer run in a database transaction
(`src/common/infra/services/prisma-unit-of-work.service.ts`, the transaction
client travels in an AsyncLocalStorage); nothing is locked or versioned anywhere
else, and a pod killed between two statements leaves what it has written.
Requests come in through guards and role checks and go out through exception
filters, one exception map per bounded context.

| Component | State | Operations | Interacts with | What makes it correct | Status |
|---|---|---|---|---|---|
| Service order entity (`service-orders/domain`) | status, mechanic, closing date | open, assignMechanic, startDiagnosis, requestApproval, rejectEstimate, startService, finish, deliverVehicle, close, updateStatus | loaded and written back by every handler | orders move along the life cycle only; only the assigned mechanic finishes; CLOSED is final and dated | modelled |
| Order handlers (`application/usecases/{service-order,diagnosis,mechanic}`) | `service_orders`, `status_history` | one per method, PATCH status | entity, repository | the history tells the path of the order; no handler undoes another | modelled |
| Estimates (`application/usecases/estimate`) | `estimates`, `estimate_items` | create, add item, PATCH status, reject, webhook decision, recalculated total | orders, stock of parts | an approval is final and starts the service; a rejection returns each part once; the total is the sum of the items | modelled |
| Creation of an order | all of the above | one transaction, with or without items | customers, vehicles, estimates, stock, connection pool | all of it or nothing, but for the stock of a part deleted meanwhile; every request is answered; the vehicle is the customer's | modelled |
| Stock of parts (`materials/infra/repositories`) | `parts.stock_quantity` | check, conditional decrement, increment | estimates, administration | never negative; no item without its parts, unless their material is gone | modelled |
| Materials administration, service catalog | `parts`, `service_catalog` | create, update, add stock, delete, list | stock of parts, estimates | deleted rows stay deleted; every row loads again | modelled; prices, texts and the reads of one row left out |
| Customers and vehicles (`customer-management`) | `customers`, `vehicles` | create, update, change of plate, archive (one of them a transaction); facade for orders | creation of an order | unique documents and plates; archiving is final and takes the vehicles along; a plate has one owner | modelled; the reads of one row left out |
| Documents and plates (value objects, `common/infra/validators`) | none | clean, validate | registration | two implementations agree | modelled |
| Queries and metrics | none | list, average execution time | orders, status history | the two readings of the tables agree | partly: sort order and bodies left out |
| Access and identity | `users` (read only), tokens | login, JWT validation, role guard | every route | the role that counts is that of the row | modelled |
| Routes, exception filters, webhook guard | none | per request | all | own exceptions are never internal errors; refusals are 401 | modelled; bodies and headers left out |
| Availability of mechanics | `users.available` | PATCH | nothing reads it | - | its route only |
| Seed, Kubernetes, Terraform, k6, scripts | - | - | - | - | not modelled; replicas appear as interleaving |

Hard behaviour: stale whole-row writes (`ServiceOrder.toUpdateData` writes status
and mechanic together, `PrismaMaterialRepository.update` the stock), check-then-act
across awaits, unique indexes that decide what the checks miss, notifications
delivered twice or late, loops of statements cut by a crash, row locks taken in the
order a client lists its parts, tokens older than the row they stand for. Every
place we found is a hazard in `PROJECT.json`, with the property that watches it or
the reason none does.

## 2. The modules

| Module | What it is |
|---|---|
| `ServiceOrderEntity` | The entity as constant operators: `ExpectedIn` and `ResultOf` are the guard and the effect of each method, `Allows` and `Apply` call one, `MethodFor` is the dispatch of `updateStatus`. |
| `OrderLifecycle` | Abstract specification: what an order may do if every change were one atomic step. |
| `ServiceOrders` | The context with its tables and requests, statement by statement. `ServiceOrdersProperties` says what must hold of it. |
| `OrderFinishing` | `ServiceOrders` with a history variable, `finishers`: whose finish of which order was accepted. |
| `OrderQueries` | The readers of its tables: the listing and the average execution time. |
| `MaterialEntity` | The entity Material: what its constructor and `update` accept, movements of stock, amounts as grains of a unit. |
| `Inventory` | Materials, services and the items of estimates: administration against use. |
| `OrderOpening` | Abstract specification of the creation of an order: complete at once, or nothing; its parts are taken with it, but for those deleted since it was asked for. |
| `OrderCreation` | The creating transactions statement by statement, with row locks, pool, time limit, deadlocks and crashes. |
| `Documents` | Documents digit by digit, both implementations, and license plates by character class. |
| `VehicleOwnership` | Abstract specification: a plate in use belongs to one customer. |
| `CustomerRegistry` | Customers, vehicles, and the opening of orders for them. Uses `Documents`. |
| `HttpRoutes` | Tables: routes with guards, roles and answers, exceptions, exception maps. |
| `HttpPipeline` | A request through guard, roles, handler and filter, with tokens and changing users. |
| `*Proofs` | Theorems about the module whose name they carry. `ServiceOrdersRecordsProofs` continues `ServiceOrdersProofs` with what the tables say of each other; it includes `OrderQueries`. `CustomerRegistryProofs` ends with the theorem about `Documents`. |
| `MC*` | Instances for TLC; one `.cfg` per run. |

`ServiceOrders`, `OrderOpening` and `OrderCreation` build on `ServiceOrderEntity`;
`MCServiceOrders` composes `ServiceOrders` with `OrderQueries`, `MCOrderFinishing` takes `OrderFinishing`. The contexts
share no table but `parts` (in `ServiceOrders` a stock that only estimates move, in
`Inventory` a row that administrators rewrite, in `OrderCreation` a stock that others
may set to anything, and a row that they may delete, between statements) and the customer and vehicle of an order (in
`CustomerRegistry`).

### How ServiceOrders corresponds to the code

* `order`, `estimate`, `item`, `history` and `stock` are the tables. A row that
  does not exist has the status `Unopened` or `Unissued`, an item row that does
  not exist has quantity 0: this carries the unique key of `estimate_items`.
* `todo[r]` is what is left of the handler of request `r`: the statements it has
  decided to run. Every handler here has the same shape: it loads rows, decides
  in memory, and then only writes. The action of the handler (`StartDiagnosis`,
  `AddEstimateItem`, ...) is the load and the decision; each later statement
  (`UpdateOrder`, `ReturnNextPart`, ...) is an action on the head of `todo[r]`,
  and carries values computed from what was loaded, however stale by then.
  A handler that loads twice (`DecideEstimate`, `RejectOrderOf`, `SumItems`) has
  the second load as an action too. A handler that throws before it writes
  changes nothing and is no step.
* The loops of `reject-estimate.use-case.ts` are one statement per row, taken in
  any order.
* `Promise.all` in `create-estimate.use-case.ts` is the choice of either order.
* `closedAt` is kept by an update that does not set it: Prisma ignores
  `undefined`.
* The creation of an order is one step, `OpenOrder` or `OpenOrderWithItems`: the
  outcome of its transaction.
* `Fail(r)` drops the rest of `todo[r]`: a killed pod, or a statement the database
  refuses. `MayFail` switches it.
* A notification delivered twice is simply a second request.
* Who called `finish` is known only while its handler decides: no column keeps it.
  `OrderFinishing` remembers it. Its steps are those of `ServiceOrders`, one by one; an
  accepted finish (`FinishService`, or `UpdateServiceOrderStatus` to FINISHED, which
  passes the user of the request on to `finish` as well) adds that user to
  `finishers[o]`, and nothing reads it.

### How the other modules correspond to the code

* `Inventory` has the same `todo`. `phase` says of each id whether a row has it:
  ids are UUIDs and not used again. An administrator's handler loads a row through
  the entity's constructor, changes the entity and plans to write the whole row;
  `ReadStock` and `DecrementStock` are the two statements of `decrementStock`, with
  its silent return when the row is gone. `took` is a history field: no column
  says whether an item's quantity came off the stock. Amounts are in grains,
  four to a unit, two to the last decimal of `Decimal(10,3)`: enough to have whole
  units, fractions the column keeps, and fractions it rounds.
* `OrderCreation` has one stage per statement of the transaction. What a
  transaction writes is its `draft`, seen by nobody until `Commit`, but for the
  row locks: `taken[r][p] > 0` is an update of part `p` not yet committed, and
  locks the row. `Timeout`, `Kill`, `NoConnection`, `DetectDeadlock` and every
  statement that throws roll back. `MoveStockElsewhere` and `DeleteElsewhere` are the other
  handlers. A part is read twice: `LookUpItem` is the `findById` of
  `add-estimate-item.use-case.ts`, `Reread` the one inside `decrementStock`. When the row
  was deleted in between, `decrementStock` returns without a word and the item is inserted
  with nothing taken; deleted after `Reread`, the conditional update changes no row and
  `TakeStock` throws. `deleted` holds the deleted parts; `gone`, a history variable, those
  deleted before a request was sent, which no order of it may name.
* `CustomerRegistry`: `FindPlate` is the check, `InsertVehicle` and `WriteVehicle`
  meet the partial unique index on active plates (a migration defines it), and
  wait while the row that decides is locked by an archiving that has not
  committed. Writes of customers leave `document` and `deletedAt` alone, as the
  repository does, so that a stale row cannot revive one. `late` is a history
  variable.
* `HttpPipeline`: `LoadUser` is `ValidateAuthenticatedUserUseCase` with `RolesGuard`
  after it, for neither awaits anything in between; login reads the row once and
  verifies the password after. A login may also be refused by its DTO (400), and any
  statement may fail in the database (500), while the user is loaded too. `Consider` is one turn of the loop of
  `ExceptionStatusResolver`, in any order of the entries. The handler of a route is a
  choice among what the handlers of its context throw. `had` is a history variable:
  what the row of the user has said since the request arrived.

### Abstractions

* Ids are model values; names, prices, notes and dates are left out, but for
  whether `closedAt` is set.
* `totalAmount` is represented by the item list it was summed over: two totals are
  told apart exactly when they sum different items.
* `findById` with its relations is several SELECTs in Prisma; the model reads them
  at one instant. In `ServiceOrders` the read and the conditional `updateMany` of
  `decrementStock` are one step, as the update alone decides there; in `Inventory`
  they are two.
* A mechanic id given to `assignMechanic` names a user with role MECHANIC
  (`Mechanics`); `NoMechanic` as an actor stands for every other user.
* The time of a history row is its place in the history of its order.
* In `ServiceOrders` the creation of an order is one step, which `OrderCreation`
  justifies: its refinement of `OrderOpening` says that a creation is one. Parts are not
  deleted there; the item that a deletion leaves without its parts is in `OrderCreation`
  and `Inventory`.

### Bounds

* `MCServiceOrders`: one order, one part with a stock of 1, one mechanic (and the
  users who are none), at most two estimates and items of quantity 1. One order is
  enough because no statement touches two orders; two estimates are what a stale
  rejection needs; two requests are what a race of a pair of handlers needs.
  `MaxHistory` bounds the walk: 8 rows take an order through a rejection and on to
  CLOSED, 5 through a rejection and an approval. A handler begins only if there is
  room for its history row, so the bound never cuts a handler short. TLC need not
  check for deadlock here: an order that is CLOSED, or whose history is full, has
  nothing left to do.
* `MCOrderFinishing`: the same with two mechanics, so that one may be assigned, or may
  finish, in place of the other, the handlers that write the row of an order, two
  requests and a history of 8: a finished order may be overwritten by stale rows and
  finished again.
* `MCInventory`: one material, one service, one estimate and two requests. Every
  property speaks of one material. Items ask for one whole unit, administrators
  set or add half a unit or one, and do not add beyond two (`MaxStock`); an estimate
  is rejected once, so that the stock stays finite. It may end with every
  id deleted.
* `MCOrderCreation`: two requests over two parts, whose lists are empty, crossed,
  preceded by a service, or name a part twice; and, for the pool, three requests
  over two connections with crossed lists, where two transactions block each other
  while the third waits for either's connection. Stocks start at 2, and in `creation`
  other handlers may set them to 0, 1 or 2 (`MaxStock`) and
  delete either part (`Deletable`). Everything ends when all are answered.
* `MCCustomerRegistry`: two customers, two vehicles, two plates; the documents
  are a valid CPF typed in two ways, the same with a wrong digit, and a CNPJ. Two
  rows are what a clash needs; with rows never deleted the model ends when all
  are archived.
* `MCHttpPipeline`: one request at a time, two users, one operation for each kind of
  controller. Requests share only the rows of users and the tokens, which change at
  any time anyway.
* Requests, estimates, customers, vehicles and users are symmetric where the
  configuration says so; the two runs with a liveness property use no symmetry.

### Fairness

Only `OrderCreation` has liveness to promise: every other handler waits for nothing
but the database. `WF_vars(Advance(r))` says that a request whose next statement can
run, or whose wait the database would break, does not stand still for ever. Node
runs the continuation of every promise that is resolved; PostgreSQL runs every
statement that no lock blocks and looks for a cycle whenever a wait has lasted
`deadlock_timeout`. No fairness is assumed of timeouts, crashes or refused
statements: a request is answered without them. Weak fairness is enough, as
requests are finitely many: each lock and each connection given back is in the end
free for good.

## 3. What the runs show

Passing:

| Run | Instance | Properties | Shows |
|---|---|---|---|
| `serial` | 1 request, all handlers, no failure | `TypeOK`, `HistoryIsThePath`, `ApprovedIsUnderWay`, `TotalIsSumOfItems`, `AverageIsOfFinishedOrders`, `ApprovedIsFinal` | Without concurrency and crashes the code keeps its promises: these are the very properties that races break. |
| `serial_failing` | 1 request, crash between any two statements, no PATCH of estimates | `StockNeverExceedsInitial`, `ImplementsLifecycle` | Cut anywhere, a rejection never returns a part twice, and every order still follows `OrderLifecycle`. |
| `concurrent_orders` | 2 requests on the order row, 2 mechanics | `ClosingIsDated`, `HistoryRowsAreEdges`, `FinishedByItsMechanic` | What survives stale whole-row writes. They may undo a finish or an assignment, but an order past IN_EXECUTION always names a mechanic who himself finished it. |
| `concurrent_estimates` | 2 requests, all handlers | `StockNeverNegative`, `EstimatesAreRecorded`, `ApprovalIsRecorded` | What survives races on estimates and stock. |
| `inventory` | 2 requests, crashes | `TypeOK`, `StockNeverNegative`, `ListAnswers`, `ItemsWereTaken`, `ItemsNameRegisteredRows`, `DeletedStaysDeleted` | Lost updates of the stock there may be; an overdraft, an item without its parts, a row that comes back or one that breaks the listing (whole units given) there is not. |
| `creation` | 2 creations, every way to fail | `CreationTypeOK`, `TakenIsBacked`, `EveryRequestIsAnswered`, `ImplementsOpening` | Locks make the commit safe; a creation opens a complete order with its parts taken, all but those deleted since it was asked for, or does nothing; nobody waits for ever. |
| `creation_pool` | 3 creations, 2 connections, crossed lists | `EveryRequestIsAnswered` | Waiting for a row inside a wait for a connection ends, too, as a transaction never asks for a second connection. |
| `registry` | 2 requests, crashes | `TypeOK`, `DocumentsAreUnique`, `ActivePlatesAreUnique`, `OrphansAreLate`, `OrdersNameTheOwner`, `ArchivedStaysArchived`, `ImplementsOwnership` | The indexes catch what the checks miss; the archiving transaction misses a vehicle only when its insertion was under way. |
| `http` | 1 request, 2 users | `TypeOK`, `HandledWithRole`, `ClosestEntryDecides`, `OwnExceptionsAreMapped` | Rights follow the row of the user; the status does not depend on the order of a map. |

Disagreements between the code and what its own comments and documents say (each
run finds a counterexample; details in `PROJECT.json`, "findings"):

| Run | Property | In short |
|---|---|---|
| `late_decision` | `ApprovedIsFinal` | A late rejection overwrites an approval: both read the estimate first. |
| `repeated_rejection` | `RepeatedRejectionIsIgnored` | A rejection notified twice rejects the next estimate. |
| `removed_user` | `RefusedTokensGet401` | The token of a removed user is refused with an exception that the filter of the route does not know: 500 where the documents say 401. |

Other instances of the same modules show more of them. Each line is an existing
configuration with the change named and only the property named:

| Change | Violated | In short |
|---|---|---|
| `concurrent_orders.cfg` | `ImplementsLifecycle` | An assignment in flight while the diagnosis starts writes RECEIVED back. |
| `serial_failing.cfg`, `Operations <- AllOperations` | `StockNeverExceedsInitial` | REJECTED, PENDING, REJECTED by PATCH returns the parts twice; no race needed. |
| `serial.cfg`, `MayFail = TRUE` | `ApprovedIsUnderWay` | Killed between its two writes, an approval leaves the order waiting, and the retry is ignored. |
| `serial.cfg`, `Requests = {r1, r2}`, `Estimates = {e1}`, `MaxHistory = 4` | `TotalIsSumOfItems` | Two items added together, one missing from the total. |
| `inventory.cfg`, `Requests = {r1}`, `Quantities = {2, 4}` | `ListAnswers` | Half a unit of a supply is taken, the supply becomes a part, the half is returned: no material can be listed any more. |

Also met, and not a property: `docs/diagrams/03-maquina-estados.mmd` draws an edge
RECEIVED to WAITING_APPROVAL that `requestApproval` refuses. `src/README.md:172-176`,
`docs/autorizacao-crud-access-identity.md:142` and `docs/identidade-acesso.md` call
`GET /service-orders/:id` public; `service-order.controller.ts:47` asks for a JWT, and the
model follows it. The refusal to
register a document again tells an archived customer to be restored, which no
operation does. Four entries of the exception map of service-orders
(`UnauthorizedMechanic`, `DuplicateEstimateItem`, and the domain's `VehicleNotFound`
and `VehicleOwnerMismatch`) name exceptions nothing throws. `IsValidDocument` and
`IsValidPlate` in `common/` are used by no DTO. The seed inserts a plate of eight
characters (`prisma/seed.ts:162`), which the entity refuses to load; the models start
from empty tables.

## 4. What is proved

For every value of the constants that satisfies the named assumptions of the
modules (no null among the ids, disjoint kinds of ids, natural amounts, lists of
items with positive quantities, at least one connection).

`ServiceOrdersProofs`: `TypeCorrectness`, `StockStaysNonNegative`, `HistoryHoldsEdges`
and `ClosingsAreDated`, all from one inductive invariant, `IInv` (`SoundnessInvariant`).

None of these properties is inductive: what breaks an invariant of a table is a
statement decided long ago. `IInv` therefore speaks of `todo`: every statement
waiting there is `Sound`, that is, the row it writes names a mechanic if it
says FINISHED, its history row is an edge, and the rows it refers to exist; this
stays true while other requests write because orders stay opened, keep their
closing date, and estimates stay issued (`Growing`, `StaysSound`). One plan is
not sound statement by statement: `close` records CLOSED before the date is
set, but its own write comes first. `ClosingPlans` is that exception, and
`UpdateOrderStep` shows that the write makes the rest sound. The proof has a
lemma per handler (its statements are sound), a lemma per statement (the tables
stay sound), and one for each way to open an order.

`OrderFinishingProofs`: `OnlyItsMechanicFinishes`, for any number of requests, orders and
mechanics, and with requests cut anywhere. A row is vouched for if it is not past
IN_EXECUTION or names a mechanic in `finishers`; the invariant says so of every row in
the table and of every row some request has loaded, changed and not yet written. The
entity's comparison makes the row of an accepted finish vouched for, every other method
keeps the mechanic of a row that is past IN_EXECUTION, and `finishers` only grows, so that
stale rows stay vouched for. `WitnessesOnlyWatch` says that the history variable
constrains nothing: `WitnessedSpec` implies `Spec`, whose invariants it therefore has.

`ServiceOrdersRecordsProofs`: what one table says of another. The handlers write
these tables one after another, so each of its invariants says what is still to be
written in between. Two hypotheses occur, and only where the code fails without:

* `~MayFail`: every request runs to its end. A pod killed between two writes leaves
  the second one out for good, and nothing in the code makes up for it.
* `[]OrdersApart`: no two requests in flight concern the same order. Any number of
  them may be under way, each for another order, on the same stock. It is not something
  the code enforces: `late_decision` and the table above show what happens without. A
  system that serves one request at a time satisfies it, and `SerialSystems` and
  `SerialSystemsWithoutFailures` restate the results for one, with no such hypothesis:
  the runs `serial` and `serial_failing` for every value of their constants.

| Theorem | Needs | Property |
|---|---|---|
| `ApprovalsAreRecorded` | `~MayFail` | `ApprovalIsRecorded` |
| `IssuesAreRecorded` | `~MayFail` | `EstimatesAreRecorded` |
| `ApprovalIsFinal` | `[]OrdersApart` | `ApprovedIsFinal` |
| `LifecycleIsImplemented` | `[]OrdersApart` | `ImplementsLifecycle`, the refinement of `OrderLifecycle` |
| `HistoriesArePaths` | both | `HistoryIsThePath` |
| `TotalsAreSums` | both | `TotalIsSumOfItems` |
| `ApprovedOrdersAreUnderWay` | both | `ApprovedIsUnderWay` |
| `AverageIsOverFinishedOrders` | both, finitely many orders | `AverageIsOfFinishedOrders` |
| `StockIsNeverInvented` | `[]OrdersApart`, no PATCH of estimates | `StockNeverExceedsInitial` |

The argument, in its order:

1. Plans as sets. What a statement means for the tables does not depend on its place
   in its plan, but for a few kinds that must come before others. `Pend(r)` is the set
   of statements of `r`; `PlansShaped`, an invariant, says by `MayFollow` which kinds may
   come later. `HandleDecides` and `RunDoes` read the actions of `ServiceOrders` as
   changes of these sets (`DecidesOn`, `Does`), once for all that follows.
2. `RecordsInv` counts: the estimates of an order are at most its moves to
   WAITING_APPROVAL on record and the requests that have inserted an estimate and have
   yet to record its move (`Owed`); an approval is on record, or its record is pending
   (`Traced`). It needs no hypothesis about orders, as histories are only appended to.
3. `CurrentInv` says that what a statement was decided on still holds when it runs: the
   row to be written is what a method, or the assignment, makes of the row as it is now.
   Here `[]OrdersApart` enters, and nothing else: `ApprovalIsFinal` and
   `LifecycleIsImplemented` hold with requests cut anywhere. Each write of an order maps
   to `Move` or `Assign`, an opening to `Open`, any other step to a stutter.
4. `PathInv`, `TotalsInv`, `UnderWayInv`: the histories, totals and orders agree but for
   the row, the sum or the move that the one request at work on the order has pending. At
   rest nothing is pending.
5. `AverageIsOverFinishedOrders`: a history that is a path reaches FINISHED from
   IN_EXECUTION only, and never leaves finished work, so that its last move to FINISHED
   comes after its last move to IN_EXECUTION (`TimesOfLife`). The total is a fold over the
   orders timed: that it is well defined, and at least their number, is proved by induction
   on how many they are (`SumExists`, `TotalAtLeast`), as the least element of a set of
   naturals (`LeastNatural`), since the prover cannot instantiate an induction rule.
6. `StockInv` counts the units that may come back to the stock (`Units`): those of the
   items of PENDING estimates, those some rejection is about to return, and those a request
   has taken for an item it has yet to insert. Stock and units together never exceed the
   initial stock. A failure loses units and makes none. PATCH can set a REJECTED estimate
   back to PENDING, whose parts would count again: hence the hypothesis.

`OrderLifecycleProofs`: in the abstract life cycle the closing date is set exactly
on CLOSED orders, the mechanic is fixed after
reception and CLOSED is final. Through `LifecycleIsImplemented` they hold of requests
that are apart; concurrently on one order the last two do not.

`InventoryProofs`: all six properties of the run. The invariant is again about
statements in flight: a row to be written back is one the entity accepts, an item
to be inserted was taken from the stock or its material is gone for good, what is
to be returned is whole if all items are (`SoundStatements`). It is stable because
ids are not used again. `ListAlwaysAnswers` is under the hypothesis that clients ask
for whole units, which the code does not enforce.

`OrderCreationProofs`: `CreationIsAtomic`, the refinement of `OrderOpening`, with
`TakenStaysBacked` and the types. The invariant says how far each draft has come
(`Filled`: its first items are in the estimate), that what a transaction has taken is
what its draft holds and the item it is about to insert, for every part that is not deleted
(`Needed`, `TakenSound`), that a locked row has one holder and is not deleted, that the stock
covers what is taken, and that no draft names a part deleted before its request was sent
(`GoneSound`). The commit then maps to `Open`,
the end of a request to `Answer`, every other step of it to a stutter. That
`EveryRequestIsAnswered` is liveness and is only model-checked.

`CustomerRegistryProofs`: all seven properties of the run. `PlanSound` says of each
statement in flight what was loaded and still holds (ids registered, ownership),
`FoundAllButLate` that the archiving transaction has found every vehicle of its
customer but the late ones. `PlatesHaveOneOwner` maps each write of a vehicle to
`Register`, `Replate` or `GiveUp`; it rests on the uniqueness of active plates.

Its last section proves `ValidatorsAgree`, about `Documents`. That eleven minus a remainder is ten times the
remainder, both modulo eleven, is what makes the two CPF algorithms one; there are
10^11 numbers, too many to try.

`HttpPipelineProofs`: `RolesAreThoseOfTheRow`, `ClosestEntryWins` and
`OwnExceptionsAreAnswered`, from what a request behind the guard has been seen with
(`Guarded`) and from what the filter has considered so far (`Filtered`): the best entry
yet and those left make up the entries that fit. For the third, `OwnExceptionsFit` goes
through the tables: each class a context throws has an entry that fits, and none of them
is an internal error.

Every safety property of a passing run is stated by a theorem, some under the hypotheses
above. Model-checked only: `EveryRequestIsAnswered`, as liveness under fairness is out of
the prover's reach, and the properties of the runs that expect a violation, which do not
hold.

## 5. Not modelled

* Reads that change nothing and whose answer is a row: finding one customer, vehicle,
  material or service, the detail and the status of an order, and the order in which the listing sorts.
* Prices and money (`Money` leaves fractions of a cent to the column), names,
  descriptions, dates, the year of a vehicle.
* `users.available`, which is written and never read.
* The text of messages and bodies, DTO decorators (a refused body is a choice),
  Swagger, logging.
* `usecases/**/{estimate,service-order,mechanic,diagnosis,service-catalog}.use-case.ts`,
  commented out in full; the in-memory repositories, used by tests; Nest modules, which
  wire what is modelled; the seed; deployment.

What is left to do: the stock of `StockIsNeverInvented` when requests do work on the same
order, where a unit may be returned by two rejections and a bound needs another
hypothesis; and one instance of `Inventory` and `OrderCreation` over the same rows, instead
of a stock that others may set to anything.
