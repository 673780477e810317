--------------------------- MODULE CustomerRegistry ---------------------------
(***************************************************************************)
(* The customer-management context: the tables customers and vehicles, the *)
(* handlers that register, change and archive their rows, and the opening  *)
(* of an order for a customer and a vehicle, which looks both up first.    *)
(*                                                                         *)
(* A row is never deleted: archiving sets its deletedAt.  Only the         *)
(* archiving of a customer, with its vehicles, runs in a transaction; the  *)
(* others check first and write later, and the unique indexes of the       *)
(* database decide.  As in ServiceOrders, todo[r] holds the statements a   *)
(* request has decided to run; a request may be killed between two.        *)
(***************************************************************************)
EXTENDS Documents, FiniteSets

CONSTANTS
    Customers,          \* ids of customers
    Vehicles,           \* ids of vehicles
    Plates,             \* cleaned license plates
    None,               \* no plate, and no customer
    TypedDocuments,     \* documents as clients type them: [type, text]
    TypedPlates,        \* plates as clients type them: [plate, classes]
    Requests            \* requests that may be in flight together

ASSUME RegistryAssumption ==
    /\ None \notin Customers /\ None \notin Plates
    /\ \A typed \in TypedDocuments :
        typed.type \in DocumentTypes /\ Cleaned(typed.text) \in Seq(Digit)
    /\ \A typed \in TypedPlates : typed.plate \in Plates

VARIABLES
    customer,   \* the row of each customer
    vehicle,    \* the row of each vehicle
    orders,     \* the orders opened: customer and vehicle
    late,       \* history: the vehicles inserted after their customer was archived,
                \* or while that was under way
    todo        \* the statements each request has yet to run

tables == <<customer, vehicle, orders, late>>
vars == <<customer, vehicle, orders, late, todo>>

-----------------------------------------------------------------------------
Key == [type : DocumentTypes, value : Seq(Digit)]

States == {"unused", "active", "archived"}

Customer == [state : States, document : Key]

NoCustomer == [state |-> "unused", document |-> [type |-> "CPF", value |-> <<>>]]

Vehicle == [state : States, plate : Plates \cup {None}, customerId : Customers \cup {None}]

NoVehicle == [state |-> "unused", plate |-> None, customerId |-> None]

Pair == [customer : Customers, vehicle : Vehicles]

Statement ==
         [kind : {"insertCustomer"}, document : Key]
    \cup [kind : {"writeCustomer", "archiveVehicles"}, customer : Customers]
    \cup [kind : {"commitArchive"}, customer : Customers, vehicles : SUBSET Vehicles]
    \cup [kind : {"findPlate"}, plate : Plates]
    \cup [kind : {"insertVehicle"}, customer : Customers, plate : Plates]
    \cup [kind : {"writeVehicle"}, vehicle : Vehicles, plate : Plates]
    \cup [kind : {"archiveVehicle"}, vehicle : Vehicles]
    \cup [kind : {"findVehicle", "insertOrder"}, pair : Pair]

ActiveCustomer(c) == customer[c].state = "active"

ActiveVehicle(v) == vehicle[v].state = "active"

Idle(r) == todo[r] = <<>>

Runs(r, kind) == ~Idle(r) /\ Head(todo[r]).kind = kind

Replace(r, statements) == todo' = [todo EXCEPT ![r] = statements]

Begin(r, statements) == Idle(r) /\ Replace(r, statements) /\ UNCHANGED tables

Done(r) == Replace(r, Tail(todo[r]))

Throw(r) == Replace(r, <<>>) /\ UNCHANGED tables

\* The row of a vehicle another transaction has archived and not committed yet.
Locked(v) == \E r \in Requests : Runs(r, "commitArchive") /\ v \in Head(todo[r]).vehicles

\* An insert or update that meets the index entry of such a row waits for its commit.
InDoubt(plate) == \E v \in Vehicles : Locked(v) /\ vehicle[v].plate = plate

KeyOf(typed) == [type |-> typed.type, value |-> Cleaned(typed.text)]

Registered(document) ==
    \E c \in Customers : customer[c].state # "unused" /\ customer[c].document = document

\* By an active vehicle that is not among these.
InUse(plate, but) ==
    \E v \in Vehicles \ but : ActiveVehicle(v) /\ vehicle[v].plate = plate

\* GET /customers, and GET /vehicles of one customer or of all.
ListCustomers == {c \in Customers : ActiveCustomer(c)}

ListVehicles(owners) == {v \in Vehicles : ActiveVehicle(v) /\ vehicle[v].customerId \in owners}

-----------------------------------------------------------------------------
(***************************************************************************)
(* The handlers, up to their first statement that writes.                  *)
(***************************************************************************)

\* Mutant: the document is kept as it was typed.
CreateCustomerUncleaned(r, typed) ==
    /\ ValidDocument(typed.type, Cleaned(typed.text))
    /\ ~Registered([type |-> typed.type, value |-> typed.text])
    /\ Begin(r, <<[kind |-> "insertCustomer",
                   document |-> [type |-> typed.type, value |-> typed.text]]>>)

\* Any row with the document, archived or not, refuses the registration.
CreateCustomer(r, typed) ==
    /\ ValidDocument(typed.type, Cleaned(typed.text))
    /\ ~Registered(KeyOf(typed))
    /\ Begin(r, <<[kind |-> "insertCustomer", document |-> KeyOf(typed)]>>)

\* Name, phone and email are written, of the row as it was loaded.
UpdateCustomer(r, c) ==
    /\ ActiveCustomer(c)
    /\ Begin(r, <<[kind |-> "writeCustomer", customer |-> c]>>)

ArchiveCustomer(r, c) ==
    /\ ActiveCustomer(c)
    /\ Begin(r, <<[kind |-> "archiveVehicles", customer |-> c]>>)

CreateVehicle(r, c, typed) ==
    /\ ActiveCustomer(c) /\ ValidPlate(typed.classes)
    /\ Begin(r, <<[kind |-> "findPlate", plate |-> typed.plate],
                  [kind |-> "insertVehicle", customer |-> c, plate |-> typed.plate]>>)

Write(v, plate) == [kind |-> "writeVehicle", vehicle |-> v, plate |-> plate]

\* A patch without a plate, or with the one the vehicle has.
UpdateVehicle(r, v) == ActiveVehicle(v) /\ Begin(r, <<Write(v, vehicle[v].plate)>>)

ChangePlate(r, v, typed) ==
    /\ ActiveVehicle(v) /\ ValidPlate(typed.classes)
    /\ typed.plate # vehicle[v].plate
    /\ Begin(r, <<[kind |-> "findPlate", plate |-> typed.plate], Write(v, typed.plate)>>)

ArchiveVehicle(r, v) ==
    /\ ActiveVehicle(v)
    /\ Begin(r, <<[kind |-> "archiveVehicle", vehicle |-> v]>>)

OpenOrder(r, pair) ==
    /\ ActiveCustomer(pair.customer)
    /\ Begin(r, <<[kind |-> "findVehicle", pair |-> pair],
                  [kind |-> "insertOrder", pair |-> pair]>>)

-----------------------------------------------------------------------------
(***************************************************************************)
(* The statements.                                                         *)
(***************************************************************************)

\* Mutant: the check made earlier is trusted.
InsertCustomerUnindexed(r, c) ==
    /\ Runs(r, "insertCustomer") /\ customer[c].state = "unused"
    /\ customer' = [customer EXCEPT ![c] = [state |-> "active",
                                            document |-> Head(todo[r]).document]]
    /\ Done(r)
    /\ UNCHANGED <<vehicle, orders, late>>

\* A document any row has is a duplicate key.
InsertCustomer(r, c) ==
    /\ Runs(r, "insertCustomer") /\ customer[c].state = "unused"
    /\ \/ /\ ~Registered(Head(todo[r]).document)
          /\ customer' = [customer EXCEPT ![c] = [state |-> "active",
                                                  document |-> Head(todo[r]).document]]
          /\ Done(r)
          /\ UNCHANGED <<vehicle, orders, late>>
       \/ /\ Registered(Head(todo[r]).document)
          /\ Throw(r)

\* Mutant: the whole row is written, deletedAt included.
WriteCustomerReviving(r) ==
    /\ Runs(r, "writeCustomer")
    /\ customer' = [customer EXCEPT ![Head(todo[r]).customer].state = "active"]
    /\ Done(r)
    /\ UNCHANGED <<vehicle, orders, late>>

\* Neither the document nor deletedAt is among the columns written.
WriteCustomer(r) == Runs(r, "writeCustomer") /\ Done(r) /\ UNCHANGED tables

\* updateMany: the vehicles of the customer active by now are locked, and archived
\* for this transaction; it waits for those another transaction has locked.
ArchiveVehicles(r) ==
    LET c == Head(todo[r]).customer
        found == {v \in Vehicles : ActiveVehicle(v) /\ vehicle[v].customerId = c}
    IN  /\ Runs(r, "archiveVehicles")
        /\ \A v \in found : ~Locked(v)
        /\ Replace(r, <<[kind |-> "commitArchive", customer |-> c, vehicles |-> found]>>)
        /\ UNCHANGED tables

\* Mutant: the vehicles are left to a later clean-up.
CommitArchiveAlone(r) ==
    /\ Runs(r, "commitArchive")
    /\ customer' = [customer EXCEPT ![Head(todo[r]).customer].state = "archived"]
    /\ Done(r)
    /\ UNCHANGED <<vehicle, orders, late>>

\* The customer's own row, and the commit.
CommitArchive(r) ==
    LET found == Head(todo[r]).vehicles
    IN  /\ Runs(r, "commitArchive")
        /\ customer' = [customer EXCEPT ![Head(todo[r]).customer].state = "archived"]
        /\ vehicle' = [v \in Vehicles |->
                        IF v \in found THEN [vehicle[v] EXCEPT !.state = "archived"]
                                       ELSE vehicle[v]]
        /\ Done(r)
        /\ UNCHANGED <<orders, late>>

\* checkUniqueness
FindPlate(r) ==
    /\ Runs(r, "findPlate")
    /\ \/ ~InUse(Head(todo[r]).plate, {}) /\ Done(r) /\ UNCHANGED tables
       \/ InUse(Head(todo[r]).plate, {}) /\ Throw(r)

IsLate(c) ==
    ~ActiveCustomer(c) \/ \E r \in Requests : /\ Runs(r, "commitArchive")
                                              /\ Head(todo[r]).customer = c

Insert(r, v) ==
    LET s == Head(todo[r])
    IN  /\ vehicle' = [vehicle EXCEPT ![v] = [state |-> "active", plate |-> s.plate,
                                              customerId |-> s.customer]]
        /\ late' = IF IsLate(s.customer) THEN late \cup {v} ELSE late
        /\ Done(r)
        /\ UNCHANGED <<customer, orders>>

\* Mutant: the plate found free earlier is taken to be free.
InsertVehicleUnindexed(r, v) ==
    Runs(r, "insertVehicle") /\ vehicle[v].state = "unused" /\ Insert(r, v)

\* The customer is not looked at again: its row is still there, archived or not.
InsertVehicle(r, v) ==
    /\ Runs(r, "insertVehicle") /\ vehicle[v].state = "unused"
    /\ ~InDoubt(Head(todo[r]).plate)
    /\ \/ ~InUse(Head(todo[r]).plate, {}) /\ Insert(r, v)
       \/ InUse(Head(todo[r]).plate, {}) /\ Throw(r)

SetPlate(v, plate) == vehicle' = [vehicle EXCEPT ![v].plate = plate]

\* Mutant: the plate found free earlier is taken to be free.
WriteVehicleUnindexed(r) ==
    /\ Runs(r, "writeVehicle") /\ ~Locked(Head(todo[r]).vehicle)
    /\ SetPlate(Head(todo[r]).vehicle, Head(todo[r]).plate)
    /\ Done(r)
    /\ UNCHANGED <<customer, orders, late>>

\* By id alone: a row archived meanwhile is written as well, outside the index of
\* the active plates.
WriteVehicle(r) ==
    LET v == Head(todo[r]).vehicle
        plate == Head(todo[r]).plate
        clash == ActiveVehicle(v) /\ InUse(plate, {v})
    IN  /\ Runs(r, "writeVehicle") /\ ~Locked(v)
        /\ ActiveVehicle(v) /\ plate # vehicle[v].plate => ~InDoubt(plate)
        /\ \/ ~clash /\ SetPlate(v, plate) /\ Done(r) /\ UNCHANGED <<customer, orders, late>>
           \/ clash /\ Throw(r)

SoftDelete(r) ==
    /\ Runs(r, "archiveVehicle") /\ ~Locked(Head(todo[r]).vehicle)
    /\ vehicle' = [vehicle EXCEPT ![Head(todo[r]).vehicle].state = "archived"]
    /\ Done(r)
    /\ UNCHANGED <<customer, orders, late>>

\* Mutant: whose vehicle it is, is not asked.
FindVehicleOfAnyone(r) ==
    /\ Runs(r, "findVehicle")
    /\ \/ ActiveVehicle(Head(todo[r]).pair.vehicle) /\ Done(r) /\ UNCHANGED tables
       \/ ~ActiveVehicle(Head(todo[r]).pair.vehicle) /\ Throw(r)

FindVehicle(r) ==
    LET pair == Head(todo[r]).pair
        fits == /\ ActiveVehicle(pair.vehicle)
                /\ vehicle[pair.vehicle].customerId = pair.customer
    IN  /\ Runs(r, "findVehicle")
        /\ \/ fits /\ Done(r) /\ UNCHANGED tables
           \/ ~fits /\ Throw(r)

InsertOrder(r) ==
    /\ Runs(r, "insertOrder")
    /\ orders' = orders \cup {Head(todo[r]).pair}
    /\ Done(r)
    /\ UNCHANGED <<customer, vehicle, late>>

\* The pod is killed: a transaction is rolled back, the rest is as it was written.
Kill(r) == ~Idle(r) /\ Throw(r)

-----------------------------------------------------------------------------
Init ==
    /\ customer = [c \in Customers |-> NoCustomer]
    /\ vehicle = [v \in Vehicles |-> NoVehicle]
    /\ orders = {}
    /\ late = {}
    /\ todo = [r \in Requests |-> <<>>]

Handle(r) ==
    \/ \E typed \in TypedDocuments : CreateCustomer(r, typed)
    \/ \E c \in Customers : UpdateCustomer(r, c)
    \/ \E c \in Customers : ArchiveCustomer(r, c)
    \/ \E c \in Customers, typed \in TypedPlates : CreateVehicle(r, c, typed)
    \/ \E v \in Vehicles : UpdateVehicle(r, v)
    \/ \E v \in Vehicles, typed \in TypedPlates : ChangePlate(r, v, typed)
    \/ \E v \in Vehicles : ArchiveVehicle(r, v)
    \/ \E pair \in Pair : OpenOrder(r, pair)

Execute(r) ==
    \/ \E c \in Customers : InsertCustomer(r, c)
    \/ WriteCustomer(r)
    \/ ArchiveVehicles(r)
    \/ CommitArchive(r)
    \/ FindPlate(r)
    \/ \E v \in Vehicles : InsertVehicle(r, v)
    \/ WriteVehicle(r)
    \/ SoftDelete(r)
    \/ FindVehicle(r)
    \/ InsertOrder(r)

Next == \E r \in Requests : Handle(r) \/ Execute(r) \/ Kill(r)

Spec == Init /\ [][Next]_vars

-----------------------------------------------------------------------------
TypeOK ==
    /\ customer \in [Customers -> Customer]
    /\ vehicle \in [Vehicles -> Vehicle]
    /\ orders \subseteq Pair
    /\ late \subseteq Vehicles
    /\ todo \in [Requests -> Seq(Statement)]

\* No two rows have the same document, however it was typed and whether or not they
\* are archived: two registrations may both find it free before either inserts.
DocumentsAreUnique ==
    \A c, d \in Customers :
        /\ customer[c].state # "unused" /\ customer[d].state # "unused"
        /\ customer[c].document = customer[d].document
        => c = d

\* No two active vehicles have the same plate, though plates are checked before they
\* are written and a stale row may bring an old plate back.
ActivePlatesAreUnique ==
    \A v, w \in Vehicles :
        ActiveVehicle(v) /\ ActiveVehicle(w) /\ vehicle[v].plate = vehicle[w].plate => v = w

\* The two lists clients see agree: a vehicle is listed with a customer who is listed,
\* unless it was inserted by a request that had found the customer before the archiving.
OrphansAreLate ==
    \A v \in ListVehicles(Customers) : vehicle[v].customerId \in ListCustomers \/ v \in late

\* The vehicle of an order belongs to the customer of the order, and still does
\* after anything that may happen to the two rows.
OrdersNameTheOwner ==
    \A pair \in orders : /\ vehicle[pair.vehicle].state # "unused"
                         /\ vehicle[pair.vehicle].customerId = pair.customer

\* What is archived stays archived, and stays the row it was: no handler that loaded
\* it before writes it back active.
ArchivedStaysArchived ==
    [][/\ \A c \in Customers : customer[c].state = "archived" => customer'[c] = customer[c]
       /\ \A v \in Vehicles : vehicle[v].state = "archived"
            => /\ vehicle'[v].state = "archived"
               /\ vehicle'[v].customerId = vehicle[v].customerId]_vars

\* The customer of the active vehicle of each plate.
OwnerOf(p) ==
    IF InUse(p, {})
    THEN vehicle[CHOOSE v \in Vehicles : ActiveVehicle(v) /\ vehicle[v].plate = p].customerId
    ELSE None

\* A plate goes from one customer to another only when it was given up in between.
Ownership == INSTANCE VehicleOwnership WITH owner <- [p \in Plates |-> OwnerOf(p)],
                                         Nobody <- None

ImplementsOwnership == Ownership!Spec
=============================================================================
