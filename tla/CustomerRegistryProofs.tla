------------------------ MODULE CustomerRegistryProofs ------------------------
(***************************************************************************)
(* The invariants of CustomerRegistry, for every value of the constants,   *)
(* and that it implements VehicleOwnership.                                *)
(*                                                                         *)
(* The unique indexes make the uniqueness of documents and plates nearly   *)
(* inductive.  What relates a customer to its vehicles is not: a request   *)
(* that archives a customer found the vehicles earlier, and one that opens *)
(* an order looked at the vehicle earlier.  The inductive invariant says   *)
(* what each plan still to run may rely on.                                *)
(*                                                                         *)
(* The last part is about the documents a customer may have: the two       *)
(* validators of the code accept the same ones.                            *)
(***************************************************************************)
EXTENDS CustomerRegistry, SequenceTheorems, TLAPS

TablesTyped ==
    /\ customer \in [Customers -> Customer]
    /\ vehicle \in [Vehicles -> Vehicle]
    /\ orders \subseteq Pair
    /\ late \subseteq Vehicles

\* An active vehicle has a plate and a customer.
ActiveRegistered ==
    \A v \in Vehicles :
        ActiveVehicle(v) => vehicle[v].plate \in Plates /\ vehicle[v].customerId \in Customers

OwnerFits(pair) == /\ vehicle[pair.vehicle].state # "unused"
                   /\ vehicle[pair.vehicle].customerId = pair.customer

\* The vehicles of the customer an archiving has not found were inserted since.
FoundAllButLate(s) ==
    \A v \in Vehicles \ s.vehicles :
        ActiveVehicle(v) /\ vehicle[v].customerId = s.customer => v \in late

Sound(s) ==
    /\ s.kind = "insertOrder" => OwnerFits(s.pair)
    /\ s.kind \in {"archiveVehicles", "commitArchive"} => customer[s.customer].state # "unused"
    /\ s.kind = "commitArchive"
         => /\ FoundAllButLate(s)
            /\ \A v \in s.vehicles : /\ vehicle[v].state # "unused"
                                     /\ vehicle[v].customerId = s.customer

VehicleWrites == {s \in Statement : s.kind \in {"insertVehicle", "writeVehicle"}}

\* One statement, or a check and the statement it is for.
PlanSound(q) ==
    \/ q = <<>>
    \/ \E s \in Statement : Sound(s) /\ q = <<s>>
    \/ \E p \in Plates, s \in VehicleWrites : q = <<[kind |-> "findPlate", plate |-> p], s>>
    \/ \E pair \in Pair : q = <<[kind |-> "findVehicle", pair |-> pair],
                                [kind |-> "insertOrder", pair |-> pair]>>

Planned ==
    /\ todo = [r \in Requests |-> todo[r]]
    /\ \A r \in Requests : PlanSound(todo[r])

\* OrphansAreLate, by the rows.
OrphansSound ==
    \A v \in Vehicles :
        ActiveVehicle(v) => v \in late \/ customer[vehicle[v].customerId].state = "active"

TablesSound ==
    /\ TablesTyped
    /\ ActiveRegistered
    /\ DocumentsAreUnique
    /\ ActivePlatesAreUnique
    /\ OrphansSound
    /\ OrdersNameTheOwner

IInv == TablesSound /\ Planned

-----------------------------------------------------------------------------
(***************************************************************************)
(* Plans.                                                                  *)
(***************************************************************************)

\* No row goes back to unused, no vehicle changes hands, and a vehicle that appears
\* while its customer is being archived is late.
Ageing ==
    /\ \A c \in Customers : customer[c].state # "unused" => customer'[c].state # "unused"
    /\ \A v \in Vehicles : vehicle[v].state # "unused"
         => vehicle'[v].state # "unused" /\ vehicle'[v].customerId = vehicle[v].customerId
    /\ late \subseteq late'
    /\ \A v \in Vehicles : ActiveVehicle(v)' /\ ~ActiveVehicle(v)
         => \/ v \in late'
            \/ ~\E r \in Requests : /\ Runs(r, "commitArchive")
                                    /\ Head(todo[r]).customer = vehicle'[v].customerId

LEMMA NothingChangesNoPlan == UNCHANGED tables => Ageing
BY DEF tables, Ageing, ActiveVehicle

\* The fields of the statements the invariant speaks of.
LEMMA StatementFields ==
    ASSUME NEW s \in Statement
    PROVE  /\ s.kind \in {"insertOrder", "findVehicle"} => s.pair \in Pair
           /\ s.kind \in {"archiveVehicles", "commitArchive", "insertVehicle"}
                => s.customer \in Customers
           /\ s.kind = "commitArchive" => s.vehicles \in SUBSET Vehicles
           /\ s.kind \in {"writeVehicle", "archiveVehicle"} => s.vehicle \in Vehicles
           /\ s.kind \in {"insertVehicle", "writeVehicle", "findPlate"} => s.plate \in Plates
           /\ s.kind = "insertCustomer" => s.document \in Key
BY DEF Statement

LEMMA StatementStaysSound ==
    ASSUME Ageing, NEW s \in Statement, Sound(s),
           s.kind = "commitArchive" => \E r \in Requests : todo[r] = <<s>>
    PROVE  Sound(s)'
<1>1. CASE s.kind = "insertOrder"
  <2>1. s.pair.vehicle \in Vehicles
    BY <1>1, StatementFields DEF Pair
  <2> QED
    BY <1>1, <2>1 DEF Sound, OwnerFits, Ageing
<1>2. CASE s.kind = "archiveVehicles"
  BY <1>2, StatementFields DEF Sound, Ageing
<1>3. CASE s.kind = "commitArchive"
  <2>1. s.customer \in Customers /\ s.vehicles \in SUBSET Vehicles
    BY <1>3, StatementFields
  <2>2. PICK r \in Requests : todo[r] = <<s>>
    BY <1>3
  <2>3. Runs(r, "commitArchive") /\ Head(todo[r]).customer = s.customer
    BY <1>3, <2>2 DEF Runs, Idle
  <2>4. FoundAllButLate(s)'
    <3> SUFFICES ASSUME NEW v \in Vehicles \ s.vehicles,
                        ActiveVehicle(v)', vehicle'[v].customerId = s.customer
                 PROVE  v \in late'
      BY DEF FoundAllButLate
    <3>1. CASE ActiveVehicle(v)
      <4>1. vehicle[v].customerId = s.customer
        BY <3>1 DEF Ageing, ActiveVehicle
      <4> QED
        BY <1>3, <3>1, <4>1 DEF Sound, FoundAllButLate, Ageing
    <3>2. CASE ~ActiveVehicle(v)
      BY <2>3, <3>2 DEF Ageing
    <3> QED
      BY <3>1, <3>2
  <2>5. \A v \in s.vehicles : vehicle'[v].state # "unused" /\ vehicle'[v].customerId = s.customer
    BY <1>3, <2>1 DEF Sound, Ageing
  <2> QED
    BY <1>3, <2>1, <2>4, <2>5 DEF Sound, Ageing
<1> QED
  BY <1>1, <1>2, <1>3 DEF Sound

LEMMA PlanStaysSound ==
    ASSUME Ageing, NEW r \in Requests, NEW q, todo[r] = q, PlanSound(q)
    PROVE  PlanSound(q)'
<1>1. ASSUME NEW s \in Statement, Sound(s), q = <<s>>
      PROVE  PlanSound(q)'
  <2>1. Sound(s)'
    BY <1>1, StatementStaysSound
  <2> QED
    BY <1>1, <2>1 DEF PlanSound
<1> QED
  BY <1>1 DEF PlanSound

\* A request goes on with another plan.
LEMMA PlannedStep ==
    ASSUME Planned, Ageing, NEW r \in Requests, NEW q, PlanSound(q)',
           todo' = [todo EXCEPT ![r] = q]
    PROVE  Planned'
<1>1. ASSUME NEW t \in Requests
      PROVE  PlanSound(todo[t])'
  <2>1. CASE t = r
    <3>1. todo'[t] = q
      BY <2>1 DEF Planned
    <3> QED
      BY <3>1
  <2>2. CASE t # r
    <3>1. PICK p : p = todo[t]
      OBVIOUS
    <3>2. PlanSound(p)'
      BY <3>1, PlanStaysSound DEF Planned
    <3>3. todo'[t] = p
      BY <2>2, <3>1 DEF Planned
    <3> QED
      BY <3>2, <3>3
  <2> QED
    BY <2>1, <2>2
<1>2. todo' = [t \in Requests |-> todo'[t]]
  BY DEF Planned
<1> QED
  BY <1>1, <1>2 DEF Planned

\* Only a plan changes.
LEMMA TablesKept ==
    ASSUME IInv, UNCHANGED tables, NEW r \in Requests, NEW q, PlanSound(q),
           todo' = [todo EXCEPT ![r] = q]
    PROVE  IInv'
<1>1. Ageing
  BY NothingChangesNoPlan
<1>2. PlanSound(q)'
  BY DEF PlanSound, tables, Sound, OwnerFits, FoundAllButLate, ActiveVehicle
<1>3. Planned'
  BY <1>1, <1>2, PlannedStep DEF IInv
<1>4. TablesSound'
  BY DEF IInv, TablesSound, tables, TablesTyped, ActiveRegistered, ActiveVehicle,
         DocumentsAreUnique, ActivePlatesAreUnique, OrphansSound, OrdersNameTheOwner
<1> QED
  BY <1>3, <1>4 DEF IInv

\* The statement a request runs next, and what is left after it.
LEMMA NextStatement ==
    ASSUME Planned, NEW r \in Requests, NEW kind, Runs(r, kind)
    PROVE  /\ Head(todo[r]) \in Statement
           /\ Head(todo[r]).kind = kind
           /\ kind \notin {"findPlate", "findVehicle"}
                => Sound(Head(todo[r])) /\ Tail(todo[r]) = <<>> /\ todo[r] = <<Head(todo[r])>>
           /\ kind = "findVehicle"
                => \/ Tail(todo[r]) = <<>>
                   \/ Tail(todo[r]) = <<[kind |-> "insertOrder", pair |-> Head(todo[r]).pair]>>
           /\ kind # "findVehicle" => PlanSound(Tail(todo[r]))
<1> DEFINE q == todo[r]
<1>1. q # <<>> /\ Head(q).kind = kind /\ PlanSound(q)
  BY DEF Planned, Runs, Idle
<1> HIDE DEF q
<1>2. ASSUME NEW s \in Statement, Sound(s), q = <<s>>
      PROVE  Head(q) = s /\ Tail(q) = <<>>
  BY <1>2
<1>3. ASSUME NEW p \in Plates, NEW s \in VehicleWrites,
             q = <<[kind |-> "findPlate", plate |-> p], s>>
      PROVE  /\ Head(q) \in Statement /\ Head(q).kind = "findPlate"
             /\ PlanSound(Tail(q))
  <2>1. Head(q) = [kind |-> "findPlate", plate |-> p] /\ Tail(q) = <<s>>
    BY <1>3
  <2>2. [kind |-> "findPlate", plate |-> p] \in Statement
    BY DEF Statement
  <2>3. s \in Statement /\ Sound(s)
    BY DEF VehicleWrites, Sound
  <2> QED
    BY <2>1, <2>2, <2>3 DEF PlanSound
<1>4. ASSUME NEW pair \in Pair,
             q = <<[kind |-> "findVehicle", pair |-> pair], [kind |-> "insertOrder", pair |-> pair]>>
      PROVE  /\ Head(q) \in Statement /\ Head(q).kind = "findVehicle"
             /\ Tail(q) = <<[kind |-> "insertOrder", pair |-> Head(q).pair]>>
  <2>1. /\ Head(q) = [kind |-> "findVehicle", pair |-> pair]
        /\ Tail(q) = <<[kind |-> "insertOrder", pair |-> pair]>>
    BY <1>4
  <2>2. [kind |-> "findVehicle", pair |-> pair] \in Statement
    BY DEF Statement
  <2> QED
    BY <2>1, <2>2
<1>5. PlanSound(<<>>)
  BY DEF PlanSound
<1> QED
  <2>1. CASE \E s \in Statement : Sound(s) /\ q = <<s>>
    BY <1>1, <1>2, <1>5, <2>1 DEF q
  <2>2. CASE \E p \in Plates, s \in VehicleWrites :
                q = <<[kind |-> "findPlate", plate |-> p], s>>
    BY <1>1, <1>3, <2>2 DEF q
  <2>3. CASE \E pair \in Pair : q = <<[kind |-> "findVehicle", pair |-> pair],
                                      [kind |-> "insertOrder", pair |-> pair]>>
    BY <1>1, <1>4, <2>3 DEF q
  <2> QED
    BY <1>1, <2>1, <2>2, <2>3 DEF PlanSound

LEMMA LastStatement ==
    ASSUME Planned, NEW r \in Requests, NEW kind, Runs(r, kind),
           kind \notin {"findPlate", "findVehicle"}
    PROVE  Head(todo[r]) \in Statement /\ Head(todo[r]).kind = kind /\ Sound(Head(todo[r]))
BY NextStatement

\* What is left of a plan when its last statement is done.
LEMMA StatementDone ==
    ASSUME Planned, Ageing, NEW r \in Requests, NEW kind, Runs(r, kind),
           kind \notin {"findPlate", "findVehicle"}, Done(r)
    PROVE  Planned'
<1>1. todo' = [todo EXCEPT ![r] = <<>>]
  BY NextStatement DEF Done, Replace
<1>2. PlanSound(<<>>)'
  BY DEF PlanSound
<1> QED
  BY <1>1, <1>2, PlannedStep

\* A request that gives up.
LEMMA ThrowSound == ASSUME IInv, NEW r \in Requests, Throw(r) PROVE IInv'
<1>1. PlanSound(<<>>)
  BY DEF PlanSound
<1> QED
  BY <1>1, TablesKept DEF Throw, Replace

\* A statement that changes no table.
LEMMA StatementPassed ==
    ASSUME IInv, NEW r \in Requests, NEW kind, Runs(r, kind), kind # "findVehicle",
           Done(r), UNCHANGED tables
    PROVE  IInv'
<1>1. PlanSound(Tail(todo[r]))
  BY NextStatement DEF IInv
<1> QED
  BY <1>1, TablesKept DEF Done, Replace

-----------------------------------------------------------------------------
(***************************************************************************)
(* What the handlers decide is sound.                                      *)
(***************************************************************************)
LEMMA BeginsSound ==
    ASSUME IInv, NEW r \in Requests, NEW q, PlanSound(q), Begin(r, q)
    PROVE  IInv'
BY TablesKept DEF Begin, Replace

\* A plan of one statement that relies on nothing.
LEMMA PlainPlan ==
    ASSUME NEW s \in Statement,
           s.kind \notin {"insertOrder", "archiveVehicles", "commitArchive"}
    PROVE  PlanSound(<<s>>)
BY DEF PlanSound, Sound

LEMMA KeyTyped ==
    ASSUME NEW typed \in TypedDocuments
    PROVE  KeyOf(typed) \in Key
BY RegistryAssumption DEF KeyOf, Key

LEMMA HandlerSound ==
    ASSUME IInv, NEW r \in Requests, Handle(r)
    PROVE  IInv'
<1>1. ASSUME NEW typed \in TypedDocuments, CreateCustomer(r, typed)
      PROVE  IInv'
  <2>1. [kind |-> "insertCustomer", document |-> KeyOf(typed)] \in Statement
    BY KeyTyped DEF Statement
  <2> QED
    BY <1>1, <2>1, PlainPlan, BeginsSound DEF CreateCustomer
<1>2. ASSUME NEW c \in Customers, UpdateCustomer(r, c)
      PROVE  IInv'
  <2>1. [kind |-> "writeCustomer", customer |-> c] \in Statement
    BY DEF Statement
  <2> QED
    BY <1>2, <2>1, PlainPlan, BeginsSound DEF UpdateCustomer
<1>3. ASSUME NEW c \in Customers, ArchiveCustomer(r, c)
      PROVE  IInv'
  <2> DEFINE s == [kind |-> "archiveVehicles", customer |-> c]
  <2>1. s \in Statement
    BY DEF Statement
  <2>2. Sound(s)
    BY <1>3 DEF Sound, ArchiveCustomer, ActiveCustomer
  <2>3. PlanSound(<<s>>)
    BY <2>1, <2>2 DEF PlanSound
  <2> QED
    BY <1>3, <2>3, BeginsSound DEF ArchiveCustomer
<1>4. ASSUME NEW c \in Customers, NEW typed \in TypedPlates, CreateVehicle(r, c, typed)
      PROVE  IInv'
  <2> DEFINE s == [kind |-> "insertVehicle", customer |-> c, plate |-> typed.plate]
  <2>1. typed.plate \in Plates
    BY RegistryAssumption
  <2>2. s \in VehicleWrites
    BY <2>1 DEF Statement, VehicleWrites
  <2>3. PlanSound(<<[kind |-> "findPlate", plate |-> typed.plate], s>>)
    BY <2>1, <2>2 DEF PlanSound
  <2> QED
    BY <1>4, <2>3, BeginsSound DEF CreateVehicle
<1>5. ASSUME NEW v \in Vehicles, UpdateVehicle(r, v)
      PROVE  IInv'
  <2>1. vehicle[v].plate \in Plates
    BY <1>5 DEF UpdateVehicle, IInv, TablesSound, ActiveRegistered
  <2>2. [kind |-> "writeVehicle", vehicle |-> v, plate |-> vehicle[v].plate] \in Statement
    BY <2>1 DEF Statement
  <2> QED
    BY <1>5, <2>2, PlainPlan, BeginsSound DEF UpdateVehicle, Write
<1>6. ASSUME NEW v \in Vehicles, NEW typed \in TypedPlates, ChangePlate(r, v, typed)
      PROVE  IInv'
  <2> DEFINE s == [kind |-> "writeVehicle", vehicle |-> v, plate |-> typed.plate]
             check == [kind |-> "findPlate", plate |-> typed.plate]
  <2>1. typed.plate \in Plates
    BY RegistryAssumption
  <2>2. s \in VehicleWrites
    BY <2>1 DEF Statement, VehicleWrites
  <2>3. PlanSound(<<check, s>>)
    BY <2>1, <2>2 DEF PlanSound
  <2>4. Begin(r, <<check, s>>)
    BY <1>6 DEF ChangePlate, Write
  <2> QED
    BY <2>3, <2>4, BeginsSound
<1>7. ASSUME NEW v \in Vehicles, ArchiveVehicle(r, v)
      PROVE  IInv'
  <2>1. [kind |-> "archiveVehicle", vehicle |-> v] \in Statement
    BY DEF Statement
  <2> QED
    BY <1>7, <2>1, PlainPlan, BeginsSound DEF ArchiveVehicle
<1>8. ASSUME NEW pair \in Pair, OpenOrder(r, pair)
      PROVE  IInv'
  <2>1. PlanSound(<<[kind |-> "findVehicle", pair |-> pair],
                    [kind |-> "insertOrder", pair |-> pair]>>)
    BY DEF PlanSound
  <2> QED
    BY <1>8, <2>1, BeginsSound DEF OpenOrder
<1> QED
  BY <1>1, <1>2, <1>3, <1>4, <1>5, <1>6, <1>7, <1>8 DEF Handle

-----------------------------------------------------------------------------
(***************************************************************************)
(* The statements that write.                                              *)
(***************************************************************************)

\* Nothing about vehicles changes with a new customer.
LEMMA InsertCustomerSound ==
    ASSUME IInv, NEW r \in Requests, NEW c \in Customers, InsertCustomer(r, c)
    PROVE  IInv'
<1> DEFINE document == Head(todo[r]).document
<1>1. Head(todo[r]) \in Statement /\ Head(todo[r]).kind = "insertCustomer"
  BY NextStatement DEF IInv, InsertCustomer
<1>2. document \in Key
  BY <1>1, StatementFields
<1>3. CASE Registered(document)
  BY <1>3, ThrowSound DEF InsertCustomer
<1>4. CASE ~Registered(document)
  <2> HIDE DEF document
  <2> DEFINE row == [state |-> "active", document |-> document]
  <2>1. /\ customer[c].state = "unused" /\ customer' = [customer EXCEPT ![c] = row]
        /\ Done(r) /\ UNCHANGED <<vehicle, orders, late>> /\ Runs(r, "insertCustomer")
    BY <1>4 DEF InsertCustomer, document
  <2>2. row \in Customer
    BY <1>2 DEF Customer, States
  <2>3. Ageing
    BY <2>1 DEF Ageing, IInv, TablesSound, TablesTyped, ActiveVehicle
  <2>4. TablesTyped' /\ ActiveRegistered'
    BY <2>1, <2>2 DEF IInv, TablesSound, TablesTyped, ActiveRegistered, ActiveVehicle
  <2>5. DocumentsAreUnique'
    BY <1>4, <2>1 DEF IInv, TablesSound, TablesTyped, DocumentsAreUnique, Registered
  <2>6. ActivePlatesAreUnique' /\ OrdersNameTheOwner'
    BY <2>1 DEF IInv, TablesSound, ActivePlatesAreUnique, OrdersNameTheOwner, ActiveVehicle
  <2>7. OrphansSound'
    BY <2>1 DEF IInv, TablesSound, TablesTyped, ActiveRegistered, OrphansSound, ActiveVehicle
  <2>8. Planned'
    BY <2>1, <2>3, StatementDone DEF IInv
  <2> QED
    BY <2>4, <2>5, <2>6, <2>7, <2>8 DEF IInv, TablesSound
<1> QED
  BY <1>3, <1>4

\* What is found is locked until the commit.
LEMMA ArchiveVehiclesSound ==
    ASSUME IInv, NEW r \in Requests, ArchiveVehicles(r)
    PROVE  IInv'
<1> DEFINE c == Head(todo[r]).customer
           found == {v \in Vehicles : ActiveVehicle(v) /\ vehicle[v].customerId = c}
           s == [kind |-> "commitArchive", customer |-> c, vehicles |-> found]
<1>1. /\ Head(todo[r]) \in Statement /\ Head(todo[r]).kind = "archiveVehicles"
      /\ Sound(Head(todo[r]))
  <2>1. Runs(r, "archiveVehicles")
    BY DEF ArchiveVehicles
  <2> QED
    BY <2>1, LastStatement DEF IInv
<1>2. c \in Customers /\ customer[c].state # "unused"
  BY <1>1, StatementFields DEF Sound
<1>3. s \in Statement
  BY <1>2 DEF Statement
<1>4. FoundAllButLate(s) /\ \A v \in found : vehicle[v].state # "unused" /\ vehicle[v].customerId = c
  BY DEF FoundAllButLate, ActiveVehicle
<1>5. Sound(s)
  BY <1>2, <1>4 DEF Sound
<1>6. PlanSound(<<s>>)
  BY <1>3, <1>5 DEF PlanSound
<1>7. todo' = [todo EXCEPT ![r] = <<s>>] /\ UNCHANGED tables
  BY DEF ArchiveVehicles, Replace
<1> QED
  BY <1>6, <1>7, TablesKept

LEMMA CommitArchiveSound ==
    ASSUME IInv, NEW r \in Requests, CommitArchive(r)
    PROVE  IInv'
<1> DEFINE s == Head(todo[r])
<1>1. s \in Statement /\ s.kind = "commitArchive" /\ Sound(s)
  <2>1. Runs(r, "commitArchive")
    BY DEF CommitArchive
  <2> QED
    BY <2>1, LastStatement DEF IInv
<1>2. s.customer \in Customers /\ s.vehicles \in SUBSET Vehicles
  BY <1>1, StatementFields
<1>3. /\ customer[s.customer].state # "unused" /\ FoundAllButLate(s)
      /\ \A v \in s.vehicles : vehicle[v].state # "unused"
  BY <1>1 DEF Sound
<1>4. /\ customer' = [customer EXCEPT ![s.customer].state = "archived"]
      /\ vehicle' = [v \in Vehicles |-> IF v \in s.vehicles
                        THEN [vehicle[v] EXCEPT !.state = "archived"] ELSE vehicle[v]]
      /\ Done(r) /\ UNCHANGED <<orders, late>> /\ Runs(r, "commitArchive")
  BY DEF CommitArchive
<1> HIDE DEF s
<1>5. TablesTyped
  BY DEF IInv, TablesSound
<1>6. \A v \in Vehicles : /\ vehicle'[v] \in Vehicle
                          /\ vehicle'[v].plate = vehicle[v].plate
                          /\ vehicle'[v].customerId = vehicle[v].customerId
                          /\ vehicle'[v].state =
                                IF v \in s.vehicles THEN "archived" ELSE vehicle[v].state
  BY <1>4, <1>5 DEF TablesTyped, Vehicle, States
<1>7. \A c \in Customers : /\ customer'[c] \in Customer
                           /\ customer'[c].document = customer[c].document
                           /\ customer'[c].state =
                                IF c = s.customer THEN "archived" ELSE customer[c].state
  BY <1>2, <1>4, <1>5 DEF TablesTyped, Customer, States
<1>8. TablesTyped'
  BY <1>4, <1>5, <1>6, <1>7 DEF TablesTyped
<1>9. Ageing
  BY <1>4, <1>6, <1>7 DEF Ageing, ActiveVehicle
<1>10. Planned'
  BY <1>4, <1>9, StatementDone DEF IInv
<1>11. ActiveRegistered' /\ ActivePlatesAreUnique'
  BY <1>6 DEF IInv, TablesSound, ActiveRegistered, ActivePlatesAreUnique, ActiveVehicle
<1>12. DocumentsAreUnique'
  BY <1>3, <1>7 DEF IInv, TablesSound, DocumentsAreUnique
<1>13. OrphansSound'
  <2> SUFFICES ASSUME NEW v \in Vehicles, ActiveVehicle(v)',
                      customer'[vehicle'[v].customerId].state # "active"
               PROVE  v \in late
    BY <1>4 DEF OrphansSound
  <2>1. ActiveVehicle(v) /\ v \notin s.vehicles /\ vehicle[v].customerId \in Customers
    BY <1>6 DEF ActiveVehicle, IInv, TablesSound, ActiveRegistered
  <2>2. CASE vehicle[v].customerId = s.customer
    BY <1>3, <2>1, <2>2 DEF FoundAllButLate
  <2>3. CASE vehicle[v].customerId # s.customer
    BY <1>6, <1>7, <2>1, <2>3 DEF IInv, TablesSound, OrphansSound
  <2> QED
    BY <2>2, <2>3
<1>14. OrdersNameTheOwner'
  BY <1>4, <1>5, <1>6 DEF IInv, TablesSound, TablesTyped, OrdersNameTheOwner, Pair
<1> QED
  BY <1>8, <1>10, <1>11, <1>12, <1>13, <1>14 DEF IInv, TablesSound

\* A vehicle whose customer is, or is being, archived is late.
LEMMA InsertVehicleSound ==
    ASSUME IInv, NEW r \in Requests, NEW v \in Vehicles, InsertVehicle(r, v)
    PROVE  IInv'
<1> DEFINE s == Head(todo[r])
<1>1. s \in Statement /\ s.kind = "insertVehicle"
  BY NextStatement DEF IInv, InsertVehicle
<1>2. s.customer \in Customers /\ s.plate \in Plates
  BY <1>1, StatementFields
<1>3. CASE Throw(r)
  BY <1>3, ThrowSound
<1>4. CASE ~InUse(s.plate, {}) /\ Insert(r, v)
  <2> DEFINE row == [state |-> "active", plate |-> s.plate, customerId |-> s.customer]
  <2>1. /\ vehicle[v].state = "unused" /\ vehicle' = [vehicle EXCEPT ![v] = row]
        /\ late' = IF IsLate(s.customer) THEN late \cup {v} ELSE late
        /\ Done(r) /\ UNCHANGED <<customer, orders>> /\ Runs(r, "insertVehicle")
    BY <1>4 DEF InsertVehicle, Insert
  <2>2. \A w \in Vehicles \ {v} : ActiveVehicle(w) => vehicle[w].plate # s.plate
    BY <1>4 DEF InUse
  <2> HIDE DEF s
  <2>3. row \in Vehicle
    BY <1>2 DEF Vehicle, States
  <2>4. TablesTyped /\ vehicle'[v] = row /\ \A w \in Vehicles \ {v} : vehicle'[w] = vehicle[w]
    BY <2>1 DEF IInv, TablesSound, TablesTyped
  <2>5. TablesTyped'
    BY <2>1, <2>3, <2>4 DEF TablesTyped
  <2>6. Ageing
    <3>1. \A w \in Vehicles : ActiveVehicle(w)' /\ ~ActiveVehicle(w)
            => \/ w \in late'
               \/ ~\E t \in Requests : /\ Runs(t, "commitArchive")
                                       /\ Head(todo[t]).customer = vehicle'[w].customerId
      BY <2>1, <2>4 DEF IsLate, ActiveVehicle
    <3> QED
      BY <2>1, <2>4, <3>1 DEF Ageing
  <2>7. Planned'
    BY <2>1, <2>6, StatementDone DEF IInv
  <2>8. ActiveRegistered' /\ ActivePlatesAreUnique'
    BY <1>2, <2>2, <2>4 DEF IInv, TablesSound, ActiveRegistered, ActivePlatesAreUnique,
                            ActiveVehicle
  <2>9. DocumentsAreUnique'
    BY <2>1 DEF IInv, TablesSound, DocumentsAreUnique
  <2>10. OrphansSound'
    BY <2>1, <2>4 DEF IInv, TablesSound, OrphansSound, ActiveVehicle, IsLate, ActiveCustomer
  <2>11. OrdersNameTheOwner'
    BY <2>1, <2>4 DEF IInv, TablesSound, TablesTyped, OrdersNameTheOwner, Pair
  <2> QED
    BY <2>5, <2>7, <2>8, <2>9, <2>10, <2>11 DEF IInv, TablesSound
<1> QED
  BY <1>3, <1>4 DEF InsertVehicle

\* The plate of an archived row is nobody's.
LEMMA WriteVehicleSound ==
    ASSUME IInv, NEW r \in Requests, WriteVehicle(r)
    PROVE  IInv'
<1> DEFINE v == Head(todo[r]).vehicle
           plate == Head(todo[r]).plate
<1>1. Head(todo[r]) \in Statement /\ Head(todo[r]).kind = "writeVehicle"
  BY NextStatement DEF IInv, WriteVehicle
<1>2. v \in Vehicles /\ plate \in Plates
  BY <1>1, StatementFields
<1>3. CASE Throw(r)
  BY <1>3, ThrowSound
<1>4. CASE ~(ActiveVehicle(v) /\ InUse(plate, {v})) /\ SetPlate(v, plate) /\ Done(r)
           /\ UNCHANGED <<customer, orders, late>>
  <2>1. Runs(r, "writeVehicle")
    BY DEF WriteVehicle
  <2> HIDE DEF v, plate
  <2>2. TablesTyped
    BY DEF IInv, TablesSound
  <2>3. \A w \in Vehicles :
            /\ vehicle'[w] \in Vehicle
            /\ vehicle'[w].state = vehicle[w].state
            /\ vehicle'[w].customerId = vehicle[w].customerId
            /\ vehicle'[w].plate = IF w = v THEN plate ELSE vehicle[w].plate
    BY <1>2, <1>4, <2>2 DEF SetPlate, TablesTyped, Vehicle
  <2>4. TablesTyped'
    BY <1>4, <2>2, <2>3 DEF SetPlate, TablesTyped
  <2>5. Ageing
    BY <1>4, <2>3 DEF Ageing, ActiveVehicle
  <2>6. Planned'
    BY <1>4, <2>1, <2>5, StatementDone DEF IInv
  <2>7. ActiveRegistered' /\ ActivePlatesAreUnique'
    BY <1>2, <1>4, <2>3 DEF IInv, TablesSound, ActiveRegistered, ActivePlatesAreUnique,
                            ActiveVehicle, InUse
  <2>8. DocumentsAreUnique' /\ OrphansSound'
    BY <1>4, <2>3 DEF IInv, TablesSound, DocumentsAreUnique, OrphansSound, ActiveVehicle
  <2>9. OrdersNameTheOwner'
    BY <1>4, <2>2, <2>3 DEF IInv, TablesSound, TablesTyped, OrdersNameTheOwner, Pair
  <2> QED
    BY <2>4, <2>6, <2>7, <2>8, <2>9 DEF IInv, TablesSound
<1> QED
  BY <1>3, <1>4 DEF WriteVehicle

LEMMA SoftDeleteSound ==
    ASSUME IInv, NEW r \in Requests, SoftDelete(r)
    PROVE  IInv'
<1> DEFINE v == Head(todo[r]).vehicle
<1>1. Head(todo[r]) \in Statement /\ Head(todo[r]).kind = "archiveVehicle"
  BY NextStatement DEF IInv, SoftDelete
<1>2. v \in Vehicles
  BY <1>1, StatementFields
<1>3. /\ vehicle' = [vehicle EXCEPT ![v].state = "archived"]
      /\ Done(r) /\ UNCHANGED <<customer, orders, late>> /\ Runs(r, "archiveVehicle")
  BY DEF SoftDelete
<1> HIDE DEF v
<1>4. TablesTyped
  BY DEF IInv, TablesSound
<1>5. \A w \in Vehicles :
        /\ vehicle'[w] \in Vehicle
        /\ vehicle'[w].state = IF w = v THEN "archived" ELSE vehicle[w].state
        /\ vehicle'[w].customerId = vehicle[w].customerId
        /\ vehicle'[w].plate = vehicle[w].plate
  BY <1>2, <1>3, <1>4 DEF TablesTyped, Vehicle, States
<1>6. TablesTyped'
  BY <1>3, <1>4, <1>5 DEF TablesTyped
<1>7. Ageing
  BY <1>3, <1>5 DEF Ageing, ActiveVehicle
<1>8. Planned'
  BY <1>3, <1>7, StatementDone DEF IInv
<1>9. ActiveRegistered' /\ ActivePlatesAreUnique'
  BY <1>5 DEF IInv, TablesSound, ActiveRegistered, ActivePlatesAreUnique, ActiveVehicle
<1>10. DocumentsAreUnique' /\ OrphansSound'
  BY <1>3, <1>5 DEF IInv, TablesSound, DocumentsAreUnique, OrphansSound, ActiveVehicle
<1>11. OrdersNameTheOwner'
  BY <1>3, <1>4, <1>5 DEF IInv, TablesSound, TablesTyped, OrdersNameTheOwner, Pair
<1> QED
  BY <1>6, <1>8, <1>9, <1>10, <1>11 DEF IInv, TablesSound

\* Between this check and the insert the vehicle may be archived, not change hands.
LEMMA FindVehicleSound ==
    ASSUME IInv, NEW r \in Requests, FindVehicle(r)
    PROVE  IInv'
<1> DEFINE pair == Head(todo[r]).pair
<1>1. Runs(r, "findVehicle")
  BY DEF FindVehicle
<1>2. /\ Head(todo[r]) \in Statement /\ Head(todo[r]).kind = "findVehicle"
      /\ \/ Tail(todo[r]) = <<>>
         \/ Tail(todo[r]) = <<[kind |-> "insertOrder", pair |-> pair]>>
  BY <1>1, NextStatement DEF IInv
<1>3. pair \in Pair
  BY <1>2, StatementFields
<1>4. CASE Throw(r)
  BY <1>4, ThrowSound
<1>5. CASE /\ ActiveVehicle(pair.vehicle) /\ vehicle[pair.vehicle].customerId = pair.customer
           /\ Done(r) /\ UNCHANGED tables
  <2> HIDE DEF pair
  <2>1. [kind |-> "insertOrder", pair |-> pair] \in Statement
    BY <1>3 DEF Statement
  <2>2. OwnerFits(pair)
    BY <1>5 DEF OwnerFits, ActiveVehicle
  <2>3. PlanSound(<<[kind |-> "insertOrder", pair |-> pair]>>)
    BY <2>1, <2>2 DEF PlanSound, Sound
  <2>4. PlanSound(<<>>)
    BY DEF PlanSound
  <2>5. PlanSound(Tail(todo[r]))
    BY <1>2, <2>3, <2>4
  <2> QED
    BY <1>5, <2>5, TablesKept DEF Done, Replace
<1> QED
  BY <1>4, <1>5 DEF FindVehicle

LEMMA InsertOrderSound ==
    ASSUME IInv, NEW r \in Requests, InsertOrder(r)
    PROVE  IInv'
<1> DEFINE pair == Head(todo[r]).pair
<1>1. /\ Runs(r, "insertOrder") /\ orders' = orders \cup {pair} /\ Done(r)
      /\ UNCHANGED <<customer, vehicle, late>>
  BY DEF InsertOrder
<1>2. /\ Head(todo[r]) \in Statement /\ Head(todo[r]).kind = "insertOrder"
      /\ Sound(Head(todo[r]))
  BY <1>1, LastStatement DEF IInv
<1>3. pair \in Pair /\ OwnerFits(pair)
  BY <1>2, StatementFields DEF Sound
<1> HIDE DEF pair
<1>4. Ageing
  BY <1>1 DEF Ageing, ActiveVehicle
<1>5. Planned'
  BY <1>1, <1>4, StatementDone DEF IInv
<1>6. TablesSound'
  BY <1>1, <1>3 DEF IInv, TablesSound, TablesTyped, ActiveRegistered, ActiveVehicle,
        DocumentsAreUnique, ActivePlatesAreUnique, OrphansSound, OrdersNameTheOwner, OwnerFits
<1> QED
  BY <1>5, <1>6 DEF IInv

-----------------------------------------------------------------------------
(***************************************************************************)
(* The theorems.                                                           *)
(***************************************************************************)
LEMMA InitSound == Init => IInv
<1> SUFFICES ASSUME Init PROVE IInv
  OBVIOUS
<1>1. NoCustomer \in Customer
  <2>1. <<>> \in Seq(Digit)
    OBVIOUS
  <2> QED
    BY <2>1 DEF NoCustomer, Customer, States, Key, DocumentTypes
<1>2. NoVehicle \in Vehicle
  BY DEF NoVehicle, Vehicle, States
<1>3. TablesTyped
  BY <1>1, <1>2 DEF Init, TablesTyped
<1>4. /\ \A c \in Customers : customer[c].state = "unused"
      /\ \A v \in Vehicles : vehicle[v].state = "unused"
  BY DEF Init, NoCustomer, NoVehicle
<1>5. Planned
  BY DEF Init, Planned, PlanSound
<1> QED
  BY <1>3, <1>4, <1>5 DEF Init, IInv, TablesSound, ActiveRegistered, DocumentsAreUnique,
        ActivePlatesAreUnique, OrphansSound, OrdersNameTheOwner, ActiveVehicle

LEMMA NextSound == IInv /\ [Next]_vars => IInv'
<1> SUFFICES ASSUME IInv, [Next]_vars PROVE IInv'
  OBVIOUS
<1>1. ASSUME NEW r \in Requests, Handle(r)
      PROVE  IInv'
  BY <1>1, HandlerSound
<1>2. ASSUME NEW r \in Requests, Execute(r)
      PROVE  IInv'
  <2>1. ASSUME NEW c \in Customers, InsertCustomer(r, c)
        PROVE  IInv'
    BY <2>1, InsertCustomerSound
  <2>2. CASE WriteCustomer(r)
    BY <2>2, StatementPassed DEF WriteCustomer
  <2>3. CASE FindPlate(r)
    BY <2>3, StatementPassed, ThrowSound DEF FindPlate
  <2>4. ASSUME NEW v \in Vehicles, InsertVehicle(r, v)
        PROVE  IInv'
    BY <2>4, InsertVehicleSound
  <2> QED
    BY <1>2, <2>1, <2>2, <2>3, <2>4, ArchiveVehiclesSound, CommitArchiveSound,
       WriteVehicleSound, SoftDeleteSound, FindVehicleSound, InsertOrderSound DEF Execute
<1>3. ASSUME NEW r \in Requests, Kill(r)
      PROVE  IInv'
  BY <1>3, ThrowSound DEF Kill
<1>4. CASE UNCHANGED vars
  BY <1>4 DEF vars, IInv, TablesSound, TablesTyped, ActiveRegistered, ActiveVehicle,
        DocumentsAreUnique, ActivePlatesAreUnique, OrphansSound, OrdersNameTheOwner,
        Planned, PlanSound, Sound, OwnerFits, FoundAllButLate
<1> QED
  BY <1>1, <1>2, <1>3, <1>4 DEF Next

\* The invariant of the registry, from which the rest follows.
THEOREM Invariance == Spec => []IInv
<1> QED
  BY InitSound, NextSound, PTL DEF Spec

LEMMA Short ==
    ASSUME NEW S, NEW s \in S, NEW t \in S
    PROVE  <<>> \in Seq(S) /\ <<s>> \in Seq(S) /\ <<s, t>> \in Seq(S)
OBVIOUS

LEMMA PlansAreTyped ==
    ASSUME NEW q, PlanSound(q)
    PROVE  q \in Seq(Statement)
<1>1. \A p \in Plates : [kind |-> "findPlate", plate |-> p] \in Statement
  BY DEF Statement
<1>2. \A pair \in Pair : /\ [kind |-> "findVehicle", pair |-> pair] \in Statement
                         /\ [kind |-> "insertOrder", pair |-> pair] \in Statement
  BY DEF Statement
<1>3. VehicleWrites \subseteq Statement
  BY DEF VehicleWrites
<1>4. CASE q = <<>>
  BY <1>4
<1>5. ASSUME NEW s \in Statement, q = <<s>>
      PROVE  q \in Seq(Statement)
  BY <1>5, Short
<1>6. ASSUME NEW p \in Plates, NEW s \in VehicleWrites,
             q = <<[kind |-> "findPlate", plate |-> p], s>>
      PROVE  q \in Seq(Statement)
  BY <1>1, <1>3, <1>6, Short
<1>7. ASSUME NEW pair \in Pair,
             q = <<[kind |-> "findVehicle", pair |-> pair], [kind |-> "insertOrder", pair |-> pair]>>
      PROVE  q \in Seq(Statement)
  BY <1>2, <1>7, Short
<1> QED
  BY <1>4, <1>5, <1>6, <1>7 DEF PlanSound

\* Every variable has its type: documents are kept as digits only, however they were
\* typed, and every plan is made of statements on registered ids.
THEOREM TypeCorrectness == Spec => []TypeOK
<1>1. IInv => TypeOK
  <2> SUFFICES ASSUME IInv PROVE TypeOK
    OBVIOUS
  <2>1. \A r \in Requests : todo[r] \in Seq(Statement)
    BY PlansAreTyped DEF IInv, Planned
  <2>2. todo = [r \in Requests |-> todo[r]]
    BY DEF IInv, Planned
  <2>3. todo \in [Requests -> Seq(Statement)]
    BY <2>1, <2>2
  <2> QED
    BY <2>3 DEF IInv, TablesSound, TablesTyped, TypeOK
<1> QED
  BY <1>1, Invariance, PTL

\* No two customers ever have the same document: the unique index catches what the
\* checks of two registrations miss.
THEOREM DocumentsStayUnique == Spec => []DocumentsAreUnique
<1>1. IInv => DocumentsAreUnique
  BY DEF IInv, TablesSound
<1> QED
  BY <1>1, Invariance, PTL

\* No two active vehicles ever have the same plate, a stale row that is written back
\* included.
THEOREM PlatesStayUnique == Spec => []ActivePlatesAreUnique
<1>1. IInv => ActivePlatesAreUnique
  BY DEF IInv, TablesSound
<1> QED
  BY <1>1, Invariance, PTL

\* The only vehicles listed without their customer are those inserted too late for the
\* transaction that archived it.
THEOREM OnlyLateOrphans == Spec => []OrphansAreLate
<1>1. IInv => OrphansAreLate
  <2> SUFFICES ASSUME IInv, NEW v \in ListVehicles(Customers),
                      vehicle[v].customerId \notin ListCustomers
               PROVE  v \in late
    BY DEF OrphansAreLate
  <2>1. /\ v \in Vehicles /\ ActiveVehicle(v)
        /\ vehicle[v].customerId \in Customers
    BY DEF ListVehicles
  <2>2. customer[vehicle[v].customerId].state # "active"
    BY <2>1 DEF ListCustomers, ActiveCustomer
  <2> QED
    BY <2>1, <2>2 DEF IInv, TablesSound, OrphansSound
<1> QED
  BY <1>1, Invariance, PTL

\* The vehicle of every order is, and stays, one of the customer of the order.
THEOREM OrdersKeepTheirOwner == Spec => []OrdersNameTheOwner
<1>1. IInv => OrdersNameTheOwner
  BY DEF IInv, TablesSound
<1> QED
  BY <1>1, Invariance, PTL

-----------------------------------------------------------------------------
(***************************************************************************)
(* What an archived row keeps, and who owns a plate.                       *)
(***************************************************************************)

\* What is archived stays archived, whatever row of it was loaded before.
THEOREM ArchivingIsFinal == Spec => ArchivedStaysArchived
<1> DEFINE Kept ==
        /\ \A c \in Customers : customer[c].state = "archived" => customer'[c] = customer[c]
        /\ \A v \in Vehicles : vehicle[v].state = "archived"
             => /\ vehicle'[v].state = "archived"
                /\ vehicle'[v].customerId = vehicle[v].customerId
<1>1. IInv /\ [Next]_vars => [Kept]_vars
  <2> SUFFICES ASSUME IInv, Next PROVE Kept
    BY DEF vars, IInv, TablesSound
  <2>1. PICK r \in Requests : Handle(r) \/ Execute(r) \/ Kill(r)
    BY DEF Next
  <2>2. TablesTyped
    BY DEF IInv, TablesSound
  <2>3. CASE UNCHANGED tables
    BY <2>3 DEF tables
  <2>4. ASSUME NEW c \in Customers, InsertCustomer(r, c)
        PROVE  Kept
    BY <2>2, <2>3, <2>4 DEF InsertCustomer, Throw, TablesTyped
  <2>5. CASE CommitArchive(r)
    BY <2>2, <2>5 DEF CommitArchive, TablesTyped, Customer, Vehicle
  <2>6. ASSUME NEW v \in Vehicles, InsertVehicle(r, v)
        PROVE  Kept
    BY <2>2, <2>3, <2>6 DEF InsertVehicle, Insert, Throw, TablesTyped
  <2>7. CASE WriteVehicle(r)
    BY <2>2, <2>3, <2>7 DEF WriteVehicle, SetPlate, Throw, TablesTyped, Vehicle
  <2>8. CASE SoftDelete(r)
    BY <2>2, <2>8 DEF SoftDelete, TablesTyped, Vehicle
  <2>9. CASE InsertOrder(r)
    BY <2>9 DEF InsertOrder
  <2>10. CASE Handle(r) \/ Kill(r) \/ WriteCustomer(r) \/ ArchiveVehicles(r) \/ FindPlate(r)
                \/ FindVehicle(r)
    BY <2>3, <2>10 DEF Handle, CreateCustomer, UpdateCustomer, ArchiveCustomer, CreateVehicle,
         UpdateVehicle, ChangePlate, ArchiveVehicle, OpenOrder, Begin, Kill, Throw,
         WriteCustomer, ArchiveVehicles, FindPlate, FindVehicle
  <2> HIDE DEF Kept
  <2> QED
    BY <2>1, <2>4, <2>5, <2>6, <2>7, <2>8, <2>9, <2>10 DEF Execute
<1> QED
  BY <1>1, Invariance, PTL DEF Spec, ArchivedStaysArchived

-----------------------------------------------------------------------------
(***************************************************************************)
(* Who owns a plate, in a table f of vehicles.                             *)
(***************************************************************************)
HasPlate(f, v, p) == f[v].state = "active" /\ f[v].plate = p

UniqueIn(f) ==
    \A p \in Plates : \A v, w \in Vehicles : HasPlate(f, v, p) /\ HasPlate(f, w, p) => v = w

OwnerIn(f, p) ==
    IF \E v \in Vehicles : HasPlate(f, v, p)
    THEN f[CHOOSE v \in Vehicles : HasPlate(f, v, p)].customerId
    ELSE None

LEMMA OwnerInTable ==
    ASSUME NEW f, UniqueIn(f), NEW p \in Plates
    PROVE  /\ \A v \in Vehicles : HasPlate(f, v, p) => OwnerIn(f, p) = f[v].customerId
           /\ (\A v \in Vehicles : ~HasPlate(f, v, p)) => OwnerIn(f, p) = None
<1>1. ASSUME NEW v \in Vehicles, HasPlate(f, v, p)
      PROVE  OwnerIn(f, p) = f[v].customerId
  <2> DEFINE w == CHOOSE w \in Vehicles : HasPlate(f, w, p)
  <2>1. w \in Vehicles /\ HasPlate(f, w, p)
    BY <1>1
  <2>2. w = v
    BY <1>1, <2>1 DEF UniqueIn
  <2> QED
    BY <1>1, <2>2 DEF OwnerIn
<1> QED
  BY <1>1 DEF OwnerIn

\* A plate keeps its owner when some vehicle with it does, or none has it.
LEMMA SameOwner ==
    ASSUME NEW f, NEW g, UniqueIn(f), UniqueIn(g), NEW p \in Plates,
           \A v \in Vehicles : HasPlate(f, v, p) <=> HasPlate(g, v, p),
           \A v \in Vehicles : HasPlate(f, v, p) => g[v].customerId = f[v].customerId
    PROVE  OwnerIn(g, p) = OwnerIn(f, p)
<1>1. CASE \E v \in Vehicles : HasPlate(f, v, p)
  <2>1. PICK v \in Vehicles : HasPlate(f, v, p)
    BY <1>1
  <2>2. OwnerIn(f, p) = f[v].customerId
    BY <2>1, OwnerInTable
  <2>3. OwnerIn(g, p) = g[v].customerId
    BY <2>1, OwnerInTable
  <2> QED
    BY <2>1, <2>2, <2>3
<1>2. CASE \A v \in Vehicles : ~HasPlate(f, v, p)
  <2>1. OwnerIn(f, p) = None
    BY <1>2, OwnerInTable
  <2>2. OwnerIn(g, p) = None
    BY <1>2, OwnerInTable
  <2> QED
    BY <2>1, <2>2
<1> QED
  BY <1>1, <1>2

Owners(f) == [p \in Plates |-> OwnerIn(f, p)]

LEMMA OwnersNow ==
    /\ [p \in Plates |-> OwnerOf(p)] = Owners(vehicle)
    /\ [p \in Plates |-> OwnerOf(p)]' = Owners(vehicle')
BY DEF OwnerOf, Owners, OwnerIn, InUse, ActiveVehicle, HasPlate

LEMMA PlatesAreUniqueNow ==
    ASSUME IInv, IInv'
    PROVE  UniqueIn(vehicle) /\ UniqueIn(vehicle')
BY DEF IInv, TablesSound, ActivePlatesAreUnique, ActiveVehicle, UniqueIn, HasPlate

\* A step that changes no active row changes no owner.
LEMMA NoOwnerChanges ==
    ASSUME NEW f, NEW g, UniqueIn(f), UniqueIn(g),
           \A v \in Vehicles, p \in Plates :
                /\ HasPlate(f, v, p) <=> HasPlate(g, v, p)
                /\ HasPlate(f, v, p) => g[v].customerId = f[v].customerId
    PROVE  Owners(g) = Owners(f)
<1>1. \A p \in Plates : OwnerIn(g, p) = OwnerIn(f, p)
  BY SameOwner
<1> QED
  BY <1>1 DEF Owners

-----------------------------------------------------------------------------
(***************************************************************************)
(* The steps as steps of VehicleOwnership.                                 *)
(***************************************************************************)

\* The abstract step, of a table f to a table g.
Abstract(f, g) ==
    \/ \E c \in Customers, given \in SUBSET Plates :
            /\ \A p \in given : OwnerIn(f, p) = c
            /\ Owners(g) = [p \in Plates |-> IF p \in given THEN None ELSE OwnerIn(f, p)]
    \/ \E c \in Customers, p \in Plates :
            OwnerIn(f, p) = None /\ Owners(g) = [Owners(f) EXCEPT ![p] = c]
    \/ \E p, q \in Plates :
            /\ OwnerIn(f, p) # None /\ OwnerIn(f, q) = None
            /\ Owners(g) = [Owners(f) EXCEPT ![p] = None, ![q] = OwnerIn(f, p)]
    \/ Owners(g) = Owners(f)

LEMMA AbstractSteps ==
    ASSUME Abstract(vehicle, vehicle')
    PROVE  [Ownership!Next]_([p \in Plates |-> OwnerOf(p)])
<1>1. \A p \in Plates : [q \in Plates |-> OwnerOf(q)][p] = OwnerIn(vehicle, p)
  BY OwnersNow DEF Owners
<1>2. \A p \in Plates : Ownership!Free(p) <=> OwnerIn(vehicle, p) = None
  BY <1>1 DEF Ownership!Free
<1>3. CASE \E c \in Customers, given \in SUBSET Plates :
            /\ \A p \in given : OwnerIn(vehicle, p) = c
            /\ Owners(vehicle') = [p \in Plates |-> IF p \in given THEN None
                                                     ELSE OwnerIn(vehicle, p)]
  <2>1. PICK c \in Customers, given \in SUBSET Plates :
            /\ \A p \in given : OwnerIn(vehicle, p) = c
            /\ Owners(vehicle') = [p \in Plates |-> IF p \in given THEN None
                                                     ELSE OwnerIn(vehicle, p)]
    BY <1>3
  <2>2. Ownership!GiveUp(c, given)
    BY <1>1, <2>1, OwnersNow DEF Ownership!GiveUp
  <2> QED
    BY <2>2 DEF Ownership!Next
<1>4. CASE \E c \in Customers, p \in Plates :
            OwnerIn(vehicle, p) = None /\ Owners(vehicle') = [Owners(vehicle) EXCEPT ![p] = c]
  <2>1. PICK c \in Customers, p \in Plates :
            OwnerIn(vehicle, p) = None /\ Owners(vehicle') = [Owners(vehicle) EXCEPT ![p] = c]
    BY <1>4
  <2>2. Ownership!Register(c, p)
    BY <1>2, <2>1, OwnersNow DEF Ownership!Register
  <2> QED
    BY <2>2 DEF Ownership!Next
<1>5. CASE \E p, q \in Plates :
            /\ OwnerIn(vehicle, p) # None /\ OwnerIn(vehicle, q) = None
            /\ Owners(vehicle') = [Owners(vehicle) EXCEPT ![p] = None,
                                                          ![q] = OwnerIn(vehicle, p)]
  <2>1. PICK p \in Plates, q \in Plates :
            /\ OwnerIn(vehicle, p) # None /\ OwnerIn(vehicle, q) = None
            /\ Owners(vehicle') = [Owners(vehicle) EXCEPT ![p] = None,
                                                          ![q] = OwnerIn(vehicle, p)]
    BY <1>5
  <2>2. Ownership!Replate(p, q)
    BY <1>1, <1>2, <2>1, OwnersNow DEF Ownership!Replate
  <2> QED
    BY <2>2 DEF Ownership!Next
<1>6. CASE Owners(vehicle') = Owners(vehicle)
  BY <1>6, OwnersNow
<1> QED
  BY <1>3, <1>4, <1>5, <1>6 DEF Abstract

\* A vehicle that is inserted takes a free plate.
LEMMA InsertRegisters ==
    ASSUME NEW f, NEW g, UniqueIn(f), UniqueIn(g), NEW v \in Vehicles,
           NEW c \in Customers, NEW p \in Plates,
           f[v].state = "unused", HasPlate(g, v, p), g[v].customerId = c,
           \A w \in Vehicles \ {v} : g[w] = f[w]
    PROVE  Abstract(f, g)
<1>1. \A w \in Vehicles : ~HasPlate(f, w, p)
  BY DEF UniqueIn, HasPlate
<1>2. OwnerIn(f, p) = None
  BY <1>1, OwnerInTable
<1>3. OwnerIn(g, p) = c
  BY OwnerInTable
<1>4. ASSUME NEW q \in Plates, q # p
      PROVE  OwnerIn(g, q) = OwnerIn(f, q)
  <2>1. \A w \in Vehicles : HasPlate(f, w, q) <=> HasPlate(g, w, q)
    BY <1>4 DEF HasPlate
  <2>2. \A w \in Vehicles : HasPlate(f, w, q) => g[w].customerId = f[w].customerId
    BY DEF HasPlate
  <2> QED
    BY <2>1, <2>2, SameOwner
<1>5. Owners(g) = [Owners(f) EXCEPT ![p] = c]
  BY <1>3, <1>4 DEF Owners
<1> QED
  BY <1>2, <1>5 DEF Abstract

\* An active vehicle that gets another plate takes a free one, and frees its own.
LEMMA WriteReplates ==
    ASSUME NEW f, NEW g, UniqueIn(f), UniqueIn(g), NEW v \in Vehicles,
           NEW p \in Plates, NEW q \in Plates, None \notin Customers,
           HasPlate(f, v, p), HasPlate(g, v, q), f[v].customerId \in Customers,
           g[v].customerId = f[v].customerId,
           \A w \in Vehicles \ {v} : g[w] = f[w]
    PROVE  Abstract(f, g)
<1>1. CASE p = q
  <2>1. \A w \in Vehicles, o \in Plates :
            /\ HasPlate(f, w, o) <=> HasPlate(g, w, o)
            /\ HasPlate(f, w, o) => g[w].customerId = f[w].customerId
    BY <1>1 DEF HasPlate
  <2> QED
    BY <2>1, NoOwnerChanges DEF Abstract
<1>2. CASE p # q
  <2>1. \A w \in Vehicles : ~HasPlate(f, w, q) /\ ~HasPlate(g, w, p)
    BY <1>2 DEF UniqueIn, HasPlate
  <2>2. OwnerIn(f, q) = None /\ OwnerIn(g, p) = None
    BY <2>1, OwnerInTable
  <2>3. OwnerIn(f, p) = f[v].customerId /\ OwnerIn(g, q) = f[v].customerId
    BY OwnerInTable
  <2>4. ASSUME NEW o \in Plates, o \notin {p, q}
        PROVE  OwnerIn(g, o) = OwnerIn(f, o)
    <3>1. \A w \in Vehicles : HasPlate(f, w, o) <=> HasPlate(g, w, o)
      BY <2>4 DEF HasPlate
    <3>2. \A w \in Vehicles : HasPlate(f, w, o) => g[w].customerId = f[w].customerId
      OBVIOUS
    <3> QED
      BY <3>1, <3>2, SameOwner
  <2>5. Owners(g) = [Owners(f) EXCEPT ![p] = None, ![q] = OwnerIn(f, p)]
    BY <1>2, <2>2, <2>3, <2>4 DEF Owners
  <2> QED
    BY <2>2, <2>3, <2>5 DEF Abstract
<1> QED
  BY <1>1, <1>2

\* The vehicles of one customer that are archived free their plates.
LEMMA ArchivingGivesUp ==
    ASSUME NEW f, NEW g, UniqueIn(f), UniqueIn(g), NEW c \in Customers,
           NEW S \in SUBSET Vehicles,
           \A v \in S : f[v].customerId = c /\ g[v].state = "archived",
           \A v \in Vehicles \ S : g[v] = f[v]
    PROVE  Abstract(f, g)
<1> DEFINE given == {p \in Plates : \E v \in S : HasPlate(f, v, p)}
<1>1. \A p \in given : OwnerIn(f, p) = c
  BY OwnerInTable
<1>2. ASSUME NEW p \in given
      PROVE  OwnerIn(g, p) = None
  <2>1. \A w \in Vehicles : ~HasPlate(g, w, p)
    BY <1>2 DEF UniqueIn, HasPlate
  <2> QED
    BY <2>1, OwnerInTable
<1>3. ASSUME NEW p \in Plates \ given
      PROVE  OwnerIn(g, p) = OwnerIn(f, p)
  <2>1. \A w \in Vehicles : HasPlate(f, w, p) <=> HasPlate(g, w, p)
    BY <1>3 DEF HasPlate
  <2>2. \A w \in Vehicles : HasPlate(f, w, p) => g[w].customerId = f[w].customerId
    BY <1>3
  <2> QED
    BY <2>1, <2>2, SameOwner
<1> HIDE DEF given
<1>4. Owners(g) = [p \in Plates |-> IF p \in given THEN None ELSE OwnerIn(f, p)]
  BY <1>2, <1>3 DEF Owners
<1>5. given \in SUBSET Plates
  BY DEF given
<1> QED
  BY <1>1, <1>4, <1>5 DEF Abstract

LEMMA StutterIsAbstract == vehicle' = vehicle => Abstract(vehicle, vehicle')
BY DEF Abstract

LEMMA StepImplements ==
    ASSUME IInv, IInv', [Next]_vars
    PROVE  Abstract(vehicle, vehicle')
<1>1. UniqueIn(vehicle) /\ UniqueIn(vehicle')
  BY PlatesAreUniqueNow
<1>2. TablesTyped /\ ActiveRegistered /\ Planned /\ None \notin Customers
  BY RegistryAssumption DEF IInv, TablesSound
<1>3. CASE UNCHANGED vars
  BY <1>3, StutterIsAbstract DEF vars
<1>4. ASSUME NEW r \in Requests, Handle(r) \/ Execute(r) \/ Kill(r)
      PROVE  Abstract(vehicle, vehicle')
  <2> DEFINE s == Head(todo[r])
  <2>1. CASE UNCHANGED tables
    BY <2>1, StutterIsAbstract DEF tables
  <2>2. ASSUME NEW c \in Customers, InsertCustomer(r, c)
        PROVE  Abstract(vehicle, vehicle')
    BY <2>1, <2>2, StutterIsAbstract DEF InsertCustomer, Throw
  <2>3. CASE CommitArchive(r)
    <3>1. Runs(r, "commitArchive")
      BY <2>3 DEF CommitArchive
    <3>2. s \in Statement /\ s.kind = "commitArchive" /\ Sound(s)
      BY <1>2, <3>1, LastStatement
    <3>3. s.customer \in Customers /\ s.vehicles \in SUBSET Vehicles
      BY <3>2, StatementFields
    <3>4. \A v \in s.vehicles : vehicle[v].customerId = s.customer
      BY <3>2 DEF Sound
    <3>5. /\ \A v \in s.vehicles : vehicle'[v].state = "archived"
          /\ \A v \in Vehicles \ s.vehicles : vehicle'[v] = vehicle[v]
      BY <1>2, <2>3, <3>3 DEF CommitArchive, TablesTyped, Vehicle
    <3> QED
      BY <1>1, <3>3, <3>4, <3>5, ArchivingGivesUp
  <2>4. ASSUME NEW v \in Vehicles, InsertVehicle(r, v)
        PROVE  Abstract(vehicle, vehicle')
    <3>1. Runs(r, "insertVehicle")
      BY <2>4 DEF InsertVehicle
    <3>2. s.customer \in Customers /\ s.plate \in Plates
      BY <1>2, <3>1, LastStatement, StatementFields
    <3>3. CASE Throw(r)
      BY <2>1, <3>3 DEF Throw
    <3>4. CASE vehicle[v].state = "unused" /\ Insert(r, v)
      <4>1. /\ HasPlate(vehicle', v, s.plate) /\ vehicle'[v].customerId = s.customer
            /\ \A w \in Vehicles \ {v} : vehicle'[w] = vehicle[w]
        BY <1>2, <3>4 DEF Insert, TablesTyped, HasPlate
      <4> QED
        BY <1>1, <3>2, <3>4, <4>1, InsertRegisters
    <3> QED
      BY <2>4, <3>3, <3>4 DEF InsertVehicle
  <2>5. CASE WriteVehicle(r)
    <3>1. Runs(r, "writeVehicle")
      BY <2>5 DEF WriteVehicle
    <3>2. s.vehicle \in Vehicles /\ s.plate \in Plates
      BY <1>2, <3>1, LastStatement, StatementFields
    <3>3. CASE Throw(r)
      BY <2>1, <3>3 DEF Throw
    <3>4. CASE SetPlate(s.vehicle, s.plate)
      <4>1. /\ vehicle'[s.vehicle].state = vehicle[s.vehicle].state
            /\ vehicle'[s.vehicle].plate = s.plate
            /\ vehicle'[s.vehicle].customerId = vehicle[s.vehicle].customerId
            /\ \A w \in Vehicles \ {s.vehicle} : vehicle'[w] = vehicle[w]
        BY <1>2, <3>2, <3>4 DEF SetPlate, TablesTyped, Vehicle
      <4>2. CASE ActiveVehicle(s.vehicle)
        <5>1. /\ HasPlate(vehicle, s.vehicle, vehicle[s.vehicle].plate)
              /\ HasPlate(vehicle', s.vehicle, s.plate)
              /\ vehicle[s.vehicle].plate \in Plates
              /\ vehicle[s.vehicle].customerId \in Customers
          BY <1>2, <3>2, <4>1, <4>2 DEF HasPlate, ActiveVehicle, ActiveRegistered
        <5> QED
          BY <1>1, <1>2, <3>2, <4>1, <5>1, WriteReplates
      <4>3. CASE ~ActiveVehicle(s.vehicle)
        <5>1. \A w \in Vehicles, p \in Plates :
                /\ HasPlate(vehicle, w, p) <=> HasPlate(vehicle', w, p)
                /\ HasPlate(vehicle, w, p) => vehicle'[w].customerId = vehicle[w].customerId
          BY <4>1, <4>3 DEF HasPlate, ActiveVehicle
        <5> QED
          BY <1>1, <5>1, NoOwnerChanges DEF Abstract
      <4> QED
        BY <4>2, <4>3
    <3> QED
      BY <2>5, <3>3, <3>4 DEF WriteVehicle
  <2>6. CASE SoftDelete(r)
    <3>1. Runs(r, "archiveVehicle")
      BY <2>6 DEF SoftDelete
    <3>2. s.vehicle \in Vehicles
      BY <1>2, <3>1, LastStatement, StatementFields
    <3>3. /\ vehicle'[s.vehicle].state = "archived"
          /\ \A w \in Vehicles \ {s.vehicle} : vehicle'[w] = vehicle[w]
      BY <1>2, <2>6, <3>2 DEF SoftDelete, TablesTyped, Vehicle
    <3>4. CASE ActiveVehicle(s.vehicle)
      <4>1. vehicle[s.vehicle].customerId \in Customers
        BY <1>2, <3>2, <3>4 DEF ActiveRegistered
      <4> DEFINE S == {s.vehicle}
                 c == vehicle[s.vehicle].customerId
      <4>2. /\ S \in SUBSET Vehicles
            /\ \A v \in S : vehicle[v].customerId = c /\ vehicle'[v].state = "archived"
            /\ \A v \in Vehicles \ S : vehicle'[v] = vehicle[v]
        BY <3>2, <3>3
      <4> HIDE DEF S, c
      <4> QED
        BY <1>1, <4>1, <4>2, ArchivingGivesUp DEF c
    <3>5. CASE ~ActiveVehicle(s.vehicle)
      <4>1. \A w \in Vehicles, p \in Plates :
                /\ HasPlate(vehicle, w, p) <=> HasPlate(vehicle', w, p)
                /\ HasPlate(vehicle, w, p) => vehicle'[w].customerId = vehicle[w].customerId
        BY <3>3, <3>5 DEF HasPlate, ActiveVehicle
      <4> QED
        BY <1>1, <4>1, NoOwnerChanges DEF Abstract
    <3> QED
      BY <3>4, <3>5
  <2>7. CASE InsertOrder(r)
    BY <2>7, StutterIsAbstract DEF InsertOrder
  <2>8. CASE Handle(r) \/ Kill(r) \/ WriteCustomer(r) \/ ArchiveVehicles(r) \/ FindPlate(r)
                \/ FindVehicle(r)
    BY <2>1, <2>8 DEF Handle, CreateCustomer, UpdateCustomer, ArchiveCustomer, CreateVehicle,
         UpdateVehicle, ChangePlate, ArchiveVehicle, OpenOrder, Begin, Kill, Throw,
         WriteCustomer, ArchiveVehicles, FindPlate, FindVehicle
  <2> QED
    BY <1>4, <2>2, <2>3, <2>4, <2>5, <2>6, <2>7, <2>8 DEF Execute
<1> QED
  BY <1>3, <1>4 DEF Next

\* Checks before writes, stale rows and archiving notwithstanding, a plate in use belongs
\* to one customer until it is given up.
THEOREM PlatesHaveOneOwner == Spec => ImplementsOwnership
<1>1. Init => Ownership!Init
  BY DEF Init, Ownership!Init, OwnerOf, InUse, ActiveVehicle, NoVehicle
<1>2. IInv /\ IInv' /\ [Next]_vars
        => [Ownership!Next]_([p \in Plates |-> OwnerOf(p)])
  BY StepImplements, AbstractSteps
<1> QED
  BY <1>1, <1>2, Invariance, PTL DEF Spec, ImplementsOwnership, Ownership!Spec

-----------------------------------------------------------------------------
(***************************************************************************)
(* The two implementations of the check digits, the value object of        *)
(* customer-management and the validator of common/, accept the same       *)
(* documents.  There are too many to enumerate.                            *)
(***************************************************************************)

\* Eleven minus a remainder by eleven is ten times it, by eleven.
LEMMA SameDigit ==
    ASSUME NEW sum \in Nat
    PROVE  Complement(sum) = Remainder(sum)
<1> DEFINE k == sum \div 11
           m == sum % 11
<1>1. k \in Int /\ m \in 0 .. 10 /\ sum = 11 * k + m
  OBVIOUS
<1>2. (sum * 10) % 11 = (m * 10) % 11
  BY <1>1
<1>3. (m * 10) % 11 = IF m = 0 THEN 0 ELSE 11 - m
  BY <1>1
<1> QED
  BY <1>1, <1>2, <1>3 DEF Complement, Remainder

\* A sum of digits and weights is a number.
LEMMA SumsAreNumbers ==
    ASSUME NEW text \in Seq(Digit), Len(text) = 11
    PROVE  FirstSum(text) \in Nat /\ SecondSum(text) \in Nat
<1> DEFINE a == text[1]
           b == text[2]
           c == text[3]
           d == text[4]
           e == text[5]
           f == text[6]
           g == text[7]
           h == text[8]
           i == text[9]
           j == text[10]
<1>1. \A n \in 1 .. 11 : text[n] \in Nat
  <2>1. \A n \in 1 .. Len(text) : text[n] \in Digit
    BY ElementOfSeq
  <2>2. Digit \subseteq Nat
    BY DEF Digit
  <2> QED
    BY <2>1, <2>2
<1>2. /\ a \in Nat /\ b \in Nat /\ c \in Nat /\ d \in Nat /\ e \in Nat
      /\ f \in Nat /\ g \in Nat /\ h \in Nat /\ i \in Nat /\ j \in Nat
  BY <1>1
<1>3. FirstSum(text) = 10 * a + 9 * b + 8 * c + 7 * d + 6 * e + 5 * f + 4 * g + 3 * h + 2 * i
  BY DEF FirstSum
<1>4. SecondSum(text) = 11 * a + 10 * b + 9 * c + 8 * d + 7 * e + 6 * f + 5 * g + 4 * h
                            + 3 * i + 2 * j
  BY DEF SecondSum
<1> HIDE DEF a, b, c, d, e, f, g, h, i, j
<1>5. 10 * a + 9 * b + 8 * c + 7 * d + 6 * e + 5 * f + 4 * g + 3 * h + 2 * i \in Nat
  BY <1>2
<1>6. 11 * a + 10 * b + 9 * c + 8 * d + 7 * e + 6 * f + 5 * g + 4 * h + 3 * i + 2 * j \in Nat
  BY <1>2
<1> QED
  BY <1>3, <1>4, <1>5, <1>6

\* Of CPFs alone, whose digits the two compute in different ways.
LEMMA CpfValidatorsAgree == \A d \in Seq(Digit) : ValidateCPF(d) <=> IsValidCpf(d)
<1> SUFFICES ASSUME NEW d \in Seq(Digit), Len(d) = 11
             PROVE  ValidateCPF(d) <=> IsValidCpf(d)
  BY DEF ValidateCPF, IsValidCpf
<1>1. Complement(FirstSum(d)) = Remainder(FirstSum(d))
  BY SumsAreNumbers, SameDigit
<1>2. Complement(SecondSum(d)) = Remainder(SecondSum(d))
  BY SumsAreNumbers, SameDigit
<1> QED
  BY <1>1, <1>2 DEF ValidateCPF, IsValidCpf

\* The value object Document and the validator IsValidDocument of common/ accept the
\* same documents: a client never passes one check and fails the other.
THEOREM ValidatorsAgree ==
    \A type \in DocumentTypes, d \in Seq(Digit) :
        ValidDocument(type, d) <=> IsValidDocument(type, d)
<1>1. \A d : ValidateCNPJ(d) <=> IsValidCnpj(d)
  BY DEF ValidateCNPJ, IsValidCnpj
<1> QED
  BY <1>1, CpfValidatorsAgree DEF ValidDocument, IsValidDocument
=============================================================================
