--------------------------- MODULE InventoryProofs ---------------------------
(***************************************************************************)
(* The invariants of Inventory, for every value of the constants.          *)
(*                                                                         *)
(* As in ServiceOrdersProofs they are not inductive: a row written back    *)
(* was computed from an older one, an item is inserted long after its      *)
(* parts were taken, and what a rejection returns was read when it began.  *)
(* The inductive invariant says what every statement still to run          *)
(* guarantees.  It holds because ids are not used again, so that a row     *)
(* that is not there when a statement runs was deleted, for good.          *)
(***************************************************************************)
EXTENDS Inventory, TLAPS

\* The clients ask for whole units only, as the DTO of an item does not require.
WholeQuantities == \A q \in Quantities : IsWhole(q)

\* A quantity that may be returned to any stock.
Returnable(quantity) == quantity >= 0 /\ (WholeQuantities => IsWhole(quantity))

TablesTyped ==
    /\ phase \in [References -> Phases]
    /\ material \in [Materials -> Material]
    /\ item \in [Estimates -> [References -> Item]]
    /\ rejected \subseteq Estimates

RowsSound ==
    \A m \in Materials :
        material[m].stock >= 0 /\ (WholeQuantities => Constructs(material[m]))

\* Of an item of a material nobody took from the stock the row is deleted.
AccountedFor(ref, took) ==
    phase[ref] # "unused" /\ (ref \in Materials => took \/ phase[ref] = "deleted")

ItemsSound ==
    \A e \in Estimates, ref \in References :
        /\ Returnable(item[e][ref].quantity)
        /\ HasItem(e, ref) => AccountedFor(ref, item[e][ref].took)

Sound(s) ==
    /\ s.kind = "writeMaterial" => Constructs(s.row)
    /\ s.kind = "readStock" => phase[s.ref] # "unused"
    /\ s.kind = "createItem" => AccountedFor(s.ref, s.took)
    /\ s.kind = "incrementStock" => \A part \in s.returns : Returnable(part.quantity)

SoundStatements == {s \in Statement : Sound(s)}

TodoSound == todo \in [Requests -> Seq(SoundStatements)]

IInv == TablesTyped /\ RowsSound /\ ItemsSound /\ TodoSound

-----------------------------------------------------------------------------
(***************************************************************************)
(* Amounts.                                                                *)
(***************************************************************************)

\* Whole amounts are closed under addition and subtraction.
LEMMA WholeSums ==
    ASSUME NEW a \in Int, NEW b \in Int, IsWhole(a), IsWhole(b)
    PROVE  IsWhole(a + b) /\ IsWhole(a - b)
BY DEF IsWhole, Whole

\* The column of an item's quantity keeps whole amounts, and nothing below zero.
LEMMA RoundedQuantity ==
    ASSUME NEW q \in Quantities
    PROVE  Rounded(q) \in Int /\ Returnable(Rounded(q))
<1>1. q \in Nat
  BY InventoryAssumption
<1>2. Rounded(q) \in Int /\ Rounded(q) >= 0
  BY <1>1 DEF Rounded, Resolution
<1>3. IsWhole(q) => IsWhole(Rounded(q))
  BY <1>1 DEF Rounded, Resolution, IsWhole, Whole
<1> QED BY <1>2, <1>3 DEF Returnable, WholeQuantities

\* A movement into the stock of a row that loads leaves a row that loads.
LEMMA AddedConstructs ==
    ASSUME NEW row \in Material, NEW amount \in Int, Constructs(row), ValidMovement(row, amount)
    PROVE  AddStock(row, amount) \in Material /\ Constructs(AddStock(row, amount))
<1>1. row.type = "PART" => IsWhole(row.stock + amount)
  BY WholeSums DEF Constructs, ValidStockQuantity, ValidMovement, Material
<1> QED BY <1>1 DEF AddStock, Constructs, ValidStockQuantity, ValidTypeAndUnit,
                    ValidMovement, Material

\* update() keeps the types of the fields.
LEMMA UpdatedTyped ==
    ASSUME NEW row \in Material, NEW props \in Props
    PROVE  Updated(row, props) \in Material
<1> DEFINE amounts == Amounts \cup {-1}
<1>1. props.stock \in Int
  <2>1. amounts \subseteq Int
    BY InventoryAssumption
  <2>2. props.stock \in amounts
    <3> HIDE DEF amounts
    <3>1. props \in [type : MaterialTypes \cup {Keep}, unit : StockUnits \cup {Keep},
                     stock : amounts]
      BY DEF Props, amounts
    <3> QED BY <3>1
  <2> QED BY <2>1, <2>2
<1>2. Given(props.type, row.type) \in MaterialTypes
  BY DEF Given, Props, Material
<1>3. Given(props.unit, row.unit) \in StockUnits
  BY DEF Given, Props, Material
<1> QED BY <1>1, <1>2, <1>3 DEF Updated, Material

\* A stock that changes by a whole amount and stays positive still loads.
LEMMA MovedConstructs ==
    ASSUME NEW row \in Material, NEW stock \in Int, stock >= 0,
           Constructs(row), IsWhole(row.stock) => IsWhole(stock)
    PROVE  Constructs([row EXCEPT !.stock = stock])
BY DEF Constructs, ValidStockQuantity, ValidTypeAndUnit, Material

-----------------------------------------------------------------------------
(***************************************************************************)
(* What may happen to todo.                                                *)
(***************************************************************************)

\* No id goes back to unused, and no row comes back.
Ageing ==
    \A ref \in References :
        /\ phase[ref] # "unused" => phase'[ref] # "unused"
        /\ phase[ref] = "deleted" => phase'[ref] = "deleted"

LEMMA HeadAndTail ==
    ASSUME NEW S, NEW q \in Seq(S), q # <<>>
    PROVE  Head(q) \in S /\ Tail(q) \in Seq(S)
OBVIOUS

LEMMA Short ==
    ASSUME NEW S, NEW s \in S, NEW t \in S
    PROVE  <<>> \in Seq(S) /\ <<s>> \in Seq(S) /\ <<s, t>> \in Seq(S)
OBVIOUS

\* A sequence over a set is one over every larger set.
LEMMA SeqOfLarger == ASSUME NEW S, NEW T, S \subseteq T PROVE Seq(S) \subseteq Seq(T)
OBVIOUS

\* What was accounted for stays so.
LEMMA StaysAccountedFor ==
    ASSUME Ageing, NEW ref \in References, NEW took, AccountedFor(ref, took)
    PROVE  AccountedFor(ref, took)'
BY DEF Ageing, AccountedFor

LEMMA StaysSound == ASSUME Ageing PROVE SoundStatements \subseteq SoundStatements'
<1> SUFFICES ASSUME NEW s \in Statement, Sound(s) PROVE Sound(s)'
  BY DEF SoundStatements
<1>1. s.kind \in {"createItem", "readStock"} => s.ref \in References
  BY DEF Statement, References
<1>2. s.kind = "createItem" => AccountedFor(s.ref, s.took)'
  BY <1>1, StaysAccountedFor DEF Sound
<1>3. s.kind = "readStock" => phase'[s.ref] # "unused"
  BY <1>1 DEF Sound, Ageing
<1> QED BY <1>2, <1>3 DEF Sound, Returnable, WholeQuantities

\* A request goes on with sound statements.
LEMMA TodoStep ==
    ASSUME TodoSound, Ageing, NEW r \in Requests, NEW q \in Seq(SoundStatements),
           todo' = [todo EXCEPT ![r] = q]
    PROVE  TodoSound'
<1>1. Seq(SoundStatements) \subseteq Seq(SoundStatements')
  BY StaysSound, SeqOfLarger
<1> QED BY <1>1 DEF TodoSound

\* Only todo changes.
LEMMA TablesKept ==
    ASSUME IInv, UNCHANGED tables, NEW r \in Requests, NEW q \in Seq(SoundStatements),
           todo' = [todo EXCEPT ![r] = q]
    PROVE  IInv'
<1>1. Ageing
  BY DEF Ageing, tables
<1>2. TodoSound'
  BY <1>1, TodoStep DEF IInv
<1>3. (TablesTyped /\ RowsSound /\ ItemsSound)'
  BY DEF IInv, tables, TablesTyped, RowsSound, ItemsSound, HasItem, AccountedFor,
         Returnable, WholeQuantities
<1> QED BY <1>2, <1>3 DEF IInv

\* The statement a request runs next, and those after it.
LEMMA NextStatement ==
    ASSUME TodoSound, NEW r \in Requests, NEW kind, Runs(r, kind)
    PROVE  /\ Head(todo[r]) \in Statement
           /\ Sound(Head(todo[r]))
           /\ Head(todo[r]).kind = kind
           /\ Tail(todo[r]) \in Seq(SoundStatements)
<1>1. todo[r] \in Seq(SoundStatements) /\ todo[r] # <<>> /\ Head(todo[r]).kind = kind
  BY DEF TodoSound, Runs, Idle
<1>2. Head(todo[r]) \in SoundStatements /\ Tail(todo[r]) \in Seq(SoundStatements)
  BY <1>1, HeadAndTail
<1> QED BY <1>1, <1>2 DEF SoundStatements

LEMMA NothingLeft == <<>> \in Seq(SoundStatements)
OBVIOUS

\* What is left when the next statement is done, or when it throws.
LEMMA StatementDone ==
    ASSUME TodoSound, Ageing, NEW r \in Requests, NEW kind, Runs(r, kind),
           Done(r) \/ Throw(r)
    PROVE  TodoSound'
<1>1. Tail(todo[r]) \in Seq(SoundStatements)
  BY NextStatement
<1> QED BY <1>1, NothingLeft, TodoStep DEF Done, Throw, Replace

\* The same, of a statement that changes no table.
LEMMA StatementPassed ==
    ASSUME IInv, UNCHANGED tables, NEW r \in Requests, NEW kind, Runs(r, kind),
           Done(r) \/ Throw(r)
    PROVE  IInv'
<1>1. Tail(todo[r]) \in Seq(SoundStatements)
  BY NextStatement DEF IInv
<1> QED BY <1>1, NothingLeft, TablesKept DEF Done, Throw, Replace

-----------------------------------------------------------------------------
(***************************************************************************)
(* What the handlers decide is sound.                                      *)
(***************************************************************************)

\* A request starts with one statement.
LEMMA BeginsSound ==
    ASSUME IInv, NEW r \in Requests, NEW s \in SoundStatements, Begin(r, <<s>>)
    PROVE  IInv'
<1>1. <<s>> \in Seq(SoundStatements)
  BY Short
<1> QED BY <1>1, TablesKept DEF Begin, Replace

LEMMA WriteBackSound ==
    ASSUME NEW m \in Materials, NEW row \in Material, Constructs(row)
    PROVE  [kind |-> "writeMaterial", ref |-> m, row |-> row] \in SoundStatements
BY DEF SoundStatements, Statement, Sound

LEMMA UpdateMaterialSound ==
    ASSUME IInv, NEW r \in Requests, NEW m \in Materials, NEW props \in Props,
           UpdateMaterial(r, m, props)
    PROVE  IInv'
<1>1. material[m] \in Material
  BY DEF IInv, TablesTyped
<1>2. Updated(material[m], props) \in Material /\ Constructs(Updated(material[m], props))
  BY <1>1, UpdatedTyped DEF UpdateMaterial
<1> QED BY <1>2, WriteBackSound, BeginsSound DEF UpdateMaterial, WriteBack

LEMMA AddMaterialStockSound ==
    ASSUME IInv, NEW r \in Requests, NEW m \in Materials, NEW amount \in Amounts,
           AddMaterialStock(r, m, amount)
    PROVE  IInv'
<1>1. material[m] \in Material /\ amount \in Int
  BY InventoryAssumption DEF IInv, TablesTyped
<1>2. Constructs(material[m]) /\ ValidMovement(material[m], amount)
  BY DEF AddMaterialStock, Loads
<1>3. AddStock(material[m], amount) \in Material /\ Constructs(AddStock(material[m], amount))
  BY <1>1, <1>2, AddedConstructs
<1> QED BY <1>3, WriteBackSound, BeginsSound DEF AddMaterialStock, WriteBack

\* The statements of the other handlers write nothing that needs care.
LEMMA DeletionSound ==
    ASSUME IInv, NEW r \in Requests, NEW ref \in References,
           Begin(r, <<[kind |-> "delete", ref |-> ref]>>)
    PROVE  IInv'
<1>1. [kind |-> "delete", ref |-> ref] \in SoundStatements
  BY DEF SoundStatements, Statement, Sound
<1> QED BY <1>1, BeginsSound

LEMMA UpdateServiceSound ==
    ASSUME IInv, NEW r \in Requests, NEW s \in Services, UpdateService(r, s)
    PROVE  IInv'
<1>1. [kind |-> "writeService", ref |-> s] \in SoundStatements
  BY DEF SoundStatements, Statement, Sound
<1> QED BY <1>1, BeginsSound DEF UpdateService

LEMMA AddServiceItemSound ==
    ASSUME IInv, NEW r \in Requests, NEW e \in Estimates \cup {NoEstimate},
           NEW s \in Services, NEW q \in Quantities, AddServiceItem(r, e, s, q)
    PROVE  IInv'
<1>1. s \in References /\ s \notin Materials /\ phase[s] # "unused"
  BY InventoryAssumption DEF AddServiceItem, Present, References
<1>2. CreateItemStatement(e, s, q, FALSE) \in SoundStatements
  BY <1>1 DEF CreateItemStatement, SoundStatements, Statement, Sound, AccountedFor
<1> QED BY <1>2, BeginsSound DEF AddServiceItem

LEMMA AddPartItemSound ==
    ASSUME IInv, NEW r \in Requests, NEW e \in Estimates \cup {NoEstimate},
           NEW m \in Materials, NEW q \in Quantities, AddPartItem(r, e, m, q)
    PROVE  IInv'
<1>1. phase[m] # "unused"
  BY DEF AddPartItem, Loads, Present
<1>2. [kind |-> "readStock", estimate |-> e, ref |-> m, quantity |-> q] \in SoundStatements
  BY <1>1 DEF SoundStatements, Statement, Sound
<1> QED BY <1>2, BeginsSound DEF AddPartItem

\* What a rejection will return is what items hold.
LEMMA ReturnsSound ==
    ASSUME NEW returns \in SUBSET Return, \A part \in returns : Returnable(part.quantity)
    PROVE  [kind |-> "incrementStock", returns |-> returns] \in SoundStatements
BY DEF SoundStatements, Statement, Sound

LEMMA RejectEstimateSound ==
    ASSUME IInv, NEW r \in Requests, NEW e \in Estimates, RejectEstimate(r, e)
    PROVE  IInv'
<1> DEFINE held == {m \in Materials : HasItem(e, m)}
           returns == {[ref |-> m, quantity |-> item[e][m].quantity] : m \in held}
<1>1. \A m \in held : m \in Materials /\ item[e][m].quantity \in Int
                      /\ Returnable(item[e][m].quantity)
  BY DEF IInv, TablesTyped, ItemsSound, References, Item
<1>2. returns \in SUBSET Return /\ \A part \in returns : Returnable(part.quantity)
  BY <1>1 DEF Return
<1>3. ReturnEach(e, held) \in Seq(SoundStatements)
  <2> HIDE DEF held
  <2>1. [kind |-> "incrementStock", returns |-> returns] \in SoundStatements
    BY <1>2, ReturnsSound
  <2> QED BY <2>1, Short DEF ReturnEach
<1>4. Ageing /\ phase' = phase /\ material' = material /\ item' = item
  BY DEF Ageing, RejectEstimate
<1>5. TodoSound'
  BY <1>3, <1>4, TodoStep DEF IInv, RejectEstimate, Replace
<1>6. TablesTyped' /\ RowsSound' /\ ItemsSound'
  BY <1>4 DEF IInv, TablesTyped, RowsSound, ItemsSound, HasItem, AccountedFor,
              Returnable, WholeQuantities, RejectEstimate
<1> QED BY <1>5, <1>6 DEF IInv

-----------------------------------------------------------------------------
(***************************************************************************)
(* Statements.                                                             *)
(***************************************************************************)

\* A new row has an id no item and no statement names.
LEMMA RegistrationSound ==
    ASSUME IInv, NEW ref \in References, phase[ref] = "unused",
           phase' = [phase EXCEPT ![ref] = "present"], UNCHANGED <<item, rejected, todo>>,
           material' \in [Materials -> Material], RowsSound'
    PROVE  IInv'
<1>1. TablesTyped /\ TodoSound /\ ItemsSound
  BY DEF IInv
<1>2. Ageing
  BY <1>1 DEF TablesTyped, Ageing, Phases
<1>3. TodoSound'
  <2>1. Seq(SoundStatements) \subseteq Seq(SoundStatements')
    BY <1>2, StaysSound, SeqOfLarger
  <2> QED BY <1>1, <2>1 DEF TodoSound
<1>4. ItemsSound'
  <2>1. \A e \in Estimates, x \in References :
            HasItem(e, x) => AccountedFor(x, item[e][x].took)'
    BY <1>1, <1>2, StaysAccountedFor DEF ItemsSound, AccountedFor, Ageing
  <2> QED BY <1>1, <2>1 DEF ItemsSound, HasItem, Returnable, WholeQuantities, AccountedFor
<1>5. TablesTyped'
  BY <1>1 DEF TablesTyped, Phases
<1> QED BY <1>3, <1>4, <1>5 DEF IInv

LEMMA CreateMaterialSound ==
    ASSUME IInv, NEW m \in Materials, NEW row \in NewMaterials, CreateMaterial(m, row)
    PROVE  IInv'
<1>1. row \in Material /\ Constructs(row) /\ row.stock >= 0
  <2>1. Amounts \cup {0} \subseteq Int
    BY InventoryAssumption
  <2>2. row \in Material
    BY <2>1 DEF NewMaterials, Material
  <2> QED BY <2>2 DEF CreateMaterial, Constructs, ValidStockQuantity
<1>2. material' \in [Materials -> Material]
  BY <1>1 DEF IInv, TablesTyped, CreateMaterial
<1>3. RowsSound'
  BY <1>1 DEF IInv, TablesTyped, RowsSound, WholeQuantities, CreateMaterial
<1> QED BY <1>2, <1>3, RegistrationSound DEF CreateMaterial, References

LEMMA CreateServiceSound ==
    ASSUME IInv, NEW s \in Services, CreateService(s)
    PROVE  IInv'
<1>1. material' \in [Materials -> Material]
  BY DEF IInv, TablesTyped, CreateService
<1>2. RowsSound'
  BY DEF IInv, RowsSound, WholeQuantities, CreateService
<1> QED BY <1>1, <1>2, RegistrationSound DEF CreateService, References

\* A row is written: nothing else depends on its stock.
LEMMA StockWritten ==
    ASSUME IInv, TodoSound', UNCHANGED <<phase, item, rejected>>,
           material' \in [Materials -> Material], RowsSound'
    PROVE  IInv'
BY DEF IInv, TablesTyped, ItemsSound, HasItem, AccountedFor, Returnable, WholeQuantities

LEMMA WriteMaterialSound ==
    ASSUME IInv, NEW r \in Requests, WriteMaterial(r)
    PROVE  IInv'
<1> DEFINE s == Head(todo[r])
<1>1. s.ref \in Materials /\ s.row \in Material /\ Constructs(s.row)
  <2>1. s \in Statement /\ Sound(s) /\ s.kind = "writeMaterial"
    BY NextStatement DEF IInv, WriteMaterial
  <2> HIDE DEF s
  <2> QED BY <2>1 DEF Statement, Sound
<1>2. s.row.stock >= 0
  BY <1>1 DEF Constructs, ValidStockQuantity
<1>3. TodoSound'
  BY StatementDone DEF IInv, WriteMaterial, Ageing
<1>4. material' = material \/ material' = [material EXCEPT ![s.ref] = s.row]
  BY DEF WriteMaterial
<1>5. material' \in [Materials -> Material] /\ RowsSound'
  <2> HIDE DEF s
  <2> QED BY <1>1, <1>2, <1>4 DEF IInv, TablesTyped, RowsSound, WholeQuantities
<1> QED BY <1>3, <1>5, StockWritten DEF WriteMaterial

LEMMA WriteServiceSound ==
    ASSUME IInv, NEW r \in Requests, WriteService(r)
    PROVE  IInv'
BY StatementPassed DEF WriteService

\* A deletion leaves every item accounted for: it is the other way to be so.
LEMMA DeleteRowSound ==
    ASSUME IInv, NEW r \in Requests, DeleteRow(r)
    PROVE  IInv'
<1> DEFINE s == Head(todo[r])
<1>1. s.ref \in References
  <2>1. s \in Statement /\ s.kind = "delete"
    BY NextStatement DEF IInv, DeleteRow
  <2> HIDE DEF s
  <2> QED BY <2>1 DEF Statement, References
<1>2. phase' = phase \/ phase' = [phase EXCEPT ![s.ref] = "deleted"]
  BY DEF DeleteRow
<1>3. TablesTyped' /\ Ageing
  <2> HIDE DEF s
  <2> QED BY <1>1, <1>2 DEF IInv, TablesTyped, Ageing, Phases, DeleteRow
<1>4. TodoSound'
  BY <1>3, StatementDone DEF IInv, DeleteRow
<1>5. RowsSound'
  BY DEF IInv, RowsSound, WholeQuantities, DeleteRow
<1>6. ItemsSound'
  <2>1. \A e \in Estimates, x \in References :
            HasItem(e, x) => AccountedFor(x, item[e][x].took)'
    <3>1. item' = item
      BY DEF DeleteRow
    <3>2. \A e \in Estimates, x \in References :
            HasItem(e, x) => AccountedFor(x, item[e][x].took)
      BY DEF IInv, ItemsSound
    <3> QED BY <1>3, <3>1, <3>2 DEF AccountedFor, Ageing
  <2> QED BY <2>1 DEF IInv, ItemsSound, HasItem, Returnable, WholeQuantities,
                      AccountedFor, DeleteRow
<1> QED BY <1>3, <1>4, <1>5, <1>6 DEF IInv

\* The second look at the stock decides whether the item is taken from it.
LEMMA ReadStockSound ==
    ASSUME IInv, NEW r \in Requests, ReadStock(r)
    PROVE  IInv'
<1> DEFINE s == Head(todo[r])
           decrement == [kind |-> "decrementStock", ref |-> s.ref, quantity |-> s.quantity]
<1>1. /\ s.ref \in Materials /\ s.quantity \in Quantities
      /\ s.estimate \in Estimates \cup {NoEstimate} /\ phase[s.ref] # "unused"
  <2>1. s \in Statement /\ Sound(s) /\ s.kind = "readStock"
    BY NextStatement DEF IInv, ReadStock
  <2> HIDE DEF s
  <2> QED BY <2>1 DEF Statement, Sound
<1>2. CreateItemStatement(s.estimate, s.ref, s.quantity, TRUE) \in SoundStatements
  <2> HIDE DEF s
  <2> QED BY <1>1 DEF CreateItemStatement, SoundStatements, Statement, Sound,
                      AccountedFor, References
<1>3. decrement \in SoundStatements
  <2> HIDE DEF s
  <2> QED BY <1>1 DEF SoundStatements, Statement, Sound
<1>4. CASE ~Present(s.ref) /\ Replace(r, <<CreateItemStatement(s.estimate, s.ref, s.quantity, FALSE)>>)
  <2>1. phase[s.ref] = "deleted"
    <3>1. s.ref \in References
      BY <1>1 DEF References
    <3>2. phase[s.ref] \in Phases
      BY <3>1 DEF IInv, TablesTyped
    <3> QED BY <1>1, <1>4, <3>2 DEF Phases, Present
  <2>2. CreateItemStatement(s.estimate, s.ref, s.quantity, FALSE) \in SoundStatements
    <3> HIDE DEF s
    <3> QED BY <1>1, <2>1 DEF CreateItemStatement, SoundStatements, Statement, Sound,
                              AccountedFor, References
  <2> QED BY <1>4, <2>2, Short, TablesKept DEF ReadStock, Replace
<1>5. CASE Replace(r, <<decrement, CreateItemStatement(s.estimate, s.ref, s.quantity, TRUE)>>)
  BY <1>2, <1>3, <1>5, Short, TablesKept DEF ReadStock, Replace
<1>6. CASE Throw(r)
  BY <1>6, NothingLeft, TablesKept DEF ReadStock, Throw, Replace
<1> QED BY <1>4, <1>5, <1>6 DEF ReadStock

\* The condition of the update keeps the stock from going below zero.
LEMMA DecrementStockSound ==
    ASSUME IInv, NEW r \in Requests, DecrementStock(r)
    PROVE  IInv'
<1> DEFINE s == Head(todo[r])
<1>1. s.ref \in Materials /\ s.quantity \in Quantities
  <2>1. s \in Statement /\ s.kind = "decrementStock"
    BY NextStatement DEF IInv, DecrementStock
  <2> HIDE DEF s
  <2> QED BY <2>1 DEF Statement
<1>2. TodoSound'
  BY StatementDone DEF IInv, DecrementStock, Ageing
<1>3. CASE UNCHANGED material
  <2>1. material' \in [Materials -> Material] /\ RowsSound'
    BY <1>3 DEF IInv, TablesTyped, RowsSound, WholeQuantities
  <2> QED BY <1>2, <2>1, StockWritten DEF DecrementStock
<1>4. CASE /\ material[s.ref].stock >= s.quantity
           /\ material' = [material EXCEPT ![s.ref].stock = @ - s.quantity]
  <2> DEFINE left == material[s.ref].stock - s.quantity
  <2>1. material[s.ref] \in Material /\ material[s.ref].stock \in Int /\ s.quantity \in Int
    <3> HIDE DEF s
    <3>1. s.quantity \in Nat
      BY <1>1, InventoryAssumption
    <3>2. material[s.ref] \in Material
      BY <1>1 DEF IInv, TablesTyped
    <3>3. material[s.ref].stock \in Int
      BY <3>2 DEF Material
    <3> QED BY <3>1, <3>2, <3>3
  <2>2. left \in Int /\ left >= 0
    BY <1>4, <2>1
  <2>3. WholeQuantities => (IsWhole(material[s.ref].stock) => IsWhole(left))
    BY <1>1, <2>1, WholeSums DEF WholeQuantities
  <2>4. WholeQuantities => Constructs([material[s.ref] EXCEPT !.stock = left])
    <3>1. WholeQuantities => Constructs(material[s.ref])
      BY <1>1 DEF IInv, RowsSound
    <3> HIDE DEF left
    <3> QED BY <2>1, <2>2, <2>3, <3>1, MovedConstructs
  <2>5. material' = [material EXCEPT ![s.ref] = [material[s.ref] EXCEPT !.stock = left]]
    BY <1>1, <1>4
  <2>6. material' \in [Materials -> Material] /\ RowsSound'
    <3> HIDE DEF left, s
    <3> QED BY <1>1, <2>1, <2>2, <2>4, <2>5
            DEF IInv, TablesTyped, RowsSound, WholeQuantities, Material
  <2> QED BY <1>2, <2>6, StockWritten DEF DecrementStock
<1> QED BY <1>3, <1>4 DEF DecrementStock

\* Returned parts are added to a row that may have changed since.
LEMMA IncrementStockSound ==
    ASSUME IInv, NEW r \in Requests, IncrementStock(r)
    PROVE  IInv'
<1> DEFINE s == Head(todo[r])
<1>1. s.returns \in SUBSET Return /\ \A part \in s.returns : Returnable(part.quantity)
  <2>1. s \in Statement /\ Sound(s) /\ s.kind = "incrementStock"
    BY NextStatement DEF IInv, IncrementStock
  <2> HIDE DEF s
  <2> QED BY <2>1 DEF Statement, Sound
<1>2. PICK part \in s.returns :
        LET rest == s.returns \ {part}
        IN  /\ material' = IF Present(part.ref)
                           THEN [material EXCEPT ![part.ref].stock = @ + part.quantity]
                           ELSE material
            /\ Replace(r, IF rest = {} THEN <<>>
                          ELSE <<[kind |-> "incrementStock", returns |-> rest]>>)
  BY DEF IncrementStock
<1>3. part.ref \in Materials /\ part.quantity \in Int /\ Returnable(part.quantity)
  BY <1>1 DEF Return
<1>4. TodoSound'
  <2> DEFINE rest == s.returns \ {part}
             onwards == IF rest = {} THEN <<>>
                        ELSE <<[kind |-> "incrementStock", returns |-> rest]>>
  <2>1. rest \in SUBSET Return /\ \A x \in rest : Returnable(x.quantity)
    BY <1>1
  <2>2. [kind |-> "incrementStock", returns |-> rest] \in SoundStatements
    <3> HIDE DEF rest
    <3> QED BY <2>1, ReturnsSound
  <2>3. onwards \in Seq(SoundStatements)
    BY <2>2, Short
  <2>4. Ageing
    BY DEF Ageing, IncrementStock
  <2>5. todo' = [todo EXCEPT ![r] = onwards]
    BY <1>2 DEF Replace
  <2> HIDE DEF onwards
  <2> QED BY <2>3, <2>4, <2>5, TodoStep DEF IInv
<1>5. CASE UNCHANGED material
  <2>1. material' \in [Materials -> Material] /\ RowsSound'
    BY <1>5 DEF IInv, TablesTyped, RowsSound, WholeQuantities
  <2> QED BY <1>4, <2>1, StockWritten DEF IncrementStock
<1>6. CASE material' = [material EXCEPT ![part.ref].stock = @ + part.quantity]
  <2> DEFINE grown == material[part.ref].stock + part.quantity
  <2>1. material[part.ref] \in Material /\ material[part.ref].stock \in Int
    BY <1>3 DEF IInv, TablesTyped, Material
  <2>2. grown \in Int /\ grown >= 0
    BY <1>3, <2>1 DEF IInv, RowsSound, Returnable
  <2>3. WholeQuantities => (IsWhole(material[part.ref].stock) => IsWhole(grown))
    BY <1>3, <2>1, WholeSums DEF Returnable
  <2>4. WholeQuantities => Constructs([material[part.ref] EXCEPT !.stock = grown])
    <3>1. WholeQuantities => Constructs(material[part.ref])
      BY <1>3 DEF IInv, RowsSound
    <3> HIDE DEF grown
    <3> QED BY <2>1, <2>2, <2>3, <3>1, MovedConstructs
  <2>5. material' = [material EXCEPT ![part.ref] = [material[part.ref] EXCEPT !.stock = grown]]
    BY <1>3, <1>6
  <2>6. material' \in [Materials -> Material] /\ RowsSound'
    <3> HIDE DEF grown
    <3> QED BY <1>3, <2>1, <2>2, <2>4, <2>5
            DEF IInv, TablesTyped, RowsSound, WholeQuantities, Material
  <2> QED BY <1>4, <2>6, StockWritten DEF IncrementStock
<1> QED BY <1>2, <1>5, <1>6

\* An item is inserted with the quantity its column holds.
LEMMA CreateItemSound ==
    ASSUME IInv, NEW r \in Requests, CreateItem(r)
    PROVE  IInv'
<1> DEFINE s == Head(todo[r])
           row == [quantity |-> Rounded(s.quantity), took |-> s.took]
<1>1. /\ s.ref \in References /\ s.quantity \in Quantities /\ s.took \in BOOLEAN
      /\ AccountedFor(s.ref, s.took)
  <2>1. s \in Statement /\ Sound(s) /\ s.kind = "createItem"
    BY NextStatement DEF IInv, CreateItem
  <2> HIDE DEF s
  <2> QED BY <2>1 DEF Statement, Sound
<1>2. row \in Item /\ Returnable(row.quantity)
  BY <1>1, RoundedQuantity DEF Item
<1>3. TodoSound'
  BY StatementDone DEF IInv, CreateItem, Ageing
<1>4. TablesTyped /\ RowsSound /\ ItemsSound
  BY DEF IInv
<1>5. RowsSound'
  BY <1>4 DEF RowsSound, WholeQuantities, CreateItem
<1>6. CASE UNCHANGED item
  BY <1>3, <1>4, <1>5, <1>6 DEF IInv, TablesTyped, ItemsSound, HasItem, AccountedFor,
                                Returnable, WholeQuantities, CreateItem
<1>7. CASE s.estimate \in Estimates /\ item' = [item EXCEPT ![s.estimate][s.ref] = row]
  <2>1. TablesTyped'
    <3> HIDE DEF s, row
    <3> QED BY <1>1, <1>2, <1>4, <1>7 DEF TablesTyped, CreateItem
  <2>2. \A e \in Estimates, x \in References :
            item'[e][x] = item[e][x] \/ (x = s.ref /\ item'[e][x] = row)
    <3> HIDE DEF s, row
    <3> QED BY <1>1, <1>4, <1>7 DEF TablesTyped
  <2>3. AccountedFor(s.ref, row.took)
    BY <1>1
  <2>4. ItemsSound'
    <3> SUFFICES ASSUME NEW e \in Estimates, NEW x \in References
                 PROVE  /\ Returnable(item'[e][x].quantity)
                        /\ HasItem(e, x)' => AccountedFor(x, item'[e][x].took)
      BY DEF ItemsSound, Returnable, WholeQuantities, AccountedFor, CreateItem
    <3>1. CASE item'[e][x] = item[e][x]
      BY <1>4, <3>1 DEF ItemsSound, HasItem
    <3>2. CASE x = s.ref /\ item'[e][x] = row
      <4> HIDE DEF row
      <4> QED BY <1>2, <2>3, <3>2
    <3> QED BY <2>2, <3>1, <3>2
  <2> QED BY <1>3, <1>5, <2>1, <2>4 DEF IInv
<1> QED BY <1>6, <1>7 DEF CreateItem

LEMMA FailSound ==
    ASSUME IInv, NEW r \in Requests, Fail(r)
    PROVE  IInv'
BY NothingLeft, TablesKept DEF Fail, Throw, Replace

-----------------------------------------------------------------------------
(***************************************************************************)
(* The theorems.                                                           *)
(***************************************************************************)

LEMMA InitSound == Init => IInv
<1> SUFFICES ASSUME Init PROVE IInv
  OBVIOUS
<1>1. DefaultMaterial \in Material /\ Constructs(DefaultMaterial) /\ DefaultMaterial.stock = 0
  BY DEF DefaultMaterial, Material, Constructs, ValidStockQuantity, ValidTypeAndUnit,
         MaterialTypes, StockUnits, IsWhole, Whole
<1>2. NoItem \in Item /\ Returnable(NoItem.quantity)
  BY DEF NoItem, Item, Returnable, IsWhole, Whole
<1>3. TablesTyped
  BY <1>1, <1>2 DEF Init, TablesTyped, Phases
<1>4. RowsSound
  BY <1>1 DEF Init, RowsSound
<1>5. ItemsSound
  BY <1>2 DEF Init, ItemsSound, HasItem
<1>6. TodoSound
  BY NothingLeft DEF Init, TodoSound
<1> QED BY <1>3, <1>4, <1>5, <1>6 DEF IInv

LEMMA NextSound == IInv /\ [Next]_vars => IInv'
<1> SUFFICES ASSUME IInv, [Next]_vars PROVE IInv'
  OBVIOUS
<1>1. CASE \E m \in Materials, row \in NewMaterials : CreateMaterial(m, row)
  BY <1>1, CreateMaterialSound
<1>2. CASE \E s \in Services : CreateService(s)
  BY <1>2, CreateServiceSound
<1>3. ASSUME NEW r \in Requests, Handle(r) PROVE IInv'
  <2>1. CASE \E m \in Materials, props \in Props : UpdateMaterial(r, m, props)
    BY <2>1, UpdateMaterialSound
  <2>2. CASE \E m \in Materials, amount \in Amounts : AddMaterialStock(r, m, amount)
    BY <2>2, AddMaterialStockSound
  <2>3. CASE \E m \in Materials : DeleteMaterial(r, m)
    BY <2>3, DeletionSound DEF DeleteMaterial, References
  <2>4. CASE \E m \in Materials, e \in Estimates \cup {NoEstimate}, q \in Quantities :
                AddPartItem(r, e, m, q)
    BY <2>4, AddPartItemSound
  <2>5. CASE \E s \in Services : UpdateService(r, s)
    BY <2>5, UpdateServiceSound
  <2>6. CASE \E s \in Services : DeleteService(r, s)
    BY <2>6, DeletionSound DEF DeleteService, References
  <2>7. CASE \E s \in Services, e \in Estimates \cup {NoEstimate}, q \in Quantities :
                AddServiceItem(r, e, s, q)
    BY <2>7, AddServiceItemSound
  <2>8. CASE \E e \in Estimates : RejectEstimate(r, e)
    BY <2>8, RejectEstimateSound
  <2> QED BY <1>3, <2>1, <2>2, <2>3, <2>4, <2>5, <2>6, <2>7, <2>8 DEF Handle
<1>4. ASSUME NEW r \in Requests, Run(r) PROVE IInv'
  BY <1>4, WriteMaterialSound, WriteServiceSound, DeleteRowSound, ReadStockSound,
     DecrementStockSound, CreateItemSound, IncrementStockSound, FailSound DEF Run
<1>5. CASE UNCHANGED vars
  BY <1>5 DEF vars, IInv, TablesTyped, RowsSound, ItemsSound, TodoSound, SoundStatements,
              Sound, HasItem, AccountedFor, Returnable, WholeQuantities
<1> QED BY <1>1, <1>2, <1>3, <1>4, <1>5 DEF Next

\* The invariant of the inventory: the rows are sound, and so is every statement that
\* some request has yet to run.
THEOREM Invariance == Spec => []IInv
BY InitSound, NextSound, PTL DEF Spec

\* Every variable has its type: no row and no statement names a material or a service
\* that is not there to be named.
THEOREM TypeCorrectness == Spec => []TypeOK
<1>1. IInv => TypeOK
  <2>1. SoundStatements \subseteq Statement
    BY DEF SoundStatements
  <2>2. Seq(SoundStatements) \subseteq Seq(Statement)
    BY <2>1, SeqOfLarger
  <2> QED BY <2>2 DEF IInv, TablesTyped, TodoSound, TypeOK
<1> QED BY <1>1, Invariance, PTL

\* The stock of a material is never negative, however its absolute writes and its
\* relative updates interleave.
THEOREM StockStaysPositive == Spec => []StockNeverNegative
<1>1. IInv => StockNeverNegative
  BY DEF IInv, RowsSound, StockNeverNegative
<1> QED BY <1>1, Invariance, PTL

\* While clients ask for whole units only, GET /materials always answers.
THEOREM ListAlwaysAnswers == WholeQuantities => (Spec => []ListAnswers)
<1>1. WholeQuantities /\ IInv => ListAnswers
  BY DEF IInv, RowsSound, ListAnswers, ListMaterials
<1> SUFFICES ASSUME WholeQuantities PROVE Spec => []ListAnswers
  OBVIOUS
<1>2. IInv => ListAnswers
  BY <1>1
<1> QED BY <1>2, Invariance, PTL

\* An item in an estimate was taken from the stock in full, or its material is gone.
THEOREM ItemsAreTaken == Spec => []ItemsWereTaken
<1>1. IInv => ItemsWereTaken
  BY DEF IInv, ItemsSound, AccountedFor, ItemsWereTaken, Present, References
<1> QED BY <1>1, Invariance, PTL

\* An item names a material or a service that was registered once.
THEOREM ItemsAreRegistered == Spec => []ItemsNameRegisteredRows
<1>1. IInv => ItemsNameRegisteredRows
  BY DEF IInv, ItemsSound, AccountedFor, ItemsNameRegisteredRows
<1> QED BY <1>1, Invariance, PTL

\* Nothing brings a deleted row back.
THEOREM DeletionIsFinal == Spec => DeletedStaysDeleted
<1>1. IInv /\ [Next]_vars
        => [\A ref \in References : phase[ref] = "deleted" => phase'[ref] = "deleted"]_phase
  <2> SUFFICES ASSUME IInv, Next
               PROVE  Ageing \/ UNCHANGED phase
    BY DEF vars, Ageing
  <2>1. phase \in [References -> Phases]
    BY DEF IInv, TablesTyped
  <2>2. ASSUME NEW ref \in References, phase[ref] = "unused",
               phase' = [phase EXCEPT ![ref] = "present"]
        PROVE  Ageing
    BY <2>1, <2>2 DEF Ageing, Phases
  <2>3. CASE \E m \in Materials, row \in NewMaterials : CreateMaterial(m, row)
    BY <2>2, <2>3 DEF CreateMaterial, References
  <2>4. CASE \E s \in Services : CreateService(s)
    BY <2>2, <2>4 DEF CreateService, References
  <2>5. ASSUME NEW r \in Requests, Handle(r) PROVE UNCHANGED phase
    BY <2>5 DEF Handle, UpdateMaterial, AddMaterialStock, DeleteMaterial, AddPartItem,
                UpdateService, DeleteService, AddServiceItem, RejectEstimate, Begin, tables
  <2>6. ASSUME NEW r \in Requests, DeleteRow(r) PROVE Ageing
    <3>1. \/ UNCHANGED phase
          \/ phase' = [phase EXCEPT ![Head(todo[r]).ref] = "deleted"]
      BY <2>6 DEF DeleteRow
    <3> QED BY <2>1, <3>1 DEF Ageing, Phases
  <2>7. ASSUME NEW r \in Requests, Run(r), ~DeleteRow(r) PROVE UNCHANGED phase
    BY <2>7 DEF Run, WriteMaterial, WriteService, ReadStock, DecrementStock, CreateItem,
                IncrementStock, Fail, tables
  <2> QED BY <2>3, <2>4, <2>5, <2>6, <2>7 DEF Next
<1> QED BY <1>1, Invariance, PTL DEF Spec, DeletedStaysDeleted
=============================================================================
