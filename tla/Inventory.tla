------------------------------ MODULE Inventory ------------------------------
(***************************************************************************)
(* The administration of materials and of the service catalog, composed    *)
(* with the estimates that use them: the tables parts, service_catalog and *)
(* estimate_items, and the handlers that read and write them.              *)
(*                                                                         *)
(* The administrators' handlers load a row, change the entity and write    *)
(* the whole row back, the stock included, as an absolute value; the       *)
(* estimates move the stock by relative updates.  No handler here runs in  *)
(* a transaction, no column of an item is a foreign key to the catalogs,   *)
(* and any row may be deleted at any time.  As in ServiceOrders, todo[r]   *)
(* holds the statements a request has decided to run.                      *)
(***************************************************************************)
EXTENDS MaterialEntity, Sequences, FiniteSets

CONSTANTS
    Materials,      \* ids of materials
    Services,       \* ids of services of the catalog
    Estimates,      \* ids of estimates, all issued
    NoEstimate,     \* an estimate id no row has
    Requests,       \* requests that may be in flight together
    Quantities,     \* amounts an item may ask for
    Amounts,        \* amounts an administrator may set or add
    MaxStock        \* bound: no administrator adds beyond it

ASSUME InventoryAssumption ==
    /\ Materials \cap Services = {}
    /\ NoEstimate \notin Estimates
    /\ Quantities \subseteq Nat \ {0}
    /\ Amounts \subseteq Nat
    /\ MaxStock \in Nat

VARIABLES
    phase,      \* of each id: never used, a row, or deleted
    material,   \* the row of each material, where there is one
    item,       \* the item of each reference in each estimate
    rejected,   \* the estimates that were rejected
    todo        \* the statements each request has yet to run

tables == <<phase, material, item, rejected>>
vars == <<phase, material, item, rejected, todo>>

-----------------------------------------------------------------------------
References == Materials \cup Services

Phases == {"unused", "present", "deleted"}

\* took says whether the quantity was taken from the stock; the code keeps no
\* such column.
Item == [quantity : Int, took : BOOLEAN]

NoItem == [quantity |-> 0, took |-> FALSE]

HasItem(e, ref) == item[e][ref] # NoItem

Props == [type  : MaterialTypes \cup {Keep},
          unit  : StockUnits \cup {Keep},
          stock : Amounts \cup {-1}]

Return == [ref : Materials, quantity : Int]

Statement ==
         [kind : {"writeMaterial"}, ref : Materials, row : Material]
    \cup [kind : {"writeService"}, ref : Services]
    \cup [kind : {"delete"}, ref : References]
    \cup [kind : {"readStock"}, estimate : Estimates \cup {NoEstimate},
          ref : Materials, quantity : Quantities]
    \cup [kind : {"decrementStock"}, ref : Materials, quantity : Quantities]
    \cup [kind : {"createItem"}, estimate : Estimates \cup {NoEstimate},
          ref : References, quantity : Quantities, took : BOOLEAN]
    \cup [kind : {"incrementStock"}, returns : SUBSET Return]

Present(ref) == phase[ref] = "present"

\* findById: a row the entity's constructor refuses makes the load throw.
Loads(m) == Present(m) /\ Constructs(material[m])

Idle(r) == todo[r] = <<>>

Runs(r, kind) == ~Idle(r) /\ Head(todo[r]).kind = kind

Replace(r, statements) == todo' = [todo EXCEPT ![r] = statements]

Begin(r, statements) == Idle(r) /\ Replace(r, statements) /\ UNCHANGED tables

Done(r) == Replace(r, Tail(todo[r]))

Throw(r) == Replace(r, <<>>)

-----------------------------------------------------------------------------
(***************************************************************************)
(* The administrators' handlers.                                           *)
(***************************************************************************)
CreateMaterial(m, row) ==
    /\ phase[m] = "unused" /\ Constructs(row)
    /\ phase' = [phase EXCEPT ![m] = "present"]
    /\ material' = [material EXCEPT ![m] = row]
    /\ UNCHANGED <<item, rejected, todo>>

WriteBack(m, row) == <<[kind |-> "writeMaterial", ref |-> m, row |-> row]>>

\* Mutant: the changed fields are checked, the combination is not.
UpdateMaterialUnchecked(r, m, props) ==
    /\ Loads(m)
    /\ Begin(r, WriteBack(m, Updated(material[m], props)))

UpdateMaterial(r, m, props) ==
    /\ Loads(m) /\ Constructs(Updated(material[m], props))
    /\ Begin(r, WriteBack(m, Updated(material[m], props)))

AddMaterialStock(r, m, amount) ==
    /\ Loads(m) /\ ValidMovement(material[m], amount)
    /\ material[m].stock + amount <= MaxStock
    /\ Begin(r, WriteBack(m, AddStock(material[m], amount)))

DeleteMaterial(r, m) == Loads(m) /\ Begin(r, <<[kind |-> "delete", ref |-> m]>>)

CreateService(s) ==
    /\ phase[s] = "unused"
    /\ phase' = [phase EXCEPT ![s] = "present"]
    /\ UNCHANGED <<material, item, rejected, todo>>

UpdateService(r, s) == Present(s) /\ Begin(r, <<[kind |-> "writeService", ref |-> s]>>)

DeleteService(r, s) == Present(s) /\ Begin(r, <<[kind |-> "delete", ref |-> s]>>)

\* The list loads every row: one that does not construct fails the whole list.
ListMaterials ==
    LET rows == {m \in Materials : Present(m)}
    IN  IF \A m \in rows : Constructs(material[m]) THEN [answers |-> TRUE, rows |-> rows]
                                                   ELSE [answers |-> FALSE, rows |-> {}]

-----------------------------------------------------------------------------
(***************************************************************************)
(* The estimates: an item is added, or a whole estimate is rejected.       *)
(***************************************************************************)
CreateItemStatement(e, ref, quantity, took) ==
    [kind |-> "createItem", estimate |-> e, ref |-> ref, quantity |-> quantity,
     took |-> took]

\* Mutant: a service no longer in the catalog is priced zero and added.
AddServiceItemUnchecked(r, e, s, quantity) ==
    Begin(r, <<CreateItemStatement(e, s, quantity, FALSE)>>)

AddServiceItem(r, e, s, quantity) ==
    Present(s) /\ Begin(r, <<CreateItemStatement(e, s, quantity, FALSE)>>)

AddPartItem(r, e, m, quantity) ==
    /\ Loads(m) /\ material[m].stock >= quantity
    /\ Begin(r, <<[kind |-> "readStock", estimate |-> e, ref |-> m,
                   quantity |-> quantity]>>)

\* One pass of the loop that returns the parts of an estimate: quantities are those
\* the items held when the loop began.
ReturnEach(e, held) ==
    IF held = {} THEN <<>>
    ELSE <<[kind |-> "incrementStock",
            returns |-> {[ref |-> m, quantity |-> item[e][m].quantity] : m \in held}]>>

\* The estimate and its order are the matter of ServiceOrders: here a rejection is
\* the return, one part after the other, of what the items hold when it loads them.
\* The bound: an estimate is rejected once.
RejectEstimate(r, e) ==
    /\ Idle(r) /\ e \notin rejected
    /\ rejected' = rejected \cup {e}
    /\ Replace(r, ReturnEach(e, {m \in Materials : HasItem(e, m)}))
    /\ UNCHANGED <<phase, material, item>>

-----------------------------------------------------------------------------
(***************************************************************************)
(* Statements.                                                             *)
(***************************************************************************)

\* Mutant: an upsert.
WriteMaterialUpserting(r) ==
    /\ Runs(r, "writeMaterial")
    /\ LET s == Head(todo[r])
       IN  /\ material' = [material EXCEPT ![s.ref] = s.row]
           /\ phase' = [phase EXCEPT ![s.ref] = "present"]
    /\ Done(r)
    /\ UNCHANGED <<item, rejected>>

\* An update of a row that is no longer there throws.
WriteMaterial(r) ==
    /\ Runs(r, "writeMaterial")
    /\ LET s == Head(todo[r])
       IN  IF Present(s.ref)
           THEN Done(r) /\ material' = [material EXCEPT ![s.ref] = s.row]
           ELSE Throw(r) /\ UNCHANGED material
    /\ UNCHANGED <<phase, item, rejected>>

WriteService(r) ==
    /\ Runs(r, "writeService")
    /\ IF Present(Head(todo[r]).ref) THEN Done(r) ELSE Throw(r)
    /\ UNCHANGED tables

DeleteRow(r) ==
    /\ Runs(r, "delete")
    /\ LET s == Head(todo[r])
       IN  IF Present(s.ref)
           THEN Done(r) /\ phase' = [phase EXCEPT ![s.ref] = "deleted"]
           ELSE Throw(r) /\ UNCHANGED phase
    /\ UNCHANGED <<material, item, rejected>>

\* decrementStock loads the material a second time.  One that is gone is passed
\* over without a word, and the item follows.
ReadStock(r) ==
    /\ Runs(r, "readStock")
    /\ LET s == Head(todo[r])
       IN  \/ /\ ~Present(s.ref)
              /\ Replace(r, <<CreateItemStatement(s.estimate, s.ref, s.quantity, FALSE)>>)
           \/ /\ Loads(s.ref) /\ CanDecrement(material[s.ref], s.quantity)
              /\ Replace(r, <<[kind |-> "decrementStock", ref |-> s.ref,
                               quantity |-> s.quantity],
                              CreateItemStatement(s.estimate, s.ref, s.quantity, TRUE)>>)
           \/ /\ Present(s.ref)
              /\ ~(Loads(s.ref) /\ CanDecrement(material[s.ref], s.quantity))
              /\ Throw(r)
    /\ UNCHANGED tables

\* Mutant: the number of rows the update changed is not looked at.
DecrementStockUncounted(r) ==
    /\ Runs(r, "decrementStock")
    /\ LET s == Head(todo[r])
       IN  IF Present(s.ref) /\ material[s.ref].stock >= s.quantity
           THEN /\ material' = [material EXCEPT ![s.ref].stock = @ - s.quantity]
                /\ Done(r)
           ELSE /\ Replace(r, <<[todo[r][2] EXCEPT !.took = FALSE]>>)
                /\ UNCHANGED material
    /\ UNCHANGED <<phase, item, rejected>>

\* Mutant: the update relies on the check made when the row was read.
DecrementStockUnguarded(r) ==
    /\ Runs(r, "decrementStock")
    /\ LET s == Head(todo[r])
       IN  material' = [material EXCEPT ![s.ref].stock = @ - s.quantity]
    /\ Done(r)
    /\ UNCHANGED <<phase, item, rejected>>

DecrementStock(r) ==
    /\ Runs(r, "decrementStock")
    /\ LET s == Head(todo[r])
       IN  IF Present(s.ref) /\ material[s.ref].stock >= s.quantity
           THEN Done(r) /\ material' = [material EXCEPT ![s.ref].stock = @ - s.quantity]
           ELSE Throw(r) /\ UNCHANGED material
    /\ UNCHANGED <<phase, item, rejected>>

CreateItem(r) ==
    /\ Runs(r, "createItem")
    /\ LET s == Head(todo[r])
       IN  IF s.estimate \in Estimates /\ ~HasItem(s.estimate, s.ref)
           THEN /\ item' = [item EXCEPT ![s.estimate][s.ref] =
                              [quantity |-> Rounded(s.quantity), took |-> s.took]]
                /\ Done(r)
           ELSE Throw(r) /\ UNCHANGED item
    /\ UNCHANGED <<phase, material, rejected>>

\* Nothing is checked, and a missing row is no error.
IncrementStock(r) ==
    /\ Runs(r, "incrementStock")
    /\ \E part \in Head(todo[r]).returns :
        LET rest == Head(todo[r]).returns \ {part}
        IN  /\ material' = IF Present(part.ref)
                           THEN [material EXCEPT ![part.ref].stock = @ + part.quantity]
                           ELSE material
            /\ Replace(r, IF rest = {} THEN <<>>
                          ELSE <<[kind |-> "incrementStock", returns |-> rest]>>)
    /\ UNCHANGED <<phase, item, rejected>>

\* A pod killed between two statements.
Fail(r) == ~Idle(r) /\ Throw(r) /\ UNCHANGED tables

-----------------------------------------------------------------------------
TypeOK ==
    /\ phase \in [References -> Phases]
    /\ material \in [Materials -> Material]
    /\ item \in [Estimates -> [References -> Item]]
    /\ rejected \subseteq Estimates
    /\ todo \in [Requests -> Seq(Statement)]

Init ==
    /\ phase = [ref \in References |-> "unused"]
    /\ material = [m \in Materials |-> DefaultMaterial]
    /\ item = [e \in Estimates |-> [ref \in References |-> NoItem]]
    /\ rejected = {}
    /\ todo = [r \in Requests |-> <<>>]

Handle(r) ==
    \/ \E m \in Materials :
        \/ \E props \in Props : UpdateMaterial(r, m, props)
        \/ \E amount \in Amounts : AddMaterialStock(r, m, amount)
        \/ DeleteMaterial(r, m)
        \/ \E e \in Estimates \cup {NoEstimate}, q \in Quantities : AddPartItem(r, e, m, q)
    \/ \E s \in Services :
        \/ UpdateService(r, s)
        \/ DeleteService(r, s)
        \/ \E e \in Estimates \cup {NoEstimate}, q \in Quantities : AddServiceItem(r, e, s, q)
    \/ \E e \in Estimates : RejectEstimate(r, e)

Run(r) ==
    \/ WriteMaterial(r)
    \/ WriteService(r)
    \/ DeleteRow(r)
    \/ ReadStock(r)
    \/ DecrementStock(r)
    \/ CreateItem(r)
    \/ IncrementStock(r)
    \/ Fail(r)

NewMaterials == [type : MaterialTypes, unit : StockUnits, stock : Amounts \cup {0}]

Next ==
    \/ \E m \in Materials, row \in NewMaterials : CreateMaterial(m, row)
    \/ \E s \in Services : CreateService(s)
    \/ \E r \in Requests : Handle(r) \/ Run(r)

Spec == Init /\ [][Next]_vars

-----------------------------------------------------------------------------
(***************************************************************************)
(* What must hold, whatever interleaves and wherever requests end.         *)
(***************************************************************************)

\* The stock of a material is never negative, though it is written both as an
\* absolute value computed from an earlier read and by relative updates.
StockNeverNegative == \A m \in Materials : material[m].stock >= 0

\* GET /materials answers: no sequence of updates, movements and returns leaves a
\* row its own entity refuses to load.  Needs items of whole units.
ListAnswers == ListMaterials.answers

\* An item was taken from the stock in full, unless its material has been deleted
\* since it was first looked up.
ItemsWereTaken ==
    \A e \in Estimates, m \in Materials :
        HasItem(e, m) /\ Present(m) => item[e][m].took

\* Though no foreign key says so, an item names a material or a service that was
\* registered, if since deleted.
ItemsNameRegisteredRows ==
    \A e \in Estimates, ref \in References : HasItem(e, ref) => phase[ref] # "unused"

\* A deleted row stays deleted: no write decided before the deletion revives it.
DeletedStaysDeleted ==
    [][\A ref \in References : phase[ref] = "deleted" => phase'[ref] = "deleted"]_phase
=============================================================================
