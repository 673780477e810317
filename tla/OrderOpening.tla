----------------------------- MODULE OrderOpening -----------------------------
(***************************************************************************)
(* What the creation of a service order promises its client: either the    *)
(* order appears at once, complete, or the request is refused and nothing  *)
(* has happened.  With the order, its parts are taken from the stock, but  *)
(* for one hole: of a material deleted while the order was created nothing *)
(* is taken, and the item is in the order all the same.                    *)
(*                                                                         *)
(* OrderCreation, where one creation is a transaction of many statements   *)
(* among others, implements this specification.                            *)
(***************************************************************************)
EXTENDS ServiceOrderEntity, Integers, Sequences

CONSTANTS
    Requests,       \* creations of an order; each order is named by its request
    Parts,          \* ids of materials
    Services,       \* ids of services of the catalog
    Lists,          \* lists of items clients send
    NotSent,        \* the list of a request not sent yet
    InitialStock,   \* stock of each part when the model starts
    MaxStock,       \* bound: the stock other handlers may leave
    Deletable       \* bound: the materials other handlers may delete

References == Parts \cup Services

Quantity == Nat \ {0}

ASSUME OpeningAssumption ==
    /\ Parts \cap Services = {}
    /\ Lists \subseteq Seq([ref : References, quantity : Quantity])
    /\ NotSent \notin Lists
    /\ InitialStock \in [Parts -> Nat]
    /\ MaxStock \in Nat
    /\ Deletable \subseteq Parts

VARIABLES
    input,      \* the list of each request, once it was sent
    opened,     \* the rows of the order of each request, once there are any
    stock,      \* the stock of each part
    deleted,    \* the parts whose rows were deleted
    gone,       \* history variable: those deleted before each request was sent
    answer      \* what the client of each request was told

ItemList == [References -> Nat]

NoItems == [ref \in References |-> 0]

Rows == [order : Order, history : Seq(Statuses), issued : BOOLEAN,
         items : ItemList, totalOf : ItemList]

NoRows == [order |-> NoOrderRow, history |-> <<>>, issued |-> FALSE,
           items |-> NoItems, totalOf |-> NoItems]

Answers == {"none", "created", "refused", "lost"}

IsSent(r) == input[r] # NotSent

IsOpen(r) == opened[r] # NoRows

\* What an order takes of a part.
TakenBy(rows, p) == IF p \in deleted THEN 0 ELSE rows.items[p]

HasNoDuplicate(list) ==
    \A i, j \in 1 .. Len(list) : list[i].ref = list[j].ref => i = j

\* items are those of the list, and no others.
AreItemsOf(items, list) ==
    /\ \A i \in 1 .. Len(list) : items[list[i].ref] = list[i].quantity
    /\ \A ref \in References :
        items[ref] # 0 => \E i \in 1 .. Len(list) : list[i].ref = ref

\* The rows of an order as its client may first see it.
Complete(rows, list) ==
    IF list = <<>>
    THEN rows = [NoRows EXCEPT !.order = OpenedOrder, !.history = <<"RECEIVED">>]
    ELSE /\ rows.order.status = "WAITING_APPROVAL"
         /\ rows.history = <<"RECEIVED", "IN_DIAGNOSIS", "WAITING_APPROVAL">>
         /\ rows.issued
         /\ rows.totalOf = rows.items
         /\ HasNoDuplicate(list)
         /\ AreItemsOf(rows.items, list)

-----------------------------------------------------------------------------
Init ==
    /\ input = [r \in Requests |-> NotSent]
    /\ opened = [r \in Requests |-> NoRows]
    /\ stock = InitialStock
    /\ deleted = {}
    /\ gone = [r \in Requests |-> {}]
    /\ answer = [r \in Requests |-> "none"]

Send(r) ==
    /\ ~IsSent(r)
    /\ \E list \in Lists : input' = [input EXCEPT ![r] = list]
    /\ gone' = [gone EXCEPT ![r] = deleted]
    /\ UNCHANGED <<opened, stock, deleted, answer>>

Open(r) ==
    LET rows == opened'[r]
    IN  /\ IsSent(r) /\ ~IsOpen(r) /\ answer[r] = "none"
        /\ Complete(rows, input[r])
        /\ \A p \in gone[r] : rows.items[p] = 0
        /\ opened' = [opened EXCEPT ![r] = rows]
        /\ \A p \in Parts : TakenBy(rows, p) <= stock[p]
        /\ stock' = [p \in Parts |-> stock[p] - TakenBy(rows, p)]
        /\ UNCHANGED <<input, deleted, gone, answer>>

\* A client is told that its order was created when it was, that it was refused when
\* it was not, or hears nothing.
Answer(r) ==
    /\ IsSent(r) /\ answer[r] = "none"
    /\ \E a \in {"lost", IF IsOpen(r) THEN "created" ELSE "refused"} :
            answer' = [answer EXCEPT ![r] = a]
    /\ UNCHANGED <<input, opened, stock, deleted, gone>>

\* Other handlers move the stock of a part, and delete its row with its stock.
MoveStock(p) ==
    /\ p \notin deleted
    /\ \E n \in 0 .. MaxStock : stock' = [stock EXCEPT ![p] = n]
    /\ UNCHANGED <<input, opened, deleted, gone, answer>>

Delete(p) ==
    /\ p \notin deleted
    /\ deleted' = deleted \cup {p}
    /\ stock' = [stock EXCEPT ![p] = 0]
    /\ UNCHANGED <<input, opened, gone, answer>>

Next ==
    \/ \E r \in Requests : Send(r) \/ Open(r) \/ Answer(r)
    \/ \E p \in Parts : MoveStock(p)
    \/ \E p \in Deletable : Delete(p)

Spec == Init /\ [][Next]_<<input, opened, stock, deleted, gone, answer>>
=============================================================================
