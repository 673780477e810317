------------------------- MODULE OrderCreationProofs -------------------------
(***************************************************************************)
(* OrderCreation implements OrderOpening, for any number of requests,      *)
(* parts, connections and lists of items: the step that opens the order is *)
(* the commit, and every other step of a creation is none of its own, or   *)
(* an answer.                                                              *)
(*                                                                         *)
(* What makes the commit atomic is the lock of a row: a part is taken when *)
(* the conditional update runs, its row is then locked by one transaction  *)
(* alone, and no other may lower its stock or delete it until that one has *)
(* ended.                                                                  *)
(***************************************************************************)
EXTENDS OrderCreation, SequenceTheorems, TLAPS

\* The lock of a row has one holder.
OneHolder ==
    \A r, other \in Requests, p \in Parts : Holds(r, p) /\ Holds(other, p) => r = other

\* The rows of an order whose first n items are in its estimate.
Filled(rows, list, n) ==
    /\ list # <<>>
    /\ rows.order.status = "WAITING_APPROVAL"
    /\ rows.history = <<"RECEIVED", "IN_DIAGNOSIS", "WAITING_APPROVAL">>
    /\ rows.issued
    /\ rows.totalOf = rows.items
    /\ n \in 0 .. Len(list)
    /\ \A i, j \in 1 .. n : list[i].ref = list[j].ref => i = j
    /\ \A i \in 1 .. n : rows.items[list[i].ref] = list[i].quantity
    /\ \A ref \in References : rows.items[ref] # 0 => \E i \in 1 .. n : list[i].ref = ref

\* How far the transaction of r has come.
DraftSound(r) ==
    /\ stage[r] = "diagnosis"
        => draft[r] = [NoRows EXCEPT !.order = OpenedOrder, !.history = <<"RECEIVED">>]
    /\ stage[r] = "estimate"
        => /\ draft[r].history = <<"RECEIVED", "IN_DIAGNOSIS">>
           /\ draft[r].items = NoItems /\ draft[r].totalOf = NoItems
    /\ stage[r] \in {"diagnosis", "estimate"} => input[r] # <<>>
    /\ stage[r] \in {"look", "reread", "take", "insert"}
        => Filled(draft[r], input[r], position[r] - 1)
    /\ stage[r] \in {"reread", "take", "insert"} => Listed(r)
    /\ stage[r] \in {"reread", "take"} => Item(r).ref \in Parts
    /\ stage[r] = "read back" => Complete(draft[r], input[r])

\* What its items, and the one it is about to insert, come to.
Needed(r, p) ==
    IF stage[r] = "insert" /\ Item(r).ref = p THEN draft[r].items[p] + Item(r).quantity
                                              ELSE draft[r].items[p]

\* A transaction has taken that of the parts that are there: a part it has taken is
\* locked, and stays.
TakenSound(r) ==
    \A p \in Parts : taken[r][p] = IF p \in deleted THEN 0 ELSE Needed(r, p)

\* Of a part deleted before the request came there is no item.
GoneSound(r) ==
    /\ gone[r] \subseteq deleted
    /\ \A p \in gone[r] :
        /\ draft[r].items[p] = 0
        /\ stage[r] \in {"reread", "take", "insert"} => Item(r).ref # p

\* What the client sees of r before and after the transaction.
AnswerSound(r) ==
    /\ stage[r] = "idle" <=> ~IsSent(r)
    /\ stage[r] \notin {"committed", "over"} => ~IsOpen(r)
    /\ stage[r] # "over" => answer[r] = "none"
    /\ stage[r] = "committed" => IsOpen(r)
    /\ stage[r] \notin {"diagnosis", "estimate", "look", "reread", "take", "insert",
                      "read back"}
        => position[r] = 1 /\ draft[r] = NoRows
    /\ stage[r] \in {"diagnosis", "estimate"} => position[r] = 1

RequestSound(r) == AnswerSound(r) /\ DraftSound(r) /\ TakenSound(r) /\ GoneSound(r)

IInv ==
    /\ CreationTypeOK
    /\ TakenIsBacked
    /\ OneHolder
    /\ \A r \in Requests : RequestSound(r)

-----------------------------------------------------------------------------
(***************************************************************************)
(* The constants of the tables.                                            *)
(***************************************************************************)
LEMMA ElementOf ==
    ASSUME NEW S, NEW q \in Seq(S), NEW i \in 1 .. Len(q)
    PROVE  q[i] \in S
OBVIOUS

LEMMA ListedItem ==
    ASSUME NEW list \in Lists, NEW i \in 1 .. Len(list)
    PROVE  list[i].ref \in References /\ list[i].quantity \in Nat /\ list[i].quantity > 0
<1> DEFINE items == [ref : References, quantity : Quantity]
<1>1. list \in Seq(items)
  BY OpeningAssumption
<1>2. list[i] \in items
  <2> HIDE DEF items
  <2> QED BY <1>1, ElementOf
<1> QED BY <1>2 DEF Quantity

LEMMA NoRowsTyped ==
    /\ NoRows \in Rows /\ NoRows.items = NoItems /\ NoItems \in ItemList
    /\ NoRows.history = <<>>
    /\ \A ref \in References : NoItems[ref] = 0
    /\ NothingTaken \in [Parts -> Nat]
<1>1. NoItems \in ItemList
  BY DEF NoItems, ItemList
<1>2. <<>> \in Seq(Statuses)
  OBVIOUS
<1>3. NoOrderRow \in Order
  BY DEF NoOrderRow, Order
<1> QED BY <1>1, <1>2, <1>3 DEF NoRows, Rows, NoItems, NothingTaken

LEMMA PartIsReference == Parts \subseteq References
BY DEF References

\* A complete order is no empty one.
LEMMA CompleteIsOpen ==
    ASSUME NEW rows, NEW list, Complete(rows, list)
    PROVE  rows # NoRows
<1>1. NoRows.order.status = Unopened
  BY DEF NoRows, NoOrderRow
<1>2. rows.order.status \in {"RECEIVED", "WAITING_APPROVAL"}
  <2>1. CASE list = <<>>
    <3>1. rows.order = OpenedOrder
      BY <2>1 DEF Complete, NoRows
    <3> QED BY <3>1 DEF OpenedOrder
  <2>2. CASE list # <<>>
    BY <2>2 DEF Complete
  <2> QED BY <2>1, <2>2
<1>3. Unopened \notin {"RECEIVED", "WAITING_APPROVAL"}
  BY DEF Unopened
<1> QED BY <1>1, <1>2, <1>3

-----------------------------------------------------------------------------
(***************************************************************************)
(* A step of r changes nothing of the others.                              *)
(***************************************************************************)

\* The variables of every request but r are as they were.
OnlyOf(r) ==
    /\ deleted' = deleted
    /\ \A other \in Requests \ {r} :
        /\ input'[other] = input[other] /\ opened'[other] = opened[other]
        /\ answer'[other] = answer[other] /\ stage'[other] = stage[other]
        /\ position'[other] = position[other] /\ draft'[other] = draft[other]
        /\ taken'[other] = taken[other] /\ gone'[other] = gone[other]

LEMMA OthersSound ==
    ASSUME NEW r \in Requests, OnlyOf(r), NEW other \in Requests \ {r}, RequestSound(other)
    PROVE  RequestSound(other)'
<1>1. /\ input'[other] = input[other] /\ opened'[other] = opened[other]
      /\ answer'[other] = answer[other] /\ stage'[other] = stage[other]
      /\ position'[other] = position[other] /\ draft'[other] = draft[other]
      /\ taken'[other] = taken[other] /\ gone'[other] = gone[other]
      /\ deleted' = deleted
  BY DEF OnlyOf
<1>2. AnswerSound(other)'
  BY <1>1 DEF RequestSound, AnswerSound, IsSent, IsOpen
<1>3. DraftSound(other)'
  BY <1>1 DEF RequestSound, DraftSound, Listed, Item
<1>4. TakenSound(other)'
  BY <1>1 DEF RequestSound, TakenSound, Needed, Item
<1>5. GoneSound(other)'
  BY <1>1 DEF RequestSound, GoneSound, Item
<1> QED BY <1>2, <1>3, <1>4, <1>5 DEF RequestSound

\* A step of r alone that gives up its locks or keeps them.
LEMMA StepOf ==
    ASSUME IInv, NEW r \in Requests, OnlyOf(r), CreationTypeOK', RequestSound(r)',
           stock' = stock,
           \A p \in Parts : taken'[r][p] \in {0, taken[r][p]}
    PROVE  IInv'
<1>1. \A s \in Requests : RequestSound(s)'
  BY OthersSound DEF IInv
<1>2. \A s \in Requests, p \in Parts : taken'[s][p] = taken[s][p] \/ taken'[s][p] = 0
  BY DEF OnlyOf
<1>3. TakenIsBacked'
  <2> SUFFICES ASSUME NEW s \in Requests, NEW p \in Parts PROVE taken'[s][p] <= stock[p]
    BY DEF TakenIsBacked
  <2>1. taken[s][p] \in Nat /\ stock[p] \in Int /\ taken[s][p] <= stock[p]
    BY DEF IInv, CreationTypeOK, TakenIsBacked
  <2> QED BY <1>2, <2>1
<1>4. OneHolder'
  BY <1>2 DEF IInv, OneHolder, Holds
<1> QED BY <1>1, <1>3, <1>4 DEF IInv

-----------------------------------------------------------------------------
(***************************************************************************)
(* The steps of a creation.                                                *)
(***************************************************************************)

\* One transaction changes its own entries.
LEMMA OwnEntries ==
    ASSUME CreationTypeOK, NEW r \in Requests, NEW input1, NEW opened1, NEW answer1, NEW stage1,
           NEW position1, NEW draft1, NEW taken1,
           input' = [input EXCEPT ![r] = input1], opened' = [opened EXCEPT ![r] = opened1],
           answer' = [answer EXCEPT ![r] = answer1], stage' = [stage EXCEPT ![r] = stage1],
           position' = [position EXCEPT ![r] = position1],
           draft' = [draft EXCEPT ![r] = draft1], taken' = [taken EXCEPT ![r] = taken1],
           UNCHANGED <<deleted, gone>>
    PROVE  /\ OnlyOf(r)
           /\ input'[r] = input1 /\ opened'[r] = opened1 /\ answer'[r] = answer1
           /\ stage'[r] = stage1 /\ position'[r] = position1 /\ draft'[r] = draft1
           /\ taken'[r] = taken1
BY DEF CreationTypeOK, OnlyOf

LEMMA TypedEntries ==
    ASSUME CreationTypeOK, NEW r \in Requests,
           NEW input1 \in Lists \cup {NotSent}, NEW opened1 \in Rows, NEW answer1 \in Answers,
           NEW stage1 \in Stages, NEW position1 \in Nat, NEW draft1 \in Rows,
           NEW taken1 \in [Parts -> Nat], stock' \in [Parts -> Int],
           input' = [input EXCEPT ![r] = input1], opened' = [opened EXCEPT ![r] = opened1],
           answer' = [answer EXCEPT ![r] = answer1], stage' = [stage EXCEPT ![r] = stage1],
           position' = [position EXCEPT ![r] = position1],
           draft' = [draft EXCEPT ![r] = draft1], taken' = [taken EXCEPT ![r] = taken1],
           UNCHANGED <<deleted, gone>>
    PROVE  CreationTypeOK'
<1>1. /\ input' \in [Requests -> Lists \cup {NotSent}]
      /\ opened' \in [Requests -> Rows]
      /\ answer' \in [Requests -> Answers]
  BY DEF CreationTypeOK
<1>2. /\ stage' \in [Requests -> Stages]
      /\ position' \in [Requests -> Nat]
  BY DEF CreationTypeOK
<1>3. /\ draft' \in [Requests -> Rows]
      /\ taken' \in [Requests -> [Parts -> Nat]]
  BY DEF CreationTypeOK
<1>4. deleted' \subseteq Parts /\ gone' \in [Requests -> SUBSET Parts]
  BY DEF CreationTypeOK
<1> QED BY <1>1, <1>2, <1>3, <1>4 DEF CreationTypeOK

\* What is the same is the same entry written again.
LEMMA SameEntries ==
    ASSUME CreationTypeOK, NEW r \in Requests
    PROVE  /\ input = [input EXCEPT ![r] = input[r]] /\ opened = [opened EXCEPT ![r] = opened[r]]
           /\ answer = [answer EXCEPT ![r] = answer[r]] /\ stage = [stage EXCEPT ![r] = stage[r]]
           /\ position = [position EXCEPT ![r] = position[r]]
           /\ draft = [draft EXCEPT ![r] = draft[r]] /\ taken = [taken EXCEPT ![r] = taken[r]]
           /\ input[r] \in Lists \cup {NotSent} /\ opened[r] \in Rows /\ answer[r] \in Answers
           /\ stage[r] \in Stages /\ position[r] \in Nat /\ draft[r] \in Rows
           /\ taken[r] \in [Parts -> Nat] /\ stock \in [Parts -> Int]
BY DEF CreationTypeOK

\* A step that leaves the items as they are, and what was taken of them.
LEMMA SameItems ==
    ASSUME CreationTypeOK, NEW r \in Requests, RequestSound(r), stage[r] # "insert",
           stage'[r] \notin {"reread", "take", "insert"},
           draft'[r].items = draft[r].items, taken'[r] = taken[r], gone'[r] = gone[r],
           deleted' = deleted
    PROVE  TakenSound(r)' /\ GoneSound(r)'
<1>1. TakenSound(r)'
  BY DEF RequestSound, TakenSound, Needed
<1>2. GoneSound(r)'
  BY DEF RequestSound, GoneSound
<1> QED BY <1>1, <1>2

\* A step that ends the transaction.
LEMMA NoItemsLeft ==
    ASSUME CreationTypeOK, NEW r \in Requests, RequestSound(r),
           stage'[r] \notin {"reread", "take", "insert"},
           draft'[r] = NoRows, taken'[r] = NothingTaken, gone'[r] = gone[r],
           deleted' = deleted
    PROVE  TakenSound(r)' /\ GoneSound(r)'
<1>1. \A p \in Parts : draft'[r].items[p] = 0 /\ taken'[r][p] = 0
  BY NoRowsTyped, PartIsReference DEF NothingTaken
<1>2. gone'[r] \subseteq Parts /\ gone'[r] \subseteq deleted'
  BY DEF CreationTypeOK, RequestSound, GoneSound
<1>3. TakenSound(r)'
  BY <1>1 DEF TakenSound, Needed
<1>4. GoneSound(r)'
  BY <1>1, <1>2 DEF GoneSound
<1> QED BY <1>3, <1>4

LEMMA RollbackSound ==
    ASSUME IInv, NEW r \in Requests, NEW told \in {"refused", "lost"}, Rollback(r, told),
           stage[r] \notin {"idle", "committed", "over"}
    PROVE  IInv'
<1>1. CreationTypeOK /\ RequestSound(r) /\ told \in Answers
  BY DEF IInv, Answers
<1>2. /\ OnlyOf(r) /\ CreationTypeOK' /\ stock' = stock
      /\ input'[r] = input[r] /\ opened'[r] = opened[r] /\ answer'[r] = told
      /\ stage'[r] = "over" /\ position'[r] = 1 /\ draft'[r] = NoRows
      /\ taken'[r] = NothingTaken /\ gone'[r] = gone[r] /\ deleted' = deleted
  <2>1. /\ input' = [input EXCEPT ![r] = input[r]] /\ opened' = [opened EXCEPT ![r] = opened[r]]
        /\ answer' = [answer EXCEPT ![r] = told] /\ stage' = [stage EXCEPT ![r] = "over"]
        /\ position' = [position EXCEPT ![r] = 1] /\ draft' = [draft EXCEPT ![r] = NoRows]
        /\ taken' = [taken EXCEPT ![r] = NothingTaken]
        /\ UNCHANGED <<stock, deleted, gone>>
    BY <1>1, SameEntries DEF Rollback, GoTo, EndTransaction
  <2>2. "over" \in Stages /\ 1 \in Nat
    BY DEF Stages
  <2>3. /\ OnlyOf(r)
        /\ input'[r] = input[r] /\ opened'[r] = opened[r] /\ answer'[r] = told
        /\ stage'[r] = "over" /\ position'[r] = 1 /\ draft'[r] = NoRows
        /\ taken'[r] = NothingTaken
    BY <1>1, <2>1, OwnEntries
  <2>4. CreationTypeOK'
    <3>1. input[r] \in Lists \cup {NotSent} /\ opened[r] \in Rows /\ stock' \in [Parts -> Int]
      BY <1>1, <2>1, SameEntries
    <3> QED BY <1>1, <2>1, <2>2, <3>1, NoRowsTyped, TypedEntries
  <2> QED BY <2>1, <2>3, <2>4
<1>3. AnswerSound(r)'
  BY <1>1, <1>2 DEF RequestSound, AnswerSound, IsSent, IsOpen
<1>4. DraftSound(r)'
  BY <1>2 DEF DraftSound
<1>5. TakenSound(r)' /\ GoneSound(r)'
  BY <1>1, <1>2, NoItemsLeft
<1>6. \A p \in Parts : taken'[r][p] \in {0, taken[r][p]}
  BY <1>2 DEF NothingTaken
<1> QED BY <1>2, <1>3, <1>4, <1>5, <1>6, StepOf DEF RequestSound

\* A step that writes no more than the stage, the position and the draft of r.
LEMMA QuietStep ==
    ASSUME IInv, NEW r \in Requests,
           UNCHANGED <<input, opened, stock, deleted, gone, answer, taken>>,
           NEW stage1 \in Stages, stage' = [stage EXCEPT ![r] = stage1],
           NEW position1 \in Nat, position' = [position EXCEPT ![r] = position1],
           NEW draft1 \in Rows, draft' = [draft EXCEPT ![r] = draft1]
    PROVE  /\ stage'[r] = stage1 /\ position'[r] = position1 /\ draft'[r] = draft1
           /\ RequestSound(r)' => IInv'
<1>1. CreationTypeOK /\ CreationTypeOK'
  BY DEF IInv, CreationTypeOK
<1>2. /\ OnlyOf(r)
      /\ stage'[r] = stage1 /\ position'[r] = position1 /\ draft'[r] = draft1
  BY <1>1 DEF OnlyOf, CreationTypeOK
<1>3. \A p \in Parts : taken'[r][p] \in {0, taken[r][p]}
  OBVIOUS
<1> QED BY <1>1, <1>2, <1>3, StepOf

\* The same where the position stays.
LEMMA DraftStep ==
    ASSUME IInv, NEW r \in Requests,
           UNCHANGED <<input, opened, stock, deleted, gone, answer, position, taken>>,
           NEW stage1 \in Stages, stage' = [stage EXCEPT ![r] = stage1],
           NEW draft1 \in Rows, draft' = [draft EXCEPT ![r] = draft1]
    PROVE  /\ stage'[r] = stage1 /\ draft'[r] = draft1
           /\ RequestSound(r)' => IInv'
<1>1. position[r] \in Nat /\ position' = [position EXCEPT ![r] = position[r]]
  BY DEF IInv, CreationTypeOK
<1> QED BY <1>1, QuietStep

\* The same where the draft stays, too.
LEMMA StageStep ==
    ASSUME IInv, NEW r \in Requests,
           UNCHANGED <<input, opened, stock, deleted, gone, answer, position, draft, taken>>,
           NEW stage1 \in Stages, stage' = [stage EXCEPT ![r] = stage1]
    PROVE  stage'[r] = stage1 /\ (RequestSound(r)' => IInv')
<1>1. draft[r] \in Rows /\ draft' = [draft EXCEPT ![r] = draft[r]]
  BY DEF IInv, CreationTypeOK
<1> QED BY <1>1, DraftStep

LEMMA ReceiveSound ==
    ASSUME IInv, NEW r \in Requests, Receive(r)
    PROVE  IInv'
<1>1. CreationTypeOK /\ RequestSound(r) /\ stage[r] = "idle"
  BY DEF IInv, Receive
<1>2. PICK list \in Lists : input' = [input EXCEPT ![r] = list]
  BY DEF Receive, Send
<1>3. /\ UNCHANGED <<opened, stock, deleted, answer, position, draft, taken>>
      /\ gone' = [gone EXCEPT ![r] = deleted]
      /\ stage' = [stage EXCEPT ![r] = "begin"]
  BY DEF Receive, Send, GoTo, tx
<1>4. CreationTypeOK'
  <2>1. gone' \in [Requests -> SUBSET Parts]
    BY <1>1, <1>3 DEF CreationTypeOK
  <2> QED BY <1>1, <1>2, <1>3, <2>1 DEF CreationTypeOK, Stages
<1>5. OnlyOf(r) /\ input'[r] = list /\ stage'[r] = "begin"
  BY <1>1, <1>2, <1>3 DEF OnlyOf, CreationTypeOK
<1>6. AnswerSound(r)'
  BY <1>1, <1>3, <1>5, OpeningAssumption DEF RequestSound, AnswerSound, IsSent, IsOpen
<1>7. DraftSound(r)'
  BY <1>5 DEF DraftSound
<1>8. TakenSound(r)' /\ GoneSound(r)'
  <2>1. TakenSound(r)'
    BY <1>1, <1>3, <1>5 DEF RequestSound, TakenSound, Needed
  <2>2. gone'[r] = deleted /\ draft'[r] = NoRows /\ deleted \subseteq Parts
    BY <1>1, <1>3 DEF CreationTypeOK, RequestSound, AnswerSound
  <2>3. GoneSound(r)'
    BY <1>3, <1>5, <2>2, NoRowsTyped, PartIsReference DEF GoneSound
  <2> QED BY <2>1, <2>3
<1>9. \A p \in Parts : taken'[r][p] \in {0, taken[r][p]}
  BY <1>3
<1> QED BY <1>3, <1>4, <1>5, <1>6, <1>7, <1>8, <1>9, StepOf DEF RequestSound

LEMMA BeginTransactionSound ==
    ASSUME IInv, NEW r \in Requests, BeginTransaction(r)
    PROVE  IInv'
<1>1. CreationTypeOK /\ RequestSound(r)
  BY DEF IInv
<1>2. "order" \in Stages
  BY DEF Stages, InTransaction
<1>3. /\ UNCHANGED <<input, opened, stock, deleted, gone, answer, position, draft, taken>>
      /\ stage'[r] = "order"
      /\ RequestSound(r)' => IInv'
  BY <1>2, StageStep DEF BeginTransaction, GoTo, tx
<1>4. AnswerSound(r)'
  BY <1>1, <1>3 DEF BeginTransaction, RequestSound, AnswerSound, IsSent, IsOpen
<1>5. DraftSound(r)'
  BY <1>3 DEF DraftSound
<1>6. TakenSound(r)' /\ GoneSound(r)'
  BY <1>1, <1>3, SameItems DEF BeginTransaction
<1> QED BY <1>3, <1>4, <1>5, <1>6 DEF RequestSound

\* A request that was sent has one of the lists.
LEMMA SentList ==
    ASSUME IInv, NEW r \in Requests, stage[r] # "idle"
    PROVE  input[r] \in Lists /\ input[r] \in Seq([ref : References, quantity : Quantity])
           /\ Len(input[r]) \in Nat
<1> DEFINE items == [ref : References, quantity : Quantity]
<1>1. input[r] \in Lists
  BY DEF IInv, CreationTypeOK, RequestSound, AnswerSound, IsSent
<1>2. input[r] \in Seq(items)
  BY <1>1, OpeningAssumption
<1>3. Len(input[r]) \in Nat
  <2> HIDE DEF items
  <2> QED BY <1>2
<1> QED BY <1>1, <1>2, <1>3

LEMMA InsertOrderSound ==
    ASSUME IInv, NEW r \in Requests, InsertOrder(r)
    PROVE  IInv'
<1> DEFINE rows == [NoRows EXCEPT !.order = OpenedOrder, !.history = <<OpenedOrder.status>>]
           next == IF input[r] = <<>> THEN "read back" ELSE "diagnosis"
<1>1. CreationTypeOK /\ RequestSound(r) /\ stage[r] = "order"
  BY DEF IInv, InsertOrder
<1>2. next \in Stages
  BY DEF Stages, InTransaction
<1>3. rows = [NoRows EXCEPT !.order = OpenedOrder, !.history = <<"RECEIVED">>] /\ rows \in Rows
      /\ rows.items = NoItems
  <2>1. OpenedOrder \in Order /\ OpenedOrder.status = "RECEIVED" /\ "RECEIVED" \in Statuses
    BY DEF OpenedOrder, Order, Statuses
  <2>2. <<"RECEIVED">> \in Seq(Statuses)
    BY <2>1
  <2> QED BY <2>1, <2>2, NoRowsTyped DEF Rows
<1>4. /\ UNCHANGED <<input, opened, stock, deleted, gone, answer, position, taken>>
      /\ stage'[r] = next /\ draft'[r] = rows
      /\ RequestSound(r)' => IInv'
  <2> HIDE DEF next, rows
  <2>1. /\ draft' = [draft EXCEPT ![r] = rows] /\ stage' = [stage EXCEPT ![r] = next]
        /\ UNCHANGED <<input, opened, stock, deleted, gone, answer, position, taken>>
    BY DEF InsertOrder, GoTo, Draft, next, rows
  <2> QED BY <1>1, <1>2, <1>3, <2>1, DraftStep
<1>5. AnswerSound(r)'
  BY <1>1, <1>4 DEF RequestSound, AnswerSound, IsSent, IsOpen
<1>6. DraftSound(r)'
  <2> HIDE DEF rows
  <2>1. CASE input[r] = <<>>
    BY <1>3, <1>4, <2>1 DEF DraftSound, Complete
  <2>2. CASE input[r] # <<>>
    BY <1>3, <1>4, <2>2 DEF DraftSound
  <2> QED BY <2>1, <2>2
<1>7. TakenSound(r)' /\ GoneSound(r)'
  <2> HIDE DEF rows
  <2>1. draft[r].items = NoItems
    BY <1>1, NoRowsTyped DEF RequestSound, AnswerSound
  <2>2. stage'[r] \notin {"reread", "take", "insert"}
    BY <1>4
  <2> QED BY <1>1, <1>3, <1>4, <2>1, <2>2, SameItems
<1> QED BY <1>4, <1>5, <1>6, <1>7 DEF RequestSound

LEMMA MovedTyped ==
    ASSUME NEW rows \in Rows, NEW method \in Methods
    PROVE  /\ Moved(rows, method) \in Rows
           /\ Moved(rows, method).order.status = ResultOf[method]
           /\ Moved(rows, method).history = Append(rows.history, ResultOf[method])
           /\ Moved(rows, method).items = rows.items
           /\ Moved(rows, method).totalOf = rows.totalOf
<1>1. ResultOf[method] \in Statuses /\ (method = "close") \in BOOLEAN
  BY DEF ResultOf, Methods, Statuses
<1>2. Apply(rows.order, method) \in Order /\ Apply(rows.order, method).status = ResultOf[method]
  BY <1>1 DEF Apply, Order, Rows
<1>3. Append(rows.history, ResultOf[method]) \in Seq(Statuses)
  BY <1>1 DEF Rows
<1> QED BY <1>2, <1>3 DEF Moved, Rows

\* The history of an order in its creation.
LEMMA AppendedHistory ==
    ASSUME NEW a, NEW b, NEW c
    PROVE  Append(<<a>>, b) = <<a, b>> /\ Append(<<a, b>>, c) = <<a, b, c>>
<1> DEFINE S == {a, b, c}
<1>0. a \in S /\ b \in S /\ c \in S
  OBVIOUS
<1> HIDE DEF S
<1>1. <<a>> \in Seq(S) /\ <<a, b>> \in Seq(S) /\ <<a, b, c>> \in Seq(S)
  BY <1>0
<1>2. Append(<<a>>, b) = <<a, b>>
  <2>1. /\ Append(<<a>>, b) \in Seq(S) /\ Len(Append(<<a>>, b)) = 2
        /\ Append(<<a>>, b)[1] = a /\ Append(<<a>>, b)[2] = b
    BY <1>0, <1>1, AppendProperties
  <2>2. \A i \in 1 .. 2 : Append(<<a>>, b)[i] = <<a, b>>[i]
    BY <2>1
  <2> QED BY <1>1, <2>1, <2>2, SeqEqual
<1>3. Append(<<a, b>>, c) = <<a, b, c>>
  <2>1. /\ Append(<<a, b>>, c) \in Seq(S) /\ Len(Append(<<a, b>>, c)) = 3
        /\ Append(<<a, b>>, c)[1] = a /\ Append(<<a, b>>, c)[2] = b
        /\ Append(<<a, b>>, c)[3] = c
    BY <1>0, <1>1, AppendProperties
  <2>2. \A i \in 1 .. 3 : Append(<<a, b>>, c)[i] = <<a, b, c>>[i]
    BY <2>1
  <2> QED BY <1>1, <2>1, <2>2, SeqEqual
<1> QED BY <1>2, <1>3

LEMMA StartDiagnosisSound ==
    ASSUME IInv, NEW r \in Requests, StartDiagnosis(r)
    PROVE  IInv'
<1> DEFINE rows == Moved(draft[r], "startDiagnosis")
<1>1. CreationTypeOK /\ RequestSound(r) /\ stage[r] = "diagnosis"
  BY DEF IInv, StartDiagnosis
<1>2. "estimate" \in Stages /\ "startDiagnosis" \in Methods
  BY DEF Stages, InTransaction, Methods
<1>3. /\ draft[r] \in Rows /\ draft[r].history = <<"RECEIVED">>
      /\ draft[r].items = NoItems /\ draft[r].totalOf = NoItems
  BY <1>1 DEF CreationTypeOK, RequestSound, DraftSound, NoRows
<1>4. /\ rows \in Rows /\ rows.history = <<"RECEIVED", "IN_DIAGNOSIS">>
      /\ rows.items = NoItems /\ rows.totalOf = NoItems
  <2>1. ResultOf["startDiagnosis"] = "IN_DIAGNOSIS"
    BY DEF ResultOf
  <2>2. Append(<<"RECEIVED">>, "IN_DIAGNOSIS") = <<"RECEIVED", "IN_DIAGNOSIS">>
    BY AppendedHistory
  <2>3. /\ rows \in Rows /\ rows.history = Append(draft[r].history, ResultOf["startDiagnosis"])
        /\ rows.items = draft[r].items /\ rows.totalOf = draft[r].totalOf
    BY <1>2, <1>3, MovedTyped
  <2> HIDE DEF rows
  <2> QED BY <1>3, <2>1, <2>2, <2>3
<1>5. /\ UNCHANGED <<input, opened, stock, deleted, gone, answer, position, taken>>
      /\ stage'[r] = "estimate" /\ draft'[r] = rows
      /\ RequestSound(r)' => IInv'
  <2> HIDE DEF rows
  <2>1. /\ draft' = [draft EXCEPT ![r] = rows] /\ stage' = [stage EXCEPT ![r] = "estimate"]
        /\ UNCHANGED <<input, opened, stock, deleted, gone, answer, position, taken>>
    BY DEF StartDiagnosis, GoTo, Draft, rows
  <2> QED BY <1>1, <1>2, <1>4, <2>1, DraftStep
<1> HIDE DEF rows
<1>6. AnswerSound(r)'
  BY <1>1, <1>5 DEF RequestSound, AnswerSound, IsSent, IsOpen
<1>7. DraftSound(r)'
  BY <1>1, <1>4, <1>5 DEF RequestSound, DraftSound
<1>8. TakenSound(r)' /\ GoneSound(r)'
  BY <1>1, <1>3, <1>4, <1>5, SameItems
<1> QED BY <1>5, <1>6, <1>7, <1>8 DEF RequestSound

LEMMA CreateEstimateSound ==
    ASSUME IInv, NEW r \in Requests, CreateEstimate(r)
    PROVE  IInv'
<1> DEFINE moved == Moved(draft[r], "requestApproval")
           rows == [moved EXCEPT !.issued = TRUE]
<1>1. CreationTypeOK /\ RequestSound(r) /\ stage[r] = "estimate"
  BY DEF IInv, CreateEstimate
<1>2. "look" \in Stages /\ "requestApproval" \in Methods
  BY DEF Stages, InTransaction, Methods
<1>3. /\ draft[r] \in Rows /\ draft[r].history = <<"RECEIVED", "IN_DIAGNOSIS">>
      /\ draft[r].items = NoItems /\ draft[r].totalOf = NoItems /\ input[r] # <<>>
      /\ position[r] = 1
  BY <1>1 DEF CreationTypeOK, RequestSound, DraftSound, AnswerSound
<1>4. /\ moved \in Rows /\ moved.order.status = "WAITING_APPROVAL"
      /\ moved.history = <<"RECEIVED", "IN_DIAGNOSIS", "WAITING_APPROVAL">>
      /\ moved.items = NoItems /\ moved.totalOf = NoItems
  <2>1. ResultOf["requestApproval"] = "WAITING_APPROVAL"
    BY DEF ResultOf
  <2>2. Append(<<"RECEIVED", "IN_DIAGNOSIS">>, "WAITING_APPROVAL")
            = <<"RECEIVED", "IN_DIAGNOSIS", "WAITING_APPROVAL">>
    BY AppendedHistory
  <2>3. /\ moved \in Rows /\ moved.order.status = ResultOf["requestApproval"]
        /\ moved.history = Append(draft[r].history, ResultOf["requestApproval"])
        /\ moved.items = draft[r].items /\ moved.totalOf = draft[r].totalOf
    BY <1>2, <1>3, MovedTyped
  <2> HIDE DEF moved
  <2> QED BY <1>3, <2>1, <2>2, <2>3
<1>5. /\ rows \in Rows /\ rows.order.status = "WAITING_APPROVAL"
      /\ rows.history = <<"RECEIVED", "IN_DIAGNOSIS", "WAITING_APPROVAL">>
      /\ rows.items = NoItems /\ rows.totalOf = NoItems /\ rows.issued
  <2> HIDE DEF moved
  <2> QED BY <1>4 DEF Rows
<1>6. /\ UNCHANGED <<input, opened, stock, deleted, gone, answer, position, taken>>
      /\ stage'[r] = "look" /\ draft'[r] = rows
      /\ RequestSound(r)' => IInv'
  <2> HIDE DEF rows
  <2>1. /\ draft' = [draft EXCEPT ![r] = rows] /\ stage' = [stage EXCEPT ![r] = "look"]
        /\ UNCHANGED <<input, opened, stock, deleted, gone, answer, position, taken>>
    BY DEF CreateEstimate, GoTo, Draft, rows, moved
  <2> QED BY <1>1, <1>2, <1>5, <2>1, DraftStep
<1> HIDE DEF rows
<1>7. AnswerSound(r)'
  BY <1>1, <1>6 DEF RequestSound, AnswerSound, IsSent, IsOpen
<1>8. DraftSound(r)'
  <2>1. Len(input[r]) \in Nat
    BY <1>1, SentList
  <2>2. Filled(rows, input[r], 0)
    BY <1>3, <1>5, <2>1, NoRowsTyped DEF Filled
  <2> QED BY <1>3, <1>6, <2>2 DEF DraftSound
<1>9. TakenSound(r)' /\ GoneSound(r)'
  BY <1>1, <1>3, <1>5, <1>6, SameItems
<1> QED BY <1>6, <1>7, <1>8, <1>9 DEF RequestSound

\* A look at a row decides the next statement: the update of a part, or the item,
\* which is a service's or that of a part deleted since.
LEMMA LookSound ==
    ASSUME IInv, NEW r \in Requests, stage[r] \in {"look", "reread"}, Listed(r),
           NEW place \in {"reread", "take", "insert"}, GoTo(r, place),
           UNCHANGED <<input, opened, stock, deleted, gone, answer, tx>>,
           place # "insert" => Item(r).ref \in Parts /\ Item(r).ref \notin deleted,
           place = "insert" => Item(r).ref \in deleted \/ Item(r).ref \notin Parts,
           stage[r] = "look" => Item(r).ref \in Services \/ Item(r).ref \notin deleted
    PROVE  IInv'
<1>1. CreationTypeOK /\ RequestSound(r) /\ place \in Stages
  BY DEF IInv, Stages, InTransaction
<1>2. /\ UNCHANGED <<input, opened, stock, deleted, gone, answer, position, draft, taken>>
      /\ stage'[r] = place
      /\ RequestSound(r)' => IInv'
  BY <1>1, StageStep DEF GoTo, tx
<1>3. AnswerSound(r)'
  BY <1>1, <1>2 DEF RequestSound, AnswerSound, IsSent, IsOpen
<1>4. DraftSound(r)'
  BY <1>1, <1>2 DEF RequestSound, DraftSound, Listed, Item
<1>5. TakenSound(r)'
  <2> SUFFICES ASSUME NEW p \in Parts
               PROVE  taken[r][p] = IF p \in deleted THEN 0 ELSE Needed(r, p)'
    BY <1>2 DEF TakenSound
  <2>1. taken[r][p] = IF p \in deleted THEN 0 ELSE draft[r].items[p]
    BY <1>1 DEF RequestSound, TakenSound, Needed
  <2>2. p \notin deleted => Needed(r, p)' = draft[r].items[p]
    BY <1>2 DEF Needed, Item
  <2> QED BY <2>1, <2>2
<1>6. GoneSound(r)'
  <2> SUFFICES ASSUME NEW p \in gone[r] PROVE Item(r).ref # p
    BY <1>1, <1>2 DEF RequestSound, GoneSound, Item
  <2>1. p \in Parts /\ p \in deleted
    BY <1>1 DEF RequestSound, GoneSound, CreationTypeOK
  <2>2. CASE stage[r] = "reread"
    BY <1>1, <2>2 DEF RequestSound, GoneSound
  <2>3. CASE stage[r] = "look"
    BY <2>1, <2>3, OpeningAssumption
  <2> QED BY <2>2, <2>3
<1> QED BY <1>2, <1>3, <1>4, <1>5, <1>6 DEF RequestSound

LEMMA LookUpItemSound ==
    ASSUME IInv, NEW r \in Requests, LookUpItem(r)
    PROVE  IInv'
<1>1. stage[r] = "look" /\ Listed(r)
  BY DEF LookUpItem
<1>2. CASE Throw(r)
  BY <1>1, <1>2, RollbackSound DEF Throw
<1>3. CASE ~Throw(r)
  <2>1. Item(r).ref \in Services => Item(r).ref \notin Parts
    BY OpeningAssumption
  <2> QED BY <1>1, <1>3, <2>1, LookSound DEF LookUpItem, HasStock
<1> QED BY <1>2, <1>3

LEMMA RereadSound ==
    ASSUME IInv, NEW r \in Requests, Reread(r)
    PROVE  IInv'
<1>1. stage[r] = "reread" /\ Listed(r) /\ Item(r).ref \in Parts
  BY DEF Reread, IInv, RequestSound, DraftSound
<1>2. CASE Throw(r)
  BY <1>1, <1>2, RollbackSound DEF Throw
<1>3. CASE ~Throw(r)
  BY <1>1, <1>3, LookSound DEF Reread, HasStock
<1> QED BY <1>2, <1>3

\* The lock is free, and the stock suffices for what has been taken and this.
LEMMA TakeStockSound ==
    ASSUME IInv, NEW r \in Requests, TakeStock(r)
    PROVE  IInv'
<1> DEFINE part == Item(r).ref
           quantity == Item(r).quantity
           held == [taken[r] EXCEPT ![part] = @ + quantity]
<1>1. /\ CreationTypeOK /\ RequestSound(r) /\ stage[r] = "take" /\ Listed(r)
      /\ part \in Parts /\ ~LockedByOther(r, part)
  BY DEF IInv, TakeStock, RequestSound, DraftSound
<1>2. quantity \in Nat /\ quantity > 0
  <2>1. input[r] \in Lists /\ Len(input[r]) \in Nat
    BY <1>1, SentList
  <2>2. position[r] \in 1 .. Len(input[r])
    BY <1>1, <2>1 DEF RequestSound, DraftSound, Filled, Listed, CreationTypeOK
  <2> QED BY <2>1, <2>2, ListedItem DEF Item
<1>3. CASE Throw(r)
  BY <1>1, <1>3, RollbackSound DEF Throw
<1>4. CASE /\ HasStock(r, part, quantity)
           /\ taken' = [taken EXCEPT ![r][part] = @ + quantity]
           /\ GoTo(r, "insert")
           /\ UNCHANGED <<input, opened, stock, deleted, gone, answer, position, draft>>
  <2> HIDE DEF part, quantity
  <2>1. taken[r] \in [Parts -> Nat] /\ stock[part] \in Int /\ taken[r][part] \in Nat
    BY <1>1 DEF CreationTypeOK
  <2>2. held \in [Parts -> Nat] /\ held[part] = taken[r][part] + quantity
        /\ held[part] <= stock[part]
    BY <1>1, <1>2, <1>4, <2>1 DEF HasStock, Visible
  <2>3. \A p \in Parts \ {part} : held[p] = taken[r][p]
    BY <2>1
  <2>4. taken' = [taken EXCEPT ![r] = held]
    BY <1>4
  <2> HIDE DEF held
  <2>5. CreationTypeOK' /\ OnlyOf(r) /\ taken'[r] = held /\ stage'[r] = "insert"
    <3>1. "insert" \in Stages
      BY DEF Stages, InTransaction
    <3> QED BY <1>1, <1>4, <2>2, <2>4, <3>1 DEF CreationTypeOK, OnlyOf, GoTo
  <2>6. TakenIsBacked'
    <3> SUFFICES ASSUME NEW s \in Requests, NEW p \in Parts PROVE taken'[s][p] <= stock[p]
      BY <1>4 DEF TakenIsBacked
    <3>1. taken[s][p] <= stock[p]
      BY DEF IInv, TakenIsBacked
    <3>2. CASE s = r
      BY <2>2, <2>3, <2>5, <3>1, <3>2
    <3>3. CASE s # r
      BY <2>5, <3>1, <3>3 DEF OnlyOf
    <3> QED BY <3>2, <3>3
  <2>7. OneHolder'
    <3> SUFFICES ASSUME NEW s \in Requests, NEW t \in Requests, NEW p \in Parts,
                        taken'[s][p] > 0, taken'[t][p] > 0
                 PROVE  s = t
      BY DEF OneHolder, Holds
    <3>1. CASE p # part
      <4>1. taken'[s][p] = taken[s][p] /\ taken'[t][p] = taken[t][p]
        BY <2>3, <2>5, <3>1 DEF OnlyOf
      <4> QED BY <4>1 DEF IInv, OneHolder, Holds
    <3>2. CASE p = part
      <4>1. \A other \in Requests \ {r} : ~(taken'[other][part] > 0)
        BY <1>1, <2>5 DEF LockedByOther, Holds, OnlyOf
      <4> QED BY <3>2, <4>1
    <3> QED BY <3>1, <3>2
  <2>8. AnswerSound(r)'
    BY <1>1, <1>4, <2>5 DEF RequestSound, AnswerSound, IsSent, IsOpen
  <2>9. DraftSound(r)'
    BY <1>1, <1>4, <2>5 DEF RequestSound, DraftSound, Listed
  <2>10. TakenSound(r)' /\ GoneSound(r)'
    <3>1. ASSUME NEW p \in Parts
          PROVE  held[p] = IF p \in deleted THEN 0 ELSE
                           IF p = part THEN draft[r].items[p] + quantity ELSE draft[r].items[p]
      <4>1. taken[r][p] = IF p \in deleted THEN 0 ELSE draft[r].items[p]
        BY <1>1 DEF RequestSound, TakenSound, Needed
      <4>2. part \notin deleted
        BY <1>4 DEF HasStock
      <4> QED BY <2>2, <2>3, <4>1, <4>2
    <3>2. TakenSound(r)'
      BY <1>4, <2>5, <3>1 DEF TakenSound, Needed, Item, part, quantity
    <3>3. GoneSound(r)'
      BY <1>1, <1>4, <2>5 DEF RequestSound, GoneSound, Item
    <3> QED BY <3>2, <3>3
  <2>11. \A s \in Requests : RequestSound(s)'
    BY <2>5, <2>8, <2>9, <2>10, OthersSound DEF IInv, RequestSound
  <2> QED BY <2>5, <2>6, <2>7, <2>11 DEF IInv
<1> QED BY <1>3, <1>4 DEF TakeStock

\* An item more, and no reference twice.
LEMMA FilledFurther ==
    ASSUME NEW list \in Lists, NEW n \in Nat, n + 1 \in 1 .. Len(list), NEW rows \in Rows,
           Filled(rows, list, n), rows.items[list[n + 1].ref] = 0
    PROVE  /\ WithItem(rows, list[n + 1].ref, list[n + 1].quantity) \in Rows
           /\ Filled(WithItem(rows, list[n + 1].ref, list[n + 1].quantity), list, n + 1)
<1> DEFINE ref == list[n + 1].ref
           quantity == list[n + 1].quantity
           items == [rows.items EXCEPT ![ref] = quantity]
           after == WithItem(rows, ref, quantity)
<1>1. ref \in References /\ quantity \in Nat /\ quantity > 0
  BY ListedItem
<1>2. \A i \in 1 .. n : /\ i \in 1 .. Len(list) /\ list[i].ref \in References
                        /\ list[i].quantity > 0 /\ rows.items[list[i].ref] = list[i].quantity
  <2>1. \A i \in 1 .. n : i \in 1 .. Len(list)
    OBVIOUS
  <2> QED BY <2>1, ListedItem DEF Filled
<1>3. \A i \in 1 .. n : list[i].ref # ref
  BY <1>2
<1>4. rows.items \in ItemList
  BY DEF Rows
<1> HIDE DEF ref, quantity
<1>5. items \in ItemList /\ items[ref] = quantity
      /\ \A x \in References \ {ref} : items[x] = rows.items[x]
  BY <1>1, <1>4 DEF ItemList
<1> HIDE DEF items
<1>6. /\ after \in Rows /\ after.items = items /\ after.totalOf = items
      /\ after.order = rows.order /\ after.history = rows.history
      /\ after.issued = rows.issued
  <2>1. after = [rows EXCEPT !.items = items, !.totalOf = items]
    BY DEF WithItem, items
  <2> QED BY <1>5, <2>1 DEF Rows
<1> HIDE DEF after
<1>7. 1 .. (n + 1) = (1 .. n) \cup {n + 1}
  OBVIOUS
<1>8. \A i, j \in 1 .. (n + 1) : list[i].ref = list[j].ref => i = j
  BY <1>3, <1>7 DEF Filled, ref
<1>9. \A i \in 1 .. (n + 1) : items[list[i].ref] = list[i].quantity
  <2>1. items[list[n + 1].ref] = list[n + 1].quantity
    BY <1>5 DEF ref, quantity
  <2>2. \A i \in 1 .. n : items[list[i].ref] = list[i].quantity
    BY <1>2, <1>3, <1>5
  <2> QED BY <1>7, <2>1, <2>2
<1>10. \A x \in References : items[x] # 0 => \E i \in 1 .. (n + 1) : list[i].ref = x
  <2> SUFFICES ASSUME NEW x \in References, items[x] # 0
               PROVE  \E i \in 1 .. (n + 1) : list[i].ref = x
    OBVIOUS
  <2>1. CASE x = ref
    BY <1>7, <2>1 DEF ref
  <2>2. CASE x # ref
    BY <1>5, <1>7, <2>2 DEF Filled
  <2> QED BY <2>1, <2>2
<1>11. n + 1 \in 0 .. Len(list)
  OBVIOUS
<1> QED BY <1>6, <1>8, <1>9, <1>10, <1>11 DEF Filled, after, ref, quantity

\* Where a request is in its list.
LEMMA AtItem ==
    ASSUME IInv, NEW r \in Requests, Listed(r),
           stage[r] \in {"look", "reread", "take", "insert"}
    PROVE  /\ input[r] \in Lists /\ position[r] - 1 \in Nat
           /\ position[r] - 1 + 1 = position[r]
           /\ position[r] \in 1 .. Len(input[r])
           /\ Item(r).ref \in References /\ Item(r).quantity \in Nat /\ Item(r).quantity > 0
<1>1. input[r] \in Lists /\ Len(input[r]) \in Nat /\ position[r] \in Nat
  <2>1. stage[r] # "idle"
    OBVIOUS
  <2>2. position[r] \in Nat
    BY DEF IInv, CreationTypeOK
  <2> QED BY <2>1, <2>2, SentList
<1>2. position[r] - 1 \in 0 .. Len(input[r])
  <2>1. Filled(draft[r], input[r], position[r] - 1)
    BY DEF IInv, RequestSound, DraftSound
  <2> QED BY <2>1 DEF Filled
<1>3. position[r] <= Len(input[r])
  BY DEF Listed
<1>4. position[r] \in 1 .. Len(input[r])
  BY <1>1, <1>2, <1>3
<1> QED BY <1>1, <1>2, <1>4, ListedItem DEF Item

LEMMA InsertItemSound ==
    ASSUME IInv, NEW r \in Requests, InsertItem(r)
    PROVE  IInv'
<1> DEFINE rows == WithItem(draft[r], Item(r).ref, Item(r).quantity)
           n == position[r] - 1
<1>1. CreationTypeOK /\ RequestSound(r) /\ stage[r] = "insert" /\ Listed(r)
  BY DEF IInv, InsertItem, RequestSound, DraftSound
<1>2. CASE Throw(r)
  BY <1>1, <1>2, RollbackSound DEF Throw
<1>3. CASE /\ draft[r].items[Item(r).ref] = 0
           /\ draft' = [draft EXCEPT ![r] = rows]
           /\ NextItem(r)
  <2>1. /\ input[r] \in Lists /\ n \in Nat /\ n + 1 = position[r]
        /\ position[r] \in 1 .. Len(input[r])
        /\ Item(r).ref \in References /\ Item(r).quantity \in Nat
    BY <1>1, AtItem
  <2>2. draft[r] \in Rows /\ Filled(draft[r], input[r], n)
    BY <1>1 DEF CreationTypeOK, RequestSound, DraftSound
  <2>3. input[r][n + 1] = Item(r)
    BY <2>1 DEF Item
  <2>4. rows \in Rows /\ Filled(rows, input[r], n + 1)
    <3> HIDE DEF n
    <3> QED BY <1>3, <2>1, <2>2, <2>3, FilledFurther
  <2>5. /\ rows.items = [draft[r].items EXCEPT ![Item(r).ref] = Item(r).quantity]
        /\ draft[r].items \in ItemList
    BY <2>2 DEF WithItem, Rows
  <2> HIDE DEF rows, n
  <2>6. /\ stage'[r] = "look" /\ position'[r] = position[r] + 1 /\ draft'[r] = rows
        /\ RequestSound(r)' => IInv'
    <3>1. "look" \in Stages /\ position[r] + 1 \in Nat
      BY <2>1 DEF Stages, InTransaction
    <3>2. /\ UNCHANGED <<input, opened, stock, deleted, gone, answer, taken>>
          /\ stage' = [stage EXCEPT ![r] = "look"]
          /\ position' = [position EXCEPT ![r] = position[r] + 1]
      BY <1>3 DEF NextItem, GoTo
    <3> QED BY <1>3, <2>4, <3>1, <3>2, QuietStep
  <2>7. UNCHANGED <<input, opened, stock, deleted, gone, answer, taken>>
    BY <1>3 DEF NextItem
  <2>8. AnswerSound(r)'
    BY <1>1, <2>6, <2>7 DEF RequestSound, AnswerSound, IsSent, IsOpen
  <2>9. DraftSound(r)'
    <3>1. position'[r] - 1 = n + 1
      BY <2>1, <2>6
    <3> QED BY <2>4, <2>6, <2>7, <3>1 DEF DraftSound
  <2>10. TakenSound(r)' /\ GoneSound(r)'
    <3>1. ASSUME NEW p \in Parts
          PROVE  taken[r][p] = IF p \in deleted THEN 0 ELSE rows.items[p]
      <4>1. taken[r][p] = IF p \in deleted THEN 0 ELSE
                          IF Item(r).ref = p THEN draft[r].items[p] + Item(r).quantity
                                             ELSE draft[r].items[p]
        BY <1>1 DEF RequestSound, TakenSound, Needed
      <4>2. p \in References
        BY PartIsReference
      <4> QED BY <1>3, <2>1, <2>5, <4>1, <4>2 DEF ItemList
    <3>2. TakenSound(r)'
      BY <2>6, <2>7, <3>1 DEF TakenSound, Needed
    <3>3. ASSUME NEW p \in gone[r] PROVE rows.items[p] = 0
      <4>1. p \in References /\ Item(r).ref # p /\ draft[r].items[p] = 0
        BY <1>1, PartIsReference DEF RequestSound, GoneSound, CreationTypeOK
      <4> QED BY <2>5, <4>1 DEF ItemList
    <3>4. GoneSound(r)'
      BY <1>1, <2>6, <2>7, <3>3 DEF RequestSound, GoneSound
    <3> QED BY <3>2, <3>4
  <2> QED BY <2>6, <2>8, <2>9, <2>10 DEF RequestSound
<1> QED BY <1>2, <1>3 DEF InsertItem

\* With its whole list inserted, the order is complete.
LEMMA ReadBackSound ==
    ASSUME IInv, NEW r \in Requests, ReadBack(r)
    PROVE  IInv'
<1>1. CreationTypeOK /\ RequestSound(r) /\ stage[r] = "look" /\ ~Listed(r)
  BY DEF IInv, ReadBack
<1>2. "read back" \in Stages
  BY DEF Stages, InTransaction
<1>3. /\ UNCHANGED <<input, opened, stock, deleted, gone, answer, position, draft, taken>>
      /\ stage'[r] = "read back"
      /\ RequestSound(r)' => IInv'
  BY <1>2, StageStep DEF ReadBack, GoTo, tx
<1>4. Complete(draft[r], input[r])
  <2>1. Len(input[r]) \in Nat /\ position[r] \in Nat
    BY <1>1, SentList DEF CreationTypeOK
  <2>2. Filled(draft[r], input[r], position[r] - 1)
    BY <1>1 DEF RequestSound, DraftSound
  <2>3. position[r] - 1 = Len(input[r])
    BY <1>1, <2>1, <2>2 DEF Listed, Filled
  <2> QED BY <2>2, <2>3 DEF Filled, Complete, HasNoDuplicate, AreItemsOf
<1>5. AnswerSound(r)'
  BY <1>1, <1>3 DEF RequestSound, AnswerSound, IsSent, IsOpen
<1>6. DraftSound(r)'
  BY <1>3, <1>4 DEF DraftSound
<1>7. TakenSound(r)' /\ GoneSound(r)'
  BY <1>1, <1>3, SameItems
<1> QED BY <1>3, <1>5, <1>6, <1>7 DEF RequestSound

\* The parts leave the stock: those of the others stay backed, as they are not these.
LEMMA CommitSound ==
    ASSUME IInv, NEW r \in Requests, Commit(r)
    PROVE  IInv'
<1>1. CreationTypeOK /\ RequestSound(r) /\ stage[r] = "read back"
  BY DEF IInv, Commit
<1>2. /\ UNCHANGED <<input, deleted, gone, answer>>
      /\ opened' = [opened EXCEPT ![r] = draft[r]]
      /\ stage' = [stage EXCEPT ![r] = "committed"]
      /\ position' = [position EXCEPT ![r] = 1]
      /\ draft' = [draft EXCEPT ![r] = NoRows]
      /\ taken' = [taken EXCEPT ![r] = NothingTaken]
  BY DEF Commit, EndTransaction, GoTo
<1>3. \A p \in Parts : /\ stock[p] \in Int /\ taken[r][p] \in Nat
                       /\ stock'[p] = stock[p] - taken[r][p]
  BY <1>1 DEF Commit, CreationTypeOK
<1>4. CreationTypeOK'
  <2>1. /\ input' \in [Requests -> Lists \cup {NotSent}] /\ opened' \in [Requests -> Rows]
        /\ answer' \in [Requests -> Answers]
    BY <1>1, <1>2 DEF CreationTypeOK
  <2>2. stage' \in [Requests -> Stages] /\ position' \in [Requests -> Nat]
    BY <1>1, <1>2 DEF CreationTypeOK, Stages
  <2>3. draft' \in [Requests -> Rows] /\ taken' \in [Requests -> [Parts -> Nat]]
    BY <1>1, <1>2, NoRowsTyped DEF CreationTypeOK
  <2>4. stock' \in [Parts -> Int]
    <3>1. stock' = [p \in Parts |-> stock[p] - taken[r][p]]
      BY DEF Commit
    <3>2. \A p \in Parts : stock[p] - taken[r][p] \in Int
      BY <1>3
    <3> QED BY <3>1, <3>2
  <2>5. deleted' \subseteq Parts /\ gone' \in [Requests -> SUBSET Parts]
    BY <1>1, <1>2 DEF CreationTypeOK
  <2> QED BY <2>1, <2>2, <2>3, <2>4, <2>5 DEF CreationTypeOK
<1>5. /\ OnlyOf(r)
      /\ opened'[r] = draft[r] /\ stage'[r] = "committed" /\ position'[r] = 1
      /\ draft'[r] = NoRows /\ taken'[r] = NothingTaken
  BY <1>1, <1>2 DEF OnlyOf, CreationTypeOK
<1>6. TakenIsBacked'
  <2> SUFFICES ASSUME NEW s \in Requests, NEW p \in Parts PROVE taken'[s][p] <= stock'[p]
    BY DEF TakenIsBacked
  <2>1. taken[s][p] <= stock[p] /\ taken[r][p] <= stock[p] /\ taken[s][p] \in Nat
    BY <1>1 DEF IInv, TakenIsBacked, CreationTypeOK
  <2>2. CASE s = r
    <3>1. taken'[s][p] = 0
      BY <1>5, <2>2 DEF NothingTaken
    <3> QED BY <1>3, <2>1, <3>1
  <2>3. CASE s # r
    <3>1. taken'[s][p] = taken[s][p]
      BY <1>5, <2>3 DEF OnlyOf
    <3>2. taken[s][p] = 0 \/ taken[r][p] = 0
      BY <1>3, <2>1, <2>3 DEF IInv, OneHolder, Holds
    <3> QED BY <1>3, <2>1, <3>1, <3>2
  <2> QED BY <2>2, <2>3
<1>7. OneHolder'
  <2>1. \A s \in Requests, p \in Parts : taken'[s][p] = taken[s][p] \/ taken'[s][p] = 0
    BY <1>5 DEF OnlyOf, NothingTaken
  <2> QED BY <2>1 DEF IInv, OneHolder, Holds
<1>8. AnswerSound(r)'
  <2>1. draft[r] # NoRows
    BY <1>1, CompleteIsOpen DEF RequestSound, DraftSound
  <2> QED BY <1>1, <1>2, <1>5, <2>1 DEF RequestSound, AnswerSound, IsSent, IsOpen
<1>9. DraftSound(r)'
  BY <1>5 DEF DraftSound
<1>10. TakenSound(r)' /\ GoneSound(r)'
  BY <1>1, <1>2, <1>5, NoItemsLeft
<1>11. \A s \in Requests : RequestSound(s)'
  BY <1>5, <1>8, <1>9, <1>10, OthersSound DEF IInv, RequestSound
<1> QED BY <1>4, <1>6, <1>7, <1>11 DEF IInv

\* The answer of a committed creation.
LEMMA AnsweredSound ==
    ASSUME IInv, NEW r \in Requests, stage[r] = "committed", GoTo(r, "over"),
           NEW told \in {"created", "lost"}, answer' = [answer EXCEPT ![r] = told],
           UNCHANGED <<input, opened, stock, deleted, gone, tx>>
    PROVE  IInv'
<1>1. CreationTypeOK /\ RequestSound(r)
  BY DEF IInv
<1>2. UNCHANGED <<input, opened, stock, deleted, gone, position, draft, taken>>
  BY DEF tx
<1>3. CreationTypeOK'
  BY <1>1, <1>2 DEF CreationTypeOK, GoTo, Stages, Answers
<1>4. OnlyOf(r) /\ stage'[r] = "over" /\ answer'[r] = told
  BY <1>1, <1>2 DEF OnlyOf, CreationTypeOK, GoTo
<1>5. AnswerSound(r)'
  BY <1>1, <1>2, <1>4 DEF RequestSound, AnswerSound, IsSent, IsOpen
<1>6. DraftSound(r)'
  BY <1>4 DEF DraftSound
<1>7. TakenSound(r)' /\ GoneSound(r)'
  BY <1>1, <1>2, <1>4, SameItems
<1>8. \A p \in Parts : taken'[r][p] \in {0, taken[r][p]}
  BY <1>2
<1> QED BY <1>2, <1>3, <1>4, <1>5, <1>6, <1>7, <1>8, StepOf DEF RequestSound

\* Other handlers find the row of a part taken locked: only of an unlocked one do
\* they change the stock, or delete the row.
LEMMA ElsewhereSound ==
    ASSUME IInv, NEW p \in Parts, Unlocked(p), UNCHANGED <<input, opened, gone, answer>>,
           UNCHANGED <<stage, tx>>, NEW n \in Nat, stock' = [stock EXCEPT ![p] = n],
           deleted' \in {deleted, deleted \cup {p}}
    PROVE  IInv'
<1>1. /\ CreationTypeOK /\ UNCHANGED <<input, opened, gone, answer, stage, position, draft, taken>>
      /\ deleted \subseteq deleted' /\ deleted' \subseteq deleted \cup {p}
  BY DEF IInv, tx
<1>2. CreationTypeOK'
  BY <1>1 DEF CreationTypeOK
<1>3. \A s \in Requests : taken[s][p] = 0
  BY <1>1 DEF Unlocked, Holds, CreationTypeOK
<1>4. TakenIsBacked'
  <2> SUFFICES ASSUME NEW s \in Requests, NEW q \in Parts PROVE taken[s][q] <= stock'[q]
    BY <1>1 DEF TakenIsBacked
  <2>1. CASE q = p
    BY <1>1, <1>3, <2>1 DEF CreationTypeOK
  <2>2. CASE q # p
    <3>1. stock'[q] = stock[q]
      BY <1>1, <2>2 DEF CreationTypeOK
    <3> QED BY <3>1 DEF IInv, TakenIsBacked
  <2> QED BY <2>1, <2>2
<1>5. OneHolder'
  BY <1>1 DEF IInv, OneHolder, Holds
<1>6. ASSUME NEW r \in Requests PROVE RequestSound(r)'
  <2>1. RequestSound(r)
    BY DEF IInv
  <2>2. AnswerSound(r)'
    BY <1>1, <2>1 DEF RequestSound, AnswerSound, IsSent, IsOpen
  <2>3. DraftSound(r)'
    BY <1>1, <2>1 DEF RequestSound, DraftSound, Listed, Item
  <2>4. TakenSound(r)'
    <3> SUFFICES ASSUME NEW q \in Parts
                 PROVE  taken[r][q] = IF q \in deleted' THEN 0 ELSE Needed(r, q)
      BY <1>1 DEF TakenSound, Needed, Item
    <3>1. taken[r][q] = IF q \in deleted THEN 0 ELSE Needed(r, q)
      BY <2>1 DEF RequestSound, TakenSound
    <3>2. q \in deleted' => q \in deleted \/ taken[r][q] = 0
      BY <1>1, <1>3
    <3> QED BY <1>1, <3>1, <3>2
  <2>5. GoneSound(r)'
    BY <1>1, <2>1 DEF RequestSound, GoneSound, Item
  <2> QED BY <2>2, <2>3, <2>4, <2>5 DEF RequestSound
<1> QED BY <1>2, <1>4, <1>5, <1>6 DEF IInv

LEMMA MoveStockSound ==
    ASSUME IInv, NEW p \in Parts, MoveStockElsewhere(p)
    PROVE  IInv'
<1>1. PICK n \in 0 .. MaxStock : stock' = [stock EXCEPT ![p] = n]
  BY DEF MoveStockElsewhere, MoveStock
<1>2. n \in Nat
  BY OpeningAssumption
<1> QED BY <1>1, <1>2, ElsewhereSound DEF MoveStockElsewhere, MoveStock

LEMMA DeleteSound ==
    ASSUME IInv, NEW p \in Parts, DeleteElsewhere(p)
    PROVE  IInv'
BY ElsewhereSound DEF DeleteElsewhere, Delete

-----------------------------------------------------------------------------
(***************************************************************************)
(* The theorems.                                                           *)
(***************************************************************************)
LEMMA InitSound == CreationInit => IInv
<1> SUFFICES ASSUME CreationInit PROVE IInv
  OBVIOUS
<1>1. CreationTypeOK
  <2>1. stock \in [Parts -> Int]
    BY OpeningAssumption DEF CreationInit, Init
  <2> QED BY <2>1, NoRowsTyped DEF CreationInit, Init, CreationTypeOK, Stages, Answers
<1>2. TakenIsBacked
  BY OpeningAssumption DEF CreationInit, Init, TakenIsBacked, NothingTaken
<1>3. OneHolder
  BY DEF CreationInit, OneHolder, Holds, NothingTaken
<1>4. ASSUME NEW r \in Requests PROVE RequestSound(r)
  <2>1. AnswerSound(r)
    BY DEF CreationInit, Init, AnswerSound, IsSent, IsOpen
  <2>2. DraftSound(r)
    BY DEF CreationInit, DraftSound
  <2>3. TakenSound(r)
    BY NoRowsTyped, PartIsReference DEF CreationInit, Init, TakenSound, Needed, NothingTaken
  <2>4. GoneSound(r)
    BY DEF CreationInit, Init, GoneSound
  <2> QED BY <2>1, <2>2, <2>3, <2>4 DEF RequestSound
<1> QED BY <1>1, <1>2, <1>3, <1>4 DEF IInv

LEMMA ThrowSound ==
    ASSUME IInv, NEW r \in Requests, Throw(r), stage[r] \in InTransaction \cup {"begin"}
    PROVE  IInv'
BY RollbackSound DEF Throw, InTransaction

LEMMA KillSound ==
    ASSUME IInv, NEW r \in Requests, Kill(r)
    PROVE  IInv'
<1>1. CASE stage[r] \in InTransaction \cup {"begin"} /\ Rollback(r, "lost")
  BY <1>1, RollbackSound DEF InTransaction
<1>2. CASE ~(stage[r] \in InTransaction \cup {"begin"} /\ Rollback(r, "lost"))
  BY <1>2, AnsweredSound DEF Kill
<1> QED BY <1>1, <1>2

LEMMA NextSound == IInv /\ [CreationNext]_vars => IInv'
<1> SUFFICES ASSUME IInv, [CreationNext]_vars PROVE IInv'
  OBVIOUS
<1>1. ASSUME NEW r \in Requests, Advance(r) PROVE IInv'
  <2>1. CASE Respond(r)
    BY <2>1, AnsweredSound DEF Respond
  <2>2. CASE DetectDeadlock(r)
    BY <2>2, ThrowSound DEF DetectDeadlock, InTransaction
  <2> QED BY <1>1, <2>1, <2>2, BeginTransactionSound, InsertOrderSound, StartDiagnosisSound,
             CreateEstimateSound, LookUpItemSound, RereadSound, TakeStockSound,
             InsertItemSound, ReadBackSound, CommitSound DEF Advance
<1>2. ASSUME NEW r \in Requests, NoConnection(r) \/ Timeout(r) PROVE IInv'
  BY <1>2, ThrowSound DEF NoConnection, Timeout
<1>3. CASE UNCHANGED vars
  <2>1. UNCHANGED <<input, opened, stock, deleted, gone, answer, stage, position, draft, taken>>
    BY <1>3 DEF vars
  <2>2. (CreationTypeOK /\ TakenIsBacked /\ OneHolder)'
    BY <2>1 DEF IInv, CreationTypeOK, TakenIsBacked, OneHolder, Holds
  <2>3. ASSUME NEW r \in Requests PROVE RequestSound(r)'
    <3>1. RequestSound(r)
      BY DEF IInv
    <3>2. AnswerSound(r)'
      BY <2>1, <3>1 DEF RequestSound, AnswerSound, IsSent, IsOpen
    <3>3. DraftSound(r)'
      BY <2>1, <3>1 DEF RequestSound, DraftSound, Listed, Item
    <3>4. TakenSound(r)'
      BY <2>1, <3>1 DEF RequestSound, TakenSound, Needed, Item
    <3>5. GoneSound(r)'
      BY <2>1, <3>1 DEF RequestSound, GoneSound, Item
    <3> QED BY <3>2, <3>3, <3>4, <3>5 DEF RequestSound
  <2> QED BY <2>2, <2>3 DEF IInv
<1>4. Deletable \subseteq Parts
  BY OpeningAssumption
<1> QED BY <1>1, <1>2, <1>3, <1>4, ReceiveSound, KillSound, MoveStockSound, DeleteSound
        DEF CreationNext

\* The invariant of the creation, from which the rest follows.
THEOREM Invariance == CreationSpec => []IInv
BY InitSound, NextSound, PTL DEF CreationSpec

\* The entries of the creation's variables keep their types.
THEOREM TypeCorrectness == CreationSpec => []CreationTypeOK
<1>1. IInv => CreationTypeOK
  BY DEF IInv
<1> QED BY <1>1, Invariance, PTL

\* What a transaction has taken stays in the stock until it commits.
THEOREM TakenStaysBacked == CreationSpec => []TakenIsBacked
<1>1. IInv => TakenIsBacked
  BY DEF IInv
<1> QED BY <1>1, Invariance, PTL

\* The abstract specification speaks of the same tables.
LEMMA SameRows ==
    /\ Opening!NoRows = NoRows
    /\ \A r : Opening!IsOpen(r) = IsOpen(r) /\ Opening!IsSent(r) = IsSent(r)
    /\ \A rows, p : Opening!TakenBy(rows, p) = TakenBy(rows, p)
    /\ \A rows, list : Opening!Complete(rows, list) = Complete(rows, list)
<1>1. Opening!NoRows = NoRows
  BY DEF NoRows, Opening!NoRows, NoItems, Opening!NoItems, References, Opening!References,
         NoOrderRow, Opening!NoOrderRow, Unopened, Opening!Unopened
<1>2. \A rows, list : Opening!Complete(rows, list) = Complete(rows, list)
  BY <1>1 DEF Complete, Opening!Complete, HasNoDuplicate, Opening!HasNoDuplicate,
              AreItemsOf, Opening!AreItemsOf, References, Opening!References,
              OpenedOrder, Opening!OpenedOrder
<1> QED BY <1>1, <1>2 DEF IsOpen, Opening!IsOpen, IsSent, Opening!IsSent, TakenBy, Opening!TakenBy

LEMMA CommitOpens ==
    ASSUME IInv, NEW r \in Requests, Commit(r)
    PROVE  Opening!Open(r)
<1>1. CreationTypeOK /\ RequestSound(r) /\ stage[r] = "read back"
  BY DEF IInv, Commit
<1>2. opened' = [opened EXCEPT ![r] = draft[r]] /\ opened'[r] = draft[r]
      /\ UNCHANGED <<input, deleted, gone, answer>>
  BY <1>1 DEF Commit, CreationTypeOK
<1>3. \A p \in Parts : taken[r][p] = TakenBy(draft[r], p) /\ taken[r][p] <= stock[p]
  BY <1>1 DEF RequestSound, TakenSound, Needed, TakenBy, IInv, TakenIsBacked
<1>4. stock' = [p \in Parts |-> stock[p] - TakenBy(draft[r], p)]
  BY <1>3 DEF Commit
<1>5. IsSent(r) /\ ~IsOpen(r) /\ answer[r] = "none"
  BY <1>1 DEF RequestSound, AnswerSound
<1>6. Complete(draft[r], input[r])
  BY <1>1 DEF RequestSound, DraftSound
<1>7. \A p \in Parts : TakenBy(draft[r], p) <= stock[p]
  BY <1>3
<1>8. \A p \in gone[r] : draft[r].items[p] = 0
  BY <1>1 DEF RequestSound, GoneSound
<1> QED BY <1>2, <1>4, <1>5, <1>6, <1>7, <1>8, SameRows DEF Opening!Open

\* A rollback refuses, or is not heard of; so is the loss of an answer.
LEMMA RollbackAnswers ==
    ASSUME IInv, NEW r \in Requests, NEW told \in {"refused", "lost"}, Rollback(r, told),
           stage[r] \notin {"idle", "committed", "over"}
    PROVE  Opening!Answer(r)
<1>1. IsSent(r) /\ ~IsOpen(r) /\ answer[r] = "none"
  BY DEF IInv, RequestSound, AnswerSound
<1>2. answer' = [answer EXCEPT ![r] = told] /\ UNCHANGED <<input, opened, stock, deleted, gone>>
  BY DEF Rollback
<1> QED BY <1>1, <1>2, SameRows DEF Opening!Answer

LEMMA ResponseAnswers ==
    ASSUME IInv, NEW r \in Requests, stage[r] = "committed", NEW told \in {"created", "lost"},
           answer' = [answer EXCEPT ![r] = told], UNCHANGED <<input, opened, stock, deleted, gone>>
    PROVE  Opening!Answer(r)
<1>1. IsSent(r) /\ IsOpen(r) /\ answer[r] = "none"
  BY DEF IInv, RequestSound, AnswerSound
<1> QED BY <1>1, SameRows DEF Opening!Answer

LEMMA StepImplements ==
    ASSUME IInv, CreationNext
    PROVE  Opening!Next \/ UNCHANGED <<input, opened, stock, deleted, gone, answer>>
<1>1. ASSUME NEW r \in Requests, Throw(r), stage[r] \in InTransaction \cup {"begin"}
      PROVE  Opening!Next
  BY <1>1, RollbackAnswers DEF Throw, InTransaction, Opening!Next
<1>2. ASSUME NEW r \in Requests, Receive(r) PROVE Opening!Next
  <2>1. Opening!Send(r)
    BY <1>2, SameRows DEF Receive, Send, Opening!Send
  <2> QED BY <2>1 DEF Opening!Next
<1>3. ASSUME NEW r \in Requests, Advance(r)
      PROVE  Opening!Next \/ UNCHANGED <<input, opened, stock, deleted, gone, answer>>
  <2>1. CASE Commit(r)
    BY <2>1, CommitOpens DEF Opening!Next
  <2>2. CASE Respond(r)
    BY <2>2, ResponseAnswers DEF Respond, Opening!Next
  <2>3. CASE Throw(r) /\ stage[r] \in {"look", "reread", "take", "insert"}
    BY <1>1, <2>3 DEF InTransaction
  <2>4. CASE BeginTransaction(r) \/ InsertOrder(r) \/ StartDiagnosis(r) \/ CreateEstimate(r)
                \/ ReadBack(r)
    BY <2>4 DEF BeginTransaction, InsertOrder, StartDiagnosis, CreateEstimate, ReadBack
  <2>5. CASE LookUpItem(r)
    BY <2>3, <2>5 DEF LookUpItem
  <2>9. CASE Reread(r)
    BY <2>3, <2>9 DEF Reread
  <2>6. CASE TakeStock(r)
    BY <2>3, <2>6 DEF TakeStock
  <2>7. CASE InsertItem(r)
    BY <2>3, <2>7 DEF InsertItem, NextItem
  <2>8. CASE DetectDeadlock(r)
    BY <2>3, <2>8 DEF DetectDeadlock
  <2> QED BY <1>3, <2>1, <2>2, <2>4, <2>5, <2>6, <2>7, <2>8, <2>9 DEF Advance
<1>4. ASSUME NEW r \in Requests, NoConnection(r) \/ Timeout(r) PROVE Opening!Next
  BY <1>1, <1>4 DEF NoConnection, Timeout
<1>5. ASSUME NEW r \in Requests, Kill(r) PROVE Opening!Next
  <2>1. CASE stage[r] \in InTransaction \cup {"begin"} /\ Rollback(r, "lost")
    BY <2>1, RollbackAnswers DEF InTransaction, Opening!Next
  <2>2. CASE ~(stage[r] \in InTransaction \cup {"begin"} /\ Rollback(r, "lost"))
    BY <1>5, <2>2, ResponseAnswers DEF Kill, Opening!Next
  <2> QED BY <2>1, <2>2
<1>6. ASSUME NEW p \in Parts, MoveStockElsewhere(p) PROVE Opening!Next
  BY <1>6 DEF MoveStockElsewhere, MoveStock, Opening!MoveStock, Opening!Next
<1>7. ASSUME NEW p \in Deletable, DeleteElsewhere(p) PROVE Opening!Next
  BY <1>7 DEF DeleteElsewhere, Delete, Opening!Delete, Opening!Next
<1> QED BY <1>2, <1>3, <1>4, <1>5, <1>6, <1>7 DEF CreationNext

\* Whatever statements interleave and wherever a transaction ends, a creation opens a
\* complete order and takes its parts in one step, or does nothing.  It takes nothing of
\* a part that was deleted, and such a part was there when the request was sent.
THEOREM CreationIsAtomic == CreationSpec => ImplementsOpening
<1>1. CreationInit => Opening!Init
  BY SameRows DEF CreationInit, Init, Opening!Init
<1>2. IInv /\ [CreationNext]_vars => [Opening!Next]_<<input, opened, stock, deleted, gone, answer>>
  BY StepImplements DEF vars
<1> QED BY <1>1, <1>2, Invariance, PTL DEF CreationSpec, ImplementsOpening, Opening!Spec
=============================================================================
