---------------------- MODULE ServiceOrdersRecordsProofs ----------------------
(***************************************************************************)
(* What orders, their histories, estimates, totals and the stock say of    *)
(* each other.  ServiceOrdersProofs shows each row sound by itself; here   *)
(* the invariants relate rows that the handlers write one after another,   *)
(* so they must say what is still to be written in between.                *)
(*                                                                         *)
(*   RecordsInv    what estimates promise is on record, or pending         *)
(*   CurrentInv    what a statement was decided on still holds             *)
(*   PathInv       histories are paths but for the row still pending       *)
(*   TotalsInv     totals are sums but for the sum still to write          *)
(*   UnderWayInv   what is approved is in execution, or on its way there   *)
(*   StockInv      parts in stock, in estimates and in hand together       *)
(*                 never exceed the initial stock                          *)
(*                                                                         *)
(* Two hypotheses occur, each where the code needs it: ~MayFail, requests  *)
(* run to their end; []OrdersApart, no two of them are at work on the same *)
(* order.                                                                  *)
(***************************************************************************)
EXTENDS ServiceOrdersProofs, OrderQueries, FiniteSetTheorems

(***************************************************************************)
(* Plans as sets.  What a statement still to run means for the tables does *)
(* not depend on its place in its plan, but for a few kinds that must come *)
(* before others.  So the invariants below speak of the set of statements  *)
(* a request has pending, and MayFollow says which kinds may come later.   *)
(***************************************************************************)
Pending(q) == {q[i] : i \in 1 .. Len(q)}

Pend(r) == Pending(todo[r])

\* A statement of kind b may come after one of kind a in a plan.  No kind follows
\* itself, nothing follows a history row, and the statements that may throw or load
\* again are the last ones of their plans.
MayFollow(a, b) ==
    \/ a = "createEstimate" /\ b \in {"updateOrder", "createHistory"}
    \/ a = "updateEstimate" /\ b \in {"updateOrder", "returnParts", "createHistory"}
    \/ a = "updateOrder"
        /\ b \in {"createEstimate", "rejectEstimates", "returnParts", "createHistory"}
    \/ a = "rejectEstimates" /\ b \in {"returnParts", "createHistory"}
    \/ a = "returnParts" /\ b = "createHistory"
    \/ a = "decrementStock" /\ b = "createItem"

Shaped(q) == \A i, j \in 1 .. Len(q) : i < j => MayFollow(q[i].kind, q[j].kind)

PlansShaped == \A r \in Requests : Shaped(todo[r])

\* A request at rest has nothing pending.
LEMMA NothingPending == Pending(<<>>) = {} /\ Shaped(<<>>)
BY DEF Pending, Shaped

\* A plan of one statement.
LEMMA OnePending == ASSUME NEW s PROVE Pending(<<s>>) = {s} /\ Shaped(<<s>>)
BY DEF Pending, Shaped

\* What is pending of a plan over S is in S.
LEMMA PendingTyped ==
    ASSUME NEW S, NEW q \in Seq(S)
    PROVE  Pending(q) \subseteq S /\ (Pending(q) = {} => q = <<>>)
<1>1. Pending(q) \subseteq S
  BY DEF Pending
<1>2. ASSUME q # <<>> PROVE q[1] \in Pending(q)
  BY <1>2 DEF Pending
<1> QED BY <1>1, <1>2

\* Two plans one after the other.
LEMMA JoinedPlans ==
    ASSUME NEW S, NEW p \in Seq(S), NEW q \in Seq(S), Shaped(p), Shaped(q),
           \A a \in Pending(p), b \in Pending(q) : MayFollow(a.kind, b.kind)
    PROVE  Shaped(p \o q) /\ Pending(p \o q) = Pending(p) \cup Pending(q)
<1> DEFINE pq == p \o q
<1>1. /\ pq \in Seq(S) /\ Len(pq) = Len(p) + Len(q)
      /\ \A i \in 1 .. Len(p) : pq[i] = p[i]
      /\ \A i \in 1 .. Len(q) : pq[Len(p) + i] = q[i]
  OBVIOUS
<1>2. \A i \in 1 .. Len(pq) : i \in 1 .. Len(p) \/ i - Len(p) \in 1 .. Len(q)
  BY <1>1
<1>3. \A i \in 1 .. Len(pq) : i \notin 1 .. Len(p) => pq[i] = q[i - Len(p)]
  BY <1>1, <1>2
<1> HIDE DEF pq
<1>4. Len(p) \in Nat /\ Len(q) \in Nat
  OBVIOUS
<1>5. Pending(pq) = Pending(p) \cup Pending(q)
  <2>1. \A i \in 1 .. Len(pq) : pq[i] \in Pending(p) \cup Pending(q)
    BY <1>1, <1>2, <1>3 DEF Pending
  <2>2. \A i \in 1 .. Len(p) : p[i] \in Pending(pq)
    BY <1>1, <1>4 DEF Pending
  <2>3. \A i \in 1 .. Len(q) : q[i] \in Pending(pq)
    <3> SUFFICES ASSUME NEW i \in 1 .. Len(q) PROVE q[i] \in Pending(pq)
      OBVIOUS
    <3>1. Len(p) + i \in 1 .. Len(pq) /\ pq[Len(p) + i] = q[i]
      BY <1>1, <1>4
    <3> QED BY <3>1 DEF Pending
  <2> QED BY <2>1, <2>2, <2>3 DEF Pending
<1>6. Shaped(pq)
  <2> SUFFICES ASSUME NEW i \in 1 .. Len(pq), NEW j \in 1 .. Len(pq), i < j
               PROVE  MayFollow(pq[i].kind, pq[j].kind)
    BY DEF Shaped
  <2>1. CASE j \in 1 .. Len(p)
    <3>1. i \in 1 .. Len(p)
      BY <2>1, <1>4, <1>1
    <3> QED BY <3>1, <2>1, <1>1 DEF Shaped
  <2>2. CASE i \in 1 .. Len(p) /\ j \notin 1 .. Len(p)
    <3>1. pq[i] \in Pending(p) /\ pq[j] \in Pending(q)
      BY <2>2, <1>1, <1>2, <1>3 DEF Pending
    <3> QED BY <3>1
  <2>3. CASE i \notin 1 .. Len(p) /\ j \notin 1 .. Len(p)
    <3>1. /\ i - Len(p) \in 1 .. Len(q) /\ j - Len(p) \in 1 .. Len(q)
          /\ i - Len(p) < j - Len(p)
      BY <2>3, <1>1, <1>2, <1>4
    <3>2. pq[i] = q[i - Len(p)] /\ pq[j] = q[j - Len(p)]
      BY <2>3, <1>3
    <3> QED BY <3>1, <3>2 DEF Shaped
  <2> QED BY <2>1, <2>2, <2>3
<1> QED BY <1>5, <1>6 DEF pq

\* One statement before a plan.
LEMMA PutBefore ==
    ASSUME NEW S, NEW s \in S, NEW q \in Seq(S), Shaped(q),
           \A b \in Pending(q) : MayFollow(s.kind, b.kind)
    PROVE  Shaped(<<s>> \o q) /\ Pending(<<s>> \o q) = {s} \cup Pending(q)
<1> DEFINE p == <<s>>
<1>1. p \in Seq(S) /\ Pending(p) = {s} /\ Shaped(p)
  BY OnePending
<1> HIDE DEF p
<1>2. \A a \in Pending(p), b \in Pending(q) : MayFollow(a.kind, b.kind)
  BY <1>1
<1>3. Shaped(p \o q) /\ Pending(p \o q) = Pending(p) \cup Pending(q)
  BY <1>1, <1>2, JoinedPlans
<1> QED BY <1>1, <1>3 DEF p

\* A plan of two statements, of kinds that may follow each other.
LEMMA TwoPending ==
    ASSUME NEW S, NEW s \in S, NEW t \in S, MayFollow(s.kind, t.kind)
    PROVE  Pending(<<s, t>>) = {s, t} /\ Shaped(<<s, t>>)
<1> DEFINE q == <<s, t>>
<1>1. Len(q) = 2 /\ q[1] = s /\ q[2] = t
  OBVIOUS
<1> HIDE DEF q
<1>2. \A i \in 1 .. Len(q) : i = 1 \/ i = 2
  BY <1>1
<1>3. Pending(q) = {s, t}
  BY <1>1, <1>2 DEF Pending
<1>4. Shaped(q)
  BY <1>1, <1>2 DEF Shaped
<1> QED BY <1>3, <1>4 DEF q

\* A plan of three statements.
LEMMA ThreePending ==
    ASSUME NEW S, NEW s \in S, NEW t \in S, NEW u \in S,
           MayFollow(s.kind, t.kind), MayFollow(s.kind, u.kind), MayFollow(t.kind, u.kind)
    PROVE  Pending(<<s, t, u>>) = {s, t, u} /\ Shaped(<<s, t, u>>)
<1> DEFINE q == <<s, t, u>>
<1>1. Len(q) = 3 /\ q[1] = s /\ q[2] = t /\ q[3] = u
  OBVIOUS
<1> HIDE DEF q
<1>2. \A i \in 1 .. Len(q) : i = 1 \/ i = 2 \/ i = 3
  BY <1>1
<1>3. Pending(q) = {s, t, u}
  BY <1>1, <1>2 DEF Pending
<1>4. Shaped(q)
  BY <1>1, <1>2 DEF Shaped
<1> QED BY <1>3, <1>4 DEF q

\* The head is one of the pending statements, and it is in no other place.
LEMMA PendingTail ==
    ASSUME NEW S, NEW q \in Seq(S), q # <<>>, Shaped(q)
    PROVE  /\ Head(q) \in Pending(q)
           /\ Pending(Tail(q)) = Pending(q) \ {Head(q)}
           /\ \A t \in Pending(Tail(q)) : MayFollow(Head(q).kind, t.kind)
           /\ Shaped(Tail(q))
<1> DEFINE t == Tail(q)
<1>1. /\ Len(q) \in Nat /\ Len(q) >= 1 /\ Head(q) = q[1]
      /\ t \in Seq(S) /\ Len(t) = Len(q) - 1 /\ \A i \in 1 .. Len(t) : t[i] = q[i + 1]
  OBVIOUS
<1> HIDE DEF t
<1>2. \A i \in 1 .. Len(t) : i + 1 \in 1 .. Len(q) /\ 1 < i + 1
  BY <1>1
<1>3. \A a \in Pending(t) : a \in Pending(q) /\ MayFollow(Head(q).kind, a.kind)
  <2> SUFFICES ASSUME NEW i \in 1 .. Len(t)
               PROVE  t[i] \in Pending(q) /\ MayFollow(Head(q).kind, t[i].kind)
    BY DEF Pending
  <2>1. 1 \in 1 .. Len(q) /\ t[i] = q[i + 1] /\ i + 1 \in 1 .. Len(q) /\ 1 < i + 1
    BY <1>1, <1>2
  <2> QED BY <2>1, <1>1 DEF Shaped, Pending
<1>4. \A a : ~MayFollow(a, a)
  BY DEF MayFollow
<1>5. \A a \in Pending(q) : a = Head(q) \/ a \in Pending(t)
  <2> SUFFICES ASSUME NEW i \in 1 .. Len(q), i # 1 PROVE q[i] \in Pending(t)
    BY <1>1 DEF Pending
  <2>1. i - 1 \in 1 .. Len(t) /\ (i - 1) + 1 = i
    BY <1>1
  <2> QED BY <2>1, <1>1 DEF Pending
<1>6. Shaped(t)
  <2> SUFFICES ASSUME NEW i \in 1 .. Len(t), NEW j \in 1 .. Len(t), i < j
               PROVE  MayFollow(t[i].kind, t[j].kind)
    BY DEF Shaped
  <2>1. i + 1 < j + 1
    BY <1>1
  <2> QED BY <2>1, <1>1, <1>2 DEF Shaped
<1>7. Head(q) \in Pending(q)
  BY <1>1 DEF Pending
<1> QED BY <1>3, <1>4, <1>5, <1>6, <1>7 DEF t

-----------------------------------------------------------------------------
(***************************************************************************)
(* Statements and plans by name.                                           *)
(***************************************************************************)
Insert(o) == [kind |-> "createEstimate", order |-> o]

SetStatus(e, status) == [kind |-> "updateEstimate", estimate |-> e, status |-> status]

Rejecting(E) == [kind |-> "rejectEstimates", estimates |-> E]

Returning(items) == [kind |-> "returnParts", items |-> items]

Decide(e, status, items) ==
    [kind |-> "decide", estimate |-> e, status |-> status, items |-> items]

RejectOrder(e) == [kind |-> "rejectOrderOf", estimate |-> e]

Take(p, q) == [kind |-> "decrementStock", part |-> p, quantity |-> q]

Create(e, ref, q) == [kind |-> "createItem", estimate |-> e, ref |-> ref, quantity |-> q]

SumUp(e) == [kind |-> "sumItems", estimate |-> e]

WriteSum(e, items) == [kind |-> "writeTotal", estimate |-> e, totalOf |-> items]

Looped(S, s) == IF S = {} THEN {} ELSE {s}

Loaded(o) == ToDomain(order[o])

PendingOf(o) == {e \in EstimatesOf(o) : estimate[e].status = "PENDING"}

MovePlan(o, method) ==
    {Update(o, Apply(Loaded(o), method)), Record(o, Loaded(o).status, ResultOf[method])}

RejectPlan(o) ==
    MovePlan(o, "rejectEstimate") \cup Looped(PendingOf(o), Rejecting(PendingOf(o)))
        \cup Looped(PartItemsOf(PendingOf(o)), Returning(PartItemsOf(PendingOf(o))))

DecisionPlan(o, s) ==
    MovePlan(o, DecisionMethod(s.status)) \cup {SetStatus(s.estimate, s.status)}
        \cup (IF s.status = "REJECTED" THEN Looped(s.items, Returning(s.items)) ELSE {})

(***************************************************************************)
(* What a handler may decide on, and what a request does next: the actions *)
(* of ServiceOrders as they change the pending statements.                 *)
(***************************************************************************)
DecidesOn(S) ==
    \/ \E o \in Orders, method \in Methods, actor \in Actors :
        Allows(Loaded(o), method, actor) /\ S = MovePlan(o, method)
    \/ \E o \in Orders, mechanic \in Mechanics :
        order[o].status = "RECEIVED" /\ S = {Update(o, AssignMechanic(Loaded(o), mechanic))}
    \/ \E o \in Orders :
        /\ Allows(Loaded(o), "requestApproval", NoMechanic)
        /\ S = MovePlan(o, "requestApproval") \cup {Insert(o)}
    \/ \E o \in Orders :
        Allows(Loaded(o), "rejectEstimate", NoMechanic) /\ S = RejectPlan(o)
    \/ \E e \in Estimates, status \in {"APPROVED", "REJECTED"} :
        /\ Issued(e) /\ estimate[e].status # "APPROVED"
        /\ status = "REJECTED" => "patchEstimateStatus" \in Operations
        /\ S = {Decide(e, status, PartItemsOf({e}))}
    \/ \E e \in Estimates, status \in {"PENDING", "NEGOTIATED"} :
        /\ Issued(e) /\ estimate[e].status # "APPROVED"
        /\ "patchEstimateStatus" \in Operations
        /\ S = {SetStatus(e, status)}
    \/ \E e \in Estimates : Issued(e) /\ S = {RejectOrder(e)}
    \/ \E e \in Estimates \cup {NoEstimate}, ref \in References, q \in 1 .. MaxQuantity :
        /\ e # NoEstimate => Issued(e)
        /\ \/ S = {Create(e, ref, q)} /\ ref \in Services
           \/ S = {Take(ref, q), Create(e, ref, q)} /\ ref \in Parts

Goes(r, S) == Pend(r)' = S /\ \A p \in Requests \ {r} : Pend(p)' = Pend(p)

\* s is the statement r runs next: what is pending besides may follow it.
IsNext(r, s) ==
    /\ s \in Pend(r)
    /\ \A t \in Pend(r) : t = s \/ MayFollow(s.kind, t.kind)

Takes(r, s) == IsNext(r, s) /\ Goes(r, Pend(r) \ {s})

WritesOrder(r, s) ==
    /\ s.kind = "updateOrder" /\ Takes(r, s)
    /\ order' = [order EXCEPT ![s.order] =
                    [s.row EXCEPT !.closedAt = s.row.closedAt \/ order[s.order].closedAt]]
    /\ UNCHANGED <<estimate, item, stock, history>>

AddsHistory(r, s) ==
    /\ s.kind = "createHistory" /\ Takes(r, s)
    /\ history' = [history EXCEPT ![s.order] = Append(@, s.row)]
    /\ UNCHANGED <<order, estimate, item, stock>>

IssuesEstimate(r, s, e) ==
    /\ s.kind = "createEstimate" /\ Takes(r, s) /\ ~Issued(e)
    /\ estimate' = [estimate EXCEPT ![e] = [serviceOrder |-> s.order, status |-> "PENDING",
                                            totalOf |-> NoItems]]
    /\ UNCHANGED <<order, item, stock, history>>

SetsStatus(r, s) ==
    /\ s.kind = "updateEstimate" /\ Takes(r, s)
    /\ estimate' = [estimate EXCEPT ![s.estimate].status = s.status]
    /\ UNCHANGED <<order, item, stock, history>>

RejectsOne(r, s, e) ==
    /\ s.kind = "rejectEstimates" /\ IsNext(r, s) /\ e \in s.estimates
    /\ Goes(r, (Pend(r) \ {s}) \cup Looped(s.estimates \ {e}, Rejecting(s.estimates \ {e})))
    /\ estimate' = [estimate EXCEPT ![e].status = "REJECTED"]
    /\ UNCHANGED <<order, item, stock, history>>

ReturnsOne(r, s, i) ==
    /\ s.kind = "returnParts" /\ IsNext(r, s) /\ i \in s.items
    /\ Goes(r, (Pend(r) \ {s}) \cup Looped(s.items \ {i}, Returning(s.items \ {i})))
    /\ stock' = [stock EXCEPT ![i.part] = @ + i.quantity]
    /\ UNCHANGED <<order, estimate, item, history>>

LoadsAgain(r, s) ==
    LET o == estimate[s.estimate].serviceOrder
    IN  /\ Pend(r) = {s}
        /\ \/ /\ s.kind = "decide" /\ Goes(r, DecisionPlan(o, s))
              /\ Allows(Loaded(o), DecisionMethod(s.status), NoMechanic)
           \/ /\ s.kind = "rejectOrderOf" /\ Goes(r, RejectPlan(o))
              /\ Allows(Loaded(o), "rejectEstimate", NoMechanic)
        /\ UNCHANGED tables

TakesStock(r, s) ==
    /\ s.kind = "decrementStock" /\ Takes(r, s) /\ stock[s.part] >= s.quantity
    /\ stock' = [stock EXCEPT ![s.part] = @ - s.quantity]
    /\ UNCHANGED <<order, estimate, item, history>>

InsertsItem(r, s) ==
    /\ s.kind = "createItem" /\ Pend(r) = {s} /\ Goes(r, {SumUp(s.estimate)})
    /\ s.estimate \in Estimates /\ item[s.estimate][s.ref] = 0
    /\ item' = [item EXCEPT ![s.estimate][s.ref] = s.quantity]
    /\ UNCHANGED <<order, estimate, stock, history>>

SumsUp(r, s) ==
    /\ s.kind = "sumItems" /\ Pend(r) = {s}
    /\ Goes(r, {WriteSum(s.estimate, item[s.estimate])})
    /\ UNCHANGED tables

WritesTotal(r, s) ==
    /\ s.kind = "writeTotal" /\ Pend(r) = {s} /\ Goes(r, {})
    /\ estimate' = [estimate EXCEPT ![s.estimate].totalOf = s.totalOf]
    /\ UNCHANGED <<order, item, stock, history>>

\* Without failures only a plan that has written nothing stops early.
Stops(r) ==
    /\ Goes(r, {}) /\ UNCHANGED tables
    /\ \/ MayFail
       \/ \A t \in Pend(r) : t.kind \in {"decide", "rejectOrderOf", "decrementStock",
                                         "createItem"}

Does(r, s) ==
    \/ WritesOrder(r, s)
    \/ AddsHistory(r, s)
    \/ \E e \in Estimates : IssuesEstimate(r, s, e) \/ RejectsOne(r, s, e)
    \/ SetsStatus(r, s)
    \/ \E i \in PartItem : ReturnsOne(r, s, i)
    \/ LoadsAgain(r, s)
    \/ TakesStock(r, s)
    \/ InsertsItem(r, s)
    \/ SumsUp(r, s)
    \/ WritesTotal(r, s)

-----------------------------------------------------------------------------
(***************************************************************************)
(* Every step of ServiceOrders is one of these.                            *)
(***************************************************************************)

\* A request goes on with the plan q.
LEMMA GoesOnWith ==
    ASSUME TypeOK, PlansShaped, NEW r \in Requests, NEW q, Shaped(q),
           todo' = [todo EXCEPT ![r] = q]
    PROVE  PlansShaped' /\ Goes(r, Pending(q))
<1>1. todo'[r] = q /\ \A p \in Requests \ {r} : todo'[p] = todo[p]
  BY DEF TypeOK
<1> QED BY <1>1 DEF PlansShaped, Goes, Pend

\* The statement a request runs next.
LEMMA NextPending ==
    ASSUME TypeOK, PlansShaped, NEW r \in Requests, NEW kind, Runs(r, kind)
    PROVE  LET s == Head(todo[r])
           IN  /\ s \in Statement /\ s.kind = kind /\ IsNext(r, s)
               /\ Pending(Tail(todo[r])) = Pend(r) \ {s}
               /\ Tail(todo[r]) \in Seq(Statement) /\ Shaped(Tail(todo[r]))
<1> DEFINE s == Head(todo[r])
<1>1. todo[r] \in Seq(Statement) /\ todo[r] # <<>> /\ s.kind = kind /\ Shaped(todo[r])
  BY DEF TypeOK, Runs, Idle, PlansShaped
<1>2. s \in Statement /\ Tail(todo[r]) \in Seq(Statement)
  BY <1>1, HeadAndTail
<1>3. /\ s \in Pend(r)
      /\ Pending(Tail(todo[r])) = Pend(r) \ {s}
      /\ \A t \in Pending(Tail(todo[r])) : MayFollow(s.kind, t.kind)
      /\ Shaped(Tail(todo[r]))
  BY <1>1, PendingTail DEF Pend
<1>4. IsNext(r, s)
  BY <1>3 DEF IsNext
<1> QED BY <1>1, <1>2, <1>3, <1>4

\* A statement is done.
LEMMA DoneTakes ==
    ASSUME TypeOK, PlansShaped, NEW r \in Requests, NEW kind, Runs(r, kind), Done(r)
    PROVE  PlansShaped' /\ Takes(r, Head(todo[r]))
BY NextPending, GoesOnWith DEF Done, Takes

\* One pass of a loop is done.
LEMMA LoopGoesOn ==
    ASSUME TypeOK, PlansShaped, NEW r \in Requests, NEW kind, Runs(r, kind),
           NEW rest, NEW next \in Statement, next.kind = kind, Loop(r, rest, next)
    PROVE  PlansShaped' /\ Goes(r, (Pend(r) \ {Head(todo[r])}) \cup Looped(rest, next))
<1> DEFINE s == Head(todo[r])
<1>1. /\ s.kind = kind /\ IsNext(r, s)
      /\ Pending(Tail(todo[r])) = Pend(r) \ {s}
      /\ Tail(todo[r]) \in Seq(Statement) /\ Shaped(Tail(todo[r]))
  BY NextPending
<1>2. CASE rest = {}
  <2>1. todo' = [todo EXCEPT ![r] = Tail(todo[r])]
    BY <1>2 DEF Loop
  <2> QED BY <2>1, <1>1, <1>2, GoesOnWith DEF Looped
<1>3. CASE rest # {}
  <2> DEFINE q == <<next>> \o Tail(todo[r])
  <2>1. todo' = [todo EXCEPT ![r] = q]
    BY <1>3 DEF Loop
  <2>2. \A b \in Pending(Tail(todo[r])) : MayFollow(next.kind, b.kind)
    BY <1>1 DEF IsNext
  <2>3. Shaped(q) /\ Pending(q) = {next} \cup (Pend(r) \ {s})
    <3> DEFINE tail == Tail(todo[r])
    <3>1. /\ tail \in Seq(Statement) /\ Shaped(tail) /\ Pending(tail) = Pend(r) \ {s}
          /\ \A b \in Pending(tail) : MayFollow(next.kind, b.kind)
      BY <1>1, <2>2
    <3> HIDE DEF tail
    <3>2. Shaped(<<next>> \o tail) /\ Pending(<<next>> \o tail) = {next} \cup Pending(tail)
      BY <3>1, PutBefore
    <3> QED BY <3>1, <3>2 DEF tail
  <2> HIDE DEF q
  <2>4. PlansShaped' /\ Goes(r, Pending(q))
    BY <2>1, <2>3, GoesOnWith
  <2> QED BY <2>3, <2>4, <1>3 DEF Looped
<1> QED BY <1>2, <1>3

\* The last statement of its plan.
LEMMA LastPending ==
    ASSUME NEW r, NEW s, IsNext(r, s),
           s.kind \in {"createHistory", "decide", "rejectOrderOf", "createItem", "sumItems",
                       "writeTotal"}
    PROVE  Pend(r) = {s}
BY DEF IsNext, MayFollow

\* A loop over S, as a plan.
LEMMA LoopedPending ==
    ASSUME NEW S, NEW s \in Statement
    PROVE  /\ LoopOver(S, s) \in Seq(Statement) /\ Shaped(LoopOver(S, s))
           /\ Pending(LoopOver(S, s)) = Looped(S, s)
BY OnePending, NothingPending, Short DEF LoopOver, Looped

\* An idle request has nothing pending.
LEMMA IdleHasNothing ==
    ASSUME NEW r, Idle(r)
    PROVE  Pend(r) = {}
BY NothingPending DEF Idle, Pend

\* A handler begins with the plan q.
LEMMA BeginsWith ==
    ASSUME TypeOK, PlansShaped, NEW r \in Requests, NEW q, Shaped(q), Begin(r, q)
    PROVE  PlansShaped' /\ Goes(r, Pending(q)) /\ UNCHANGED tables
BY GoesOnWith DEF Begin

\* A row that a method writes, and its history row, are statements.
LEMMA MoveTyped ==
    ASSUME TypeOK, NEW o \in Orders, NEW method \in Methods, NEW actor,
           Allows(Loaded(o), method, actor)
    PROVE  /\ Loaded(o) \in Order /\ Loaded(o).status = order[o].status
           /\ Loaded(o).mechanicId = order[o].mechanicId
           /\ ~Loaded(o).closedAt
           /\ Loaded(o).status \in ExpectedIn[method]
           /\ Update(o, Apply(Loaded(o), method)) \in Statement
           /\ Record(o, Loaded(o).status, ResultOf[method]) \in Statement
           /\ Update(o, Apply(Loaded(o), method)).kind = "updateOrder"
           /\ Record(o, Loaded(o).status, ResultOf[method]).kind = "createHistory"
<1>1. /\ Loaded(o) \in Order /\ Loaded(o).status = order[o].status
      /\ Loaded(o).mechanicId = order[o].mechanicId /\ ~Loaded(o).closedAt
  BY DEF TypeOK, Loaded, ToDomain, Order
<1>2. Loaded(o).status \in ExpectedIn[method]
  BY DEF Allows
<1>3. Loaded(o).status \in Statuses /\ ResultOf[method] \in Statuses
  BY <1>2, EdgeOfMethod
<1>4. Apply(Loaded(o), method) \in Order
  BY <1>1, ApplyTyped
<1> QED BY <1>1, <1>2, <1>3, <1>4 DEF Update, Record, Statement, HistoryRow

\* The rejection of an order's estimate.
LEMMA RejectStatementsPlan ==
    ASSUME TypeOK, NEW o \in Orders, Allows(Loaded(o), "rejectEstimate", NoMechanic)
    PROVE  /\ RejectStatements(o) \in Seq(Statement) /\ Shaped(RejectStatements(o))
           /\ Pending(RejectStatements(o)) = RejectPlan(o)
<1> DEFINE update == Update(o, Apply(Loaded(o), "rejectEstimate"))
           record == Record(o, Loaded(o).status, "IN_DIAGNOSIS")
           first  == <<update>>
           reject == LoopOver(PendingOf(o), Rejecting(PendingOf(o)))
           back   == LoopOver(PartItemsOf(PendingOf(o)), Returning(PartItemsOf(PendingOf(o))))
           last   == <<record>>
<1>1. "rejectEstimate" \in Methods /\ ResultOf["rejectEstimate"] = "IN_DIAGNOSIS"
  BY DEF Methods, ResultOf
<1>2. /\ update \in Statement /\ update.kind = "updateOrder"
      /\ record \in Statement /\ record.kind = "createHistory"
  BY <1>1, MoveTyped
<1>3. /\ Rejecting(PendingOf(o)) \in Statement
      /\ Rejecting(PendingOf(o)).kind = "rejectEstimates"
  BY DEF Rejecting, Statement, PendingOf, EstimatesOf
<1>4. /\ Returning(PartItemsOf(PendingOf(o))) \in Statement
      /\ Returning(PartItemsOf(PendingOf(o))).kind = "returnParts"
  BY DEF Returning, Statement, PartItemsOf
<1>5. RejectStatements(o) = first \o reject \o back \o last
  BY DEF RejectStatements, RejectEach, ReturnEach, Loaded, PendingOf, Rejecting, Returning
<1>6. RejectPlan(o) = {update} \cup Looped(PendingOf(o), Rejecting(PendingOf(o)))
                        \cup Looped(PartItemsOf(PendingOf(o)), Returning(PartItemsOf(PendingOf(o))))
                        \cup {record}
  BY <1>1 DEF RejectPlan, MovePlan
<1> HIDE DEF update, record
<1>7. /\ first \in Seq(Statement) /\ Shaped(first) /\ Pending(first) = {update}
      /\ last \in Seq(Statement) /\ Shaped(last) /\ Pending(last) = {record}
  BY <1>2, OnePending
<1>8. /\ reject \in Seq(Statement) /\ Shaped(reject)
      /\ Pending(reject) = Looped(PendingOf(o), Rejecting(PendingOf(o)))
      /\ \A y \in Pending(reject) : y.kind = "rejectEstimates"
  BY <1>3, LoopedPending DEF Looped
<1>9. /\ back \in Seq(Statement) /\ Shaped(back)
      /\ Pending(back) = Looped(PartItemsOf(PendingOf(o)), Returning(PartItemsOf(PendingOf(o))))
      /\ \A y \in Pending(back) : y.kind = "returnParts"
  BY <1>4, LoopedPending DEF Looped
<1> HIDE DEF first, reject, back, last
<1>10. /\ \A x \in Pending(first), y \in Pending(reject) : MayFollow(x.kind, y.kind)
       /\ \A x \in Pending(first) \cup Pending(reject), y \in Pending(back) :
            MayFollow(x.kind, y.kind)
       /\ \A x \in Pending(first) \cup Pending(reject) \cup Pending(back), y \in Pending(last) :
            MayFollow(x.kind, y.kind)
  BY <1>2, <1>7, <1>8, <1>9 DEF MayFollow
<1> DEFINE one == first \o reject
           two == one \o back
<1>11. one \in Seq(Statement) /\ Shaped(one) /\ Pending(one) = Pending(first) \cup Pending(reject)
  BY <1>7, <1>8, <1>10, JoinedPlans
<1> HIDE DEF one
<1>12. two \in Seq(Statement) /\ Shaped(two) /\ Pending(two) = Pending(one) \cup Pending(back)
  BY <1>9, <1>10, <1>11, JoinedPlans
<1> HIDE DEF two
<1>13. /\ two \o last \in Seq(Statement) /\ Shaped(two \o last)
       /\ Pending(two \o last) = Pending(two) \cup Pending(last)
  BY <1>7, <1>10, <1>11, <1>12, JoinedPlans
<1> QED BY <1>5, <1>6, <1>7, <1>8, <1>9, <1>11, <1>12, <1>13 DEF one, two

\* The decision of an estimate, once its order is loaded.
LEMMA DecisionStatementsPlan ==
    ASSUME TypeOK, NEW o \in Orders, NEW s \in Statement, s.kind = "decide",
           Allows(Loaded(o), DecisionMethod(s.status), NoMechanic)
    PROVE  /\ DecisionStatements(o, s) \in Seq(Statement) /\ Shaped(DecisionStatements(o, s))
           /\ Pending(DecisionStatements(o, s)) = DecisionPlan(o, s)
<1> DEFINE method == DecisionMethod(s.status)
           set    == SetStatus(s.estimate, s.status)
           update == Update(o, Apply(Loaded(o), method))
           record == Record(o, Loaded(o).status, ResultOf[method])
           first  == <<set, update>>
           back   == IF s.status = "REJECTED" THEN ReturnEach(s.items) ELSE <<>>
           last   == <<record>>
           backs  == IF s.status = "REJECTED" THEN Looped(s.items, Returning(s.items)) ELSE {}
<1>1. /\ s.estimate \in Estimates /\ s.status \in {"APPROVED", "REJECTED"}
      /\ s.items \in SUBSET PartItem
  BY DEF Statement
<1>2. method \in Methods
  BY DEF DecisionMethod, Methods
<1>3. /\ update \in Statement /\ update.kind = "updateOrder"
      /\ record \in Statement /\ record.kind = "createHistory"
  BY <1>2, MoveTyped
<1>4. set \in Statement /\ set.kind = "updateEstimate"
  BY <1>1 DEF SetStatus, Statement, EstimateStatuses
<1>5. Returning(s.items) \in Statement /\ Returning(s.items).kind = "returnParts"
  BY <1>1 DEF Returning, Statement
<1>6. DecisionStatements(o, s) = first \o back \o last
  BY DEF DecisionStatements, Loaded, SetStatus
<1>7. DecisionPlan(o, s) = {set, update} \cup backs \cup {record}
  BY DEF DecisionPlan, MovePlan
<1>8. /\ back \in Seq(Statement) /\ Shaped(back) /\ Pending(back) = backs
      /\ \A y \in Pending(back) : y.kind = "returnParts"
  <2>1. CASE s.status = "REJECTED"
    <3>1. back = LoopOver(s.items, Returning(s.items)) /\ backs = Looped(s.items, Returning(s.items))
      BY <2>1 DEF ReturnEach, Returning
    <3>2. /\ LoopOver(s.items, Returning(s.items)) \in Seq(Statement)
          /\ Shaped(LoopOver(s.items, Returning(s.items)))
          /\ Pending(LoopOver(s.items, Returning(s.items))) = Looped(s.items, Returning(s.items))
      BY <1>5, LoopedPending
    <3>3. \A y \in Looped(s.items, Returning(s.items)) : y.kind = "returnParts"
      BY <1>5 DEF Looped
    <3> HIDE DEF back, backs
    <3> QED BY <3>1, <3>2, <3>3
  <2>2. CASE s.status # "REJECTED"
    <3>1. back = <<>> /\ backs = {}
      BY <2>2
    <3> HIDE DEF back, backs
    <3> QED BY <3>1, NothingPending
  <2> QED BY <2>1, <2>2
<1> HIDE DEF method, set, update, record, back, backs
<1>9. first \in Seq(Statement) /\ Shaped(first) /\ Pending(first) = {set, update}
  <2>1. MayFollow(set.kind, update.kind)
    BY <1>3, <1>4 DEF MayFollow
  <2> QED BY <2>1, <1>3, <1>4, TwoPending, Short
<1>10. last \in Seq(Statement) /\ Shaped(last) /\ Pending(last) = {record}
  BY <1>3, OnePending
<1> HIDE DEF first, last
<1>11. \A x \in Pending(first), y \in Pending(back) : MayFollow(x.kind, y.kind)
  BY <1>3, <1>4, <1>8, <1>9 DEF MayFollow
<1>12. \A x \in Pending(first) \cup Pending(back), y \in Pending(last) : MayFollow(x.kind, y.kind)
  BY <1>3, <1>4, <1>8, <1>9, <1>10 DEF MayFollow
<1>13. first \o back \in Seq(Statement) /\ Shaped(first \o back)
       /\ Pending(first \o back) = Pending(first) \cup Pending(back)
  BY <1>8, <1>9, <1>11, JoinedPlans
<1> DEFINE most == first \o back
<1>14. most \in Seq(Statement) /\ Shaped(most) /\ Pending(most) = Pending(first) \cup Pending(back)
  BY <1>13
<1> HIDE DEF most
<1>15. most \o last \in Seq(Statement) /\ Shaped(most \o last)
       /\ Pending(most \o last) = Pending(most) \cup Pending(last)
  BY <1>10, <1>12, <1>14, JoinedPlans
<1> QED BY <1>6, <1>7, <1>8, <1>9, <1>10, <1>14, <1>15 DEF most

\* A handler that moves an order.
LEMMA MoveOrderDecides ==
    ASSUME TypeOK, PlansShaped, NEW r \in Requests, NEW o \in Orders, NEW method \in Methods,
           NEW actor \in Actors, MoveOrder(r, o, method, actor)
    PROVE  PlansShaped' /\ \E S : DecidesOn(S) /\ Goes(r, S)
<1> DEFINE update == Update(o, Apply(Loaded(o), method))
           record == Record(o, Loaded(o).status, ResultOf[method])
<1>1. Allows(Loaded(o), method, actor) /\ Begin(r, <<update, record>>)
  BY DEF MoveOrder, Loaded
<1>2. /\ update \in Statement /\ update.kind = "updateOrder"
      /\ record \in Statement /\ record.kind = "createHistory"
  BY <1>1, MoveTyped
<1>3. MovePlan(o, method) = {update, record}
  BY DEF MovePlan
<1> HIDE DEF update, record
<1>4. Pending(<<update, record>>) = {update, record} /\ Shaped(<<update, record>>)
  <2>1. MayFollow(update.kind, record.kind)
    BY <1>2 DEF MayFollow
  <2> QED BY <2>1, <1>2, TwoPending
<1> DEFINE q == <<update, record>>
<1>5. Begin(r, q) /\ Shaped(q) /\ Pending(q) = MovePlan(o, method)
  BY <1>1, <1>3, <1>4
<1> HIDE DEF q
<1>6. PlansShaped' /\ Goes(r, MovePlan(o, method))
  BY <1>5, BeginsWith
<1> QED BY <1>1, <1>6 DEF DecidesOn

\* One statement to run.
LEMMA BeginsOne ==
    ASSUME TypeOK, PlansShaped, NEW r \in Requests, NEW s, Begin(r, <<s>>)
    PROVE  PlansShaped' /\ Goes(r, {s})
<1> DEFINE q == <<s>>
<1>1. Pending(q) = {s} /\ Shaped(q) /\ Begin(r, q)
  BY OnePending
<1> HIDE DEF q
<1> QED BY <1>1, BeginsWith

\* Assigning a mechanic decides on one write of the row.
LEMMA AssignMechanicDecides ==
    ASSUME TypeOK, PlansShaped, NEW r \in Requests, NEW o \in Orders,
           NEW mechanic \in Mechanics, AssignMechanicTo(r, o, mechanic)
    PROVE  PlansShaped' /\ \E S : DecidesOn(S) /\ Goes(r, S)
<1> DEFINE update == Update(o, AssignMechanic(Loaded(o), mechanic))
<1>1. order[o].status = "RECEIVED" /\ Begin(r, <<update>>)
  BY DEF AssignMechanicTo, CanAssignMechanic, Loaded, ToDomain, TypeOK, Order
<1>2. DecidesOn({update})
  BY <1>1 DEF DecidesOn
<1> HIDE DEF update
<1> QED BY <1>1, <1>2, BeginsOne

\* Issuing an estimate decides on the move of the order and on the insertion.
LEMMA CreateEstimateDecides ==
    ASSUME TypeOK, PlansShaped, NEW r \in Requests, NEW o \in Orders, CreateEstimate(r, o)
    PROVE  PlansShaped' /\ \E S : DecidesOn(S) /\ Goes(r, S)
<1> DEFINE insert == Insert(o)
           update == Update(o, Apply(Loaded(o), "requestApproval"))
           record == Record(o, Loaded(o).status, "WAITING_APPROVAL")
           first  == <<insert, update, record>>
           second == <<update, insert, record>>
<1>1. Allows(Loaded(o), "requestApproval", NoMechanic) /\ (Begin(r, first) \/ Begin(r, second))
  BY DEF CreateEstimate, Loaded, Insert
<1>2. "requestApproval" \in Methods /\ ResultOf["requestApproval"] = "WAITING_APPROVAL"
  BY DEF Methods, ResultOf
<1>3. /\ update \in Statement /\ update.kind = "updateOrder"
      /\ record \in Statement /\ record.kind = "createHistory"
      /\ insert \in Statement /\ insert.kind = "createEstimate"
  BY <1>1, <1>2, MoveTyped DEF Insert, Statement
<1>4. DecidesOn({insert, update, record})
  BY <1>1, <1>2 DEF DecidesOn, MovePlan
<1> HIDE DEF insert, update, record
<1>5. /\ MayFollow(insert.kind, update.kind) /\ MayFollow(update.kind, insert.kind)
      /\ MayFollow(insert.kind, record.kind) /\ MayFollow(update.kind, record.kind)
  BY <1>3 DEF MayFollow
<1>6. Pending(first) = {insert, update, record} /\ Shaped(first)
  BY <1>3, <1>5, ThreePending
<1>7. Pending(second) = {update, insert, record} /\ Shaped(second)
  BY <1>3, <1>5, ThreePending
<1> HIDE DEF first, second
<1> QED BY <1>1, <1>4, <1>6, <1>7, BeginsWith

\* Rejecting an order decides on its move, on its estimates and on their parts.
LEMMA RejectEstimateDecides ==
    ASSUME TypeOK, PlansShaped, NEW r \in Requests, NEW o \in Orders, RejectEstimate(r, o)
    PROVE  PlansShaped' /\ \E S : DecidesOn(S) /\ Goes(r, S)
<1>1. Allows(Loaded(o), "rejectEstimate", NoMechanic) /\ Begin(r, RejectStatements(o))
  BY DEF RejectEstimate, Loaded
<1>2. PlansShaped' /\ Goes(r, RejectPlan(o))
  BY <1>1, RejectStatementsPlan, BeginsWith
<1> QED BY <1>1, <1>2 DEF DecidesOn

\* PATCH status decides on a decision, or on a mere change of the status.
LEMMA UpdateEstimateStatusDecides ==
    ASSUME TypeOK, PlansShaped, NEW r \in Requests, NEW e \in Estimates,
           NEW status \in EstimateStatuses, UpdateEstimateStatus(r, e, status),
           status # "APPROVED" => "patchEstimateStatus" \in Operations
    PROVE  PlansShaped' /\ \E S : DecidesOn(S) /\ Goes(r, S)
<1> DEFINE decide == Decide(e, status, PartItemsOf({e}))
           set    == SetStatus(e, status)
<1>1. /\ Issued(e) /\ estimate[e].status # "APPROVED"
      /\ \/ status \in {"APPROVED", "REJECTED"} /\ Begin(r, <<decide>>)
         \/ status \in {"PENDING", "NEGOTIATED"} /\ Begin(r, <<set>>)
  BY DEF UpdateEstimateStatus, Decide, SetStatus
<1>2. status \in {"APPROVED", "REJECTED"} => DecidesOn({decide})
  BY <1>1 DEF DecidesOn
<1>3. status \in {"PENDING", "NEGOTIATED"} => DecidesOn({set})
  BY <1>1 DEF DecidesOn
<1> HIDE DEF decide, set
<1> QED BY <1>1, <1>2, <1>3, BeginsOne

\* A notified decision approves the estimate, or rejects its order.
LEMMA ReceiveExternalDecisionDecides ==
    ASSUME TypeOK, PlansShaped, NEW r \in Requests, NEW e \in Estimates,
           NEW decision \in {"APPROVED", "REJECTED"}, ReceiveExternalDecision(r, e, decision)
    PROVE  PlansShaped' /\ \E S : DecidesOn(S) /\ Goes(r, S)
<1> DEFINE reject == RejectOrder(e)
<1>1. CASE decision = "APPROVED"
  BY <1>1, UpdateEstimateStatusDecides DEF ReceiveExternalDecision, EstimateStatuses
<1>2. CASE decision = "REJECTED"
  <2>1. Issued(e) /\ Begin(r, <<reject>>)
    BY <1>2 DEF ReceiveExternalDecision, RejectOrder
  <2>2. DecidesOn({reject})
    BY <2>1 DEF DecidesOn
  <2> HIDE DEF reject
  <2> QED BY <2>1, <2>2, BeginsOne
<1> QED BY <1>1, <1>2

\* Adding an item decides on the item, and on taking the parts before.
LEMMA AddEstimateItemDecides ==
    ASSUME TypeOK, PlansShaped, NEW r \in Requests, NEW e \in Estimates \cup {NoEstimate},
           NEW ref \in References, NEW q \in 1 .. MaxQuantity, AddEstimateItem(r, e, ref, q)
    PROVE  PlansShaped' /\ \E S : DecidesOn(S) /\ Goes(r, S)
<1> DEFINE create == Create(e, ref, q)
           take   == Take(ref, q)
<1>1. /\ e # NoEstimate => Issued(e)
      /\ \/ ref \in Services /\ Begin(r, <<create>>)
         \/ ref \in Parts /\ Begin(r, <<take>> \o <<create>>)
  BY DEF AddEstimateItem, Create, Take
<1>2. CASE ref \in Services /\ Begin(r, <<create>>)
  <2>1. DecidesOn({create})
    BY <1>1, <1>2 DEF DecidesOn
  <2> HIDE DEF create
  <2> QED BY <1>2, <2>1, BeginsOne
<1>3. CASE ref \in Parts /\ Begin(r, <<take>> \o <<create>>)
  <2>1. DecidesOn({take, create})
    BY <1>1, <1>3 DEF DecidesOn
  <2>2. /\ create \in Statement /\ create.kind = "createItem"
        /\ take \in Statement /\ take.kind = "decrementStock"
    BY <1>3 DEF Create, Take, Statement
  <2> HIDE DEF create, take
  <2> DEFINE last == <<create>>
  <2>3. last \in Seq(Statement) /\ Pending(last) = {create} /\ Shaped(last)
    BY <2>2, OnePending
  <2>4. Begin(r, <<take>> \o last) /\ \A b \in Pending(last) : MayFollow(take.kind, b.kind)
    BY <1>3, <2>2, <2>3 DEF MayFollow
  <2> HIDE DEF last
  <2> DEFINE plan == <<take>> \o last
  <2>5. Pending(plan) = {take, create} /\ Shaped(plan)
    BY <2>2, <2>3, <2>4, PutBefore
  <2>6. Begin(r, plan)
    BY <2>4
  <2> HIDE DEF plan
  <2> QED BY <2>1, <2>5, <2>6, BeginsWith
<1> QED BY <1>1, <1>2, <1>3

\* A handler decides on a plan and changes no table.
LEMMA HandleDecides ==
    ASSUME TypeOK, PlansShaped, NEW r \in Requests, Handle(r)
    PROVE  /\ PlansShaped' /\ UNCHANGED tables /\ Pend(r) = {}
           /\ \E S : DecidesOn(S) /\ Goes(r, S)
<1>1. UNCHANGED tables /\ Idle(r)
  BY DEF Handle, StartDiagnosis, StartService, DeliverVehicle, CloseServiceOrder, CreateEstimate,
         RejectEstimate, AssignMechanicTo, FinishService, UpdateServiceOrderStatus, MoveOrder,
         PatchEstimateStatus, UpdateEstimateStatus, ReceiveExternalDecision, AddEstimateItem, Begin
<1>2. {"startDiagnosis", "startService", "finish", "deliverVehicle", "close"} \subseteq Methods
      /\ NoMechanic \in Actors
  BY DEF Methods, Actors
<1>3. ASSUME NEW o \in Orders,
             \/ StartDiagnosis(r, o) \/ StartService(r, o) \/ DeliverVehicle(r, o)
             \/ CloseServiceOrder(r, o) \/ \E actor \in Actors : FinishService(r, o, actor)
      PROVE  PlansShaped' /\ \E S : DecidesOn(S) /\ Goes(r, S)
  <2>1. PICK method \in Methods, actor \in Actors : MoveOrder(r, o, method, actor)
    BY <1>2, <1>3 DEF StartDiagnosis, StartService, DeliverVehicle, CloseServiceOrder, FinishService
  <2> QED BY <2>1, MoveOrderDecides
<1>4. ASSUME NEW o \in Orders, NEW target \in UpdateTargets, NEW actor \in Actors,
             UpdateServiceOrderStatus(r, o, target, actor)
      PROVE  PlansShaped' /\ \E S : DecidesOn(S) /\ Goes(r, S)
  <2> DEFINE method == MethodFor(ToDomain(order[o]), target)
  <2>1. method \in Methods
    <3>1. target \in {"IN_DIAGNOSIS", "WAITING_APPROVAL", "IN_EXECUTION", "FINISHED",
                      "DELIVERED", "CLOSED"}
      BY DEF UpdateTargets, Statuses
    <3> QED BY <3>1 DEF MethodFor, Methods
  <2>2. MoveOrder(r, o, method, actor)
    BY <1>4 DEF UpdateServiceOrderStatus
  <2> HIDE DEF method
  <2> QED BY <2>1, <2>2, MoveOrderDecides
<1>5. ASSUME NEW e \in Estimates, NEW status \in EstimateStatuses, PatchEstimateStatus(r, e, status)
      PROVE  PlansShaped' /\ \E S : DecidesOn(S) /\ Goes(r, S)
  BY <1>5, UpdateEstimateStatusDecides DEF PatchEstimateStatus
<1>6. PlansShaped' /\ \E S : DecidesOn(S) /\ Goes(r, S)
  BY <1>3, <1>4, <1>5, CreateEstimateDecides, RejectEstimateDecides, AssignMechanicDecides,
     ReceiveExternalDecisionDecides, AddEstimateItemDecides
  DEF Handle
<1> QED BY <1>1, <1>6, IdleHasNothing

\* A request that stops has nothing pending any more.
LEMMA ThrowStops ==
    ASSUME TypeOK, PlansShaped, NEW r \in Requests, Throw(r)
    PROVE  PlansShaped' /\ Goes(r, {})
<1> DEFINE q == <<>>
<1>1. Pending(q) = {} /\ Shaped(q) /\ todo' = [todo EXCEPT ![r] = q]
  BY NothingPending DEF Throw
<1> HIDE DEF q
<1> QED BY <1>1, GoesOnWith

\* Writing the row of an order takes that statement off the plan.
LEMMA UpdateOrderDoes ==
    ASSUME TypeOK, PlansShaped, NEW r \in Requests, UpdateOrder(r)
    PROVE  PlansShaped' /\ \E s \in Statement : WritesOrder(r, s)
<1>1. Head(todo[r]) \in Statement /\ Head(todo[r]).kind = "updateOrder"
  BY NextPending DEF UpdateOrder
<1>2. PlansShaped' /\ Takes(r, Head(todo[r]))
  BY DoneTakes DEF UpdateOrder
<1> QED BY <1>1, <1>2 DEF UpdateOrder, WritesOrder

\* Adding a history row takes that statement off the plan.
LEMMA CreateStatusHistoryDoes ==
    ASSUME TypeOK, PlansShaped, NEW r \in Requests, CreateStatusHistory(r)
    PROVE  PlansShaped' /\ \E s \in Statement : AddsHistory(r, s)
<1>1. Head(todo[r]) \in Statement /\ Head(todo[r]).kind = "createHistory"
  BY NextPending DEF CreateStatusHistory
<1>2. PlansShaped' /\ Takes(r, Head(todo[r]))
  BY DoneTakes DEF CreateStatusHistory
<1> QED BY <1>1, <1>2 DEF CreateStatusHistory, AddsHistory

\* Inserting an estimate issues one that was not issued.
LEMMA InsertEstimateDoes ==
    ASSUME TypeOK, PlansShaped, NEW r \in Requests, NEW e \in Estimates, InsertEstimate(r, e)
    PROVE  PlansShaped' /\ \E s \in Statement : IssuesEstimate(r, s, e)
<1>1. Head(todo[r]) \in Statement /\ Head(todo[r]).kind = "createEstimate"
  BY NextPending DEF InsertEstimate
<1>2. PlansShaped' /\ Takes(r, Head(todo[r]))
  BY DoneTakes DEF InsertEstimate
<1> QED BY <1>1, <1>2 DEF InsertEstimate, IssuesEstimate

\* Writing the status of an estimate takes that statement off the plan.
LEMMA SetEstimateStatusDoes ==
    ASSUME TypeOK, PlansShaped, NEW r \in Requests, SetEstimateStatus(r)
    PROVE  PlansShaped' /\ \E s \in Statement : SetsStatus(r, s)
<1>1. Head(todo[r]) \in Statement /\ Head(todo[r]).kind = "updateEstimate"
  BY NextPending DEF SetEstimateStatus
<1>2. PlansShaped' /\ Takes(r, Head(todo[r]))
  BY DoneTakes DEF SetEstimateStatus
<1> QED BY <1>1, <1>2 DEF SetEstimateStatus, SetsStatus

\* The loop over estimates rejects one of them, and goes on with the others.
LEMMA RejectNextEstimateDoes ==
    ASSUME TypeOK, PlansShaped, NEW r \in Requests, NEW e \in Estimates, RejectNextEstimate(r, e)
    PROVE  PlansShaped' /\ \E s \in Statement : RejectsOne(r, s, e)
<1> DEFINE s    == Head(todo[r])
           rest == s.estimates \ {e}
           next == Rejecting(rest)
<1>1. s \in Statement /\ s.kind = "rejectEstimates" /\ IsNext(r, s)
  BY NextPending DEF RejectNextEstimate
<1>2. next \in Statement /\ next.kind = "rejectEstimates"
  BY <1>1 DEF Rejecting, Statement
<1>3. Loop(r, rest, next) /\ Runs(r, "rejectEstimates")
  BY DEF RejectNextEstimate, Rejecting
<1>4. PlansShaped' /\ Goes(r, (Pend(r) \ {s}) \cup Looped(rest, next))
  <2> HIDE DEF next, rest
  <2> QED BY <1>2, <1>3, LoopGoesOn
<1> QED BY <1>1, <1>4 DEF RejectNextEstimate, RejectsOne

\* The loop over parts returns one of them, and goes on with the others.
LEMMA ReturnNextPartDoes ==
    ASSUME TypeOK, PlansShaped, NEW r \in Requests, NEW i \in PartItem, ReturnNextPart(r, i)
    PROVE  PlansShaped' /\ \E s \in Statement : ReturnsOne(r, s, i)
<1> DEFINE s    == Head(todo[r])
           rest == s.items \ {i}
           next == Returning(rest)
<1>1. s \in Statement /\ s.kind = "returnParts" /\ IsNext(r, s)
  BY NextPending DEF ReturnNextPart
<1>2. next \in Statement /\ next.kind = "returnParts"
  BY <1>1 DEF Returning, Statement
<1>3. Loop(r, rest, next) /\ Runs(r, "returnParts")
  BY DEF ReturnNextPart, Returning
<1>4. PlansShaped' /\ Goes(r, (Pend(r) \ {s}) \cup Looped(rest, next))
  <2> HIDE DEF next, rest
  <2> QED BY <1>2, <1>3, LoopGoesOn
<1> QED BY <1>1, <1>4 DEF ReturnNextPart, ReturnsOne

\* A decision, or a rejection, that loads its order goes on or throws.
LEMMA DecideEstimateDoes ==
    ASSUME IInv, PlansShaped, NEW r \in Requests, DecideEstimate(r)
    PROVE  PlansShaped' /\ (Stops(r) \/ \E s \in Statement : LoadsAgain(r, s))
<1> DEFINE s == Head(todo[r])
           o == estimate[s.estimate].serviceOrder
<1>1. TypeOK
  BY SoundIsTyped
<1>2. s \in Statement /\ s.kind = "decide" /\ Pend(r) = {s}
  BY <1>1, NextPending, LastPending DEF DecideEstimate
<1>3. o \in Orders
  <2>1. Sound(s)
    BY NextStatement DEF DecideEstimate, IInv
  <2> QED BY <1>2, <2>1 DEF Sound, Statement, IInv, EstimatesSound
<1>4. CASE Allows(ToDomain(order[o]), DecisionMethod(s.status), NoMechanic)
  <2>1. Begin(r, DecisionStatements(o, s)) /\ Allows(Loaded(o), DecisionMethod(s.status), NoMechanic)
    BY <1>4 DEF DecideEstimate, Loaded
  <2> HIDE DEF s, o
  <2>2. PlansShaped' /\ Goes(r, DecisionPlan(o, s)) /\ UNCHANGED tables
    BY <1>1, <1>2, <1>3, <2>1, DecisionStatementsPlan, BeginsWith
  <2>3. LoadsAgain(r, s)
    BY <1>2, <2>1, <2>2 DEF LoadsAgain, o
  <2> QED BY <1>2, <2>2, <2>3
<1>5. CASE ~Allows(ToDomain(order[o]), DecisionMethod(s.status), NoMechanic)
  BY <1>1, <1>2, <1>5, ThrowStops DEF DecideEstimate, Stops
<1> QED BY <1>4, <1>5

\* A notified rejection loads the order, and stops when it cannot be rejected.
LEMMA RejectOrderOfDoes ==
    ASSUME IInv, PlansShaped, NEW r \in Requests, RejectOrderOf(r)
    PROVE  PlansShaped' /\ (Stops(r) \/ \E s \in Statement : LoadsAgain(r, s))
<1> DEFINE s == Head(todo[r])
           o == estimate[s.estimate].serviceOrder
<1>1. TypeOK
  BY SoundIsTyped
<1>2. s \in Statement /\ s.kind = "rejectOrderOf" /\ Pend(r) = {s}
  BY <1>1, NextPending, LastPending DEF RejectOrderOf
<1>3. o \in Orders
  <2>1. Sound(s)
    BY NextStatement DEF RejectOrderOf, IInv
  <2> QED BY <1>2, <2>1 DEF Sound, Statement, IInv, EstimatesSound
<1>4. CASE Allows(ToDomain(order[o]), "rejectEstimate", NoMechanic)
  <2>1. Begin(r, RejectStatements(o)) /\ Allows(Loaded(o), "rejectEstimate", NoMechanic)
    BY <1>4 DEF RejectOrderOf, Loaded
  <2> HIDE DEF s, o
  <2>2. PlansShaped' /\ Goes(r, RejectPlan(o)) /\ UNCHANGED tables
    BY <1>1, <1>3, <2>1, RejectStatementsPlan, BeginsWith
  <2>3. LoadsAgain(r, s)
    BY <1>2, <2>1, <2>2 DEF LoadsAgain, o
  <2> QED BY <1>2, <2>2, <2>3
<1>5. CASE ~Allows(ToDomain(order[o]), "rejectEstimate", NoMechanic)
  BY <1>1, <1>2, <1>5, ThrowStops DEF RejectOrderOf, Stops
<1> QED BY <1>4, <1>5

\* Parts are taken when the stock suffices; else the request stops.
LEMMA DecrementStockDoes ==
    ASSUME TypeOK, PlansShaped, NEW r \in Requests, DecrementStock(r)
    PROVE  PlansShaped' /\ (Stops(r) \/ \E s \in Statement : TakesStock(r, s))
<1> DEFINE s == Head(todo[r])
<1>1. s \in Statement /\ s.kind = "decrementStock" /\ IsNext(r, s)
  BY NextPending DEF DecrementStock
<1>2. CASE stock[s.part] >= s.quantity
  <2>1. PlansShaped' /\ Takes(r, s)
    BY <1>2, DoneTakes DEF DecrementStock
  <2> QED BY <1>1, <1>2, <2>1 DEF DecrementStock, TakesStock
<1>3. CASE ~(stock[s.part] >= s.quantity)
  <2>1. Throw(r) /\ UNCHANGED tables
    BY <1>3 DEF DecrementStock, tables
  <2>2. \A t \in Pend(r) : t.kind \in {"decrementStock", "createItem"}
    BY <1>1 DEF IsNext, MayFollow
  <2> QED BY <2>1, <2>2, ThrowStops DEF Stops
<1> QED BY <1>2, <1>3

\* An item is inserted, or the request stops where its row exists.
LEMMA CreateItemDoes ==
    ASSUME TypeOK, PlansShaped, NEW r \in Requests, CreateItem(r)
    PROVE  PlansShaped' /\ (Stops(r) \/ \E s \in Statement : InsertsItem(r, s))
<1> DEFINE s  == Head(todo[r])
           su == SumUp(s.estimate)
<1>1. s \in Statement /\ s.kind = "createItem" /\ Pend(r) = {s}
  BY NextPending, LastPending DEF CreateItem
<1>2. CASE s.estimate \in Estimates /\ item[s.estimate][s.ref] = 0
  <2>1. /\ item' = [item EXCEPT ![s.estimate][s.ref] = s.quantity]
        /\ todo' = [todo EXCEPT ![r] = <<su>>]
        /\ UNCHANGED <<order, estimate, stock, history>>
    BY <1>2 DEF CreateItem, SumUp
  <2> HIDE DEF su
  <2> DEFINE q == <<su>>
  <2>2. Pending(q) = {su} /\ Shaped(q) /\ todo' = [todo EXCEPT ![r] = q]
    BY <2>1, OnePending
  <2> HIDE DEF q
  <2>3. PlansShaped' /\ Goes(r, {su})
    BY <2>2, GoesOnWith
  <2> QED BY <1>1, <1>2, <2>1, <2>3 DEF InsertsItem, su
<1>3. CASE ~(s.estimate \in Estimates /\ item[s.estimate][s.ref] = 0)
  BY <1>1, <1>3, ThrowStops DEF CreateItem, Stops, tables
<1> QED BY <1>2, <1>3

\* The sum is taken of the items as they are.
LEMMA SumItemsDoes ==
    ASSUME TypeOK, PlansShaped, NEW r \in Requests, SumItems(r)
    PROVE  PlansShaped' /\ \E s \in Statement : SumsUp(r, s)
<1> DEFINE s  == Head(todo[r])
           su == WriteSum(s.estimate, item[s.estimate])
<1>1. s \in Statement /\ s.kind = "sumItems" /\ Pend(r) = {s}
  BY NextPending, LastPending DEF SumItems
<1>2. Begin(r, <<su>>)
  BY DEF SumItems, WriteSum
<1>3. PlansShaped' /\ Goes(r, {su})
  <2> HIDE DEF su
  <2> QED BY <1>2, BeginsOne
<1> QED BY <1>1, <1>2, <1>3 DEF SumsUp, Begin

\* The total is the last thing a request writes.
LEMMA WriteTotalDoes ==
    ASSUME TypeOK, PlansShaped, NEW r \in Requests, WriteTotal(r)
    PROVE  PlansShaped' /\ \E s \in Statement : WritesTotal(r, s)
<1>1. Head(todo[r]) \in Statement /\ Head(todo[r]).kind = "writeTotal" /\ Pend(r) = {Head(todo[r])}
  BY NextPending, LastPending DEF WriteTotal
<1>2. PlansShaped' /\ Takes(r, Head(todo[r]))
  BY DoneTakes DEF WriteTotal
<1>3. Goes(r, {})
  BY <1>1, <1>2 DEF Takes
<1> QED BY <1>1, <1>2, <1>3 DEF WriteTotal, WritesTotal

\* A request in flight runs its next statement, or stops.
LEMMA RunDoes ==
    ASSUME IInv, PlansShaped, NEW r \in Requests, Run(r)
    PROVE  PlansShaped' /\ (Stops(r) \/ \E s \in Statement : Does(r, s))
<1>1. TypeOK
  BY SoundIsTyped
<1>2. ASSUME Fail(r) PROVE PlansShaped' /\ Stops(r)
  BY <1>1, <1>2, ThrowStops DEF Fail, Stops
<1>3. ASSUME UpdateOrder(r) \/ CreateStatusHistory(r) \/ SetEstimateStatus(r)
      PROVE  PlansShaped' /\ \E s \in Statement : Does(r, s)
  BY <1>1, <1>3, UpdateOrderDoes, CreateStatusHistoryDoes, SetEstimateStatusDoes DEF Does
<1>4. ASSUME NEW e \in Estimates, InsertEstimate(r, e) \/ RejectNextEstimate(r, e)
      PROVE  PlansShaped' /\ \E s \in Statement : Does(r, s)
  BY <1>1, <1>4, InsertEstimateDoes, RejectNextEstimateDoes DEF Does
<1>5. ASSUME NEW i \in PartItem, ReturnNextPart(r, i)
      PROVE  PlansShaped' /\ \E s \in Statement : Does(r, s)
  BY <1>1, <1>5, ReturnNextPartDoes DEF Does
<1>6. ASSUME DecideEstimate(r) \/ RejectOrderOf(r)
      PROVE  PlansShaped' /\ (Stops(r) \/ \E s \in Statement : Does(r, s))
  BY <1>6, DecideEstimateDoes, RejectOrderOfDoes DEF Does
<1>7. ASSUME DecrementStock(r) \/ CreateItem(r)
      PROVE  PlansShaped' /\ (Stops(r) \/ \E s \in Statement : Does(r, s))
  BY <1>1, <1>7, DecrementStockDoes, CreateItemDoes DEF Does
<1>8. ASSUME SumItems(r) \/ WriteTotal(r)
      PROVE  PlansShaped' /\ \E s \in Statement : Does(r, s)
  BY <1>1, <1>8, SumItemsDoes, WriteTotalDoes DEF Does
<1> QED BY <1>2, <1>3, <1>4, <1>5, <1>6, <1>7, <1>8 DEF Run

\* What the inductive invariant of soundness says of the statements pending.
LEMMA PendingSound ==
    ASSUME IInv, NEW r \in Requests, NEW s \in Pend(r)
    PROVE  /\ s \in Statement
           /\ s.kind = "createHistory" => Opened(s.order)
           /\ s.kind # "createHistory" => Sound(s)
<1>1. todo[r] \in Plans
  BY DEF IInv, TodoSound
<1>2. CASE todo[r] \in Seq(SoundStatements)
  <2>1. s \in SoundStatements
    BY <1>2, PendingTyped DEF Pend
  <2> QED BY <2>1 DEF SoundStatements, Sound
<1>3. CASE todo[r] \in ClosingPlans
  <2>1. PICK o \in {p \in Orders : Opened(p)},
             row \in {x \in Order : x.closedAt /\ x.status # Unopened /\ NamesMechanic(x)} :
                todo[r] = <<Update(o, row), Record(o, "DELIVERED", "CLOSED")>>
    BY <1>3 DEF ClosingPlans
  <2> DEFINE update == Update(o, row)
             record == Record(o, "DELIVERED", "CLOSED")
  <2>2. update \in Statement /\ record \in Statement
    BY DEF Update, Record, Statement, HistoryRow, Statuses
  <2>3. update.kind = "updateOrder" /\ record.kind = "createHistory" /\ record.order = o
    BY DEF Update, Record
  <2>4. Sound(update)
    BY DEF Update, Sound, IsDated
  <2> HIDE DEF update, record
  <2>5. MayFollow(update.kind, record.kind)
    BY <2>3 DEF MayFollow
  <2>6. Pending(<<update, record>>) = {update, record}
    BY <2>2, <2>5, TwoPending
  <2> DEFINE q == <<update, record>>
  <2>7. todo[r] = q /\ Pending(q) = {update, record}
    BY <2>1, <2>6 DEF update, record
  <2> HIDE DEF q
  <2>8. s \in {update, record}
    BY <2>7 DEF Pend
  <2> QED BY <2>2, <2>3, <2>4, <2>8
<1> QED BY <1>1, <1>2, <1>3 DEF Plans

-----------------------------------------------------------------------------
(***************************************************************************)
(* What is on record when no request fails.  A request that has issued an  *)
(* estimate, or approved one, still owes the history row of the move; the  *)
(* invariant says that what is not on record yet is pending.               *)
(***************************************************************************)
Traced(o, from, to) ==
    Moves(o, from, to) # {} \/ \E r \in Requests : Record(o, from, to) \in Pend(r)

IssueRecord(o) == Record(o, "IN_DIAGNOSIS", "WAITING_APPROVAL")

ApprovalRecord(o) == Record(o, "WAITING_APPROVAL", "IN_EXECUTION")

Approves(o) == Traced(o, "WAITING_APPROVAL", "IN_EXECUTION")

IssueMoves(o) == Moves(o, "IN_DIAGNOSIS", "WAITING_APPROVAL")

\* The requests that have inserted their estimate, if they issue one at all, and have
\* the history row of it pending.
Owed(o) == {r \in Requests : IssueRecord(o) \in Pend(r) /\ Insert(o) \notin Pend(r)}

IssuedToOpened == \A e \in Estimates : Issued(e) => Opened(estimate[e].serviceOrder)

\* Every request keeps its promises: the row of what it is about to write is pending
\* with it.
Promised(S) ==
    /\ \A o \in Orders : Insert(o) \in S => Opened(o) /\ IssueRecord(o) \in S
    /\ \A e \in Estimates : SetStatus(e, "APPROVED") \in S
            => ApprovalRecord(estimate[e].serviceOrder) \in S

ApprovalsTraced ==
    \A e \in Estimates : estimate[e].status = "APPROVED" => Approves(estimate[e].serviceOrder)

Counted(o) ==
    /\ IsFiniteSet(EstimatesOf(o)) /\ IsFiniteSet(Owed(o))
    /\ Cardinality(EstimatesOf(o)) <= Cardinality(IssueMoves(o)) + Cardinality(Owed(o))

RecordsInv ==
    /\ PlansShaped
    /\ IssuedToOpened
    /\ \A r \in Requests : Promised(Pend(r))
    /\ ApprovalsTraced
    /\ \A o \in Orders : Counted(o)

\* A set and the same set with one element more.
LEMMA GrowsByOne ==
    ASSUME NEW S, IsFiniteSet(S), NEW T, NEW x, T = S \/ T = S \cup {x}
    PROVE  /\ IsFiniteSet(T) /\ Cardinality(S) \in Nat /\ Cardinality(T) \in Nat
           /\ Cardinality(S) <= Cardinality(T)
           /\ T = S \cup {x} /\ x \notin S => Cardinality(T) = Cardinality(S) + 1
<1>1. Cardinality(S) \in Nat
  BY FS_CardinalityType
<1>2. CASE T = S
  BY <1>1, <1>2
<1>3. CASE T = S \cup {x} /\ x \notin S
  <2>1. IsFiniteSet(T) /\ Cardinality(T) = Cardinality(S) + 1
    BY <1>3, FS_AddElement
  <2> QED BY <1>1, <2>1
<1> QED BY <1>2, <1>3

\* The places of a value in a sequence: Moves is Places of a history row.
Places(q, value) == {i \in 1 .. Len(q) : q[i] = value}

\* A sequence has finitely many places.
LEMMA PlacesFinite ==
    ASSUME NEW S, NEW q \in Seq(S), NEW value
    PROVE  IsFiniteSet(Places(q, value)) /\ Cardinality(Places(q, value)) \in Nat
<1>1. IsFiniteSet(1 .. Len(q))
  BY FS_Interval
<1>2. IsFiniteSet(Places(q, value))
  BY <1>1, FS_Subset DEF Places
<1> QED BY <1>2, FS_CardinalityType

\* The moves between two statuses in a history are finitely many.
LEMMA MovesFinite ==
    ASSUME TypeOK, NEW o \in Orders, NEW from, NEW to
    PROVE  IsFiniteSet(Moves(o, from, to)) /\ Cardinality(Moves(o, from, to)) \in Nat
<1> DEFINE value == [from |-> from, to |-> to]
<1>1. history[o] \in Seq(HistoryRow)
  BY DEF TypeOK
<1>2. Moves(o, from, to) = Places(history[o], value)
  BY DEF Moves, Places
<1> HIDE DEF value
<1> QED BY <1>1, <1>2, PlacesFinite

\* An appended value has one place more; the others keep theirs.
LEMMA PlacesAppended ==
    ASSUME NEW S, NEW q \in Seq(S), NEW row \in S, NEW value
    PROVE  /\ Places(q, value) \subseteq Places(Append(q, row), value)
           /\ row = value
                => \E i : i \notin Places(q, value)
                          /\ Places(Append(q, row), value) = Places(q, value) \cup {i}
<1> DEFINE n == Len(q)
           longer == Append(q, row)
<1>1. /\ n \in Nat /\ Len(longer) = n + 1 /\ longer[n + 1] = row
      /\ \A i \in 1 .. n : longer[i] = q[i]
  OBVIOUS
<1> HIDE DEF longer
<1>2. \A i \in 1 .. n + 1 : i \in 1 .. n \/ i = n + 1
  BY <1>1
<1>3. Places(q, value) \subseteq Places(longer, value)
  BY <1>1 DEF Places
<1>4. row = value => /\ n + 1 \notin Places(q, value)
                     /\ Places(longer, value) = Places(q, value) \cup {n + 1}
  BY <1>1, <1>2 DEF Places
<1> QED BY <1>3, <1>4 DEF longer

\* A step that touches no record: it may write an order, a status that is traced or
\* no longer promised, an item, the stock or a total.
LEMMA NoRecordStep ==
    ASSUME TypeOK, RecordsInv, PlansShaped', UNCHANGED history,
           \A o \in Orders : Opened(o) => Opened(o)',
           \A e \in Estimates : /\ Issued(e)' <=> Issued(e)
                                /\ estimate'[e].serviceOrder = estimate[e].serviceOrder
                                /\ estimate'[e].status = "APPROVED"
                                    => \/ estimate[e].status = "APPROVED"
                                       \/ Approves(estimate[e].serviceOrder),
           EstimatesSound,
           \A p \in Requests : \A s \in Statement :
                /\ s.kind \in {"createHistory", "createEstimate"}
                    => (s \in Pend(p)' <=> s \in Pend(p))
                /\ s.kind = "updateEstimate" => (s \in Pend(p)' => s \in Pend(p))
    PROVE  RecordsInv'
<1>1. \A o \in Orders : /\ Insert(o) \in Statement /\ Insert(o).kind = "createEstimate"
                        /\ IssueRecord(o) \in Statement /\ IssueRecord(o).kind = "createHistory"
                        /\ ApprovalRecord(o) \in Statement /\ ApprovalRecord(o).kind = "createHistory"
  BY DEF Insert, IssueRecord, ApprovalRecord, Record, Statement, HistoryRow, Statuses
<1>2. \A e \in Estimates : /\ SetStatus(e, "APPROVED") \in Statement
                           /\ SetStatus(e, "APPROVED").kind = "updateEstimate"
  BY DEF SetStatus, Statement, EstimateStatuses
<1>3. \A o \in Orders : \A p \in Requests :
        /\ Insert(o) \in Pend(p)' <=> Insert(o) \in Pend(p)
        /\ IssueRecord(o) \in Pend(p)' <=> IssueRecord(o) \in Pend(p)
        /\ ApprovalRecord(o) \in Pend(p)' <=> ApprovalRecord(o) \in Pend(p)
  BY <1>1
<1>4. \A o, from, to : Moves(o, from, to)' = Moves(o, from, to)
  BY DEF Moves
<1>5. \A o \in Orders : Approves(o) => Approves(o)'
  BY <1>3, <1>4 DEF Approves, Traced, ApprovalRecord, Record
<1>6. IssuedToOpened'
  BY DEF RecordsInv, IssuedToOpened, EstimatesSound
<1>7. \A p \in Requests : Promised(Pend(p))'
  <2> SUFFICES ASSUME NEW p \in Requests PROVE Promised(Pend(p))'
    OBVIOUS
  <2>1. \A o \in Orders : Insert(o) \in Pend(p)' => Opened(o)' /\ IssueRecord(o) \in Pend(p)'
    BY <1>3 DEF RecordsInv, Promised
  <2>2. \A e \in Estimates : SetStatus(e, "APPROVED") \in Pend(p)'
            => ApprovalRecord(estimate'[e].serviceOrder) \in Pend(p)'
    <3> SUFFICES ASSUME NEW e \in Estimates, SetStatus(e, "APPROVED") \in Pend(p)'
                 PROVE  ApprovalRecord(estimate[e].serviceOrder) \in Pend(p)'
      OBVIOUS
    <3>1. SetStatus(e, "APPROVED") \in Pend(p)
      BY <1>2
    <3>2. ApprovalRecord(estimate[e].serviceOrder) \in Pend(p)
      BY <3>1 DEF RecordsInv, Promised
    <3>3. ApprovalRecord(estimate[e].serviceOrder) \in Statement
          /\ ApprovalRecord(estimate[e].serviceOrder).kind = "createHistory"
      <4>1. todo[p] \in Seq(Statement)
        BY DEF TypeOK
      <4>2. Pend(p) \subseteq Statement
        BY <4>1, PendingTyped DEF Pend
      <4> QED BY <3>2, <4>2 DEF ApprovalRecord, Record
    <3> QED BY <3>2, <3>3
  <2> QED BY <2>1, <2>2 DEF Promised, Insert, SetStatus, IssueRecord, ApprovalRecord, Record
<1>8. ApprovalsTraced'
  <2> SUFFICES ASSUME NEW e \in Estimates, estimate'[e].status = "APPROVED"
               PROVE  Approves(estimate[e].serviceOrder)'
    BY DEF ApprovalsTraced
  <2> DEFINE o == estimate[e].serviceOrder
  <2>1. Approves(o)
    BY DEF RecordsInv, ApprovalsTraced
  <2>2. Issued(e)
    BY DEF Issued, Unissued
  <2>3. o \in Orders /\ o' = o
    BY <2>2 DEF EstimatesSound
  <2> QED BY <1>5, <2>1, <2>3 DEF Approves, Traced, Moves
<1>9. \A o \in Orders : Counted(o)'
  <2> SUFFICES ASSUME NEW o \in Orders PROVE Counted(o)'
    OBVIOUS
  <2>1. EstimatesOf(o)' = EstimatesOf(o)
    BY DEF EstimatesOf
  <2>2. Owed(o)' = Owed(o)
    BY <1>3 DEF Owed, IssueRecord, Record, Insert
  <2>3. IssueMoves(o)' = IssueMoves(o)
    BY <1>4 DEF IssueMoves
  <2> QED BY <2>1, <2>2, <2>3 DEF RecordsInv, Counted
<1> QED BY <1>6, <1>7, <1>8, <1>9 DEF RecordsInv

\* A request with nothing on record pending goes on with a plan that keeps its promises.
LEMMA PlanStep ==
    ASSUME TypeOK, RecordsInv, PlansShaped', UNCHANGED tables, NEW r \in Requests, NEW S,
           Goes(r, S), Promised(S),
           \A s \in Pend(r) : s.kind \notin {"createHistory", "createEstimate"}
    PROVE  RecordsInv'
<1> USE DEF tables
<1>1. Pend(r)' = S /\ \A p \in Requests \ {r} : Pend(p)' = Pend(p)
  BY DEF Goes
<1>2. \A o : /\ Insert(o) \notin Pend(r) /\ IssueRecord(o) \notin Pend(r)
             /\ ApprovalRecord(o) \notin Pend(r)
  BY DEF Insert, IssueRecord, ApprovalRecord, Record
<1>3. \A o, from, to : Moves(o, from, to)' = Moves(o, from, to)
  BY DEF Moves
<1>4. IssuedToOpened'
  BY DEF RecordsInv, IssuedToOpened, Issued, Opened
<1>5. \A p \in Requests : Promised(Pend(p))'
  BY <1>1 DEF RecordsInv, Promised, Opened
<1>6. \A o : Approves(o) => Approves(o)'
  <2> SUFFICES ASSUME NEW o, NEW p \in Requests, ApprovalRecord(o) \in Pend(p)
               PROVE  ApprovalRecord(o) \in Pend(p)'
    BY <1>3 DEF Approves, Traced, ApprovalRecord, Record
  <2> QED BY <1>1, <1>2
<1>7. ApprovalsTraced'
  BY <1>6 DEF RecordsInv, ApprovalsTraced
<1>8. ASSUME NEW o \in Orders PROVE Counted(o)'
  <2>1. EstimatesOf(o)' = EstimatesOf(o) /\ IssueMoves(o)' = IssueMoves(o)
    BY <1>3 DEF EstimatesOf, Issued, IssueMoves
  <2>2. Owed(o)' = Owed(o) \/ Owed(o)' = Owed(o) \cup {r}
    <3>1. \A p \in Requests \ {r} : p \in Owed(o)' <=> p \in Owed(o)
      BY <1>1 DEF Owed, IssueRecord, Record, Insert
    <3>2. Owed(o) \subseteq Requests \ {r} /\ Owed(o)' \subseteq Requests
      BY <1>2 DEF Owed
    <3> QED BY <3>1, <3>2
  <2>3. IsFiniteSet(Owed(o)') /\ Cardinality(Owed(o)') >= Cardinality(Owed(o))
    <3>1. IsFiniteSet(Owed(o))
      BY DEF RecordsInv, Counted
    <3> QED BY <2>2, <3>1, GrowsByOne
  <2>4. Cardinality(IssueMoves(o)) \in Nat /\ Cardinality(EstimatesOf(o)) \in Nat
        /\ Cardinality(Owed(o)) \in Nat /\ Cardinality(Owed(o)') \in Nat
    BY <2>3, MovesFinite, FS_CardinalityType DEF IssueMoves, RecordsInv, Counted
  <2>5. Cardinality(EstimatesOf(o)') <= Cardinality(IssueMoves(o)') + Cardinality(Owed(o)')
    BY <2>1, <2>3, <2>4 DEF RecordsInv, Counted
  <2> QED BY <2>1, <2>3, <2>5 DEF RecordsInv, Counted
<1> QED BY <1>4, <1>5, <1>7, <1>8 DEF RecordsInv

\* The plan of a move holds an order write and a history row.
LEMMA MovePlanKinds ==
    ASSUME NEW o, NEW method, NEW s \in MovePlan(o, method)
    PROVE  s.kind \in {"updateOrder", "createHistory"}
BY DEF MovePlan, Update, Record

\* A rejection issues nothing and approves nothing.
LEMMA RejectPlanKinds ==
    ASSUME NEW o, NEW s \in RejectPlan(o)
    PROVE  s.kind \in {"updateOrder", "rejectEstimates", "returnParts", "createHistory"}
BY MovePlanKinds DEF RejectPlan, Looped, Rejecting, Returning

\* What a handler decides on keeps its promises.
LEMMA DecisionsPromise ==
    ASSUME TypeOK, NEW S, DecidesOn(S)
    PROVE  Promised(S)
<1>1. ASSUME \A s \in S : /\ s.kind # "createEstimate"
                          /\ s.kind = "updateEstimate" => s.status # "APPROVED"
      PROVE  Promised(S)
  BY <1>1 DEF Promised, Insert, SetStatus
<1>2. ASSUME NEW o, NEW method, S = MovePlan(o, method) PROVE Promised(S)
  BY <1>1, <1>2, MovePlanKinds
<1>3. ASSUME NEW o \in Orders, Allows(Loaded(o), "requestApproval", NoMechanic),
             S = MovePlan(o, "requestApproval") \cup {Insert(o)}
      PROVE  Promised(S)
  <2>1. /\ order[o].status = "IN_DIAGNOSIS" /\ Loaded(o).status = order[o].status
        /\ ResultOf["requestApproval"] = "WAITING_APPROVAL"
    BY <1>3, MoveTyped DEF Methods, ExpectedIn, ResultOf
  <2>2. Opened(o) /\ IssueRecord(o) \in S
    BY <1>3, <2>1 DEF Opened, Unopened, IssueRecord, MovePlan
  <2>3. \A s \in S : s = Insert(o) \/ s.kind \in {"updateOrder", "createHistory"}
    BY <1>3, MovePlanKinds
  <2>4. \A p \in Orders : Insert(p) \in S => p = o
    BY <2>3 DEF Insert
  <2>5. \A e \in Estimates : SetStatus(e, "APPROVED") \notin S
    BY <2>3 DEF Insert, SetStatus
  <2> QED BY <2>2, <2>4, <2>5 DEF Promised
<1>4. ASSUME NEW o, S = RejectPlan(o) PROVE Promised(S)
  BY <1>1, <1>4, RejectPlanKinds
<1>5. ASSUME \/ \E o, row : S = {Update(o, row)}
             \/ \E e, status, items : S = {Decide(e, status, items)}
             \/ \E e : \E status \in {"PENDING", "NEGOTIATED"} : S = {SetStatus(e, status)}
             \/ \E e : S = {RejectOrder(e)}
             \/ \E e, ref, q : S = {Create(e, ref, q)} \/ S = {Take(ref, q), Create(e, ref, q)}
      PROVE  Promised(S)
  <2>1. /\ \A o, row : Update(o, row).kind = "updateOrder"
        /\ \A e, status, items : Decide(e, status, items).kind = "decide"
        /\ \A e, status : SetStatus(e, status).kind = "updateEstimate"
                             /\ SetStatus(e, status).status = status
        /\ \A e : RejectOrder(e).kind = "rejectOrderOf"
        /\ \A e, ref, q : Create(e, ref, q).kind = "createItem" /\ Take(ref, q).kind = "decrementStock"
    BY DEF Update, Decide, SetStatus, RejectOrder, Create, Take
  <2> QED BY <1>1, <1>5, <2>1
<1> QED BY <1>2, <1>3, <1>4, <1>5 DEF DecidesOn

\* So does what a request goes on with once it has loaded the order.
LEMMA LoadedPlanPromises ==
    ASSUME TypeOK, NEW s \in Statement, NEW r, LoadsAgain(r, s),
           estimate[s.estimate].serviceOrder \in Orders
    PROVE  \E S : Goes(r, S) /\ Promised(S)
<1> DEFINE o == estimate[s.estimate].serviceOrder
<1>1. CASE s.kind = "rejectOrderOf" /\ Goes(r, RejectPlan(o))
  <2>1. \A t \in RejectPlan(o) : t.kind \notin {"createEstimate", "updateEstimate"}
    BY RejectPlanKinds
  <2>2. Promised(RejectPlan(o))
    BY <2>1 DEF Promised, Insert, SetStatus
  <2> QED BY <1>1, <2>2
<1>2. CASE /\ s.kind = "decide" /\ Goes(r, DecisionPlan(o, s))
           /\ Allows(Loaded(o), DecisionMethod(s.status), NoMechanic)
  <2>1. \A t \in DecisionPlan(o, s) : \/ t.kind \in {"updateOrder", "createHistory", "returnParts"}
                                      \/ t = SetStatus(s.estimate, s.status)
    BY MovePlanKinds DEF DecisionPlan, Looped, Returning
  <2>2. \A p : Insert(p) \notin DecisionPlan(o, s)
    BY <2>1 DEF Insert, SetStatus
  <2>3. ASSUME NEW e \in Estimates, SetStatus(e, "APPROVED") \in DecisionPlan(o, s)
        PROVE  ApprovalRecord(estimate[e].serviceOrder) \in DecisionPlan(o, s)
    <3>1. SetStatus(e, "APPROVED").kind = "updateEstimate"
      BY DEF SetStatus
    <3>2. SetStatus(e, "APPROVED") = SetStatus(s.estimate, s.status)
      BY <2>1, <2>3, <3>1
    <3>3. e = s.estimate /\ s.status = "APPROVED"
      BY <3>2 DEF SetStatus
    <3>4. DecisionMethod(s.status) = "startService" /\ "startService" \in Methods
          /\ ResultOf["startService"] = "IN_EXECUTION"
      BY <3>3 DEF DecisionMethod, Methods, ResultOf
    <3>5. Loaded(o).status = "WAITING_APPROVAL"
      BY <1>2, <3>4, MoveTyped DEF ExpectedIn
    <3> QED BY <3>3, <3>4, <3>5 DEF DecisionPlan, MovePlan, ApprovalRecord
  <2> QED BY <1>2, <2>2, <2>3 DEF Promised
<1> QED BY <1>1, <1>2 DEF LoadsAgain

\* A handler that decides keeps the records: it changes no table.
LEMMA HandleRecords ==
    ASSUME IInv, RecordsInv, NEW r \in Requests, Handle(r)
    PROVE  RecordsInv'
<1>1. TypeOK
  BY SoundIsTyped
<1>2. PlansShaped' /\ UNCHANGED tables /\ Pend(r) = {} /\ \E S : DecidesOn(S) /\ Goes(r, S)
  BY <1>1, HandleDecides DEF RecordsInv
<1> QED BY <1>1, <1>2, DecisionsPromise, PlanStep

\* A decision that loads its order again goes on with a plan that records it.
LEMMA LoadsAgainRecords ==
    ASSUME IInv, RecordsInv, PlansShaped', NEW r \in Requests, NEW s \in Statement, LoadsAgain(r, s)
    PROVE  RecordsInv'
<1>1. TypeOK
  BY SoundIsTyped
<1>2. s \in Pend(r) /\ Pend(r) = {s} /\ s.kind \in {"decide", "rejectOrderOf"} /\ UNCHANGED tables
  BY DEF LoadsAgain
<1>3. Sound(s)
  BY <1>2, PendingSound
<1>4. estimate[s.estimate].serviceOrder \in Orders
  BY <1>2, <1>3 DEF Sound, Statement, IInv, EstimatesSound
<1>5. \E S : Goes(r, S) /\ Promised(S)
  BY <1>1, <1>4, LoadedPlanPromises
<1> QED BY <1>1, <1>2, <1>5, PlanStep

\* An approved estimate is written by a request that has the row of it pending.
LEMMA SetsStatusRecords ==
    ASSUME IInv, RecordsInv, PlansShaped', NEW r \in Requests, NEW s \in Statement, SetsStatus(r, s)
    PROVE  RecordsInv'
<1>1. TypeOK
  BY SoundIsTyped
<1>2. /\ s.kind = "updateEstimate" /\ s \in Pend(r) /\ UNCHANGED <<order, history>>
      /\ Pend(r)' = Pend(r) \ {s} /\ \A p \in Requests \ {r} : Pend(p)' = Pend(p)
      /\ estimate' = [estimate EXCEPT ![s.estimate].status = s.status]
  BY DEF SetsStatus, Takes, IsNext, Goes
<1>3. s.estimate \in Estimates /\ s.status \in EstimateStatuses /\ Issued(s.estimate)
  BY <1>2, PendingSound DEF Sound, Statement
<1>4. \A e \in Estimates : estimate[e] \in EstimateRow
  BY <1>1 DEF TypeOK
<1>5. \A e \in Estimates : /\ Issued(e)' <=> Issued(e)
                           /\ estimate'[e].serviceOrder = estimate[e].serviceOrder
                           /\ e # s.estimate => estimate'[e].status = estimate[e].status
                           /\ e = s.estimate => estimate'[e].status = s.status
  BY <1>1, <1>2, <1>3, <1>4 DEF Issued, EstimateRow, TypeOK, EstimateStatuses, Unissued
<1>6. s.status = "APPROVED" => Approves(estimate[s.estimate].serviceOrder)
  <2>1. SUFFICES ASSUME s.status = "APPROVED" PROVE Approves(estimate[s.estimate].serviceOrder)
    OBVIOUS
  <2>2. s = SetStatus(s.estimate, "APPROVED")
    BY <1>2, <2>1 DEF Statement, SetStatus
  <2>3. ApprovalRecord(estimate[s.estimate].serviceOrder) \in Pend(r)
    BY <1>2, <1>3, <2>2 DEF RecordsInv, Promised
  <2> QED BY <2>3 DEF Approves, Traced, ApprovalRecord
<1>7. \A o \in Orders : Opened(o) => Opened(o)'
  BY <1>2 DEF Opened
<1>8. \A p \in Requests : \A t \in Statement :
        /\ t.kind \in {"createHistory", "createEstimate"} => (t \in Pend(p)' <=> t \in Pend(p))
        /\ t.kind = "updateEstimate" => (t \in Pend(p)' => t \in Pend(p))
  BY <1>2
<1>9. \A e \in Estimates : estimate'[e].status = "APPROVED"
        => estimate[e].status = "APPROVED" \/ Approves(estimate[e].serviceOrder)
  BY <1>5, <1>6
<1> QED BY <1>1, <1>2, <1>5, <1>7, <1>8, <1>9, NoRecordStep DEF IInv

\* An estimate is issued: its request owes the row from now on.
LEMMA IssuesEstimateRecords ==
    ASSUME IInv, RecordsInv, PlansShaped', NEW r \in Requests, NEW s \in Statement,
           NEW e \in Estimates, IssuesEstimate(r, s, e)
    PROVE  RecordsInv'
<1>1. TypeOK
  BY SoundIsTyped
<1>2. /\ s.kind = "createEstimate" /\ s \in Pend(r) /\ ~Issued(e)
      /\ UNCHANGED <<order, history>>
      /\ Pend(r)' = Pend(r) \ {s} /\ \A p \in Requests \ {r} : Pend(p)' = Pend(p)
      /\ estimate' = [estimate EXCEPT ![e] = [serviceOrder |-> s.order, status |-> "PENDING",
                                              totalOf |-> NoItems]]
  BY DEF IssuesEstimate, Takes, IsNext, Goes
<1> DEFINE o == s.order
<1>3. o \in Orders /\ s = Insert(o)
  BY <1>2 DEF Statement, Insert
<1>4. Opened(o) /\ IssueRecord(o) \in Pend(r)
  BY <1>2, <1>3 DEF RecordsInv, Promised
<1>5. /\ \A d \in Estimates \ {e} : estimate'[d] = estimate[d]
      /\ estimate'[e].serviceOrder = o /\ estimate'[e].status = "PENDING"
  BY <1>1, <1>2 DEF TypeOK
<1>6. IssuedToOpened'
  BY <1>2, <1>4, <1>5 DEF RecordsInv, IssuedToOpened, Issued, Opened
<1>7. \A p \in Requests : Pend(p)' = Pend(p) \/ Pend(p)' = Pend(p) \ {s}
  BY <1>2
<1>8. \A p \in Requests : Promised(Pend(p))'
  <2> SUFFICES ASSUME NEW p \in Requests PROVE Promised(Pend(p))'
    OBVIOUS
  <2>1. \A q \in Orders : Insert(q) \in Pend(p)' => Opened(q)' /\ IssueRecord(q) \in Pend(p)'
    BY <1>2, <1>3, <1>7 DEF RecordsInv, Promised, Opened, IssueRecord, Record, Insert
  <2>2. \A d \in Estimates : SetStatus(d, "APPROVED") \in Pend(p)'
            => ApprovalRecord(estimate'[d].serviceOrder) \in Pend(p)'
    <3> SUFFICES ASSUME NEW d \in Estimates, SetStatus(d, "APPROVED") \in Pend(p)
                 PROVE  ApprovalRecord(estimate'[d].serviceOrder) \in Pend(p)'
      BY <1>7
    <3>1. SetStatus(d, "APPROVED") \in Statement => Issued(d)
      BY PendingSound DEF Sound, SetStatus
    <3>2. estimate'[d] = estimate[d]
      BY <1>2, <1>5, <3>1 DEF SetStatus, Statement, EstimateStatuses
    <3>3. ApprovalRecord(estimate[d].serviceOrder) \in Pend(p)
      BY DEF RecordsInv, Promised
    <3>4. ApprovalRecord(estimate[d].serviceOrder) # s
      BY <1>2 DEF ApprovalRecord, Record
    <3> QED BY <1>7, <3>2, <3>3, <3>4
  <2> QED BY <2>1, <2>2 DEF Promised, Insert, SetStatus, IssueRecord, ApprovalRecord, Record
<1>9. \A q, from, to : Moves(q, from, to)' = Moves(q, from, to)
  BY <1>2 DEF Moves
<1>10. ApprovalsTraced'
  <2> SUFFICES ASSUME NEW d \in Estimates, estimate'[d].status = "APPROVED"
               PROVE  Approves(estimate[d].serviceOrder)'
    BY DEF ApprovalsTraced
  <2>1. d # e
    BY <1>5
  <2>2. estimate'[d] = estimate[d] /\ Approves(estimate[d].serviceOrder)
    BY <1>5, <2>1 DEF RecordsInv, ApprovalsTraced
  <2>3. \A q : Record(q, "WAITING_APPROVAL", "IN_EXECUTION") # s
    BY <1>2 DEF Record
  <2> QED BY <1>7, <1>9, <2>2, <2>3 DEF Approves, Traced, Moves
<1>11. ASSUME NEW q \in Orders PROVE Counted(q)'
  <2>1. IssueMoves(q)' = IssueMoves(q)
    BY <1>9 DEF IssueMoves
  <2>2. IssueRecord(q) # s
    BY <1>2 DEF IssueRecord, Record
  <2>3. \A p \in Requests : IssueRecord(q) \in Pend(p)' <=> IssueRecord(q) \in Pend(p)
    BY <1>7, <2>2
  <2>4. CASE q = o
    <3>1. EstimatesOf(q)' = EstimatesOf(q) \cup {e} /\ e \notin EstimatesOf(q)
      BY <1>2, <1>5, <2>4 DEF EstimatesOf, Issued, Unissued
    <3>2. Owed(q)' = Owed(q) \cup {r} /\ r \notin Owed(q)
      <4>1. r \in Owed(q)' /\ r \notin Owed(q)
        BY <1>2, <1>3, <1>4, <2>3, <2>4 DEF Owed, IssueRecord, Record, Insert
      <4>2. \A p \in Requests \ {r} : p \in Owed(q)' <=> p \in Owed(q)
        BY <1>2 DEF Owed, IssueRecord, Record, Insert
      <4>3. Owed(q) \subseteq Requests /\ Owed(q)' \subseteq Requests
        BY DEF Owed
      <4> QED BY <4>1, <4>2, <4>3
    <3>3. IsFiniteSet(EstimatesOf(q)) /\ IsFiniteSet(Owed(q))
      BY DEF RecordsInv, Counted
    <3>4. /\ IsFiniteSet(EstimatesOf(q)') /\ Cardinality(EstimatesOf(q)) \in Nat
          /\ Cardinality(EstimatesOf(q)') = Cardinality(EstimatesOf(q)) + 1
      BY <3>1, <3>3, GrowsByOne
    <3>5. /\ IsFiniteSet(Owed(q)') /\ Cardinality(Owed(q)) \in Nat
          /\ Cardinality(Owed(q)') = Cardinality(Owed(q)) + 1
      BY <3>2, <3>3, GrowsByOne
    <3>6. Cardinality(IssueMoves(q)) \in Nat
      BY <1>1, MovesFinite DEF IssueMoves
    <3>7. Cardinality(EstimatesOf(q)) <= Cardinality(IssueMoves(q)) + Cardinality(Owed(q))
      BY DEF RecordsInv, Counted
    <3>8. Cardinality(EstimatesOf(q)') <= Cardinality(IssueMoves(q)') + Cardinality(Owed(q)')
      BY <2>1, <3>4, <3>5, <3>6, <3>7
    <3> QED BY <3>4, <3>5, <3>8 DEF Counted
  <2>5. CASE q # o
    <3>1. EstimatesOf(q)' = EstimatesOf(q)
      BY <1>2, <1>5, <2>5 DEF EstimatesOf, Issued
    <3>2. Insert(q) # s
      BY <2>5 DEF Insert
    <3>3. Owed(q)' = Owed(q)
      BY <1>7, <2>3, <3>2 DEF Owed, IssueRecord, Record, Insert
    <3> QED BY <2>1, <3>1, <3>3 DEF RecordsInv, Counted
  <2> QED BY <2>4, <2>5
<1> QED BY <1>6, <1>8, <1>10, <1>11 DEF RecordsInv

\* A history row lands: what its request owed is on record.
LEMMA AddsHistoryRecords ==
    ASSUME IInv, RecordsInv, PlansShaped', NEW r \in Requests, NEW s \in Statement,
           AddsHistory(r, s)
    PROVE  RecordsInv'
<1>1. TypeOK
  BY SoundIsTyped
<1>2. /\ s.kind = "createHistory" /\ UNCHANGED <<order, estimate>> /\ Pend(r) = {s}
      /\ Pend(r)' = {} /\ \A p \in Requests \ {r} : Pend(p)' = Pend(p)
      /\ history' = [history EXCEPT ![s.order] = Append(@, s.row)]
  BY LastPending DEF AddsHistory, Takes, IsNext, Goes
<1> DEFINE o == s.order
<1>3. o \in Orders /\ s.row \in HistoryRow /\ s = Record(o, s.row.from, s.row.to)
      /\ s.row = [from |-> s.row.from, to |-> s.row.to]
  BY <1>2 DEF Statement, Record, HistoryRow
<1>4. ASSUME NEW q \in Orders, NEW row
      PROVE  /\ Places(history[q], row) \subseteq Places(history'[q], row)
             /\ q = o /\ s.row = row
                  => \E i : /\ i \notin Places(history[q], row)
                            /\ Places(history'[q], row) = Places(history[q], row) \cup {i}
  <2>1. history[q] \in Seq(HistoryRow)
    BY <1>1 DEF TypeOK
  <2>2. CASE q = o
    <3>1. history'[q] = Append(history[q], s.row)
      BY <1>1, <1>2, <2>2 DEF TypeOK
    <3> DEFINE h == history[q]
               x == s.row
    <3>2. h \in Seq(HistoryRow) /\ x \in HistoryRow
      BY <1>3, <2>1
    <3> HIDE DEF h, x
    <3>3. /\ Places(h, row) \subseteq Places(Append(h, x), row)
          /\ x = row => \E i : /\ i \notin Places(h, row)
                              /\ Places(Append(h, x), row) = Places(h, row) \cup {i}
      BY <3>2, PlacesAppended
    <3> QED BY <3>1, <3>3 DEF h, x
  <2>3. CASE q # o
    BY <1>1, <1>2, <2>3 DEF TypeOK
  <2> QED BY <2>2, <2>3
<1>5. IssuedToOpened'
  BY <1>2 DEF RecordsInv, IssuedToOpened, Issued, Opened
<1>6. \A p \in Requests : Promised(Pend(p))'
  BY <1>2 DEF RecordsInv, Promised, Opened
<1>7. ApprovalsTraced'
  <2> SUFFICES ASSUME NEW e \in Estimates, estimate[e].status = "APPROVED"
               PROVE  Approves(estimate[e].serviceOrder)'
    BY <1>2 DEF ApprovalsTraced
  <2> DEFINE q == estimate[e].serviceOrder
  <2>1. q \in Orders /\ q' = q
    BY <1>2 DEF IInv, EstimatesSound, Issued, Unissued
  <2>2. Approves(q)
    BY DEF RecordsInv, ApprovalsTraced
  <2> DEFINE row == [from |-> "WAITING_APPROVAL", to |-> "IN_EXECUTION"]
  <2>3. SUFFICES Places(history'[q], row) # {} \/ \E p \in Requests : Record(q, row.from, row.to) \in Pend(p)'
    BY <2>1 DEF Approves, Traced, Moves, Places
  <2>4. CASE Places(history[q], row) # {}
    BY <1>4, <2>1, <2>4
  <2>5. CASE \E p \in Requests : Record(q, row.from, row.to) \in Pend(p)
    <3>1. PICK p \in Requests : Record(q, row.from, row.to) \in Pend(p)
      BY <2>5
    <3>2. CASE p = r
      <4>1. q = o /\ s.row = row
        BY <1>2, <3>1, <3>2 DEF Record
      <4> QED BY <1>4, <2>1, <4>1
    <3>3. CASE p # r
      BY <1>2, <3>1, <3>3
    <3> QED BY <3>2, <3>3
  <2> QED BY <2>2, <2>4, <2>5 DEF Approves, Traced, Moves, Places
<1>8. ASSUME NEW q \in Orders PROVE Counted(q)'
  <2>1. EstimatesOf(q)' = EstimatesOf(q)
    BY <1>2 DEF EstimatesOf, Issued
  <2>2. \A p \in Requests \ {r} : p \in Owed(q)' <=> p \in Owed(q)
    BY <1>2 DEF Owed, IssueRecord, Record, Insert
  <2>3. Owed(q)' = Owed(q) \ {r}
    <3>1. r \notin Owed(q)' /\ Owed(q) \subseteq Requests /\ Owed(q)' \subseteq Requests
      BY <1>2 DEF Owed
    <3> QED BY <2>2, <3>1
  <2>4. /\ IsFiniteSet(EstimatesOf(q)) /\ IsFiniteSet(Owed(q))
        /\ Cardinality(EstimatesOf(q)) <= Cardinality(IssueMoves(q)) + Cardinality(Owed(q))
    BY DEF RecordsInv, Counted
  <2>5. /\ IsFiniteSet(Owed(q)') /\ Cardinality(Owed(q)) \in Nat /\ Cardinality(Owed(q)') \in Nat
        /\ Cardinality(Owed(q)') = IF r \in Owed(q) THEN Cardinality(Owed(q)) - 1
                                                    ELSE Cardinality(Owed(q))
    BY <2>3, <2>4, FS_RemoveElement, FS_CardinalityType
  <2>6. Cardinality(EstimatesOf(q)) \in Nat
    BY <2>4, FS_CardinalityType
  <2> DEFINE row == [from |-> "IN_DIAGNOSIS", to |-> "WAITING_APPROVAL"]
  <2>7. /\ IssueMoves(q) = Places(history[q], row) /\ IssueMoves(q)' = Places(history'[q], row)
        /\ IsFiniteSet(IssueMoves(q)) /\ IsFiniteSet(IssueMoves(q)')
        /\ Cardinality(IssueMoves(q)) \in Nat /\ Cardinality(IssueMoves(q)') \in Nat
        /\ Cardinality(IssueMoves(q)) <= Cardinality(IssueMoves(q)')
    <3>1. history[q] \in Seq(HistoryRow) /\ history'[q] \in Seq(HistoryRow)
      BY <1>1, <1>2, <1>3 DEF TypeOK
    <3>2. IssueMoves(q) = Places(history[q], row) /\ IssueMoves(q)' = Places(history'[q], row)
      BY DEF IssueMoves, Moves, Places
    <3>3. /\ IsFiniteSet(IssueMoves(q)) /\ IsFiniteSet(IssueMoves(q)')
          /\ Cardinality(IssueMoves(q)) \in Nat /\ Cardinality(IssueMoves(q)') \in Nat
      BY <3>1, <3>2, PlacesFinite
    <3>4. IssueMoves(q) \subseteq IssueMoves(q)'
      BY <1>4, <3>2
    <3> QED BY <3>2, <3>3, <3>4, FS_Subset
  <2>8. CASE r \in Owed(q)
    <3>1. q = o /\ s.row = row
      BY <1>2, <1>3, <2>8 DEF Owed, IssueRecord, Record
    <3>2. PICK i : i \notin IssueMoves(q) /\ IssueMoves(q)' = IssueMoves(q) \cup {i}
      BY <1>4, <2>7, <3>1
    <3>3. Cardinality(IssueMoves(q)') = Cardinality(IssueMoves(q)) + 1
      BY <2>7, <3>2, GrowsByOne
    <3>4. Cardinality(EstimatesOf(q)') <= Cardinality(IssueMoves(q)') + Cardinality(Owed(q)')
      BY <2>1, <2>4, <2>5, <2>6, <2>7, <2>8, <3>3
    <3> QED BY <2>1, <2>4, <2>5, <3>4 DEF Counted
  <2>9. CASE r \notin Owed(q)
    <3>1. Cardinality(EstimatesOf(q)') <= Cardinality(IssueMoves(q)') + Cardinality(Owed(q)')
      BY <2>1, <2>4, <2>5, <2>6, <2>7, <2>9
    <3> QED BY <2>1, <2>4, <2>5, <3>1 DEF Counted
  <2> QED BY <2>8, <2>9
<1> QED BY <1>5, <1>6, <1>7, <1>8 DEF RecordsInv

\* Steps that write neither the history nor a promised status.
LEMMA WritesOrderRecords ==
    ASSUME IInv, RecordsInv, PlansShaped', NEW r \in Requests, NEW s \in Statement,
           WritesOrder(r, s)
    PROVE  RecordsInv'
<1>1. TypeOK /\ EstimatesSound
  BY SoundIsTyped DEF IInv
<1>2. /\ s.kind = "updateOrder" /\ s \in Pend(r) /\ UNCHANGED <<estimate, history>>
      /\ Pend(r)' = Pend(r) \ {s} /\ \A p \in Requests \ {r} : Pend(p)' = Pend(p)
      /\ order' = [order EXCEPT ![s.order] =
                    [s.row EXCEPT !.closedAt = s.row.closedAt \/ order[s.order].closedAt]]
  BY DEF WritesOrder, Takes, IsNext, Goes
<1>3. s.order \in Orders /\ s.row \in Order /\ s.row.status # Unopened
  BY <1>2, PendingSound DEF Sound, Statement
<1>4. \A o \in Orders : Opened(o) => Opened(o)'
  <2>1. \A o \in Orders \ {s.order} : order'[o] = order[o]
    BY <1>1, <1>2 DEF TypeOK
  <2>2. order'[s.order].status = s.row.status
    BY <1>1, <1>2, <1>3 DEF TypeOK, Order
  <2> QED BY <1>3, <2>1, <2>2 DEF Opened
<1>5. \A p \in Requests : \A t \in Statement :
        /\ t.kind \in {"createHistory", "createEstimate"} => (t \in Pend(p)' <=> t \in Pend(p))
        /\ t.kind = "updateEstimate" => (t \in Pend(p)' => t \in Pend(p))
  BY <1>2
<1>6. \A e \in Estimates : /\ Issued(e)' <=> Issued(e)
                           /\ estimate'[e].serviceOrder = estimate[e].serviceOrder
                           /\ estimate'[e].status = estimate[e].status
  BY <1>2 DEF Issued
<1> QED BY <1>1, <1>2, <1>4, <1>5, <1>6, NoRecordStep

\* Rejecting an estimate approves none and issues none.
LEMMA RejectsOneRecords ==
    ASSUME IInv, RecordsInv, PlansShaped', NEW r \in Requests, NEW s \in Statement,
           NEW e \in Estimates, RejectsOne(r, s, e)
    PROVE  RecordsInv'
<1> DEFINE rest == s.estimates \ {e}
<1>1. TypeOK /\ EstimatesSound
  BY SoundIsTyped DEF IInv
<1>2. /\ s.kind = "rejectEstimates" /\ s \in Pend(r) /\ UNCHANGED <<order, history>>
      /\ Pend(r)' = (Pend(r) \ {s}) \cup Looped(rest, Rejecting(rest))
      /\ \A p \in Requests \ {r} : Pend(p)' = Pend(p)
      /\ estimate' = [estimate EXCEPT ![e].status = "REJECTED"]
  BY DEF RejectsOne, IsNext, Goes
<1>3. Issued(e)
  BY <1>2, PendingSound DEF Sound, RejectsOne
<1>4. \A o \in Orders : Opened(o) => Opened(o)'
  BY <1>2 DEF Opened
<1>5. \A t \in Looped(rest, Rejecting(rest)) : t.kind = "rejectEstimates"
  BY DEF Looped, Rejecting
<1>6. \A p \in Requests : \A t \in Statement :
        /\ t.kind \in {"createHistory", "createEstimate"} => (t \in Pend(p)' <=> t \in Pend(p))
        /\ t.kind = "updateEstimate" => (t \in Pend(p)' => t \in Pend(p))
  BY <1>2, <1>5
<1>7. \A d \in Estimates : /\ Issued(d)' <=> Issued(d)
                           /\ estimate'[d].serviceOrder = estimate[d].serviceOrder
                           /\ estimate'[d].status \in {estimate[d].status, "REJECTED"}
  <2>1. \A d \in Estimates : estimate[d] \in EstimateRow
    BY <1>1 DEF TypeOK
  <2> QED BY <1>1, <1>2, <1>3, <2>1 DEF Issued, EstimateRow, TypeOK, Unissued
<1> QED BY <1>1, <1>2, <1>4, <1>6, <1>7, NoRecordStep

\* Writing a total changes neither the status of an estimate nor its order.
LEMMA WritesTotalRecords ==
    ASSUME IInv, RecordsInv, PlansShaped', NEW r \in Requests, NEW s \in Statement,
           WritesTotal(r, s)
    PROVE  RecordsInv'
<1>1. TypeOK /\ EstimatesSound
  BY SoundIsTyped DEF IInv
<1>2. /\ s.kind = "writeTotal" /\ Pend(r) = {s} /\ UNCHANGED <<order, history>>
      /\ Pend(r)' = {} /\ \A p \in Requests \ {r} : Pend(p)' = Pend(p)
      /\ estimate' = [estimate EXCEPT ![s.estimate].totalOf = s.totalOf]
  BY DEF WritesTotal, Goes
<1>3. \A o \in Orders : Opened(o) => Opened(o)'
  BY <1>2 DEF Opened
<1>4. \A p \in Requests : \A t \in Statement :
        /\ t.kind \in {"createHistory", "createEstimate"} => (t \in Pend(p)' <=> t \in Pend(p))
        /\ t.kind = "updateEstimate" => (t \in Pend(p)' => t \in Pend(p))
  BY <1>2
<1>5. \A e \in Estimates : /\ Issued(e)' <=> Issued(e)
                           /\ estimate'[e].serviceOrder = estimate[e].serviceOrder
                           /\ estimate'[e].status = estimate[e].status
  <2>1. \A d \in Estimates : estimate[d] \in EstimateRow
    BY <1>1 DEF TypeOK
  <2> QED BY <1>1, <1>2, <2>1 DEF Issued, EstimateRow, TypeOK
<1> QED BY <1>1, <1>2, <1>3, <1>4, <1>5, NoRecordStep

\* Steps of the stock and of the items, and a request that stops before its first write.
LEMMA StockRecords ==
    ASSUME IInv, RecordsInv, PlansShaped', NEW r \in Requests, NEW s \in Statement,
           \/ \E i \in PartItem : ReturnsOne(r, s, i)
           \/ TakesStock(r, s) \/ InsertsItem(r, s) \/ SumsUp(r, s)
    PROVE  RecordsInv'
<1>1. TypeOK /\ EstimatesSound
  BY SoundIsTyped DEF IInv
<1>2. UNCHANGED <<order, estimate, history>>
  BY DEF ReturnsOne, TakesStock, InsertsItem, SumsUp, tables
<1>3. \A p \in Requests : \A t \in Statement :
        /\ t.kind \in {"createHistory", "createEstimate"} => (t \in Pend(p)' <=> t \in Pend(p))
        /\ t.kind = "updateEstimate" => (t \in Pend(p)' => t \in Pend(p))
  <2>1. ASSUME NEW i \in PartItem, ReturnsOne(r, s, i)
        PROVE  /\ s.kind = "returnParts" /\ s \in Pend(r)
               /\ \A t \in Looped(s.items \ {i}, Returning(s.items \ {i})) : t.kind = "returnParts"
    BY <2>1 DEF ReturnsOne, IsNext, Looped, Returning
  <2>2. ASSUME NEW i \in PartItem, ReturnsOne(r, s, i)
        PROVE  \A p \in Requests : \A t \in Statement :
                t.kind \in {"createHistory", "createEstimate", "updateEstimate"}
                    => (t \in Pend(p)' <=> t \in Pend(p))
    BY <2>1, <2>2 DEF ReturnsOne, Goes
  <2>3. ASSUME TakesStock(r, s) \/ InsertsItem(r, s) \/ SumsUp(r, s)
        PROVE  \A p \in Requests : \A t \in Statement :
                t.kind \in {"createHistory", "createEstimate", "updateEstimate"}
                    => (t \in Pend(p)' <=> t \in Pend(p))
    BY <2>3 DEF TakesStock, InsertsItem, SumsUp, Takes, Goes, SumUp, WriteSum
  <2> QED BY <2>2, <2>3
<1>4. /\ \A o \in Orders : Opened(o) => Opened(o)'
      /\ \A e \in Estimates : /\ Issued(e)' <=> Issued(e)
                              /\ estimate'[e].serviceOrder = estimate[e].serviceOrder
                              /\ estimate'[e].status = estimate[e].status
  BY <1>2 DEF Issued, Opened
<1> QED BY <1>1, <1>2, <1>3, <1>4, NoRecordStep

\* A request that stops without a failure has nothing to record.
LEMMA StopsRecords ==
    ASSUME IInv, RecordsInv, PlansShaped', NEW r \in Requests, Stops(r), ~MayFail
    PROVE  RecordsInv'
<1>1. TypeOK /\ EstimatesSound /\ UNCHANGED <<order, estimate, history>>
  BY SoundIsTyped DEF IInv, Stops, tables
<1>2. \A p \in Requests : \A t \in Statement :
        t.kind \in {"createHistory", "createEstimate", "updateEstimate"}
            => (t \in Pend(p)' <=> t \in Pend(p))
  BY DEF Stops, Goes
<1>3. /\ \A o \in Orders : Opened(o) => Opened(o)'
      /\ \A e \in Estimates : /\ Issued(e)' <=> Issued(e)
                              /\ estimate'[e].serviceOrder = estimate[e].serviceOrder
                              /\ estimate'[e].status = estimate[e].status
  BY <1>1 DEF Issued, Opened
<1> QED BY <1>1, <1>2, <1>3, NoRecordStep

\* Every step of a request in flight keeps the records.
LEMMA RunRecords ==
    ASSUME IInv, RecordsInv, ~MayFail, NEW r \in Requests, Run(r)
    PROVE  RecordsInv'
<1>1. PlansShaped' /\ (Stops(r) \/ \E s \in Statement : Does(r, s))
  BY RunDoes DEF RecordsInv
<1>2. ASSUME NEW s \in Statement, Does(r, s) PROVE RecordsInv'
  BY <1>1, <1>2, WritesOrderRecords, AddsHistoryRecords, IssuesEstimateRecords, RejectsOneRecords,
     SetsStatusRecords, StockRecords, LoadsAgainRecords, WritesTotalRecords
  DEF Does
<1> QED BY <1>1, <1>2, StopsRecords

\* An order is opened: nothing was recorded or issued for it before.
LEMMA OpeningRecords ==
    ASSUME IInv, RecordsInv, NEW o \in Orders, ~Opened(o), Opened(o)', NEW row, NEW rows,
           order' = [order EXCEPT ![o] = row],
           history' = [history EXCEPT ![o] = rows],
           UNCHANGED todo,
           \A e \in Estimates : \/ estimate'[e] = estimate[e]
                                \/ /\ ~Issued(e) /\ estimate'[e].serviceOrder = o
                                   /\ estimate'[e].status = "PENDING",
           Counted(o)'
    PROVE  RecordsInv'
<1>1. TypeOK
  BY SoundIsTyped
<1>2. \A p \in Requests : Pend(p)' = Pend(p)
  BY DEF Pend
<1>3. \A q \in Orders \ {o} : order'[q] = order[q] /\ history'[q] = history[q]
  BY <1>1 DEF TypeOK
<1>4. PlansShaped'
  BY DEF RecordsInv, PlansShaped
<1>5. IssuedToOpened'
  BY <1>3 DEF RecordsInv, IssuedToOpened, Issued, Opened, IInv, EstimatesSound
<1>6. \A p \in Requests : \A e \in Estimates : SetStatus(e, "APPROVED") \in Pend(p)
        => estimate'[e] = estimate[e]
  <2> SUFFICES ASSUME NEW p \in Requests, NEW e \in Estimates, SetStatus(e, "APPROVED") \in Pend(p)
               PROVE  Issued(e)
    OBVIOUS
  <2> QED BY PendingSound DEF Sound, SetStatus
<1>7. \A p \in Requests : Promised(Pend(p))'
  <2> SUFFICES ASSUME NEW p \in Requests PROVE Promised(Pend(p))'
    OBVIOUS
  <2>1. \A q \in Orders : Insert(q) \in Pend(p)' => Opened(q)' /\ IssueRecord(q) \in Pend(p)'
    BY <1>2, <1>3 DEF RecordsInv, Promised, Opened
  <2>2. \A e \in Estimates : SetStatus(e, "APPROVED") \in Pend(p)'
            => ApprovalRecord(estimate'[e].serviceOrder) \in Pend(p)'
    BY <1>2, <1>6 DEF RecordsInv, Promised
  <2> QED BY <2>1, <2>2 DEF Promised, Insert, SetStatus, IssueRecord, ApprovalRecord, Record
<1>8. ApprovalsTraced'
  <2> SUFFICES ASSUME NEW e \in Estimates, estimate'[e].status = "APPROVED"
               PROVE  Approves(estimate[e].serviceOrder)'
    BY DEF ApprovalsTraced
  <2> DEFINE q == estimate[e].serviceOrder
  <2>1. estimate'[e] = estimate[e]
    OBVIOUS
  <2>2. Approves(q) /\ Issued(e)
    BY <2>1 DEF RecordsInv, ApprovalsTraced, Issued, Unissued
  <2>3. q \in Orders /\ q # o
    BY <2>2 DEF IInv, EstimatesSound, RecordsInv, IssuedToOpened
  <2>4. history'[q] = history[q] /\ q' = q
    BY <1>3, <2>1, <2>3
  <2> QED BY <1>2, <2>2, <2>4 DEF Approves, Traced, Moves
<1>9. ASSUME NEW q \in Orders PROVE Counted(q)'
  <2>1. CASE q # o
    <3>1. EstimatesOf(q)' = EstimatesOf(q)
      BY <2>1 DEF EstimatesOf, Issued, Unissued
    <3>2. IssueMoves(q)' = IssueMoves(q)
      BY <1>3, <2>1 DEF IssueMoves, Moves
    <3>3. Owed(q)' = Owed(q)
      BY <1>2 DEF Owed
    <3> QED BY <3>1, <3>2, <3>3 DEF RecordsInv, Counted
  <2> QED BY <2>1
<1> QED BY <1>4, <1>5, <1>7, <1>8, <1>9 DEF RecordsInv

\* An order opened without items issues nothing.
LEMMA OpenOrderRecords ==
    ASSUME IInv, RecordsInv, NEW o \in Orders, OpenOrder(o)
    PROVE  RecordsInv'
<1>1. TypeOK
  BY SoundIsTyped
<1>2. /\ ~Opened(o) /\ order' = [order EXCEPT ![o] = OpenedOrder]
      /\ history' = [history EXCEPT ![o] = <<[from |-> Unopened, to |-> "RECEIVED"]>>]
      /\ UNCHANGED <<estimate, todo>>
  BY DEF OpenOrder
<1>3. Opened(o)'
  BY <1>1, <1>2 DEF Opened, TypeOK, OpenedOrder, Unopened
<1>4. EstimatesOf(o) = {} /\ EstimatesOf(o)' = {}
  BY <1>2 DEF RecordsInv, IssuedToOpened, EstimatesOf, Issued
<1>5. Owed(o)' = Owed(o)
  BY <1>2 DEF Owed, Pend
<1>6. Cardinality(IssueMoves(o)') \in Nat
  <2> DEFINE row == [from |-> "IN_DIAGNOSIS", to |-> "WAITING_APPROVAL"]
  <2>1. history'[o] \in Seq(HistoryRow)
    BY <1>1, <1>2 DEF TypeOK, HistoryRow, Statuses
  <2>2. IssueMoves(o)' = Places(history'[o], row)
    BY DEF IssueMoves, Moves, Places
  <2> QED BY <2>1, <2>2, PlacesFinite
<1>7. Counted(o)'
  <2>1. IsFiniteSet({}) /\ Cardinality({}) = 0
    BY FS_EmptySet
  <2>2. IsFiniteSet(Owed(o)) /\ Cardinality(Owed(o)) \in Nat
    BY FS_CardinalityType DEF RecordsInv, Counted
  <2> QED BY <1>4, <1>5, <1>6, <2>1, <2>2 DEF Counted
<1> QED BY <1>2, <1>3, <1>7, OpeningRecords

\* An order opened with items has the move of its estimate on record.
LEMMA OpenOrderWithItemsRecords ==
    ASSUME IInv, RecordsInv, NEW o \in Orders, NEW e \in Estimates, NEW items \in ItemList,
           OpenOrderWithItems(o, e, items)
    PROVE  RecordsInv'
<1> DEFINE first  == [from |-> Unopened, to |-> "RECEIVED"]
           second == [from |-> "RECEIVED", to |-> "IN_DIAGNOSIS"]
           third  == [from |-> "IN_DIAGNOSIS", to |-> "WAITING_APPROVAL"]
           rows   == <<first, second, third>>
           opened == Apply(Apply(OpenedOrder, "startDiagnosis"), "requestApproval")
<1>1. TypeOK
  BY SoundIsTyped
<1>2. /\ ~Opened(o) /\ ~Issued(e) /\ order' = [order EXCEPT ![o] = opened]
      /\ history' = [history EXCEPT ![o] = rows]
      /\ estimate' = [estimate EXCEPT ![e] = [serviceOrder |-> o, status |-> "PENDING",
                                              totalOf |-> items]]
      /\ UNCHANGED todo
  BY DEF OpenOrderWithItems
<1>3. Opened(o)'
  <2>1. opened.status = "WAITING_APPROVAL"
    BY DEF Apply, OpenedOrder, ResultOf
  <2> QED BY <1>1, <1>2, <2>1 DEF Opened, TypeOK, Unopened
<1>4. /\ \A d \in Estimates \ {e} : estimate'[d] = estimate[d]
      /\ estimate'[e].serviceOrder = o /\ estimate'[e].status = "PENDING"
  BY <1>1, <1>2 DEF TypeOK
<1>5. EstimatesOf(o)' = {e}
  BY <1>2, <1>4 DEF RecordsInv, IssuedToOpened, EstimatesOf, Issued, Unissued
<1>6. Owed(o)' = Owed(o)
  BY <1>2 DEF Owed, Pend
<1>7. Cardinality(IssueMoves(o)') \in Nat /\ Cardinality(IssueMoves(o)') >= 1
  <2>1. /\ rows \in Seq(HistoryRow) /\ Len(rows) = 3 /\ rows[3] = third
        /\ history'[o] = rows
    BY <1>1, <1>2 DEF TypeOK, HistoryRow, Statuses
  <2>2. IssueMoves(o)' = Places(rows, third)
    BY <2>1 DEF IssueMoves, Moves, Places
  <2> HIDE DEF rows
  <2>3. 3 \in Places(rows, third)
    BY <2>1 DEF Places
  <2>4. IsFiniteSet(Places(rows, third)) /\ Cardinality(Places(rows, third)) \in Nat
    BY <2>1, PlacesFinite
  <2>5. Cardinality(Places(rows, third)) # 0
    BY <2>3, <2>4, FS_EmptySet
  <2> QED BY <2>2, <2>4, <2>5
<1>8. Counted(o)'
  <2>1. IsFiniteSet({e}) /\ Cardinality({e}) = 1
    BY FS_Singleton
  <2>2. IsFiniteSet(Owed(o)) /\ Cardinality(Owed(o)) \in Nat
    BY FS_CardinalityType DEF RecordsInv, Counted
  <2> QED BY <1>5, <1>6, <1>7, <2>1, <2>2 DEF Counted
<1> HIDE DEF rows, opened
<1> QED BY <1>2, <1>3, <1>4, <1>8, OpeningRecords

\* Nothing is issued, approved or pending in an empty system.
LEMMA InitRecords == Init => RecordsInv
<1> SUFFICES ASSUME Init PROVE RecordsInv
  OBVIOUS
<1>1. \A r \in Requests : Idle(r) /\ Pend(r) = {}
  BY NothingPending DEF Init, Idle, Pend
<1>2. PlansShaped
  BY NothingPending DEF Init, PlansShaped
<1>3. \A e \in Estimates : estimate[e].status = Unissued
  BY DEF Init, NoEstimateRow
<1>4. IssuedToOpened /\ ApprovalsTraced
  BY <1>3 DEF IssuedToOpened, ApprovalsTraced, Issued, Unissued
<1>5. \A r \in Requests : Promised(Pend(r))
  BY <1>1 DEF Promised
<1>6. ASSUME NEW o \in Orders PROVE Counted(o)
  <2>1. EstimatesOf(o) = {} /\ Owed(o) = {}
    BY <1>1, <1>3 DEF EstimatesOf, Issued, Owed
  <2>2. history[o] = <<>>
    BY DEF Init
  <2>3. IssueMoves(o) = {}
    BY <2>2 DEF IssueMoves, Moves
  <2> QED BY <2>1, <2>3, FS_EmptySet DEF Counted
<1> QED BY <1>2, <1>4, <1>5, <1>6 DEF RecordsInv

\* The records are inductive when no request fails.
LEMMA NextRecords == ~MayFail /\ IInv /\ RecordsInv /\ [Next]_vars => RecordsInv'
<1> SUFFICES ASSUME ~MayFail, IInv, RecordsInv, [Next]_vars PROVE RecordsInv'
  OBVIOUS
<1>1. ASSUME NEW r \in Requests, Handle(r) \/ Run(r) PROVE RecordsInv'
  BY <1>1, HandleRecords, RunRecords
<1>2. ASSUME NEW o \in Orders, OpenOrder(o) PROVE RecordsInv'
  BY <1>2, OpenOrderRecords
<1>3. ASSUME NEW o \in Orders, NEW e \in Estimates, NEW items \in ItemList,
             OpenOrderWithItems(o, e, items)
      PROVE  RecordsInv'
  BY <1>3, OpenOrderWithItemsRecords
<1>4. CASE UNCHANGED vars
  <2>1. UNCHANGED <<order, estimate, history, todo>>
    BY <1>4 DEF vars
  <2>2. TypeOK /\ EstimatesSound
    BY SoundIsTyped DEF IInv
  <2>3. PlansShaped' /\ \A p \in Requests : Pend(p)' = Pend(p)
    BY <2>1 DEF RecordsInv, PlansShaped, Pend
  <2>4. /\ \A o \in Orders : Opened(o) => Opened(o)'
        /\ \A e \in Estimates : /\ Issued(e)' <=> Issued(e)
                                /\ estimate'[e].serviceOrder = estimate[e].serviceOrder
                                /\ estimate'[e].status = estimate[e].status
    BY <2>1 DEF Opened, Issued
  <2> QED BY <2>1, <2>2, <2>3, <2>4, NoRecordStep
<1> QED BY <1>1, <1>2, <1>3, <1>4 DEF Next

\* Without failures, what is not on record yet is pending.
THEOREM RecordsInvariant == ASSUME ~MayFail PROVE Spec => []RecordsInv
<1>1. IInv /\ RecordsInv /\ [Next]_vars => RecordsInv'
  BY NextRecords
<1> QED BY <1>1, InitRecords, SoundnessInvariant, PTL DEF Spec

\* A system at rest has nothing pending.
LEMMA QuietHasNothing == ASSUME Quiet, NEW r \in Requests PROVE Pend(r) = {}
BY IdleHasNothing DEF Quiet

\* When no request fails, however requests interleave, an approved estimate has the
\* start of its service on record once all requests are answered.
THEOREM ApprovalsAreRecorded == ASSUME ~MayFail PROVE Spec => []ApprovalIsRecorded
<1>1. RecordsInv => ApprovalIsRecorded
  BY QuietHasNothing DEF RecordsInv, ApprovalsTraced, Approves, Traced, ApprovalIsRecorded
<1> QED BY <1>1, RecordsInvariant, PTL

\* When no request fails, two requests that issue estimates at the same time are both
\* on record: an order never has more estimates than issues recorded.
THEOREM IssuesAreRecorded == ASSUME ~MayFail PROVE Spec => []EstimatesAreRecorded
<1>1. IInv /\ RecordsInv => EstimatesAreRecorded
  <2> SUFFICES ASSUME IInv, RecordsInv, Quiet, NEW o \in Orders
               PROVE  Cardinality(EstimatesOf(o)) <= Cardinality(IssueMoves(o))
    BY DEF EstimatesAreRecorded, IssueMoves
  <2>1. Owed(o) = {}
    BY QuietHasNothing DEF Owed
  <2>2. Cardinality(IssueMoves(o)) \in Nat
    BY SoundIsTyped, MovesFinite DEF IssueMoves
  <2>3. Cardinality(EstimatesOf(o)) <= Cardinality(IssueMoves(o)) + 0
    BY <2>1, FS_EmptySet DEF RecordsInv, Counted
  <2> QED BY <2>2, <2>3
<1> QED BY <1>1, RecordsInvariant, SoundnessInvariant, PTL

-----------------------------------------------------------------------------
(***************************************************************************)
(* Requests apart.  Handlers load, decide and write in separate            *)
(* statements, so what they promise of one order they promise only while   *)
(* no other request is at work on it.  OrdersApart says just that: two     *)
(* requests in flight never concern the same order.  It holds of a system  *)
(* that serves one request at a time, and of one that serves many, each    *)
(* for another order; all of them share the stock.                         *)
(***************************************************************************)
OrderOf(e) == estimate[e].serviceOrder

Concerns(s, o) ==
    \/ s.kind \in {"updateOrder", "createHistory", "createEstimate"} /\ s.order = o
    \/ /\ s.kind \in {"updateEstimate", "decide", "rejectOrderOf", "createItem", "sumItems",
                      "writeTotal"}
       /\ s.estimate \in Estimates /\ OrderOf(s.estimate) = o
    \/ s.kind = "rejectEstimates" /\ \E e \in s.estimates : OrderOf(e) = o
    \/ s.kind = "returnParts" /\ \E i \in s.items : OrderOf(i.estimate) = o

WorksOn(r, o) == \E s \in Pend(r) : Concerns(s, o)

OrdersApart ==
    \A o \in Orders : \A r, p \in Requests : WorksOn(r, o) /\ WorksOn(p, o) => r = p

\* The row an update writes is still the one its method, or the assignment, would make
\* of the order as it is.
Fresh(s) ==
    \/ \E method \in Methods, actor \in Actors :
        Allows(Loaded(s.order), method, actor) /\ s.row = Apply(Loaded(s.order), method)
    \/ \E mechanic \in Mechanics :
        order[s.order].status = "RECEIVED" /\ s.row = AssignMechanic(Loaded(s.order), mechanic)

Undecided(e) == estimate[e].status # "APPROVED"

Held(i) == Issued(i.estimate) /\ item[i.estimate][i.part] = i.quantity

\* What a statement was decided on still holds.
Current(s) ==
    /\ s.kind = "updateOrder" => Fresh(s)
    /\ s.kind \in {"updateEstimate", "decide"} => Undecided(s.estimate)
    /\ s.kind = "rejectEstimates" => \A e \in s.estimates : Undecided(e)
    /\ s.kind \in {"returnParts", "decide"} => \A i \in s.items : Held(i)
    /\ s.kind \in {"createItem", "sumItems", "writeTotal"}
        => (s.estimate \in Estimates => Issued(s.estimate))
    /\ s.kind = "writeTotal" => s.totalOf = item[s.estimate]

CurrentInv ==
    /\ \A r \in Requests : \A s \in Pend(r) : Current(s)
    /\ \A o \in Orders : order[o].closedAt <=> order[o].status = "CLOSED"
    /\ \A e \in Estimates : ~Issued(e) => item[e] = NoItems

\* Plans keep their shape.
LEMMA ShapedInvariant == Spec => []PlansShaped
<1>1. Init => PlansShaped
  BY NothingPending DEF Init, PlansShaped
<1>2. IInv /\ PlansShaped /\ [Next]_vars => PlansShaped'
  <2> SUFFICES ASSUME IInv, PlansShaped, [Next]_vars PROVE PlansShaped'
    OBVIOUS
  <2>1. ASSUME NEW r \in Requests, Handle(r) \/ Run(r) PROVE PlansShaped'
    BY <2>1, SoundIsTyped, HandleDecides, RunDoes
  <2>2. ASSUME UNCHANGED todo PROVE PlansShaped'
    BY <2>2 DEF PlansShaped
  <2> QED BY <2>1, <2>2 DEF Next, OpenOrder, OpenOrderWithItems, vars
<1> QED BY <1>1, <1>2, SoundnessInvariant, PTL DEF Spec

\* Requests served one at a time are apart.
LEMMA OneRequestIsApart ==
    ASSUME \A r, p \in Requests : r = p
    PROVE  OrdersApart
BY DEF OrdersApart

\* What another request has pending concerns another order.
LEMMA Elsewhere ==
    ASSUME OrdersApart, NEW o \in Orders, NEW r \in Requests, NEW s \in Pend(r), Concerns(s, o),
           NEW p \in Requests, NEW t \in Pend(p), Concerns(t, o)
    PROVE  p = r
BY DEF OrdersApart, WorksOn

\* No kind of statement follows itself in a plan.
LEMMA NoneTwice ==
    ASSUME NEW r, NEW s, IsNext(r, s), NEW t \in Pend(r), t.kind = s.kind
    PROVE  t = s
BY DEF IsNext, MayFollow

\* What a handler decides on is current when it does.
LEMMA DecisionsAreCurrent ==
    ASSUME TypeOK, NEW S, DecidesOn(S), NEW s \in S
    PROVE  Current(s)
<1>1. ASSUME NEW o \in Orders, NEW method \in Methods, NEW actor \in Actors,
             Allows(Loaded(o), method, actor)
      PROVE  \A t \in MovePlan(o, method) : Current(t)
  BY <1>1 DEF MovePlan, Update, Record, Current, Fresh
<1>2. ASSUME NEW o \in Orders, NEW mechanic \in Mechanics, order[o].status = "RECEIVED"
      PROVE  Current(Update(o, AssignMechanic(Loaded(o), mechanic)))
  BY <1>2 DEF Update, Current, Fresh
<1>3. ASSUME NEW o \in Orders PROVE Current(Insert(o))
  BY DEF Insert, Current
<1>4. "rejectEstimate" \in Methods /\ "requestApproval" \in Methods /\ NoMechanic \in Actors
  BY DEF Methods, Actors
<1>5. ASSUME NEW o \in Orders, Allows(Loaded(o), "rejectEstimate", NoMechanic)
      PROVE  \A t \in RejectPlan(o) : Current(t)
  <2>1. Current(Rejecting(PendingOf(o)))
    BY DEF Rejecting, PendingOf, Current, Undecided
  <2>2. Current(Returning(PartItemsOf(PendingOf(o))))
    BY DEF Returning, PartItemsOf, PendingOf, EstimatesOf, Current, Held
  <2> QED BY <1>1, <1>4, <1>5, <2>1, <2>2 DEF RejectPlan, Looped
<1>6. ASSUME NEW e \in Estimates, NEW status, Issued(e), estimate[e].status # "APPROVED"
      PROVE  Current(Decide(e, status, PartItemsOf({e}))) /\ Current(SetStatus(e, status))
  BY <1>6 DEF Decide, SetStatus, PartItemsOf, Current, Undecided, Held
<1>7. ASSUME NEW e PROVE Current(RejectOrder(e))
  BY DEF RejectOrder, Current
<1>8. ASSUME NEW e \in Estimates \cup {NoEstimate}, NEW ref, NEW q, e # NoEstimate => Issued(e)
      PROVE  Current(Create(e, ref, q)) /\ Current(Take(ref, q))
  BY <1>8, ServiceOrdersAssumption DEF Create, Take, Current
<1>9. ASSUME NEW o \in Orders,
             \/ \E method \in Methods, actor \in Actors :
                    Allows(Loaded(o), method, actor) /\ S = MovePlan(o, method)
             \/ \E mechanic \in Mechanics :
                    /\ order[o].status = "RECEIVED"
                    /\ S = {Update(o, AssignMechanic(Loaded(o), mechanic))}
             \/ /\ Allows(Loaded(o), "requestApproval", NoMechanic)
                /\ S = MovePlan(o, "requestApproval") \cup {Insert(o)}
             \/ Allows(Loaded(o), "rejectEstimate", NoMechanic) /\ S = RejectPlan(o)
      PROVE  Current(s)
  BY <1>1, <1>2, <1>3, <1>4, <1>5, <1>9
<1>10. ASSUME NEW e \in Estimates, NEW status, Issued(e),
              \/ /\ estimate[e].status # "APPROVED"
                 /\ S = {Decide(e, status, PartItemsOf({e}))} \/ S = {SetStatus(e, status)}
              \/ S = {RejectOrder(e)}
       PROVE  Current(s)
  BY <1>6, <1>7, <1>10
<1>11. ASSUME NEW e \in Estimates \cup {NoEstimate}, NEW ref, NEW q, e # NoEstimate => Issued(e),
              S = {Create(e, ref, q)} \/ S = {Take(ref, q), Create(e, ref, q)}
       PROVE  Current(s)
  BY <1>8, <1>11
<1> QED BY <1>9, <1>10, <1>11 DEF DecidesOn

\* A statement stays current while its order, its estimates and their items are as they
\* were, but for what a rejection writes.
LEMMA StaysCurrent ==
    ASSUME NEW s \in Statement, Current(s),
           s.kind = "updateOrder" => order'[s.order] = order[s.order],
           s.kind \in {"updateEstimate", "decide"} =>
                estimate'[s.estimate].status \in {estimate[s.estimate].status, "REJECTED"},
           s.kind = "rejectEstimates" => \A e \in s.estimates :
                estimate'[e].status \in {estimate[e].status, "REJECTED"},
           \A e \in Estimates : Issued(e) => Issued(e)',
           s.kind \in {"returnParts", "decide"} =>
                \A i \in s.items : item'[i.estimate][i.part] = item[i.estimate][i.part],
           s.kind = "writeTotal" => item'[s.estimate] = item[s.estimate]
    PROVE  Current(s)'
<1>1. s.kind \in {"returnParts", "decide"} => s.items \subseteq PartItem
  BY DEF Statement
<1>2. s.kind = "updateOrder" => Fresh(s)'
  BY DEF Current, Fresh, Loaded
<1>3. /\ s.kind \in {"updateEstimate", "decide"} => Undecided(s.estimate)'
      /\ s.kind = "rejectEstimates" => \A e \in s.estimates : Undecided(e)'
  BY DEF Current, Undecided
<1>4. s.kind \in {"returnParts", "decide"} => \A i \in s.items : Held(i)'
  BY <1>1 DEF Current, Held, PartItem
<1>5. /\ s.kind \in {"createItem", "sumItems", "writeTotal"}
            => (s.estimate \in Estimates => Issued(s.estimate)')
      /\ s.kind = "writeTotal" => s.totalOf = item'[s.estimate]
  BY DEF Current
<1> QED BY <1>2, <1>3, <1>4, <1>5 DEF Current

\* A step that changes no order, no item and no decision.
LEMMA CurrentStep ==
    ASSUME IInv, PlansShaped, CurrentInv, UNCHANGED <<order, item>>,
           \A e \in Estimates : /\ Issued(e)' <=> Issued(e)
                                /\ estimate'[e].status \in {estimate[e].status, "REJECTED"},
           NEW r \in Requests, NEW S, Goes(r, S), \A t \in S \ Pend(r) : Current(t)'
    PROVE  CurrentInv'
<1>1. ASSUME NEW p \in Requests, NEW t \in Pend(p)' PROVE Current(t)'
  <2>1. CASE t \in Pend(p)
    <3>1. t \in Statement /\ Current(t)
      BY <2>1, PendingSound DEF CurrentInv
    <3>2. /\ t.kind \in {"updateEstimate", "decide"} => t.estimate \in Estimates
          /\ t.kind = "rejectEstimates" => t.estimates \subseteq Estimates
      BY <3>1 DEF Statement
    <3> QED BY <3>1, <3>2, StaysCurrent
  <2>2. CASE t \notin Pend(p)
    <3>1. p = r /\ t \in S
      BY <1>1, <2>2 DEF Goes
    <3> QED BY <2>2, <3>1
  <2> QED BY <2>1, <2>2
<1>2. /\ \A o \in Orders : order'[o].closedAt <=> order'[o].status = "CLOSED"
      /\ \A e \in Estimates : ~Issued(e)' => item'[e] = NoItems
  BY DEF CurrentInv
<1> QED BY <1>1, <1>2 DEF CurrentInv

\* What is current stays so while no table changes.
LEMMA CurrentUnchanged ==
    ASSUME UNCHANGED tables, NEW s, Current(s)
    PROVE  Current(s)'
BY DEF tables, Current, Fresh, Loaded, Undecided, Held, Issued

\* Once the order of a decision is loaded, what the request goes on with is current.
LEMMA LoadedPlanIsCurrent ==
    ASSUME TypeOK, NEW s, Current(s), NEW r, LoadsAgain(r, s),
           estimate[s.estimate].serviceOrder \in Orders
    PROVE  \E S : Goes(r, S) /\ \A t \in S : Current(t)
<1> DEFINE o == estimate[s.estimate].serviceOrder
<1>1. CASE /\ s.kind = "rejectOrderOf" /\ Goes(r, RejectPlan(o))
           /\ Allows(Loaded(o), "rejectEstimate", NoMechanic)
  <2>1. DecidesOn(RejectPlan(o))
    BY <1>1 DEF DecidesOn
  <2> QED BY <1>1, <2>1, DecisionsAreCurrent
<1>2. CASE /\ s.kind = "decide" /\ Goes(r, DecisionPlan(o, s))
           /\ Allows(Loaded(o), DecisionMethod(s.status), NoMechanic)
  <2>1. DecidesOn(MovePlan(o, DecisionMethod(s.status)))
    BY <1>2 DEF DecidesOn, DecisionMethod, Methods, Actors
  <2>2. \A t \in MovePlan(o, DecisionMethod(s.status)) : Current(t)
    BY <2>1, DecisionsAreCurrent
  <2>3. Current(SetStatus(s.estimate, s.status)) /\ Current(Returning(s.items))
    BY <1>2 DEF Current, SetStatus, Returning
  <2>4. \A t \in DecisionPlan(o, s) : Current(t)
    BY <2>2, <2>3 DEF DecisionPlan, Looped
  <2> QED BY <1>2, <2>4
<1> QED BY <1>1, <1>2 DEF LoadsAgain

\* A handler that decides leaves all that is pending current.
LEMMA HandleCurrent ==
    ASSUME IInv, PlansShaped, CurrentInv, NEW r \in Requests, Handle(r)
    PROVE  CurrentInv'
<1>1. TypeOK
  BY SoundIsTyped
<1>2. UNCHANGED tables /\ \E S : DecidesOn(S) /\ Goes(r, S)
  BY <1>1, HandleDecides
<1>3. PICK S : DecidesOn(S) /\ Goes(r, S)
  BY <1>2
<1>4. \A t \in S : Current(t)'
  BY <1>1, <1>2, <1>3, DecisionsAreCurrent, CurrentUnchanged
<1>5. UNCHANGED <<order, item>> /\ \A e \in Estimates : Issued(e)' <=> Issued(e)
  BY <1>2 DEF tables, Issued
<1>6. \A e \in Estimates : estimate'[e].status = estimate[e].status
  BY <1>2 DEF tables
<1> QED BY <1>3, <1>4, <1>5, <1>6, CurrentStep

\* A decision that loads its order again goes on with what is current.
LEMMA LoadsAgainCurrent ==
    ASSUME IInv, PlansShaped, CurrentInv, NEW r \in Requests, NEW s \in Statement,
           LoadsAgain(r, s)
    PROVE  CurrentInv'
<1>1. TypeOK
  BY SoundIsTyped
<1>2. s \in Pend(r) /\ s.kind \in {"decide", "rejectOrderOf"} /\ UNCHANGED tables
  BY DEF LoadsAgain
<1>3. Sound(s) /\ Current(s)
  BY <1>2, PendingSound DEF CurrentInv
<1>4. estimate[s.estimate].serviceOrder \in Orders
  BY <1>2, <1>3 DEF Sound, Statement, IInv, EstimatesSound
<1>5. PICK S : Goes(r, S) /\ \A t \in S : Current(t)
  BY <1>1, <1>3, <1>4, LoadedPlanIsCurrent
<1>6. \A t \in S : Current(t)'
  BY <1>2, <1>5, CurrentUnchanged
<1>7. UNCHANGED <<order, item>> /\ \A e \in Estimates : Issued(e)' <=> Issued(e)
  BY <1>2 DEF tables, Issued
<1>8. \A e \in Estimates : estimate'[e].status = estimate[e].status
  BY <1>2 DEF tables
<1> QED BY <1>5, <1>6, <1>7, <1>8, CurrentStep

\* A rejection, or the return of the parts, goes on with what is left of it.
LEMMA LoopsCurrent ==
    ASSUME IInv, PlansShaped, CurrentInv, NEW r \in Requests, NEW s \in Statement,
           \/ \E e \in Estimates : RejectsOne(r, s, e)
           \/ \E i \in PartItem : ReturnsOne(r, s, i)
    PROVE  CurrentInv'
<1>1. TypeOK /\ \A e \in Estimates : estimate[e] \in EstimateRow
  BY SoundIsTyped DEF TypeOK
<1>2. ASSUME NEW e \in Estimates, RejectsOne(r, s, e) PROVE CurrentInv'
  <2> DEFINE rest == s.estimates \ {e}
             S    == (Pend(r) \ {s}) \cup Looped(rest, Rejecting(rest))
  <2>1. /\ s.kind = "rejectEstimates" /\ s \in Pend(r) /\ e \in s.estimates
        /\ Goes(r, S) /\ UNCHANGED <<order, item>>
        /\ estimate' = [estimate EXCEPT ![e].status = "REJECTED"]
    BY <1>2 DEF RejectsOne, IsNext
  <2>2. s.estimates \subseteq Estimates /\ Sound(s) /\ Current(s)
    BY <2>1, PendingSound DEF CurrentInv, Statement
  <2>3. \A d \in Estimates : /\ Issued(d)' <=> Issued(d)
                             /\ estimate'[d].status \in {estimate[d].status, "REJECTED"}
    BY <1>1, <2>1, <2>2 DEF Sound, Issued, Unissued, EstimateRow, TypeOK
  <2>4. Current(Rejecting(rest))'
    <3>1. \A d \in rest : Undecided(d)'
      BY <2>1, <2>2, <2>3 DEF Current, Undecided
    <3> HIDE DEF rest
    <3> QED BY <3>1 DEF Rejecting, Current
  <2>5. \A t \in S \ Pend(r) : Current(t)'
    BY <2>4 DEF Looped
  <2> HIDE DEF S
  <2> QED BY <2>1, <2>3, <2>5, CurrentStep
<1>3. ASSUME NEW i \in PartItem, ReturnsOne(r, s, i) PROVE CurrentInv'
  <2> DEFINE rest == s.items \ {i}
             S    == (Pend(r) \ {s}) \cup Looped(rest, Returning(rest))
  <2>1. /\ s.kind = "returnParts" /\ s \in Pend(r)
        /\ Goes(r, S) /\ UNCHANGED <<order, item, estimate>>
    BY <1>3 DEF ReturnsOne, IsNext
  <2>2. Current(s)
    BY <2>1 DEF CurrentInv
  <2>3. \A d \in Estimates : /\ Issued(d)' <=> Issued(d)
                             /\ estimate'[d].status \in {estimate[d].status, "REJECTED"}
    BY <2>1 DEF Issued
  <2>4. Current(Returning(rest))'
    <3>1. \A j \in rest : Held(j)'
      BY <2>1, <2>2 DEF Current, Held, Issued
    <3> HIDE DEF rest
    <3> QED BY <3>1 DEF Returning, Current
  <2>5. \A t \in S \ Pend(r) : Current(t)'
    BY <2>4 DEF Looped
  <2> HIDE DEF S
  <2> QED BY <2>1, <2>3, <2>5, CurrentStep
<1> QED BY <1>2, <1>3

\* Statements that decide nothing and write neither orders nor items.
LEMMA PlainCurrent ==
    ASSUME IInv, PlansShaped, CurrentInv, NEW r \in Requests, NEW s \in Statement,
           AddsHistory(r, s) \/ TakesStock(r, s) \/ SumsUp(r, s) \/ WritesTotal(r, s)
    PROVE  CurrentInv'
<1>1. TypeOK /\ \A e \in Estimates : estimate[e] \in EstimateRow
  BY SoundIsTyped DEF TypeOK
<1>2. UNCHANGED <<order, item>>
  BY DEF AddsHistory, TakesStock, SumsUp, WritesTotal, tables
<1>3. \A e \in Estimates : /\ Issued(e)' <=> Issued(e)
                           /\ estimate'[e].status \in {estimate[e].status, "REJECTED"}
  <2>1. \/ estimate' = estimate
        \/ /\ s.kind = "writeTotal"
           /\ estimate' = [estimate EXCEPT ![s.estimate].totalOf = s.totalOf]
    BY DEF AddsHistory, TakesStock, SumsUp, WritesTotal, tables
  <2>2. \A e \in Estimates : estimate'[e].status = estimate[e].status
    <3>1. CASE estimate' = estimate
      BY <3>1
    <3>2. CASE /\ s.kind = "writeTotal"
               /\ estimate' = [estimate EXCEPT ![s.estimate].totalOf = s.totalOf]
      BY <1>1, <3>2 DEF EstimateRow, TypeOK
    <3> QED BY <2>1, <3>1, <3>2
  <2> QED BY <2>2 DEF Issued
<1>4. CASE AddsHistory(r, s) \/ TakesStock(r, s)
  BY <1>2, <1>3, <1>4, CurrentStep DEF AddsHistory, TakesStock, Takes
<1>5. CASE WritesTotal(r, s)
  BY <1>2, <1>3, <1>5, CurrentStep DEF WritesTotal
<1>6. CASE SumsUp(r, s)
  <2> DEFINE e == s.estimate
  <2>1. s.kind = "sumItems" /\ s \in Pend(r) /\ Goes(r, {WriteSum(e, item[e])})
    BY <1>6 DEF SumsUp
  <2>2. Current(s) /\ e \in Estimates
    BY <2>1 DEF CurrentInv, Statement
  <2>3. Issued(e)
    BY <2>1, <2>2 DEF Current
  <2>4. PICK sum : sum = WriteSum(e, item[e])
    OBVIOUS
  <2>5. Current(sum)'
    BY <1>2, <1>3, <2>2, <2>3, <2>4 DEF Current, WriteSum
  <2>6. \A t \in {sum} \ Pend(r) : Current(t)'
    BY <2>5
  <2> QED BY <1>2, <1>3, <2>1, <2>4, <2>6, CurrentStep
<1> QED BY <1>4, <1>5, <1>6

\* A request that stops leaves the others current.
LEMMA StopsCurrent ==
    ASSUME IInv, PlansShaped, CurrentInv, NEW r \in Requests, Stops(r)
    PROVE  CurrentInv'
<1>1. UNCHANGED <<order, item, estimate>> /\ Goes(r, {})
  BY DEF Stops, tables
<1>2. \A e \in Estimates : /\ Issued(e)' <=> Issued(e)
                           /\ estimate'[e].status \in {estimate[e].status, "REJECTED"}
  BY <1>1 DEF Issued
<1> QED BY <1>1, <1>2, CurrentStep

\* A step after which every statement is either undisturbed or newly decided.
LEMMA CurrentAfter ==
    ASSUME IInv, CurrentInv,
           \A e \in Estimates : Issued(e) => Issued(e)',
           \A p \in Requests : \A t \in Pend(p)' : t \notin Pend(p) => Current(t)',
           \A p \in Requests : \A t \in Pend(p)' : t \in Pend(p) =>
                /\ t.kind = "updateOrder" => order'[t.order] = order[t.order]
                /\ t.kind \in {"updateEstimate", "decide"} =>
                        estimate'[t.estimate].status \in {estimate[t.estimate].status, "REJECTED"}
                /\ t.kind = "rejectEstimates" => \A e \in t.estimates :
                        estimate'[e].status \in {estimate[e].status, "REJECTED"}
                /\ t.kind \in {"returnParts", "decide"} =>
                        \A i \in t.items : item'[i.estimate][i.part] = item[i.estimate][i.part]
                /\ t.kind = "writeTotal" => item'[t.estimate] = item[t.estimate],
           \A o \in Orders : order'[o].closedAt <=> order'[o].status = "CLOSED",
           \A e \in Estimates : ~Issued(e)' => item'[e] = NoItems
    PROVE  CurrentInv'
<1>1. ASSUME NEW p \in Requests, NEW t \in Pend(p)', t \in Pend(p) PROVE Current(t)'
  <2>1. t \in Statement /\ Current(t)
    BY <1>1, PendingSound DEF CurrentInv
  <2> QED BY <1>1, <2>1, StaysCurrent
<1>2. \A p \in Requests : \A t \in Pend(p)' : Current(t)'
  BY <1>1
<1> QED BY <1>2 DEF CurrentInv

\* The row that a fresh update writes is what the method makes of the order as it is:
\* the closing date it would keep is not set.
LEMMA FreshRow ==
    ASSUME TypeOK, NEW s \in Statement, s.kind = "updateOrder", Fresh(s),
           order[s.order].closedAt <=> order[s.order].status = "CLOSED"
    PROVE  /\ Loaded(s.order) = order[s.order]
           /\ [s.row EXCEPT !.closedAt = s.row.closedAt \/ order[s.order].closedAt] = s.row
           /\ s.row.closedAt <=> s.row.status = "CLOSED"
<1> DEFINE o == s.order
           row == order[o]
<1>1. o \in Orders /\ s.row \in Order /\ row \in Order
  BY DEF Statement, TypeOK
<1>2. Loaded(o) \in Order /\ Loaded(o).status = row.status
  BY <1>1 DEF Loaded, ToDomain, Order
<1>3. row.status # "CLOSED" /\ (s.row.closedAt <=> s.row.status = "CLOSED")
  <2>1. ASSUME NEW method \in Methods, NEW actor \in Actors,
               Allows(Loaded(o), method, actor), s.row = Apply(Loaded(o), method)
        PROVE  row.status # "CLOSED" /\ (s.row.closedAt <=> s.row.status = "CLOSED")
    <3>1. row.status # "CLOSED"
      BY <1>2, <2>1 DEF Allows, ExpectedIn, Methods
    <3>2. s.row.status = ResultOf[method] /\ s.row.closedAt = (method = "close")
      BY <1>2, <2>1, ApplyTyped
    <3>3. method = "close" <=> ResultOf[method] = "CLOSED"
      BY DEF ResultOf, Methods
    <3>4. s.row.closedAt <=> s.row.status = "CLOSED"
      BY <3>2, <3>3, Zenon
    <3> QED BY <3>1, <3>4
  <2>2. ASSUME NEW mechanic \in Mechanics, row.status = "RECEIVED",
               s.row = AssignMechanic(Loaded(o), mechanic)
        PROVE  row.status # "CLOSED" /\ (s.row.closedAt <=> s.row.status = "CLOSED")
    BY <1>1, <1>2, <2>2 DEF AssignMechanic, Order, Loaded, ToDomain
  <2> QED BY <2>1, <2>2 DEF Fresh
<1>4. row.closedAt = FALSE
  BY <1>1, <1>3 DEF Order
<1>5. Loaded(o) = row
  BY <1>1, <1>4 DEF Loaded, ToDomain, Order
<1>6. [s.row EXCEPT !.closedAt = s.row.closedAt \/ row.closedAt] = s.row
  BY <1>1, <1>4 DEF Order
<1> QED BY <1>3, <1>5, <1>6

\* Nobody else has an order pending that a request writes.
LEMMA WritesOrderCurrent ==
    ASSUME IInv, PlansShaped, OrdersApart, CurrentInv, NEW r \in Requests, NEW s \in Statement,
           WritesOrder(r, s)
    PROVE  CurrentInv'
<1>1. TypeOK
  BY SoundIsTyped
<1>2. /\ s.kind = "updateOrder" /\ s \in Pend(r) /\ IsNext(r, s)
      /\ UNCHANGED <<estimate, item>>
      /\ Pend(r)' = Pend(r) \ {s} /\ \A p \in Requests \ {r} : Pend(p)' = Pend(p)
      /\ order' = [order EXCEPT ![s.order] =
                    [s.row EXCEPT !.closedAt = s.row.closedAt \/ order[s.order].closedAt]]
  BY DEF WritesOrder, Takes, IsNext, Goes
<1>3. s.order \in Orders /\ Current(s) /\ Concerns(s, s.order)
  BY <1>2 DEF Statement, CurrentInv, Concerns
<1>4. order' = [order EXCEPT ![s.order] = s.row] /\ (s.row.closedAt <=> s.row.status = "CLOSED")
  BY <1>1, <1>2, <1>3, FreshRow DEF Current, CurrentInv
<1>5. ASSUME NEW p \in Requests, NEW t \in Pend(p)', t.kind = "updateOrder"
      PROVE  order'[t.order] = order[t.order]
  <2>1. t \in Pend(p) /\ t \in Statement
    BY <1>2, <1>5, PendingSound
  <2>2. CASE t.order = s.order
    <3>1. p = r
      BY <1>2, <1>3, <1>5, <2>1, <2>2, Elsewhere DEF Concerns
    <3>2. t = s
      BY <1>2, <1>5, <2>1, <3>1, NoneTwice
    <3> QED BY <1>2, <3>1, <3>2
  <2>3. CASE t.order # s.order
    BY <1>1, <1>4, <2>3 DEF TypeOK, Statement
  <2> QED BY <2>2, <2>3
<1>6. \A p \in Requests : \A t \in Pend(p)' : t \in Pend(p)
  BY <1>2
<1>7. \A o \in Orders : order'[o].closedAt <=> order'[o].status = "CLOSED"
  BY <1>1, <1>3, <1>4 DEF TypeOK, CurrentInv
<1>8. \A e \in Estimates : (Issued(e)' <=> Issued(e)) /\ (~Issued(e)' => item'[e] = NoItems)
  BY <1>2 DEF Issued, CurrentInv
<1> QED BY <1>2, <1>5, <1>6, <1>7, <1>8, CurrentAfter

\* Nobody else decides the estimate that a request writes.
LEMMA SetsStatusCurrent ==
    ASSUME IInv, PlansShaped, OrdersApart, CurrentInv, NEW r \in Requests, NEW s \in Statement,
           SetsStatus(r, s)
    PROVE  CurrentInv'
<1> DEFINE e == s.estimate
<1>1. TypeOK /\ \A d \in Estimates : estimate[d] \in EstimateRow
  BY SoundIsTyped DEF TypeOK
<1>2. /\ s.kind = "updateEstimate" /\ s \in Pend(r) /\ IsNext(r, s)
      /\ UNCHANGED <<order, item>>
      /\ Pend(r)' = Pend(r) \ {s} /\ \A p \in Requests \ {r} : Pend(p)' = Pend(p)
      /\ estimate' = [estimate EXCEPT ![e].status = s.status]
  BY DEF SetsStatus, Takes, IsNext, Goes
<1>3. e \in Estimates /\ s.status \in EstimateStatuses /\ Issued(e)
  BY <1>2, PendingSound DEF Sound, Statement
<1>4. OrderOf(e) \in Orders /\ Concerns(s, OrderOf(e))
  BY <1>2, <1>3 DEF IInv, EstimatesSound, OrderOf, Concerns
<1>5. /\ \A d \in Estimates \ {e} : estimate'[d] = estimate[d]
      /\ estimate'[e].status = s.status
  BY <1>1, <1>2, <1>3 DEF TypeOK, EstimateRow
<1>6. ASSUME NEW p \in Requests, NEW t \in Pend(p)',
             \/ t.kind \in {"updateEstimate", "decide"} /\ t.estimate = e
             \/ t.kind = "rejectEstimates" /\ e \in t.estimates
      PROVE  FALSE
  <2>1. t \in Pend(p) /\ Concerns(t, OrderOf(e))
    BY <1>2, <1>3, <1>6 DEF Concerns
  <2>2. p = r
    BY <1>2, <1>4, <2>1, Elsewhere
  <2>3. t = s
    BY <1>2, <1>6, <2>1, <2>2 DEF IsNext, MayFollow
  <2> QED BY <1>2, <2>2, <2>3
<1>7. \A p \in Requests : \A t \in Pend(p)' : t \in Pend(p) /\ t \in Statement
  BY <1>2, PendingSound
<1>8. \A d \in Estimates : Issued(d)' <=> Issued(d)
  BY <1>3, <1>5 DEF Issued, Unissued, EstimateStatuses
<1>9. ASSUME NEW p \in Requests, NEW t \in Pend(p)'
      PROVE  /\ t.kind \in {"updateEstimate", "decide"} =>
                    estimate'[t.estimate].status = estimate[t.estimate].status
             /\ t.kind = "rejectEstimates" => \A d \in t.estimates :
                    estimate'[d].status = estimate[d].status
  <2>1. /\ t.kind \in {"updateEstimate", "decide"} => t.estimate \in Estimates
        /\ t.kind = "rejectEstimates" => t.estimates \subseteq Estimates
    BY <1>7 DEF Statement
  <2> QED BY <1>5, <1>6, <2>1
<1>10. /\ \A o \in Orders : order'[o].closedAt <=> order'[o].status = "CLOSED"
       /\ \A d \in Estimates : ~Issued(d)' => item'[d] = NoItems
  BY <1>2, <1>8 DEF CurrentInv
<1> QED BY <1>2, <1>7, <1>8, <1>9, <1>10, CurrentAfter

\* Nobody else sums up the estimate that a request adds an item to.
LEMMA InsertsItemCurrent ==
    ASSUME IInv, PlansShaped, OrdersApart, CurrentInv, NEW r \in Requests, NEW s \in Statement,
           InsertsItem(r, s)
    PROVE  CurrentInv'
<1> DEFINE e == s.estimate
<1>1. TypeOK /\ \A d \in Estimates : item[d] \in ItemList
  BY SoundIsTyped DEF TypeOK
<1>2. /\ s.kind = "createItem" /\ s \in Pend(r) /\ Pend(r) = {s} /\ Pend(r)' = {SumUp(e)}
      /\ UNCHANGED <<order, estimate>>
      /\ \A p \in Requests \ {r} : Pend(p)' = Pend(p)
      /\ e \in Estimates /\ item[e][s.ref] = 0
      /\ item' = [item EXCEPT ![e][s.ref] = s.quantity]
  BY DEF InsertsItem, Goes
<1>3. Issued(e) /\ s.ref \in References
  BY <1>2 DEF CurrentInv, Current, Statement
<1>4. OrderOf(e) \in Orders /\ Concerns(s, OrderOf(e))
  BY <1>2, <1>3 DEF IInv, EstimatesSound, OrderOf, Concerns
<1>5. /\ \A d \in Estimates \ {e} : item'[d] = item[d]
      /\ \A ref \in References : ref # s.ref => item'[e][ref] = item[e][ref]
  BY <1>1, <1>2 DEF TypeOK, ItemList
<1>6. \A d \in Estimates : Issued(d)' <=> Issued(d)
  BY <1>2 DEF Issued
<1>7. ASSUME NEW p \in Requests, NEW t \in Pend(p)', t \notin Pend(p) PROVE Current(t)'
  <2>1. t = SumUp(e)
    BY <1>2, <1>7
  <2> QED BY <1>3, <1>6, <2>1 DEF Current, SumUp
<1>8. ASSUME NEW p \in Requests, NEW t \in Pend(p)', t \in Pend(p)
      PROVE  /\ t.kind \in {"returnParts", "decide"} =>
                    \A i \in t.items : item'[i.estimate][i.part] = item[i.estimate][i.part]
             /\ t.kind = "writeTotal" => item'[t.estimate] = item[t.estimate]
  <2>1. t \in Statement /\ Current(t)
    BY <1>8, PendingSound DEF CurrentInv
  <2>2. ASSUME t.kind \in {"returnParts", "decide"}, NEW i \in t.items
        PROVE  item'[i.estimate][i.part] = item[i.estimate][i.part]
    <3>1. i.estimate \in Estimates /\ i.part \in References /\ i.quantity \in 1 .. MaxQuantity
      BY <2>1, <2>2 DEF Statement, PartItem, References
    <3>2. item[i.estimate][i.part] = i.quantity
      BY <2>1, <2>2 DEF Current, Held
    <3>3. i.estimate # e \/ i.part # s.ref
      BY <1>2, <3>1, <3>2
    <3> QED BY <1>5, <3>1, <3>3
  <2>3. ASSUME t.kind = "writeTotal" PROVE item'[t.estimate] = item[t.estimate]
    <3>1. t.estimate \in Estimates
      BY <2>1, <2>3 DEF Statement
    <3>2. t.estimate # e
      <4>1. SUFFICES ASSUME t.estimate = e PROVE FALSE
        OBVIOUS
      <4>2. Concerns(t, OrderOf(e))
        BY <1>2, <2>3, <4>1 DEF Concerns
      <4>3. p = r
        BY <1>2, <1>4, <1>8, <4>2, Elsewhere
      <4> QED BY <1>2, <1>8, <2>3, <4>3
    <3> QED BY <1>5, <3>1, <3>2
  <2> QED BY <2>2, <2>3
<1>9. /\ \A o \in Orders : order'[o].closedAt <=> order'[o].status = "CLOSED"
      /\ \A d \in Estimates : ~Issued(d)' => item'[d] = NoItems
  BY <1>2, <1>3, <1>5, <1>6 DEF CurrentInv
<1> QED BY <1>2, <1>6, <1>7, <1>8, <1>9, CurrentAfter

\* Nothing is pending for an estimate that is only now issued, or for an order that is
\* only now opened.
LEMMA NewRowsCurrent ==
    ASSUME IInv, PlansShaped, CurrentInv,
           \A p \in Requests : Pend(p)' \subseteq Pend(p),
           NEW E \in SUBSET Estimates, \A e \in E : ~Issued(e) /\ Issued(e)',
           \A e \in Estimates \ E : estimate'[e] = estimate[e] /\ item'[e] = item[e],
           NEW O \in SUBSET Orders, \A o \in O : ~Opened(o),
           \A o \in Orders \ O : order'[o] = order[o],
           \A o \in O : order'[o].closedAt <=> order'[o].status = "CLOSED"
    PROVE  CurrentInv'
<1>1. \A e \in Estimates : Issued(e) => Issued(e)'
  BY DEF Issued
<1>2. ASSUME NEW p \in Requests, NEW t \in Pend(p)', t \in Pend(p)
      PROVE  /\ t.kind = "updateOrder" => order'[t.order] = order[t.order]
             /\ t.kind \in {"updateEstimate", "decide"} =>
                        estimate'[t.estimate].status \in {estimate[t.estimate].status, "REJECTED"}
             /\ t.kind = "rejectEstimates" => \A e \in t.estimates :
                        estimate'[e].status \in {estimate[e].status, "REJECTED"}
             /\ t.kind \in {"returnParts", "decide"} =>
                        \A i \in t.items : item'[i.estimate][i.part] = item[i.estimate][i.part]
             /\ t.kind = "writeTotal" => item'[t.estimate] = item[t.estimate]
  <2>1. t \in Statement /\ Current(t) /\ (t.kind # "createHistory" => Sound(t))
    BY <1>2, PendingSound DEF CurrentInv
  <2>2. ASSUME t.kind = "updateOrder" PROVE order'[t.order] = order[t.order]
    <3>1. t.order \in Orders /\ Opened(t.order)
      BY <2>1, <2>2 DEF Sound, Statement
    <3> QED BY <3>1
  <2>3. ASSUME t.kind \in {"updateEstimate", "decide"}
        PROVE  estimate'[t.estimate].status = estimate[t.estimate].status
    <3>1. t.estimate \in Estimates /\ Issued(t.estimate)
      BY <2>1, <2>3 DEF Sound, Statement
    <3> QED BY <3>1
  <2>4. ASSUME t.kind = "rejectEstimates", NEW e \in t.estimates
        PROVE  estimate'[e].status = estimate[e].status
    <3>1. e \in Estimates /\ Issued(e)
      BY <2>1, <2>4 DEF Sound, Statement
    <3> QED BY <3>1
  <2>5. ASSUME t.kind \in {"returnParts", "decide"}, NEW i \in t.items
        PROVE  item'[i.estimate][i.part] = item[i.estimate][i.part]
    <3>1. i.estimate \in Estimates /\ Issued(i.estimate)
      BY <2>1, <2>5 DEF Current, Held, Statement, PartItem
    <3> QED BY <3>1
  <2>6. ASSUME t.kind = "writeTotal" PROVE item'[t.estimate] = item[t.estimate]
    <3>1. t.estimate \in Estimates /\ Issued(t.estimate)
      BY <2>1, <2>6 DEF Current, Statement
    <3> QED BY <3>1
  <2> QED BY <2>2, <2>3, <2>4, <2>5, <2>6
<1>3. /\ \A o \in Orders : order'[o].closedAt <=> order'[o].status = "CLOSED"
      /\ \A e \in Estimates : ~Issued(e)' => item'[e] = NoItems
  BY DEF CurrentInv, Issued
<1> QED BY <1>1, <1>2, <1>3, CurrentAfter

\* A new estimate disturbs nothing that is pending.
LEMMA IssuesEstimateCurrent ==
    ASSUME IInv, PlansShaped, CurrentInv, NEW r \in Requests, NEW s \in Statement,
           NEW e \in Estimates, IssuesEstimate(r, s, e)
    PROVE  CurrentInv'
<1>1. TypeOK
  BY SoundIsTyped
<1>2. /\ ~Issued(e) /\ UNCHANGED <<order, item>>
      /\ Pend(r)' = Pend(r) \ {s} /\ \A p \in Requests \ {r} : Pend(p)' = Pend(p)
      /\ estimate' = [estimate EXCEPT ![e] = [serviceOrder |-> s.order, status |-> "PENDING",
                                              totalOf |-> NoItems]]
  BY DEF IssuesEstimate, Takes, Goes
<1>3. Issued(e)' /\ \A d \in Estimates \ {e} : estimate'[d] = estimate[d] /\ item'[d] = item[d]
  BY <1>1, <1>2 DEF TypeOK, Issued, Unissued
<1>4. /\ \A d \in Estimates : ~Issued(d)' => item'[d] = NoItems
      /\ \A d \in Estimates : Issued(d) => Issued(d)'
  BY <1>2, <1>3 DEF CurrentInv, Issued
<1>5. \A p \in Requests : Pend(p)' \subseteq Pend(p)
  BY <1>2
<1>6. {e} \in SUBSET Estimates /\ \A d \in {e} : ~Issued(d) /\ Issued(d)'
  BY <1>2, <1>3
<1>7. {} \in SUBSET Orders /\ \A o \in Orders \ {} : order'[o] = order[o]
  BY <1>2
<1> QED BY <1>3, <1>5, <1>6, <1>7, NewRowsCurrent

\* Nothing is pending of an order that is opened now.
LEMMA OpeningCurrent ==
    ASSUME IInv, PlansShaped, CurrentInv, NEW o \in Orders,
           \/ OpenOrder(o)
           \/ \E e \in Estimates, items \in ItemList : OpenOrderWithItems(o, e, items)
    PROVE  CurrentInv'
<1>1. TypeOK
  BY SoundIsTyped
<1>2. ~Opened(o) /\ UNCHANGED todo
  BY DEF OpenOrder, OpenOrderWithItems
<1>3. \A p \in Requests : Pend(p)' \subseteq Pend(p)
  BY <1>2 DEF Pend
<1>4. {o} \in SUBSET Orders /\ \A q \in {o} : ~Opened(q)
  BY <1>2
<1>5. CASE OpenOrder(o)
  <2>1. order' = [order EXCEPT ![o] = OpenedOrder] /\ UNCHANGED <<estimate, item>>
    BY <1>5 DEF OpenOrder
  <2>2. /\ \A q \in Orders \ {o} : order'[q] = order[q]
        /\ \A q \in {o} : order'[q].closedAt <=> order'[q].status = "CLOSED"
    BY <1>1, <2>1 DEF TypeOK, OpenedOrder
  <2>3. {} \in SUBSET Estimates
        /\ \A e \in Estimates \ {} : estimate'[e] = estimate[e] /\ item'[e] = item[e]
    BY <2>1
  <2> QED BY <1>3, <1>4, <2>2, <2>3, NewRowsCurrent
<1>6. ASSUME NEW e \in Estimates, NEW items \in ItemList, OpenOrderWithItems(o, e, items)
      PROVE  CurrentInv'
  <2> DEFINE opened == Apply(Apply(OpenedOrder, "startDiagnosis"), "requestApproval")
  <2>1. /\ ~Issued(e) /\ order' = [order EXCEPT ![o] = opened]
        /\ estimate' = [estimate EXCEPT ![e] = [serviceOrder |-> o, status |-> "PENDING",
                                                totalOf |-> items]]
        /\ item' = [item EXCEPT ![e] = items]
    BY <1>6 DEF OpenOrderWithItems
  <2>2. opened.status = "WAITING_APPROVAL" /\ opened.closedAt = FALSE
    BY DEF Apply, OpenedOrder, ResultOf
  <2> HIDE DEF opened
  <2>3. /\ \A q \in Orders \ {o} : order'[q] = order[q]
        /\ \A q \in {o} : order'[q].closedAt <=> order'[q].status = "CLOSED"
    BY <1>1, <2>1, <2>2 DEF TypeOK
  <2>4. /\ \A d \in Estimates \ {e} : estimate'[d] = estimate[d] /\ item'[d] = item[d]
        /\ {e} \in SUBSET Estimates /\ \A d \in {e} : ~Issued(d) /\ Issued(d)'
    BY <1>1, <2>1 DEF TypeOK, Issued, Unissued
  <2> QED BY <1>3, <1>4, <2>3, <2>4, NewRowsCurrent
<1> QED BY <1>5, <1>6

\* Nothing is pending in an empty system.
LEMMA InitCurrent == Init => CurrentInv
<1> SUFFICES ASSUME Init PROVE CurrentInv
  OBVIOUS
<1>1. \A r \in Requests : Pend(r) = {}
  BY NothingPending DEF Init, Pend
<1>2. \A o \in Orders : order[o].closedAt <=> order[o].status = "CLOSED"
  BY DEF Init, NoOrderRow, Unopened
<1>3. \A e \in Estimates : item[e] = NoItems
  BY DEF Init
<1> QED BY <1>1, <1>2, <1>3 DEF CurrentInv

\* Every step of a request in flight leaves what is pending current.
LEMMA RunCurrent ==
    ASSUME IInv, PlansShaped, OrdersApart, CurrentInv, NEW r \in Requests, Run(r)
    PROVE  CurrentInv'
<1>1. Stops(r) \/ \E s \in Statement : Does(r, s)
  BY RunDoes
<1>2. ASSUME NEW s \in Statement, Does(r, s) PROVE CurrentInv'
  BY <1>2, WritesOrderCurrent, IssuesEstimateCurrent, LoopsCurrent, SetsStatusCurrent,
     PlainCurrent, LoadsAgainCurrent, InsertsItemCurrent
  DEF Does
<1> QED BY <1>1, <1>2, StopsCurrent

\* What is pending stays current, whatever fails, while requests are apart.
LEMMA NextCurrent ==
    IInv /\ PlansShaped /\ OrdersApart /\ CurrentInv /\ [Next]_vars => CurrentInv'
<1> SUFFICES ASSUME IInv, PlansShaped, OrdersApart, CurrentInv, [Next]_vars PROVE CurrentInv'
  OBVIOUS
<1>1. ASSUME NEW r \in Requests, Handle(r) \/ Run(r) PROVE CurrentInv'
  BY <1>1, HandleCurrent, RunCurrent
<1>2. ASSUME NEW o \in Orders,
             \/ OpenOrder(o)
             \/ \E e \in Estimates, items \in ItemList : OpenOrderWithItems(o, e, items)
      PROVE  CurrentInv'
  BY <1>2, OpeningCurrent
<1>3. CASE UNCHANGED vars
  <2>1. UNCHANGED tables /\ \A p \in Requests : Pend(p)' = Pend(p)
    BY <1>3 DEF vars, tables, Pend
  <2>2. \A p \in Requests : \A t \in Pend(p)' : Current(t)'
    BY <2>1, CurrentUnchanged DEF CurrentInv
  <2>3. /\ \A o \in Orders : order'[o].closedAt <=> order'[o].status = "CLOSED"
        /\ \A e \in Estimates : ~Issued(e)' => item'[e] = NoItems
    BY <2>1 DEF CurrentInv, tables, Issued
  <2> QED BY <2>2, <2>3 DEF CurrentInv
<1> QED BY <1>1, <1>2, <1>3 DEF Next

\* While no two requests concern the same order, what a request has pending is still
\* what it would decide now.
THEOREM CurrentInvariant == Spec /\ []OrdersApart => []CurrentInv
<1> QED BY InitCurrent, NextCurrent, SoundnessInvariant, ShapedInvariant, PTL DEF Spec

\* While requests are apart an APPROVED estimate is never written again: the estimates a
\* request is about to decide are still undecided.
LEMMA ApprovedStays ==
    ASSUME IInv, PlansShaped, CurrentInv, [Next]_vars, NEW e \in Estimates,
           estimate[e].status = "APPROVED"
    PROVE  estimate'[e].status = "APPROVED"
<1>1. TypeOK /\ estimate[e] \in EstimateRow /\ Issued(e)
  BY SoundIsTyped DEF TypeOK, Issued, Unissued
<1>2. ASSUME NEW r \in Requests, Handle(r) \/ Run(r) PROVE estimate'[e].status = "APPROVED"
  <2>1. CASE Handle(r) \/ Stops(r)
    BY <1>1, <2>1, HandleDecides DEF Stops, tables
  <2>2. ASSUME NEW s \in Statement, Does(r, s) PROVE estimate'[e].status = "APPROVED"
    <3>1. ASSUME NEW d \in Estimates, IssuesEstimate(r, s, d)
          PROVE  estimate'[e].status = "APPROVED"
      BY <1>1, <3>1 DEF IssuesEstimate, TypeOK
    <3>2. ASSUME NEW d \in Estimates, RejectsOne(r, s, d) PROVE estimate'[e].status = "APPROVED"
      <4>1. /\ s.kind = "rejectEstimates" /\ s \in Pend(r) /\ d \in s.estimates
            /\ estimate' = [estimate EXCEPT ![d].status = "REJECTED"]
        BY <3>2 DEF RejectsOne, IsNext
      <4>2. d # e
        BY <4>1 DEF CurrentInv, Current, Undecided
      <4> QED BY <1>1, <4>1, <4>2 DEF TypeOK
    <3>3. CASE SetsStatus(r, s)
      <4>1. /\ s.kind = "updateEstimate" /\ s \in Pend(r)
            /\ estimate' = [estimate EXCEPT ![s.estimate].status = s.status]
        BY <3>3 DEF SetsStatus, Takes, IsNext
      <4>2. s.estimate # e
        BY <4>1 DEF CurrentInv, Current, Undecided
      <4> QED BY <1>1, <4>1, <4>2 DEF TypeOK
    <3>4. CASE WritesTotal(r, s)
      <4>1. estimate' = [estimate EXCEPT ![s.estimate].totalOf = s.totalOf]
        BY <3>4 DEF WritesTotal
      <4> QED BY <1>1, <4>1 DEF TypeOK, EstimateRow
    <3>5. ASSUME \/ WritesOrder(r, s) \/ AddsHistory(r, s) \/ LoadsAgain(r, s)
                 \/ TakesStock(r, s) \/ InsertsItem(r, s) \/ SumsUp(r, s)
                 \/ \E i \in PartItem : ReturnsOne(r, s, i)
          PROVE  estimate'[e].status = "APPROVED"
      BY <3>5 DEF WritesOrder, AddsHistory, LoadsAgain, TakesStock, InsertsItem, SumsUp, ReturnsOne,
                  tables
    <3> QED BY <2>2, <3>1, <3>2, <3>3, <3>4, <3>5 DEF Does
  <2> QED BY <1>2, <2>1, <2>2, RunDoes
<1>3. ASSUME NEW o \in Orders, OpenOrder(o) PROVE estimate'[e].status = "APPROVED"
  BY <1>3 DEF OpenOrder
<1>4. ASSUME NEW o \in Orders, NEW d \in Estimates, NEW items \in ItemList,
             OpenOrderWithItems(o, d, items)
      PROVE  estimate'[e].status = "APPROVED"
  BY <1>1, <1>4 DEF OpenOrderWithItems, TypeOK
<1>5. CASE UNCHANGED vars
  BY <1>5 DEF vars
<1> QED BY <1>2, <1>3, <1>4, <1>5 DEF Next

\* What the customer approved stays approved, as long as no two requests are at work on
\* the same order; the run late_decision shows how it is lost when two are.
THEOREM ApprovalIsFinal == Spec /\ []OrdersApart => ApprovedIsFinal
<1>1. IInv /\ PlansShaped /\ CurrentInv /\ [Next]_vars
        => [\A e \in Estimates : estimate[e].status = "APPROVED"
                => estimate'[e].status = "APPROVED"]_estimate
  BY ApprovedStays
<1> QED BY <1>1, CurrentInvariant, SoundnessInvariant, ShapedInvariant, PTL
    DEF Spec, ApprovedIsFinal

-----------------------------------------------------------------------------
(***************************************************************************)
(* The life cycle.  A handler loads an order in one step and writes it in  *)
(* another; seen from the table of orders the write is the step, and what  *)
(* was loaded is still the row that it replaces.                           *)
(***************************************************************************)

\* The life cycle speaks of the entity as ServiceOrders does.
LEMMA SameEntity ==
    /\ Lifecycle!Methods = Methods /\ Lifecycle!Actors = Actors
    /\ Lifecycle!Unopened = Unopened /\ Lifecycle!OpenedOrder = OpenedOrder
    /\ Lifecycle!NoOrderRow = NoOrderRow
    /\ \A row, method, actor : Lifecycle!Allows(row, method, actor) = Allows(row, method, actor)
    /\ \A row, method : Lifecycle!Apply(row, method) = Apply(row, method)
    /\ \A row : Lifecycle!CanAssignMechanic(row) = CanAssignMechanic(row)
    /\ \A row, mechanic : Lifecycle!AssignMechanic(row, mechanic) = AssignMechanic(row, mechanic)
<1>1. \A row, actor : Lifecycle!IsAssignedTo(row, actor) = IsAssignedTo(row, actor)
  BY DEF IsAssignedTo, Lifecycle!IsAssignedTo
<1>2. Lifecycle!ExpectedIn = ExpectedIn /\ Lifecycle!ResultOf = ResultOf
  BY DEF ExpectedIn, Lifecycle!ExpectedIn, ResultOf, Lifecycle!ResultOf
<1>3. Lifecycle!Methods = Methods /\ Lifecycle!Actors = Actors /\ Lifecycle!Unopened = Unopened
  BY DEF Methods, Lifecycle!Methods, Actors, Lifecycle!Actors, Unopened, Lifecycle!Unopened
<1>4. Lifecycle!OpenedOrder = OpenedOrder /\ Lifecycle!NoOrderRow = NoOrderRow
  BY <1>3 DEF OpenedOrder, Lifecycle!OpenedOrder, NoOrderRow, Lifecycle!NoOrderRow
<1>5. \A row, method, actor : Lifecycle!Allows(row, method, actor) = Allows(row, method, actor)
  BY <1>1, <1>2 DEF Allows, Lifecycle!Allows
<1>6. \A row, method : Lifecycle!Apply(row, method) = Apply(row, method)
  BY <1>2 DEF Apply, Lifecycle!Apply
<1>7. \A row : Lifecycle!CanAssignMechanic(row) = CanAssignMechanic(row)
  BY DEF CanAssignMechanic, Lifecycle!CanAssignMechanic
<1>8. \A row, mechanic : Lifecycle!AssignMechanic(row, mechanic) = AssignMechanic(row, mechanic)
  BY DEF AssignMechanic, Lifecycle!AssignMechanic
<1> QED BY <1>3, <1>4, <1>5, <1>6, <1>7, <1>8

\* The write of a fresh row is a move, or an assignment, of the life cycle.
LEMMA WriteImplements ==
    ASSUME TypeOK, CurrentInv, NEW r \in Requests, NEW s \in Statement, WritesOrder(r, s)
    PROVE  Lifecycle!Next
<1>1. s.kind = "updateOrder" /\ s \in Pend(r)
  BY DEF WritesOrder, Takes, IsNext
<1>2. s.order \in Orders
  BY <1>1 DEF Statement
<1>3. PICK o \in Orders : o = s.order
  BY <1>2
<1>4. Fresh(s) /\ (order[o].closedAt <=> order[o].status = "CLOSED")
  BY <1>1, <1>3 DEF CurrentInv, Current
<1>5. Loaded(o) = order[o] /\ order' = [order EXCEPT ![o] = s.row]
  BY <1>1, <1>3, <1>4, FreshRow DEF WritesOrder
<1>6. ASSUME NEW method \in Methods, NEW actor \in Actors, Allows(Loaded(o), method, actor),
             s.row = Apply(Loaded(o), method)
      PROVE  Lifecycle!Next
  <2>1. Lifecycle!Move(o, method, actor)
    BY <1>5, <1>6, SameEntity DEF Lifecycle!Move
  <2> QED BY <2>1, SameEntity DEF Lifecycle!Next
<1>7. ASSUME NEW mechanic \in Mechanics, order[o].status = "RECEIVED",
             s.row = AssignMechanic(Loaded(o), mechanic)
      PROVE  Lifecycle!Next
  <2>1. CanAssignMechanic(order[o])
    BY <1>7 DEF CanAssignMechanic
  <2>2. Lifecycle!Assign(o, mechanic)
    BY <1>5, <1>7, <2>1, SameEntity DEF Lifecycle!Assign
  <2> QED BY <2>2 DEF Lifecycle!Next
<1> QED BY <1>3, <1>4, <1>6, <1>7 DEF Fresh

\* Rows of the table of orders are equal when their columns are.
LEMMA SameRow ==
    ASSUME NEW x \in Order, NEW y \in Order,
           x.status = y.status, x.mechanicId = y.mechanicId, x.closedAt = y.closedAt
    PROVE  x = y
BY DEF Order

\* The rows that an order is opened with.
LEMMA OpeningRow ==
    /\ OpenedOrder \in Order /\ OpenedOrder.status = "RECEIVED"
    /\ OpenedOrder.mechanicId = NoMechanic /\ OpenedOrder.closedAt = FALSE
    /\ \A status \in {"RECEIVED", "WAITING_APPROVAL"} :
            LET row == [OpenedOrder EXCEPT !.status = status]
            IN  /\ row \in Order /\ row.status = status
                /\ row.mechanicId = NoMechanic /\ row.closedAt = FALSE
    /\ LET row == Apply(Apply(OpenedOrder, "startDiagnosis"), "requestApproval")
       IN  /\ row \in Order /\ row.status = "WAITING_APPROVAL"
           /\ row.mechanicId = NoMechanic /\ row.closedAt = FALSE
<1>1. /\ OpenedOrder \in Order /\ OpenedOrder.status = "RECEIVED"
      /\ OpenedOrder.mechanicId = NoMechanic /\ OpenedOrder.closedAt = FALSE
  BY DEF OpenedOrder, Order, Statuses
<1>2. ASSUME NEW status \in {"RECEIVED", "WAITING_APPROVAL"}
      PROVE  LET row == [OpenedOrder EXCEPT !.status = status]
             IN  /\ row \in Order /\ row.status = status
                 /\ row.mechanicId = NoMechanic /\ row.closedAt = FALSE
  BY <1>1 DEF Order, Statuses
<1>3. /\ "startDiagnosis" \in Methods /\ "requestApproval" \in Methods
      /\ ResultOf["requestApproval"] = "WAITING_APPROVAL"
  BY DEF Methods, ResultOf
<1>4. LET row == Apply(Apply(OpenedOrder, "startDiagnosis"), "requestApproval")
      IN  /\ row \in Order /\ row.status = "WAITING_APPROVAL"
          /\ row.mechanicId = NoMechanic /\ row.closedAt = FALSE
  <2>1. /\ Apply(OpenedOrder, "startDiagnosis") \in Order
        /\ Apply(OpenedOrder, "startDiagnosis").mechanicId = NoMechanic
    BY <1>1, <1>3, ApplyTyped
  <2>2. /\ Apply(Apply(OpenedOrder, "startDiagnosis"), "requestApproval") \in Order
        /\ Apply(Apply(OpenedOrder, "startDiagnosis"), "requestApproval").status = "WAITING_APPROVAL"
        /\ Apply(Apply(OpenedOrder, "startDiagnosis"), "requestApproval").mechanicId = NoMechanic
        /\ Apply(Apply(OpenedOrder, "startDiagnosis"), "requestApproval").closedAt
                = ("requestApproval" = "close")
    BY <1>3, <2>1, ApplyTyped
  <2> QED BY <2>2
<1> QED BY <1>1, <1>2, <1>4

\* An order opens RECEIVED, or with its estimate already waiting for approval.
LEMMA OpeningImplements ==
    ASSUME TypeOK, NEW o \in Orders,
           \/ OpenOrder(o)
           \/ \E e \in Estimates, items \in ItemList : OpenOrderWithItems(o, e, items)
    PROVE  Lifecycle!Next
<1>1. order[o].status = Unopened
  BY DEF OpenOrder, OpenOrderWithItems, Opened
<1>2. \E status \in {"RECEIVED", "WAITING_APPROVAL"} :
        order' = [order EXCEPT ![o] = [OpenedOrder EXCEPT !.status = status]]
  <2>1. CASE OpenOrder(o)
    <3>1. [OpenedOrder EXCEPT !.status = "RECEIVED"] = OpenedOrder
      BY SameRow, OpeningRow
    <3>2. order' = [order EXCEPT ![o] = OpenedOrder]
      BY <2>1 DEF OpenOrder
    <3> QED BY <3>1, <3>2
  <2>2. CASE \E e \in Estimates, items \in ItemList : OpenOrderWithItems(o, e, items)
    <3>1. Apply(Apply(OpenedOrder, "startDiagnosis"), "requestApproval")
            = [OpenedOrder EXCEPT !.status = "WAITING_APPROVAL"]
      BY SameRow, OpeningRow
    <3>2. order' = [order EXCEPT ![o] = Apply(Apply(OpenedOrder, "startDiagnosis"),
                                              "requestApproval")]
      BY <2>2 DEF OpenOrderWithItems
    <3> QED BY <3>1, <3>2
  <2> QED BY <2>1, <2>2
<1>3. Lifecycle!Open(o)
  BY <1>1, <1>2, SameEntity DEF Lifecycle!Open
<1> QED BY <1>3 DEF Lifecycle!Next

\* A step of the handlers is a step of the life cycle, or leaves all orders alone.
LEMMA StepImplements ==
    ASSUME IInv, PlansShaped, CurrentInv, Next
    PROVE  Lifecycle!Next \/ UNCHANGED order
<1>1. TypeOK
  BY SoundIsTyped
<1>2. ASSUME NEW r \in Requests, Handle(r) \/ Run(r) PROVE Lifecycle!Next \/ UNCHANGED order
  <2>1. CASE Handle(r) \/ Stops(r)
    BY <1>1, <2>1, HandleDecides DEF Stops, tables
  <2>2. ASSUME NEW s \in Statement, WritesOrder(r, s) PROVE Lifecycle!Next
    BY <1>1, <2>2, WriteImplements
  <2>3. ASSUME NEW s \in Statement, Does(r, s), ~WritesOrder(r, s) PROVE UNCHANGED order
    BY <2>3 DEF Does, AddsHistory, IssuesEstimate, SetsStatus, RejectsOne, ReturnsOne, LoadsAgain,
                TakesStock, InsertsItem, SumsUp, WritesTotal, tables
  <2> QED BY <1>2, <2>1, <2>2, <2>3, RunDoes
<1>3. ASSUME NEW o \in Orders,
             \/ OpenOrder(o)
             \/ \E e \in Estimates, items \in ItemList : OpenOrderWithItems(o, e, items)
      PROVE  Lifecycle!Next
  BY <1>1, <1>3, OpeningImplements
<1> QED BY <1>2, <1>3 DEF Next

\* Handlers that load and write in separate statements, and may fail in between,
\* implement the life cycle with its atomic steps, as long as no two of them are at work
\* on the same order.
THEOREM LifecycleIsImplemented == Spec /\ []OrdersApart => ImplementsLifecycle
<1>1. Init => Lifecycle!Init
  BY SameEntity DEF Init, Lifecycle!Init
<1>2. IInv /\ PlansShaped /\ CurrentInv /\ [Next]_vars => [Lifecycle!Next]_order
  BY StepImplements DEF vars
<1> QED BY <1>1, <1>2, CurrentInvariant, SoundnessInvariant, ShapedInvariant, PTL
    DEF Spec, ImplementsLifecycle, Lifecycle!Spec

-----------------------------------------------------------------------------
(***************************************************************************)
(* What an order, its history and its estimates say of each other once all *)
(* requests are answered.  In between they disagree, by what the one       *)
(* request at work on the order has still to write: the invariants say so. *)
(***************************************************************************)

\* No two statements of a plan are of the same kind.
LEMMA OneOfAKind ==
    ASSUME TypeOK, PlansShaped, NEW r \in Requests, NEW s \in Pend(r), NEW t \in Pend(r),
           s.kind = t.kind
    PROVE  s = t
<1>1. Shaped(todo[r]) /\ Len(todo[r]) \in Nat
  BY DEF PlansShaped, TypeOK
<1>2. PICK i \in 1 .. Len(todo[r]), j \in 1 .. Len(todo[r]) : s = todo[r][i] /\ t = todo[r][j]
  BY DEF Pend, Pending
<1>3. ~(i < j) /\ ~(j < i)
  BY <1>1, <1>2 DEF Shaped, MayFollow
<1> QED BY <1>1, <1>2, <1>3

\* A step of a request takes one statement; all others stay pending.
LEMMA OthersWait ==
    ASSUME NEW r, NEW s, Does(r, s), NEW p \in Requests, NEW t \in Pend(p), p = r => t # s
    PROVE  t \in Pend(p)'
BY DEF Does, WritesOrder, AddsHistory, IssuesEstimate, SetsStatus, RejectsOne, ReturnsOne,
       LoadsAgain, TakesStock, InsertsItem, SumsUp, WritesTotal, Takes, Goes

\* Only a step that loads an order again makes new writes of orders, of the history or
\* of an estimate's status.
LEMMA FewAreNew ==
    ASSUME NEW r, NEW s, Does(r, s), NEW p \in Requests, NEW t \in Pend(p)', t \notin Pend(p)
    PROVE  /\ p = r
           /\ \/ LoadsAgain(r, s)
              \/ t.kind \in {"rejectEstimates", "returnParts", "sumItems", "writeTotal"}
<1>1. p = r
  BY DEF Does, WritesOrder, AddsHistory, IssuesEstimate, SetsStatus, RejectsOne, ReturnsOne,
         LoadsAgain, TakesStock, InsertsItem, SumsUp, WritesTotal, Takes, Goes
<1>2. CASE Takes(r, s)
  BY <1>1, <1>2 DEF Takes, Goes
<1>3. CASE \/ \E e \in Estimates : RejectsOne(r, s, e)
           \/ \E i \in PartItem : ReturnsOne(r, s, i)
  BY <1>1, <1>3 DEF RejectsOne, ReturnsOne, Goes, Looped, Rejecting, Returning
<1>4. CASE InsertsItem(r, s) \/ SumsUp(r, s) \/ WritesTotal(r, s)
  BY <1>1, <1>4 DEF InsertsItem, SumsUp, WritesTotal, Goes, SumUp, WriteSum
<1> QED BY <1>1, <1>2, <1>3, <1>4
    DEF Does, WritesOrder, AddsHistory, IssuesEstimate, SetsStatus, TakesStock

\* Without failures a request that stops loses nothing but what had still to be decided.
LEMMA StopsEarly ==
    ASSUME ~MayFail, NEW r, Stops(r), NEW p \in Requests
    PROVE  /\ Pend(p)' \subseteq Pend(p)
           /\ \A t \in Pend(p) :
                t.kind \notin {"decide", "rejectOrderOf", "decrementStock", "createItem"}
                    => t \in Pend(p)'
BY DEF Stops, Goes

Last(o) == history[o][Len(history[o])].to

IsRecordOf(s, o) == s.kind = "createHistory" /\ s.order = o

IsUpdateOf(s, o) == s.kind = "updateOrder" /\ s.order = o

Connected(q) == \A i \in 1 .. Len(q) - 1 : q[i].to = q[i + 1].from

\* The history is a path to the current status, but for the row that is still pending.
OnPath(o) ==
    /\ history[o] # <<>> /\ Connected(history[o])
    /\ \A r \in Requests : \A s \in Pend(r) : IsUpdateOf(s, o) =>
            /\ order[o].status = Last(o)
            /\ \/ \E t \in Pend(r) : IsRecordOf(t, o) /\ s.row.status = t.row.to
               \/ s.row.status = order[o].status
    /\ \A r \in Requests : \A t \in Pend(r) : IsRecordOf(t, o) =>
            /\ t.row.from = Last(o)
            /\ \/ \E s \in Pend(r) : IsUpdateOf(s, o) /\ s.row.status = t.row.to
               \/ order[o].status = t.row.to
    /\ order[o].status = Last(o) \/ \E r \in Requests : \E t \in Pend(r) : IsRecordOf(t, o)

PathInv == \A o \in Orders : Opened(o) => OnPath(o)

\* A plan writes an order from its current status, and records what it writes.
FollowsPath(S) ==
    /\ \A s \in S : s.kind = "updateOrder" =>
            \/ \E t \in S : IsRecordOf(t, s.order) /\ s.row.status = t.row.to
            \/ s.row.status = order[s.order].status
    /\ \A t \in S : t.kind = "createHistory" =>
            /\ t.row.from = order[t.order].status
            /\ \E s \in S : IsUpdateOf(s, t.order) /\ s.row.status = t.row.to

\* An order that no step concerns stays on its path.
LEMMA PathKept ==
    ASSUME NEW o \in Orders, OnPath(o), order'[o].status = order[o].status,
           history'[o] = history[o],
           \A p \in Requests : \A t : t.kind \in {"updateOrder", "createHistory"} /\ t.order = o
                => (t \in Pend(p)' <=> t \in Pend(p))
    PROVE  OnPath(o)'
<1>1. Last(o)' = Last(o)
  BY DEF Last
<1>2. history'[o] # <<>> /\ Connected(history'[o])
  BY DEF OnPath
<1>3. ASSUME NEW p \in Requests, NEW s \in Pend(p)', IsUpdateOf(s, o)
      PROVE  /\ order'[o].status = Last(o)
             /\ \/ \E t \in Pend(p)' : IsRecordOf(t, o) /\ s.row.status = t.row.to
                \/ s.row.status = order'[o].status
  BY <1>3 DEF OnPath, IsUpdateOf, IsRecordOf
<1>4. ASSUME NEW p \in Requests, NEW t \in Pend(p)', IsRecordOf(t, o)
      PROVE  /\ t.row.from = Last(o)
             /\ \/ \E s \in Pend(p)' : IsUpdateOf(s, o) /\ s.row.status = t.row.to
                \/ order'[o].status = t.row.to
  BY <1>4 DEF OnPath, IsUpdateOf, IsRecordOf
<1>5. order'[o].status = Last(o) \/ \E p \in Requests : \E t \in Pend(p)' : IsRecordOf(t, o)
  BY DEF OnPath, IsRecordOf
<1> QED BY <1>1, <1>2, <1>3, <1>4, <1>5 DEF OnPath, IsUpdateOf, IsRecordOf

\* The plan of a move follows the path.
LEMMA MovePlanFollows ==
    ASSUME TypeOK, NEW o \in Orders, NEW method \in Methods, NEW actor,
           Allows(Loaded(o), method, actor), NEW S, MovePlan(o, method) \subseteq S,
           \A t \in S \ MovePlan(o, method) : t.kind \notin {"updateOrder", "createHistory"}
    PROVE  FollowsPath(S)
<1>1. PICK update, record :
        /\ update = Update(o, Apply(Loaded(o), method))
        /\ record = Record(o, Loaded(o).status, ResultOf[method])
  OBVIOUS
<1>2. Loaded(o).status = order[o].status /\ Apply(Loaded(o), method).status = ResultOf[method]
  BY MoveTyped, ApplyTyped
<1>3. /\ update.kind = "updateOrder" /\ update.order = o /\ update.row.status = ResultOf[method]
      /\ record.kind = "createHistory" /\ record.order = o
      /\ record.row.from = order[o].status /\ record.row.to = ResultOf[method]
  BY <1>1, <1>2 DEF Update, Record
<1>4. MovePlan(o, method) = {update, record}
  BY <1>1 DEF MovePlan
<1> QED BY <1>3, <1>4 DEF FollowsPath, IsUpdateOf, IsRecordOf

\* A plan that writes no order and no history has nothing to follow.
LEMMA OtherPlansFollow ==
    ASSUME NEW S, \A t \in S : t.kind \notin {"updateOrder", "createHistory"}
    PROVE  FollowsPath(S)
BY DEF FollowsPath

\* What a handler decides on follows the path.
LEMMA DecisionsFollow ==
    ASSUME TypeOK, NEW S, DecidesOn(S)
    PROVE  FollowsPath(S)
<1>1. "rejectEstimate" \in Methods /\ "requestApproval" \in Methods
  BY DEF Methods
<1>2. ASSUME NEW o \in Orders, NEW method \in Methods, NEW actor,
             Allows(Loaded(o), method, actor), S = MovePlan(o, method)
      PROVE  FollowsPath(S)
  BY <1>2, MovePlanFollows
<1>3. ASSUME NEW o \in Orders, NEW mechanic \in Mechanics, order[o].status = "RECEIVED",
             S = {Update(o, AssignMechanic(Loaded(o), mechanic))}
      PROVE  FollowsPath(S)
  <2>1. Loaded(o) \in Order /\ Loaded(o).status = order[o].status
    BY DEF TypeOK, Loaded, ToDomain, Order
  <2>2. AssignMechanic(Loaded(o), mechanic).status = order[o].status
    BY <2>1 DEF AssignMechanic, Order
  <2> QED BY <1>3, <2>2 DEF FollowsPath, Update
<1>4. ASSUME NEW o \in Orders, Allows(Loaded(o), "requestApproval", NoMechanic),
             S = MovePlan(o, "requestApproval") \cup {Insert(o)}
      PROVE  FollowsPath(S)
  <2>1. Insert(o).kind = "createEstimate"
    BY DEF Insert
  <2> QED BY <1>1, <1>4, <2>1, MovePlanFollows
<1>5. ASSUME NEW o \in Orders, Allows(Loaded(o), "rejectEstimate", NoMechanic), S = RejectPlan(o)
      PROVE  FollowsPath(S)
  <2>1. /\ MovePlan(o, "rejectEstimate") \subseteq S
        /\ \A t \in S \ MovePlan(o, "rejectEstimate") : t.kind \in {"rejectEstimates", "returnParts"}
    BY <1>5 DEF RejectPlan, Looped, Rejecting, Returning
  <2> QED BY <1>1, <1>5, <2>1, MovePlanFollows
<1>6. ASSUME \/ \E e, status, items : S = {Decide(e, status, items)}
             \/ \E e, status : S = {SetStatus(e, status)}
             \/ \E e : S = {RejectOrder(e)}
             \/ \E e, ref, q : S = {Create(e, ref, q)} \/ S = {Take(ref, q), Create(e, ref, q)}
      PROVE  FollowsPath(S)
  <2>1. /\ \A e, status, items : Decide(e, status, items).kind = "decide"
        /\ \A e, status : SetStatus(e, status).kind = "updateEstimate"
        /\ \A e : RejectOrder(e).kind = "rejectOrderOf"
        /\ \A e, ref, q : Create(e, ref, q).kind = "createItem" /\ Take(ref, q).kind = "decrementStock"
    BY DEF Decide, SetStatus, RejectOrder, Create, Take
  <2> QED BY <1>6, <2>1, OtherPlansFollow
<1> QED BY <1>2, <1>3, <1>4, <1>5, <1>6 DEF DecidesOn

\* So does what a request goes on with once it has loaded the order.
LEMMA LoadedPlanFollows ==
    ASSUME TypeOK, NEW s, NEW r, LoadsAgain(r, s), estimate[s.estimate].serviceOrder \in Orders
    PROVE  \E S : Goes(r, S) /\ FollowsPath(S)
<1>1. PICK o \in Orders : o = estimate[s.estimate].serviceOrder
  OBVIOUS
<1>2. CASE /\ s.kind = "rejectOrderOf" /\ Goes(r, RejectPlan(o))
           /\ Allows(Loaded(o), "rejectEstimate", NoMechanic)
  <2>1. DecidesOn(RejectPlan(o))
    BY <1>2 DEF DecidesOn
  <2> QED BY <1>2, <2>1, DecisionsFollow
<1>3. CASE /\ s.kind = "decide" /\ Goes(r, DecisionPlan(o, s))
           /\ Allows(Loaded(o), DecisionMethod(s.status), NoMechanic)
  <2>1. DecisionMethod(s.status) \in Methods
    BY DEF DecisionMethod, Methods
  <2>2. /\ MovePlan(o, DecisionMethod(s.status)) \subseteq DecisionPlan(o, s)
        /\ \A t \in DecisionPlan(o, s) \ MovePlan(o, DecisionMethod(s.status)) :
                t.kind \in {"updateEstimate", "returnParts"}
    BY DEF DecisionPlan, Looped, SetStatus, Returning
  <2>3. FollowsPath(DecisionPlan(o, s))
    BY <1>3, <2>1, <2>2, MovePlanFollows
  <2> QED BY <1>3, <2>3
<1> QED BY <1>1, <1>2, <1>3 DEF LoadsAgain

\* A request goes on with a plan that follows the path; nobody else is at work on its
\* orders.
LEMMA PlanOnPath ==
    ASSUME PathInv, OrdersApart', UNCHANGED tables, NEW r \in Requests, NEW S, Goes(r, S),
           FollowsPath(S), \A s \in Pend(r) : s.kind \notin {"updateOrder", "createHistory"}
    PROVE  PathInv'
<1>1. Pend(r)' = S /\ \A p \in Requests \ {r} : Pend(p)' = Pend(p)
  BY DEF Goes
<1>2. UNCHANGED <<order, history>>
  BY DEF tables
<1> SUFFICES ASSUME NEW o \in Orders, OnPath(o) PROVE OnPath(o)'
  BY <1>2 DEF PathInv, Opened
<1>3. CASE \E s \in S : s.kind \in {"updateOrder", "createHistory"} /\ s.order = o
  <2>1. WorksOn(r, o)'
    BY <1>1, <1>3 DEF WorksOn, Concerns
  <2>2. \A p \in Requests \ {r} : \A t \in Pend(p) :
            ~(t.kind \in {"updateOrder", "createHistory"} /\ t.order = o)
    <3> SUFFICES ASSUME NEW p \in Requests \ {r}, NEW t \in Pend(p),
                        t.kind \in {"updateOrder", "createHistory"}, t.order = o
                 PROVE  FALSE
      OBVIOUS
    <3>1. WorksOn(p, o)'
      BY <1>1 DEF WorksOn, Concerns
    <3> QED BY <2>1, <3>1 DEF OrdersApart
  <2>3. order[o].status = Last(o)
    BY <2>2 DEF OnPath, IsRecordOf
  <2>4. history'[o] # <<>> /\ Connected(history'[o]) /\ order'[o].status = Last(o)
    BY <1>2, <2>3 DEF OnPath
  <2>5. Last(o)' = Last(o)
    BY <1>2 DEF Last
  <2>6. ASSUME NEW p \in Requests, NEW s \in Pend(p)', IsUpdateOf(s, o)
        PROVE  \/ \E t \in Pend(p)' : IsRecordOf(t, o) /\ s.row.status = t.row.to
               \/ s.row.status = order'[o].status
    <3>1. p = r /\ s \in S
      BY <1>1, <2>2, <2>6 DEF IsUpdateOf
    <3> QED BY <1>1, <1>2, <2>6, <3>1 DEF FollowsPath, IsUpdateOf
  <2>7. ASSUME NEW p \in Requests, NEW t \in Pend(p)', IsRecordOf(t, o)
        PROVE  t.row.from = Last(o) /\ \E s \in Pend(p)' : IsUpdateOf(s, o) /\ s.row.status = t.row.to
    <3>1. p = r /\ t \in S
      BY <1>1, <2>2, <2>7 DEF IsRecordOf
    <3> QED BY <1>1, <2>3, <2>7, <3>1 DEF FollowsPath, IsRecordOf
  <2> QED BY <2>4, <2>5, <2>6, <2>7 DEF OnPath, IsUpdateOf, IsRecordOf
<1>4. CASE \A s \in S : ~(s.kind \in {"updateOrder", "createHistory"} /\ s.order = o)
  <2>1. order'[o].status = order[o].status /\ history'[o] = history[o]
    BY <1>2
  <2>2. \A p \in Requests : \A t : t.kind \in {"updateOrder", "createHistory"} /\ t.order = o
            => (t \in Pend(p)' <=> t \in Pend(p))
    BY <1>1, <1>4
  <2> QED BY <2>1, <2>2, PathKept
<1> QED BY <1>3, <1>4

\* The order is written: it moves ahead of its history by the row still pending.
LEMMA WritesOrderPath ==
    ASSUME IInv, PlansShaped, OrdersApart, PathInv, NEW r \in Requests, NEW s \in Statement,
           WritesOrder(r, s)
    PROVE  PathInv'
<1>1. TypeOK
  BY SoundIsTyped
<1>2. /\ s.kind = "updateOrder" /\ s \in Pend(r) /\ UNCHANGED history
      /\ Pend(r)' = Pend(r) \ {s} /\ \A p \in Requests \ {r} : Pend(p)' = Pend(p)
      /\ order' = [order EXCEPT ![s.order] =
                    [s.row EXCEPT !.closedAt = s.row.closedAt \/ order[s.order].closedAt]]
  BY DEF WritesOrder, Takes, IsNext, Goes
<1>3. s.order \in Orders /\ s.row \in Order /\ Opened(s.order)
  BY <1>2, PendingSound DEF Sound, Statement
<1>4. PICK o \in Orders : o = s.order
  BY <1>3
<1>5. /\ order'[o].status = s.row.status
      /\ \A q \in Orders \ {o} : order'[q] = order[q]
  BY <1>1, <1>2, <1>3, <1>4 DEF TypeOK, Order
<1>6. OnPath(o) /\ IsUpdateOf(s, o) /\ Concerns(s, o)
  BY <1>2, <1>3, <1>4 DEF PathInv, IsUpdateOf, Concerns
<1>7. \A q : Last(q)' = Last(q)
  BY <1>2 DEF Last
<1>8. /\ order[o].status = Last(o)
      /\ \/ \E t \in Pend(r) : IsRecordOf(t, o) /\ s.row.status = t.row.to
         \/ s.row.status = order[o].status
  BY <1>2, <1>6 DEF OnPath
<1>9. ASSUME NEW p \in Requests, NEW t \in Pend(p)', IsUpdateOf(t, o) PROVE FALSE
  <2>1. t \in Pend(p) /\ Concerns(t, o)
    BY <1>2, <1>9 DEF IsUpdateOf, Concerns
  <2>2. p = r
    BY <1>2, <1>6, <2>1, Elsewhere
  <2>3. t = s
    BY <1>1, <1>2, <1>9, <2>1, <2>2, OneOfAKind DEF IsUpdateOf
  <2> QED BY <1>2, <2>2, <2>3
<1>10. ASSUME NEW p \in Requests, NEW t \in Pend(p)', IsRecordOf(t, o)
       PROVE  t.row.from = Last(o) /\ order'[o].status = t.row.to
  <2>1. t \in Pend(p) /\ Concerns(t, o)
    BY <1>2, <1>10 DEF IsRecordOf, Concerns
  <2>2. p = r
    BY <1>2, <1>6, <2>1, Elsewhere
  <2>3. /\ t.row.from = Last(o)
        /\ \/ \E u \in Pend(r) : IsUpdateOf(u, o) /\ u.row.status = t.row.to
           \/ order[o].status = t.row.to
    BY <1>6, <1>10, <2>1, <2>2 DEF OnPath
  <2>4. \A u \in Pend(r) : IsUpdateOf(u, o) => u = s
    BY <1>1, <1>2, OneOfAKind DEF IsUpdateOf
  <2>5. \A u \in Pend(r) : IsRecordOf(u, o) => u = t
    BY <1>1, <1>10, <2>1, <2>2, OneOfAKind DEF IsRecordOf
  <2> QED BY <1>5, <1>8, <2>3, <2>4, <2>5
<1>11. order'[o].status = Last(o) \/ \E p \in Requests : \E t \in Pend(p)' : IsRecordOf(t, o)
  <2>1. CASE \E t \in Pend(r) : IsRecordOf(t, o)
    BY <1>2, <2>1 DEF IsRecordOf
  <2> QED BY <1>5, <1>8, <2>1
<1>12. OnPath(o)'
  <2>1. history'[o] # <<>> /\ Connected(history'[o])
    BY <1>2, <1>6 DEF OnPath
  <2> QED BY <1>7, <1>9, <1>10, <1>11, <2>1 DEF OnPath, IsUpdateOf, IsRecordOf
<1>13. ASSUME NEW q \in Orders, q # o, Opened(q)' PROVE OnPath(q)'
  <2>1. OnPath(q) /\ order'[q].status = order[q].status /\ history'[q] = history[q]
    BY <1>2, <1>5, <1>13 DEF PathInv, Opened
  <2>2. \A p \in Requests : \A t : t.kind \in {"updateOrder", "createHistory"} /\ t.order = q
            => (t \in Pend(p)' <=> t \in Pend(p))
    BY <1>2, <1>4, <1>13
  <2> QED BY <2>1, <2>2, PathKept
<1> QED BY <1>12, <1>13 DEF PathInv

\* A row appended to a path that ends where the row starts.
LEMMA PathAppended ==
    ASSUME NEW S, NEW q \in Seq(S), q # <<>>, Connected(q), NEW row \in S,
           q[Len(q)].to = row.from
    PROVE  LET longer == Append(q, row)
           IN  longer # <<>> /\ Connected(longer) /\ longer[Len(longer)] = row
<1> DEFINE longer == Append(q, row)
           n == Len(q)
<1>1. /\ n \in Nat /\ n >= 1 /\ longer \in Seq(S) /\ Len(longer) = n + 1
      /\ longer[n + 1] = row /\ \A i \in 1 .. n : longer[i] = q[i]
  OBVIOUS
<1>2. longer # <<>>
  BY <1>1
<1> HIDE DEF longer
<1>3. Connected(longer)
  <2> SUFFICES ASSUME NEW i \in 1 .. n PROVE longer[i].to = longer[i + 1].from
    BY <1>1 DEF Connected
  <2>1. CASE i = n
    BY <1>1, <2>1
  <2>2. CASE i # n
    <3>1. i \in 1 .. n - 1 /\ i + 1 \in 1 .. n
      BY <1>1, <2>2
    <3> QED BY <1>1, <3>1 DEF Connected
  <2> QED BY <2>1, <2>2
<1> QED BY <1>1, <1>2, <1>3 DEF longer

\* The row pending lands: the history has caught up.
LEMMA AddsHistoryPath ==
    ASSUME IInv, PlansShaped, OrdersApart, PathInv, NEW r \in Requests, NEW s \in Statement,
           AddsHistory(r, s)
    PROVE  PathInv'
<1>1. TypeOK
  BY SoundIsTyped
<1>2. /\ s.kind = "createHistory" /\ s \in Pend(r) /\ UNCHANGED order /\ Pend(r) = {s}
      /\ Pend(r)' = {} /\ \A p \in Requests \ {r} : Pend(p)' = Pend(p)
      /\ history' = [history EXCEPT ![s.order] = Append(@, s.row)]
  BY LastPending DEF AddsHistory, Takes, IsNext, Goes
<1>3. s.order \in Orders /\ s.row \in HistoryRow /\ Opened(s.order)
  BY <1>2, PendingSound DEF Statement
<1>4. PICK o \in Orders, row \in HistoryRow : o = s.order /\ row = s.row
  BY <1>3
<1>5. OnPath(o) /\ IsRecordOf(s, o) /\ Concerns(s, o)
  BY <1>2, <1>3, <1>4 DEF PathInv, IsRecordOf, Concerns
<1>6. row.from = Last(o) /\ order[o].status = row.to
  <2>1. \A u \in Pend(r) : ~IsUpdateOf(u, o)
    BY <1>2 DEF IsUpdateOf
  <2> QED BY <1>2, <1>4, <1>5, <2>1 DEF OnPath
<1>7. history[o] \in Seq(HistoryRow) /\ history'[o] = Append(history[o], row)
  BY <1>1, <1>2, <1>4 DEF TypeOK
<1>8. history'[o] # <<>> /\ Connected(history'[o]) /\ Last(o)' = row.to
  <2>1. PICK h : h = history[o]
    OBVIOUS
  <2>2. h \in Seq(HistoryRow) /\ h # <<>> /\ Connected(h) /\ h[Len(h)].to = row.from
    BY <1>5, <1>6, <1>7, <2>1 DEF OnPath, Last
  <2>3. LET longer == Append(h, row)
        IN  longer # <<>> /\ Connected(longer) /\ longer[Len(longer)] = row
    BY <2>2, PathAppended
  <2> QED BY <1>7, <2>1, <2>3 DEF Last
<1>9. ASSUME NEW p \in Requests, NEW t \in Pend(p)', IsUpdateOf(t, o) \/ IsRecordOf(t, o)
      PROVE  FALSE
  <2>1. t \in Pend(p) /\ p # r /\ Concerns(t, o)
    BY <1>2, <1>9 DEF IsUpdateOf, IsRecordOf, Concerns
  <2> QED BY <1>2, <1>5, <2>1, Elsewhere
<1>10. OnPath(o)'
  BY <1>2, <1>6, <1>8, <1>9 DEF OnPath, IsUpdateOf, IsRecordOf
<1>11. ASSUME NEW q \in Orders, q # o, Opened(q)' PROVE OnPath(q)'
  <2>1. OnPath(q) /\ order'[q].status = order[q].status /\ history'[q] = history[q]
    BY <1>1, <1>2, <1>4, <1>11 DEF PathInv, Opened, TypeOK
  <2>2. \A p \in Requests : \A t : t.kind \in {"updateOrder", "createHistory"} /\ t.order = q
            => (t \in Pend(p)' <=> t \in Pend(p))
    BY <1>2, <1>4, <1>11
  <2> QED BY <2>1, <2>2, PathKept
<1> QED BY <1>10, <1>11 DEF PathInv

\* Steps that write neither orders nor the history, nor plan to.
LEMMA PathUntouched ==
    ASSUME PathInv, UNCHANGED <<order, history>>,
           \A p \in Requests : \A t : t.kind \in {"updateOrder", "createHistory"}
                => (t \in Pend(p)' <=> t \in Pend(p))
    PROVE  PathInv'
<1> SUFFICES ASSUME NEW o \in Orders, OnPath(o) PROVE OnPath(o)'
  BY DEF PathInv, Opened
<1> QED BY PathKept

\* A handler that decides on a move follows the path.
LEMMA HandlePath ==
    ASSUME IInv, PlansShaped, OrdersApart', PathInv, NEW r \in Requests, Handle(r)
    PROVE  PathInv'
<1>1. TypeOK
  BY SoundIsTyped
<1>2. UNCHANGED tables /\ Pend(r) = {} /\ \E S : DecidesOn(S) /\ Goes(r, S)
  BY <1>1, HandleDecides
<1> QED BY <1>1, <1>2, DecisionsFollow, PlanOnPath

\* Every step of a request in flight stays on the path.
LEMMA RunPath ==
    ASSUME ~MayFail, IInv, PlansShaped, OrdersApart, OrdersApart', PathInv, NEW r \in Requests,
           Run(r)
    PROVE  PathInv'
<1>1. TypeOK
  BY SoundIsTyped
<1>2. CASE Stops(r)
  BY <1>2, StopsEarly, PathUntouched DEF Stops, tables
<1>3. ASSUME NEW s \in Statement, LoadsAgain(r, s) PROVE PathInv'
  <2>1. s \in Pend(r) /\ Pend(r) = {s} /\ s.kind \in {"decide", "rejectOrderOf"} /\ UNCHANGED tables
    BY <1>3 DEF LoadsAgain
  <2>2. Sound(s)
    BY <2>1, PendingSound
  <2>3. estimate[s.estimate].serviceOrder \in Orders
    BY <2>1, <2>2 DEF Sound, Statement, IInv, EstimatesSound
  <2>4. \E S : Goes(r, S) /\ FollowsPath(S)
    BY <1>1, <1>3, <2>3, LoadedPlanFollows
  <2> QED BY <2>1, <2>4, PlanOnPath
<1>4. ASSUME NEW s \in Statement, Does(r, s),
             ~WritesOrder(r, s), ~AddsHistory(r, s), ~LoadsAgain(r, s)
      PROVE  PathInv'
  <2>1. UNCHANGED <<order, history>> /\ s.kind \notin {"updateOrder", "createHistory"}
    BY <1>4 DEF Does, IssuesEstimate, SetsStatus, RejectsOne, ReturnsOne, TakesStock, InsertsItem,
                SumsUp, WritesTotal, tables
  <2>2. \A p \in Requests : \A t : t.kind \in {"updateOrder", "createHistory"}
            => (t \in Pend(p)' <=> t \in Pend(p))
    BY <1>4, <2>1, OthersWait, FewAreNew
  <2> QED BY <2>1, <2>2, PathUntouched
<1>5. Stops(r) \/ \E s \in Statement : Does(r, s)
  BY RunDoes
<1> QED BY <1>2, <1>3, <1>4, <1>5, WritesOrderPath, AddsHistoryPath

\* A new order starts its path.
LEMMA OpeningPath ==
    ASSUME IInv, PathInv, NEW o \in Orders,
           \/ OpenOrder(o)
           \/ \E e \in Estimates, items \in ItemList : OpenOrderWithItems(o, e, items)
    PROVE  PathInv'
<1>1. TypeOK
  BY SoundIsTyped
<1>2. ~Opened(o) /\ UNCHANGED todo
  BY DEF OpenOrder, OpenOrderWithItems
<1>3. \A p \in Requests : Pend(p)' = Pend(p)
  BY <1>2 DEF Pend
<1>4. /\ \A q \in Orders \ {o} : order'[q] = order[q] /\ history'[q] = history[q]
      /\ history'[o] # <<>> /\ Connected(history'[o]) /\ order'[o].status = Last(o)'
  <2>1. CASE OpenOrder(o)
    <3>1. /\ order' = [order EXCEPT ![o] = OpenedOrder]
          /\ history' = [history EXCEPT ![o] = <<[from |-> Unopened, to |-> "RECEIVED"]>>]
      BY <2>1 DEF OpenOrder
    <3>2. OpenedOrder.status = "RECEIVED"
      BY OpeningRow
    <3> QED BY <1>1, <3>1, <3>2 DEF TypeOK, Last, Connected
  <2>2. CASE \E e \in Estimates, items \in ItemList : OpenOrderWithItems(o, e, items)
    <3> DEFINE first  == [from |-> Unopened, to |-> "RECEIVED"]
               second == [from |-> "RECEIVED", to |-> "IN_DIAGNOSIS"]
               third  == [from |-> "IN_DIAGNOSIS", to |-> "WAITING_APPROVAL"]
    <3>1. PICK rows, opened :
            /\ rows = <<first, second, third>>
            /\ opened = Apply(Apply(OpenedOrder, "startDiagnosis"), "requestApproval")
      OBVIOUS
    <3>2. /\ order' = [order EXCEPT ![o] = opened]
          /\ history' = [history EXCEPT ![o] = rows]
      BY <2>2, <3>1 DEF OpenOrderWithItems
    <3>3. opened.status = "WAITING_APPROVAL"
      BY <3>1, OpeningRow
    <3>4. Len(rows) = 3 /\ rows[1] = first /\ rows[2] = second /\ rows[3] = third /\ rows # <<>>
      BY <3>1
    <3>5. Connected(rows)
      <4> SUFFICES ASSUME NEW i \in 1 .. 2 PROVE rows[i].to = rows[i + 1].from
        BY <3>4 DEF Connected
      <4>1. CASE i = 1
        BY <3>4, <4>1
      <4>2. CASE i = 2
        BY <3>4, <4>2
      <4> QED BY <4>1, <4>2
    <3>6. history'[o] = rows /\ order'[o] = opened
      BY <1>1, <3>2 DEF TypeOK
    <3>7. \A q \in Orders \ {o} : order'[q] = order[q] /\ history'[q] = history[q]
      BY <1>1, <3>2 DEF TypeOK
    <3>8. rows[Len(rows)].to = "WAITING_APPROVAL"
      BY <3>4
    <3>9. Last(o)' = opened.status
      BY <3>3, <3>6, <3>8 DEF Last
    <3> QED BY <3>4, <3>5, <3>6, <3>7, <3>9
  <2> QED BY <2>1, <2>2
<1>5. \A p \in Requests : \A t \in Pend(p) : ~IsUpdateOf(t, o) /\ ~IsRecordOf(t, o)
  BY <1>2, PendingSound DEF Sound, IsUpdateOf, IsRecordOf
<1>6. OnPath(o)'
  BY <1>3, <1>4, <1>5 DEF OnPath, IsUpdateOf, IsRecordOf
<1>7. ASSUME NEW q \in Orders, q # o, Opened(q)' PROVE OnPath(q)'
  BY <1>3, <1>4, <1>7, PathKept DEF PathInv, Opened
<1> QED BY <1>6, <1>7 DEF PathInv

\* Histories stay paths while requests are apart and none fails.
LEMMA NextPath ==
    /\ ~MayFail /\ IInv /\ PlansShaped /\ OrdersApart /\ OrdersApart' /\ PathInv /\ [Next]_vars
    => PathInv'
<1> SUFFICES ASSUME ~MayFail, IInv, PlansShaped, OrdersApart, OrdersApart', PathInv, [Next]_vars
             PROVE  PathInv'
  OBVIOUS
<1>1. ASSUME NEW r \in Requests, Handle(r) \/ Run(r) PROVE PathInv'
  BY <1>1, HandlePath, RunPath
<1>2. ASSUME NEW o \in Orders,
             \/ OpenOrder(o)
             \/ \E e \in Estimates, items \in ItemList : OpenOrderWithItems(o, e, items)
      PROVE  PathInv'
  BY <1>2, OpeningPath
<1>3. CASE UNCHANGED vars
  <2>1. UNCHANGED <<order, history>> /\ \A p \in Requests : Pend(p)' = Pend(p)
    BY <1>3 DEF vars, Pend
  <2> QED BY <2>1, PathUntouched
<1> QED BY <1>1, <1>2, <1>3 DEF Next

\* No order is open in an empty system.
LEMMA InitPath == Init => PathInv
BY DEF Init, PathInv, Opened, NoOrderRow

\* Without failures and without two requests at work on the same order, the history of
\* an order is the path it went.
THEOREM HistoriesArePaths ==
    ASSUME ~MayFail PROVE Spec /\ []OrdersApart => []HistoryIsThePath
<1>1. IInv /\ PlansShaped /\ OrdersApart /\ OrdersApart' /\ PathInv /\ [Next]_vars => PathInv'
  BY NextPath
<1>2. PathInv => HistoryIsThePath
  BY QuietHasNothing DEF PathInv, OnPath, Connected, Last, HistoryIsThePath
<1> QED BY <1>1, <1>2, InitPath, SoundnessInvariant, ShapedInvariant, PTL DEF Spec

-----------------------------------------------------------------------------
(***************************************************************************)
(* Totals.  A request that has added an item still has to sum up, or to    *)
(* write the sum of what the items are.                                    *)
(***************************************************************************)
Totalled(e) ==
    \/ estimate[e].totalOf = item[e]
    \/ \E r \in Requests : SumUp(e) \in Pend(r) \/ WriteSum(e, item[e]) \in Pend(r)

TotalsInv == \A e \in Estimates : Totalled(e)

\* An estimate stays totalled while its items and its total are as they were and no sum
\* of it is dropped.
LEMMA TotalledKept ==
    ASSUME NEW e, Totalled(e), estimate'[e].totalOf = estimate[e].totalOf, item'[e] = item[e],
           \A p \in Requests : \A t \in Pend(p) :
                t.kind \in {"sumItems", "writeTotal"} /\ t.estimate = e => t \in Pend(p)'
    PROVE  Totalled(e)'
<1>1. CASE estimate[e].totalOf = item[e]
  BY <1>1 DEF Totalled
<1>2. ASSUME NEW p \in Requests, SumUp(e) \in Pend(p) PROVE Totalled(e)'
  <2>1. SumUp(e) \in Pend(p)'
    BY <1>2 DEF SumUp
  <2> QED BY <2>1 DEF Totalled, SumUp
<1>3. ASSUME NEW p \in Requests, WriteSum(e, item[e]) \in Pend(p) PROVE Totalled(e)'
  <2>1. WriteSum(e, item[e]) \in Pend(p)'
    BY <1>3 DEF WriteSum
  <2>2. WriteSum(e, item'[e]) \in Pend(p)'
    BY <2>1 DEF WriteSum
  <2> QED BY <2>2 DEF Totalled, WriteSum
<1> QED BY <1>1, <1>2, <1>3 DEF Totalled

\* Every statement leaves every estimate totalled.
LEMMA DoesTotals ==
    ASSUME IInv, PlansShaped, CurrentInv, TotalsInv, NEW r \in Requests, NEW s \in Statement,
           Does(r, s)
    PROVE  TotalsInv'
<1>1. TypeOK
  BY SoundIsTyped
<1>2. \A p \in Requests : \A t \in Pend(p) : t # s => t \in Pend(p)'
  BY OthersWait
<1> SUFFICES ASSUME NEW e \in Estimates, Totalled(e) PROVE Totalled(e)'
  BY DEF TotalsInv
<1>3. CASE InsertsItem(r, s)
  <2>1. /\ s.kind = "createItem" /\ SumUp(s.estimate) \in Pend(r)' /\ UNCHANGED estimate
        /\ item' = [item EXCEPT ![s.estimate][s.ref] = s.quantity]
    BY <1>3 DEF InsertsItem, Goes
  <2>2. CASE e = s.estimate
    BY <2>1, <2>2 DEF Totalled, SumUp
  <2>3. CASE e # s.estimate
    <3>1. estimate'[e].totalOf = estimate[e].totalOf /\ item'[e] = item[e]
      BY <1>1, <2>1, <2>3 DEF TypeOK
    <3> QED BY <1>2, <2>1, <3>1, TotalledKept
  <2> QED BY <2>2, <2>3
<1>4. CASE SumsUp(r, s)
  <2>1. /\ s.kind = "sumItems" /\ WriteSum(s.estimate, item[s.estimate]) \in Pend(r)'
        /\ UNCHANGED <<estimate, item>>
    BY <1>4 DEF SumsUp, Goes, tables
  <2>2. CASE e = s.estimate
    <3>1. WriteSum(e, item'[e]) \in Pend(r)'
      BY <2>1, <2>2
    <3> QED BY <3>1 DEF Totalled, WriteSum
  <2>3. CASE e # s.estimate
    BY <1>2, <2>1, <2>3, TotalledKept
  <2> QED BY <2>2, <2>3
<1>5. CASE WritesTotal(r, s)
  <2>1. /\ s.kind = "writeTotal" /\ s \in Pend(r) /\ UNCHANGED item
        /\ estimate' = [estimate EXCEPT ![s.estimate].totalOf = s.totalOf]
    BY <1>5 DEF WritesTotal
  <2>2. CASE e = s.estimate
    <3>1. s.totalOf = item[e]
      BY <2>1, <2>2 DEF CurrentInv, Current
    <3>2. estimate'[e].totalOf = s.totalOf
      BY <1>1, <2>1, <2>2 DEF TypeOK, EstimateRow
    <3> QED BY <2>1, <3>1, <3>2 DEF Totalled
  <2>3. CASE e # s.estimate
    <3>1. estimate'[e].totalOf = estimate[e].totalOf /\ item'[e] = item[e]
      BY <1>1, <2>1, <2>3 DEF TypeOK
    <3> QED BY <1>2, <2>3, <3>1, TotalledKept
  <2> QED BY <2>2, <2>3
<1>6. ASSUME NEW d \in Estimates, IssuesEstimate(r, s, d) PROVE Totalled(e)'
  <2>1. /\ s.kind = "createEstimate" /\ ~Issued(d) /\ UNCHANGED item
        /\ estimate' = [estimate EXCEPT ![d] = [serviceOrder |-> s.order, status |-> "PENDING",
                                                totalOf |-> NoItems]]
    BY <1>6 DEF IssuesEstimate
  <2>2. CASE e = d
    <3>1. item[e] = NoItems
      BY <2>1, <2>2 DEF CurrentInv
    <3>2. estimate'[e].totalOf = NoItems
      BY <1>1, <2>1, <2>2 DEF TypeOK
    <3> QED BY <2>1, <3>1, <3>2 DEF Totalled
  <2>3. CASE e # d
    <3>1. estimate'[e].totalOf = estimate[e].totalOf /\ item'[e] = item[e]
      BY <1>1, <2>1, <2>3 DEF TypeOK
    <3> QED BY <1>2, <2>1, <3>1, TotalledKept
  <2> QED BY <2>2, <2>3
<1>7. ASSUME SetsStatus(r, s) \/ \E d \in Estimates : RejectsOne(r, s, d) PROVE Totalled(e)'
  <2>1. /\ s.kind \notin {"sumItems", "writeTotal"} /\ UNCHANGED item
        /\ \E d, status : estimate' = [estimate EXCEPT ![d].status = status]
    BY <1>7 DEF SetsStatus, RejectsOne
  <2>2. estimate'[e].totalOf = estimate[e].totalOf
    BY <1>1, <2>1 DEF TypeOK, EstimateRow
  <2> QED BY <1>2, <2>1, <2>2, TotalledKept
<1>8. ASSUME \/ WritesOrder(r, s) \/ AddsHistory(r, s) \/ LoadsAgain(r, s) \/ TakesStock(r, s)
             \/ \E i \in PartItem : ReturnsOne(r, s, i)
      PROVE  Totalled(e)'
  <2>1. s.kind \notin {"sumItems", "writeTotal"} /\ UNCHANGED <<estimate, item>>
    BY <1>8 DEF WritesOrder, AddsHistory, LoadsAgain, TakesStock, ReturnsOne, tables
  <2> QED BY <1>2, <2>1, TotalledKept
<1> QED BY <1>3, <1>4, <1>5, <1>6, <1>7, <1>8 DEF Does

\* So does every other step: an order opened with items has their sum as its total.
LEMMA NextTotals ==
    ~MayFail /\ IInv /\ PlansShaped /\ CurrentInv /\ TotalsInv /\ [Next]_vars => TotalsInv'
<1> SUFFICES ASSUME ~MayFail, IInv, PlansShaped, CurrentInv, TotalsInv, [Next]_vars
             PROVE  TotalsInv'
  OBVIOUS
<1>1. TypeOK
  BY SoundIsTyped
<1>2. ASSUME NEW r \in Requests, Handle(r) PROVE TotalsInv'
  <2>1. UNCHANGED <<estimate, item>> /\ \A p \in Requests : Pend(p) \subseteq Pend(p)'
    BY <1>1, <1>2, HandleDecides DEF tables, Goes
  <2> QED BY <2>1, TotalledKept DEF TotalsInv
<1>3. ASSUME NEW r \in Requests, Stops(r) PROVE TotalsInv'
  <2>1. UNCHANGED <<estimate, item>>
    BY <1>3 DEF Stops, tables
  <2>2. \A p \in Requests : \A t \in Pend(p) :
            t.kind \in {"sumItems", "writeTotal"} => t \in Pend(p)'
    BY <1>3, StopsEarly
  <2> QED BY <2>1, <2>2, TotalledKept DEF TotalsInv
<1>4. ASSUME NEW r \in Requests, Run(r) PROVE TotalsInv'
  BY <1>3, <1>4, RunDoes, DoesTotals
<1>5. ASSUME NEW o \in Orders, OpenOrder(o) PROVE TotalsInv'
  <2>1. UNCHANGED <<estimate, item>> /\ \A p \in Requests : Pend(p)' = Pend(p)
    BY <1>5 DEF OpenOrder, Pend
  <2> QED BY <2>1, TotalledKept DEF TotalsInv
<1>6. ASSUME NEW o \in Orders, NEW d \in Estimates, NEW items \in ItemList,
             OpenOrderWithItems(o, d, items)
      PROVE  TotalsInv'
  <2>1. /\ item' = [item EXCEPT ![d] = items]
        /\ estimate' = [estimate EXCEPT ![d] = [serviceOrder |-> o, status |-> "PENDING",
                                                totalOf |-> items]]
        /\ \A p \in Requests : Pend(p)' = Pend(p)
    BY <1>6 DEF OpenOrderWithItems, Pend
  <2>2. Totalled(d)'
    BY <1>1, <2>1 DEF Totalled, TypeOK
  <2>3. ASSUME NEW e \in Estimates, e # d PROVE Totalled(e)'
    <3>1. estimate'[e].totalOf = estimate[e].totalOf /\ item'[e] = item[e]
      BY <1>1, <2>1, <2>3 DEF TypeOK
    <3> QED BY <2>1, <3>1, TotalledKept DEF TotalsInv
  <2> QED BY <2>2, <2>3 DEF TotalsInv
<1>7. CASE UNCHANGED vars
  <2>1. UNCHANGED <<estimate, item>> /\ \A p \in Requests : Pend(p)' = Pend(p)
    BY <1>7 DEF vars, Pend
  <2> QED BY <2>1, TotalledKept DEF TotalsInv
<1> QED BY <1>2, <1>4, <1>5, <1>6, <1>7 DEF Next

\* An estimate that has no items has the total of none.
LEMMA InitTotals == Init => TotalsInv
BY DEF Init, TotalsInv, Totalled, NoEstimateRow

\* Without failures and without two requests at work on the same order, the total of an
\* estimate is the sum of its items once all requests are answered.  Two items added at
\* the same time, each summed up before the other is there, would lose it.
THEOREM TotalsAreSums ==
    ASSUME ~MayFail PROVE Spec /\ []OrdersApart => []TotalIsSumOfItems
<1>1. IInv /\ PlansShaped /\ CurrentInv /\ TotalsInv /\ [Next]_vars => TotalsInv'
  BY NextTotals
<1>2. TotalsInv => TotalIsSumOfItems
  BY QuietHasNothing DEF TotalsInv, Totalled, TotalIsSumOfItems
<1> QED BY <1>1, <1>2, InitTotals, CurrentInvariant, SoundnessInvariant, ShapedInvariant, PTL
    DEF Spec

-----------------------------------------------------------------------------
(***************************************************************************)
(* The service of an approved estimate.  The order of an APPROVED estimate *)
(* is under way, or the request that approved it has still to start it.    *)
(***************************************************************************)
UnderWay == {"IN_EXECUTION", "FINISHED", "DELIVERED", "CLOSED"}

Starts(s, o) == IsUpdateOf(s, o) /\ s.row.status = "IN_EXECUTION"

StartIsPending(o) == \E r \in Requests : \E s \in Pend(r) : Starts(s, o)

OnTheWay(e) ==
    /\ estimate[e].status = "APPROVED"
        => order[OrderOf(e)].status \in UnderWay \/ StartIsPending(OrderOf(e))
    /\ \A r \in Requests : SetStatus(e, "APPROVED") \in Pend(r)
        => \E s \in Pend(r) : Starts(s, OrderOf(e))

UnderWayInv == \A e \in Estimates : OnTheWay(e)

\* A plan that approves an estimate starts the service of its order.
StartsWhatItApproves(S) ==
    \A e \in Estimates : SetStatus(e, "APPROVED") \in S => \E s \in S : Starts(s, OrderOf(e))

\* A step that approves nothing and drops no write of the estimate's order.
LEMMA OnTheWayKept ==
    ASSUME NEW e \in Estimates, OnTheWay(e),
           estimate'[e].status = "APPROVED" => estimate[e].status = "APPROVED",
           estimate'[e].serviceOrder = estimate[e].serviceOrder,
           order'[OrderOf(e)].status = order[OrderOf(e)].status,
           \A p \in Requests : \A t \in Pend(p) : IsUpdateOf(t, OrderOf(e)) => t \in Pend(p)',
           \A p \in Requests : \A t \in Pend(p)' : t.kind = "updateEstimate" => t \in Pend(p)
    PROVE  OnTheWay(e)'
<1>1. PICK o : o = OrderOf(e)
  OBVIOUS
<1>2. OrderOf(e)' = o
  BY <1>1 DEF OrderOf
<1>3. \A p \in Requests : \A t \in Pend(p) : Starts(t, o) => t \in Pend(p)'
  BY <1>1 DEF Starts
<1>4. StartIsPending(o) => \E p \in Requests : \E t \in Pend(p)' : Starts(t, o)
  BY <1>3 DEF StartIsPending
<1>5. estimate'[e].status = "APPROVED" =>
            \/ order'[o].status \in UnderWay
            \/ \E p \in Requests : \E t \in Pend(p)' : Starts(t, o)
  BY <1>1, <1>4 DEF OnTheWay
<1>6. ASSUME NEW p \in Requests, SetStatus(e, "APPROVED") \in Pend(p)'
      PROVE  \E t \in Pend(p)' : Starts(t, o)
  <2>1. SetStatus(e, "APPROVED").kind = "updateEstimate"
    BY DEF SetStatus
  <2>2. SetStatus(e, "APPROVED") \in Pend(p)
    BY <1>6, <2>1
  <2> QED BY <1>1, <1>3, <2>2 DEF OnTheWay
<1> QED BY <1>2, <1>5, <1>6 DEF OnTheWay, StartIsPending, Starts, IsUpdateOf, SetStatus

\* A request goes on with a plan that starts what it approves.
LEMMA PlanUnderWay ==
    ASSUME UnderWayInv, UNCHANGED tables, NEW r \in Requests, NEW S, Goes(r, S),
           StartsWhatItApproves(S), \A t \in Pend(r) : t.kind # "updateOrder"
    PROVE  UnderWayInv'
<1> SUFFICES ASSUME NEW e \in Estimates, OnTheWay(e) PROVE OnTheWay(e)'
  BY DEF UnderWayInv
<1>1. Pend(r)' = S /\ \A p \in Requests \ {r} : Pend(p)' = Pend(p)
  BY DEF Goes
<1>2. PICK o : o = OrderOf(e)
  OBVIOUS
<1>3. OrderOf(e)' = o /\ UNCHANGED <<order, estimate>>
  BY <1>2 DEF OrderOf, tables
<1>4. StartIsPending(o) => \E p \in Requests : \E t \in Pend(p)' : Starts(t, o)
  BY <1>1 DEF StartIsPending, Starts, IsUpdateOf
<1>5. estimate'[e].status = "APPROVED" =>
            \/ order'[o].status \in UnderWay
            \/ \E p \in Requests : \E t \in Pend(p)' : Starts(t, o)
  BY <1>2, <1>3, <1>4 DEF OnTheWay
<1>6. ASSUME NEW p \in Requests, SetStatus(e, "APPROVED") \in Pend(p)'
      PROVE  \E t \in Pend(p)' : Starts(t, o)
  BY <1>1, <1>2, <1>6 DEF OnTheWay, StartsWhatItApproves
<1> QED BY <1>3, <1>5, <1>6 DEF OnTheWay, StartIsPending, Starts, IsUpdateOf, SetStatus

\* What a handler decides on approves nothing: it has the order to load first.
LEMMA DecisionsApproveNothing ==
    ASSUME NEW S, DecidesOn(S)
    PROVE  StartsWhatItApproves(S)
<1>1. ASSUME \A s \in S : s.kind = "updateEstimate" => s.status # "APPROVED"
      PROVE  StartsWhatItApproves(S)
  BY <1>1 DEF StartsWhatItApproves, SetStatus
<1>2. ASSUME \/ \E o, method : S = MovePlan(o, method) \/ S = MovePlan(o, method) \cup {Insert(o)}
             \/ \E o : S = RejectPlan(o)
      PROVE  StartsWhatItApproves(S)
  <2>1. \A o : Insert(o).kind = "createEstimate"
    BY DEF Insert
  <2>2. \A s \in S : s.kind # "updateEstimate"
    BY <1>2, <2>1, MovePlanKinds, RejectPlanKinds
  <2> QED BY <1>1, <2>2
<1>3. ASSUME \/ \E o, row : S = {Update(o, row)}
             \/ \E e, status, items : S = {Decide(e, status, items)}
             \/ \E e : \E status \in {"PENDING", "NEGOTIATED"} : S = {SetStatus(e, status)}
             \/ \E e : S = {RejectOrder(e)}
             \/ \E e, ref, q : S = {Create(e, ref, q)} \/ S = {Take(ref, q), Create(e, ref, q)}
      PROVE  StartsWhatItApproves(S)
  <2>1. /\ \A o, row : Update(o, row).kind = "updateOrder"
        /\ \A e, status, items : Decide(e, status, items).kind = "decide"
        /\ \A e, status : SetStatus(e, status).kind = "updateEstimate"
                             /\ SetStatus(e, status).status = status
        /\ \A e : RejectOrder(e).kind = "rejectOrderOf"
        /\ \A e, ref, q : Create(e, ref, q).kind = "createItem" /\ Take(ref, q).kind = "decrementStock"
    BY DEF Update, Decide, SetStatus, RejectOrder, Create, Take
  <2> QED BY <1>1, <1>3, <2>1
<1> QED BY <1>2, <1>3 DEF DecidesOn

\* A request that approves an estimate starts the service of the order it has loaded.
LEMMA LoadedPlanStarts ==
    ASSUME TypeOK, NEW s, NEW r, LoadsAgain(r, s), OrderOf(s.estimate) \in Orders
    PROVE  \E S : Goes(r, S) /\ StartsWhatItApproves(S)
<1>1. PICK o \in Orders : o = OrderOf(s.estimate)
  OBVIOUS
<1>2. CASE s.kind = "rejectOrderOf" /\ Goes(r, RejectPlan(o))
  <2>1. \A t \in RejectPlan(o) : t.kind # "updateEstimate"
    BY RejectPlanKinds
  <2> QED BY <1>2, <2>1 DEF StartsWhatItApproves, SetStatus
<1>3. CASE s.kind = "decide" /\ Goes(r, DecisionPlan(o, s))
  <2>1. \A t \in DecisionPlan(o, s) : \/ t.kind \in {"updateOrder", "createHistory", "returnParts"}
                                      \/ t = SetStatus(s.estimate, s.status)
    BY MovePlanKinds DEF DecisionPlan, Looped, Returning
  <2>2. ASSUME NEW e \in Estimates, SetStatus(e, "APPROVED") \in DecisionPlan(o, s)
        PROVE  \E t \in DecisionPlan(o, s) : Starts(t, OrderOf(e))
    <3>1. SetStatus(e, "APPROVED").kind = "updateEstimate"
      BY DEF SetStatus
    <3>2. SetStatus(e, "APPROVED") = SetStatus(s.estimate, s.status)
      BY <2>1, <2>2, <3>1
    <3>3. e = s.estimate /\ s.status = "APPROVED"
      BY <3>2 DEF SetStatus
    <3>4. DecisionMethod(s.status) = "startService" /\ ResultOf["startService"] = "IN_EXECUTION"
      BY <3>3 DEF DecisionMethod, ResultOf
    <3>5. Update(o, Apply(Loaded(o), "startService")) \in DecisionPlan(o, s)
      BY <3>4 DEF DecisionPlan, MovePlan
    <3>6. Loaded(o) \in Order
      BY DEF Loaded, ToDomain, TypeOK, Order
    <3>7. Apply(Loaded(o), "startService").status = "IN_EXECUTION"
      BY <3>4, <3>6 DEF Apply, Order
    <3>8. Starts(Update(o, Apply(Loaded(o), "startService")), o)
      BY <3>7 DEF Starts, IsUpdateOf, Update
    <3> QED BY <1>1, <3>3, <3>5, <3>8
  <2> QED BY <1>3, <2>2 DEF StartsWhatItApproves
<1> QED BY <1>1, <1>2, <1>3 DEF LoadsAgain, OrderOf

\* The order is written: what is under way stays so, and what starts is under way.
LEMMA WritesOrderUnderWay ==
    ASSUME IInv, PlansShaped, OrdersApart, CurrentInv, UnderWayInv,
           NEW r \in Requests, NEW s \in Statement, WritesOrder(r, s)
    PROVE  UnderWayInv'
<1>1. TypeOK
  BY SoundIsTyped
<1>2. /\ s.kind = "updateOrder" /\ s \in Pend(r) /\ UNCHANGED estimate /\ IsNext(r, s)
      /\ Pend(r)' = Pend(r) \ {s} /\ \A p \in Requests \ {r} : Pend(p)' = Pend(p)
      /\ order' = [order EXCEPT ![s.order] =
                    [s.row EXCEPT !.closedAt = s.row.closedAt \/ order[s.order].closedAt]]
  BY DEF WritesOrder, Takes, IsNext, Goes
<1>3. s.order \in Orders /\ s.row \in Order /\ Fresh(s)
  BY <1>2 DEF Statement, CurrentInv, Current
<1>4. PICK o \in Orders : o = s.order
  BY <1>3
<1>5. /\ order'[o].status = s.row.status
      /\ \A q \in Orders \ {o} : order'[q] = order[q]
  BY <1>1, <1>2, <1>3, <1>4 DEF TypeOK, Order
<1>6. IsUpdateOf(s, o) /\ Concerns(s, o)
  BY <1>2, <1>4 DEF IsUpdateOf, Concerns
<1>7. ASSUME order[o].status \in UnderWay PROVE s.row.status \in UnderWay
  <2>1. CASE \E method \in Methods, actor \in Actors :
                Allows(Loaded(o), method, actor) /\ s.row = Apply(Loaded(o), method)
    <3>1. PICK method \in Methods, actor \in Actors :
                Allows(Loaded(o), method, actor) /\ s.row = Apply(Loaded(o), method)
      BY <2>1
    <3>2. order[o].status \in ExpectedIn[method]
      BY <1>1, <3>1, MoveTyped
    <3>3. s.row.status = ResultOf[method]
      BY <1>1, <3>1, MoveTyped DEF Apply, Order
    <3> QED BY <1>7, <3>2, <3>3 DEF UnderWay, Methods, ExpectedIn, ResultOf
  <2>2. CASE order[o].status = "RECEIVED"
    BY <1>7, <2>2 DEF UnderWay
  <2> QED BY <1>3, <1>4, <2>1, <2>2 DEF Fresh
<1>8. ASSUME NEW p \in Requests, NEW t \in Pend(p), Starts(t, o)
      PROVE  s.row.status \in UnderWay
  <2>1. Concerns(t, o) /\ t.kind = "updateOrder" /\ t.row.status = "IN_EXECUTION"
    BY <1>8 DEF Starts, IsUpdateOf, Concerns
  <2>2. p = r
    BY <1>2, <1>6, <2>1, Elsewhere
  <2>3. t = s
    BY <1>1, <1>2, <2>1, <2>2, OneOfAKind
  <2> QED BY <2>1, <2>3 DEF UnderWay
<1> SUFFICES ASSUME NEW e \in Estimates, OnTheWay(e) PROVE OnTheWay(e)'
  BY DEF UnderWayInv
<1>9. CASE OrderOf(e) = o
  <2>1. OrderOf(e)' = o
    BY <1>2, <1>9 DEF OrderOf
  <2>2. estimate'[e].status = "APPROVED" => order'[o].status \in UnderWay
    BY <1>2, <1>5, <1>7, <1>8, <1>9 DEF OnTheWay, StartIsPending
  <2>3. ASSUME NEW p \in Requests, SetStatus(e, "APPROVED") \in Pend(p)'
        PROVE  \E t \in Pend(p)' : Starts(t, o)
    <3>1. SetStatus(e, "APPROVED") \in Pend(p) /\ SetStatus(e, "APPROVED").kind = "updateEstimate"
      BY <1>2, <2>3 DEF SetStatus
    <3>2. PICK t \in Pend(p) : Starts(t, o)
      BY <1>9, <3>1 DEF OnTheWay
    <3>3. CASE p = r
      BY <1>2, <3>1, <3>3 DEF IsNext, MayFollow
    <3> QED BY <1>2, <3>2, <3>3
  <2> QED BY <2>1, <2>2, <2>3 DEF OnTheWay, StartIsPending, Starts, IsUpdateOf, SetStatus
<1>10. CASE OrderOf(e) # o
  <2>1. order'[OrderOf(e)] = order[OrderOf(e)]
    <3>1. CASE OrderOf(e) \in Orders
      BY <1>5, <1>10, <3>1
    <3>2. CASE OrderOf(e) \notin Orders
      BY <1>1, <1>2, <1>3, <3>2 DEF TypeOK
    <3> QED BY <3>1, <3>2
  <2>2. \A p \in Requests : \A t \in Pend(p) : IsUpdateOf(t, OrderOf(e)) => t \in Pend(p)'
    BY <1>2, <1>4, <1>10 DEF IsUpdateOf
  <2>3. \A p \in Requests : \A t \in Pend(p)' : t \in Pend(p)
    BY <1>2
  <2> QED BY <1>2, <2>1, <2>2, <2>3, OnTheWayKept
<1> QED BY <1>9, <1>10

\* The status of an estimate is written: an approval leaves the start of the service
\* pending.
LEMMA SetsStatusUnderWay ==
    ASSUME IInv, UnderWayInv, NEW r \in Requests, NEW s \in Statement, SetsStatus(r, s)
    PROVE  UnderWayInv'
<1>1. TypeOK
  BY SoundIsTyped
<1>2. /\ s.kind = "updateEstimate" /\ s \in Pend(r) /\ UNCHANGED order
      /\ Pend(r)' = Pend(r) \ {s} /\ \A p \in Requests \ {r} : Pend(p)' = Pend(p)
      /\ estimate' = [estimate EXCEPT ![s.estimate].status = s.status]
  BY DEF SetsStatus, Takes, IsNext, Goes
<1> SUFFICES ASSUME NEW e \in Estimates, OnTheWay(e) PROVE OnTheWay(e)'
  BY DEF UnderWayInv
<1>3. estimate'[e].serviceOrder = estimate[e].serviceOrder
  BY <1>1, <1>2 DEF TypeOK, EstimateRow
<1>4. \A p \in Requests : \A t \in Pend(p) : IsUpdateOf(t, OrderOf(e)) => t \in Pend(p)'
  BY <1>2 DEF IsUpdateOf
<1>5. \A p \in Requests : \A t \in Pend(p)' : t \in Pend(p)
  BY <1>2
<1>6. CASE e = s.estimate /\ s.status = "APPROVED"
  <2>1. s = SetStatus(e, "APPROVED")
    BY <1>2, <1>6 DEF Statement, SetStatus
  <2>2. PICK o : o = OrderOf(e)
    OBVIOUS
  <2>3. OrderOf(e)' = o
    BY <1>3, <2>2 DEF OrderOf
  <2>4. PICK t \in Pend(r) : Starts(t, o)
    BY <1>2, <2>1, <2>2 DEF OnTheWay
  <2>5. t \in Pend(r)'
    BY <1>2, <2>4 DEF Starts, IsUpdateOf
  <2>6. ASSUME NEW p \in Requests, SetStatus(e, "APPROVED") \in Pend(p)'
        PROVE  \E u \in Pend(p)' : Starts(u, o)
    <3>1. PICK u \in Pend(p) : Starts(u, o)
      BY <1>5, <2>2, <2>6 DEF OnTheWay
    <3> QED BY <1>4, <2>2, <3>1 DEF Starts
  <2> QED BY <2>3, <2>4, <2>5, <2>6 DEF OnTheWay, StartIsPending, Starts, IsUpdateOf, SetStatus
<1>7. CASE ~(e = s.estimate /\ s.status = "APPROVED")
  <2>1. estimate'[e].status = "APPROVED" => estimate[e].status = "APPROVED"
    BY <1>1, <1>2, <1>7 DEF TypeOK, EstimateRow
  <2> QED BY <1>2, <1>3, <1>4, <1>5, <2>1, OnTheWayKept
<1> QED BY <1>6, <1>7

\* An estimate is issued: nothing is approved of it yet.
LEMMA IssuesEstimateUnderWay ==
    ASSUME IInv, UnderWayInv, NEW r \in Requests, NEW s \in Statement, NEW d \in Estimates,
           IssuesEstimate(r, s, d)
    PROVE  UnderWayInv'
<1>1. TypeOK
  BY SoundIsTyped
<1>2. /\ s.kind = "createEstimate" /\ ~Issued(d) /\ UNCHANGED order
      /\ Pend(r)' = Pend(r) \ {s} /\ \A p \in Requests \ {r} : Pend(p)' = Pend(p)
      /\ estimate' = [estimate EXCEPT ![d] = [serviceOrder |-> s.order, status |-> "PENDING",
                                              totalOf |-> NoItems]]
  BY DEF IssuesEstimate, Takes, Goes
<1>3. OnTheWay(d)'
  <2>1. estimate'[d].status = "PENDING"
    BY <1>1, <1>2 DEF TypeOK
  <2>2. ASSUME NEW p \in Requests, SetStatus(d, "APPROVED") \in Pend(p)' PROVE FALSE
    <3>1. SetStatus(d, "APPROVED") \in Pend(p)
      BY <1>2, <2>2
    <3>2. Sound(SetStatus(d, "APPROVED"))
      BY <3>1, PendingSound DEF SetStatus
    <3> QED BY <1>2, <3>2 DEF Sound, SetStatus
  <2> QED BY <2>1, <2>2 DEF OnTheWay, SetStatus
<1>4. ASSUME NEW e \in Estimates, e # d PROVE OnTheWay(e)'
  <2>1. estimate'[e] = estimate[e]
    BY <1>1, <1>2, <1>4 DEF TypeOK
  <2>2. \A p \in Requests : \A t \in Pend(p) : IsUpdateOf(t, OrderOf(e)) => t \in Pend(p)'
    BY <1>2 DEF IsUpdateOf
  <2>3. \A p \in Requests : \A t \in Pend(p)' : t \in Pend(p)
    BY <1>2
  <2> QED BY <1>2, <2>1, <2>2, <2>3, OnTheWayKept DEF UnderWayInv
<1> QED BY <1>3, <1>4 DEF UnderWayInv

\* A rejection, the history, the items, the totals and the stock approve nothing.
LEMMA OthersUnderWay ==
    ASSUME IInv, PlansShaped, UnderWayInv, NEW r \in Requests, NEW s \in Statement,
           Does(r, s), ~WritesOrder(r, s), ~SetsStatus(r, s), ~LoadsAgain(r, s),
           \A d \in Estimates : ~IssuesEstimate(r, s, d)
    PROVE  UnderWayInv'
<1>1. TypeOK
  BY SoundIsTyped
<1>2. s.kind # "updateOrder" /\ UNCHANGED order
  BY DEF Does, AddsHistory, RejectsOne, ReturnsOne, TakesStock, InsertsItem, SumsUp, WritesTotal,
         tables
<1>3. \A p \in Requests : \A t \in Pend(p) : t.kind = "updateOrder" => t \in Pend(p)'
  BY <1>2, OthersWait
<1>4. \A p \in Requests : \A t \in Pend(p)' : t.kind = "updateEstimate" => t \in Pend(p)
  BY FewAreNew
<1> SUFFICES ASSUME NEW e \in Estimates, OnTheWay(e) PROVE OnTheWay(e)'
  BY DEF UnderWayInv
<1>5. /\ estimate'[e].status = "APPROVED" => estimate[e].status = "APPROVED"
      /\ estimate'[e].serviceOrder = estimate[e].serviceOrder
  <2>1. ASSUME NEW d \in Estimates, RejectsOne(r, s, d)
        PROVE  /\ estimate'[e].status = "APPROVED" => estimate[e].status = "APPROVED"
               /\ estimate'[e].serviceOrder = estimate[e].serviceOrder
    <3>1. estimate' = [estimate EXCEPT ![d].status = "REJECTED"]
      BY <2>1 DEF RejectsOne
    <3> QED BY <1>1, <3>1 DEF TypeOK, EstimateRow
  <2>2. ASSUME WritesTotal(r, s)
        PROVE  /\ estimate'[e].status = "APPROVED" => estimate[e].status = "APPROVED"
               /\ estimate'[e].serviceOrder = estimate[e].serviceOrder
    <3>1. estimate' = [estimate EXCEPT ![s.estimate].totalOf = s.totalOf]
      BY <2>2 DEF WritesTotal
    <3> QED BY <1>1, <3>1 DEF TypeOK, EstimateRow
  <2>3. ASSUME \/ AddsHistory(r, s) \/ TakesStock(r, s) \/ InsertsItem(r, s) \/ SumsUp(r, s)
               \/ \E i \in PartItem : ReturnsOne(r, s, i)
        PROVE  UNCHANGED estimate
    BY <2>3 DEF AddsHistory, TakesStock, InsertsItem, SumsUp, ReturnsOne, tables
  <2> QED BY <2>1, <2>2, <2>3 DEF Does
<1> QED BY <1>2, <1>3, <1>4, <1>5, OnTheWayKept DEF IsUpdateOf

\* Every step of a request in flight leaves approved orders under way.
LEMMA RunUnderWay ==
    ASSUME ~MayFail, IInv, PlansShaped, OrdersApart, CurrentInv, UnderWayInv,
           NEW r \in Requests, Run(r)
    PROVE  UnderWayInv'
<1>1. CASE Stops(r)
  <2>1. UNCHANGED <<order, estimate>>
    BY <1>1 DEF Stops, tables
  <2>2. /\ \A p \in Requests : \A t \in Pend(p) : t.kind = "updateOrder" => t \in Pend(p)'
        /\ \A p \in Requests : \A t \in Pend(p)' : t \in Pend(p)
    BY <1>1, StopsEarly
  <2> QED BY <2>1, <2>2, OnTheWayKept DEF UnderWayInv, IsUpdateOf
<1>2. ASSUME NEW s \in Statement, LoadsAgain(r, s) PROVE UnderWayInv'
  <2>1. Pend(r) = {s} /\ s \in Pend(r) /\ s.kind \in {"decide", "rejectOrderOf"}
        /\ UNCHANGED tables
    BY <1>2 DEF LoadsAgain
  <2>2. Sound(s)
    BY <2>1, PendingSound
  <2>3. OrderOf(s.estimate) \in Orders
    BY <2>1, <2>2 DEF Sound, Statement, IInv, EstimatesSound, OrderOf
  <2>4. PICK S : Goes(r, S) /\ StartsWhatItApproves(S)
    BY <1>2, <2>3, SoundIsTyped, LoadedPlanStarts
  <2> QED BY <2>1, <2>4, PlanUnderWay
<1> QED BY <1>1, <1>2, RunDoes, WritesOrderUnderWay, SetsStatusUnderWay, IssuesEstimateUnderWay,
           OthersUnderWay

\* A new order has no approved estimates: all that are issued are of other orders.
LEMMA OpeningUnderWay ==
    ASSUME IInv, IssuedToOpened, UnderWayInv, NEW o \in Orders,
           \/ OpenOrder(o)
           \/ \E d \in Estimates, items \in ItemList : OpenOrderWithItems(o, d, items)
    PROVE  UnderWayInv'
<1>1. TypeOK
  BY SoundIsTyped
<1>2. /\ ~Opened(o) /\ \A p \in Requests : Pend(p)' = Pend(p)
      /\ \A q \in Orders \ {o} : order'[q] = order[q]
  BY <1>1 DEF OpenOrder, OpenOrderWithItems, TypeOK, Pend
<1> SUFFICES ASSUME NEW e \in Estimates, OnTheWay(e) PROVE OnTheWay(e)'
  BY DEF UnderWayInv
<1>3. CASE Issued(e) /\ estimate'[e] = estimate[e]
  <2>1. OrderOf(e) \in Orders /\ OrderOf(e) # o
    BY <1>2, <1>3 DEF IssuedToOpened, IInv, EstimatesSound, OrderOf
  <2> QED BY <1>2, <1>3, <2>1, OnTheWayKept
<1>4. CASE ~Issued(e) /\ estimate'[e].status # "APPROVED"
  <2>1. ASSUME NEW p \in Requests, SetStatus(e, "APPROVED") \in Pend(p)' PROVE FALSE
    <3>1. SetStatus(e, "APPROVED") \in Pend(p)
      BY <1>2, <2>1
    <3>2. Sound(SetStatus(e, "APPROVED"))
      BY <3>1, PendingSound DEF SetStatus
    <3> QED BY <1>4, <3>2 DEF Sound, SetStatus
  <2> QED BY <1>4, <2>1 DEF OnTheWay, SetStatus
<1>5. \/ Issued(e) /\ estimate'[e] = estimate[e]
      \/ ~Issued(e) /\ estimate'[e].status # "APPROVED"
  <2>1. CASE OpenOrder(o)
    BY <2>1 DEF OpenOrder, Issued, Unissued
  <2>2. ASSUME NEW d \in Estimates, NEW items \in ItemList, OpenOrderWithItems(o, d, items)
        PROVE  \/ Issued(e) /\ estimate'[e] = estimate[e]
               \/ ~Issued(e) /\ estimate'[e].status # "APPROVED"
    BY <1>1, <2>2 DEF OpenOrderWithItems, TypeOK, Issued, Unissued
  <2> QED BY <2>1, <2>2
<1> QED BY <1>3, <1>4, <1>5

\* Approved orders stay under way while requests are apart and none fails.
LEMMA NextUnderWay ==
    /\ ~MayFail /\ IInv /\ PlansShaped /\ OrdersApart /\ CurrentInv /\ IssuedToOpened /\ UnderWayInv
    /\ [Next]_vars
    => UnderWayInv'
<1> SUFFICES ASSUME ~MayFail, IInv, PlansShaped, OrdersApart, CurrentInv, IssuedToOpened,
                    UnderWayInv, [Next]_vars
             PROVE  UnderWayInv'
  OBVIOUS
<1>1. ASSUME NEW r \in Requests, Handle(r) PROVE UnderWayInv'
  <2>1. UNCHANGED tables /\ Pend(r) = {} /\ \E S : DecidesOn(S) /\ Goes(r, S)
    BY <1>1, SoundIsTyped, HandleDecides
  <2> QED BY <2>1, DecisionsApproveNothing, PlanUnderWay
<1>2. CASE UNCHANGED vars
  <2>1. UNCHANGED <<order, estimate>> /\ \A p \in Requests : Pend(p)' = Pend(p)
    BY <1>2 DEF vars, Pend
  <2> QED BY <2>1, OnTheWayKept DEF UnderWayInv
<1> QED BY <1>1, <1>2, RunUnderWay, OpeningUnderWay DEF Next

\* No estimate is approved in an empty system.
LEMMA InitUnderWay == Init => UnderWayInv
<1> SUFFICES ASSUME Init PROVE UnderWayInv
  OBVIOUS
<1>1. \A r \in Requests : Pend(r) = {}
  BY NothingPending DEF Init, Pend
<1> QED BY <1>1 DEF Init, UnderWayInv, OnTheWay, NoEstimateRow, Unissued

\* Without failures and without two requests at work on the same order, the order of an
\* approved estimate is under way once all requests are answered.  The approval is
\* written before the order, and a failure in between leaves it approved and waiting.
THEOREM ApprovedOrdersAreUnderWay ==
    ASSUME ~MayFail PROVE Spec /\ []OrdersApart => []ApprovedIsUnderWay
<1>1. /\ IInv /\ PlansShaped /\ OrdersApart /\ CurrentInv /\ RecordsInv /\ UnderWayInv /\ [Next]_vars
      => UnderWayInv'
  BY NextUnderWay DEF RecordsInv
<1>2. UnderWayInv => ApprovedIsUnderWay
  <2> SUFFICES ASSUME UnderWayInv, Quiet, NEW e \in Estimates, estimate[e].status = "APPROVED"
               PROVE  order[OrderOf(e)].status \in UnderWay
    BY DEF ApprovedIsUnderWay, UnderWay, OrderOf
  <2>1. \A r \in Requests : Pend(r) = {}
    BY QuietHasNothing
  <2> QED BY <2>1 DEF UnderWayInv, OnTheWay, StartIsPending
<1> QED BY <1>1, <1>2, InitUnderWay, CurrentInvariant, RecordsInvariant, SoundnessInvariant,
           ShapedInvariant, PTL
    DEF Spec

-----------------------------------------------------------------------------
(***************************************************************************)
(* The stock.  Every unit of a part that left the stock is in the hands of *)
(* somebody: of an estimate that holds it as an item, as long as it may    *)
(* still be rejected or its parts are being returned, or of a request that *)
(* has taken it and not inserted its item yet.  A failure loses units, and *)
(* an approval uses them up; nothing makes new ones.                       *)
(***************************************************************************)
ItemOwner(e) == <<"item", e>>

NewOwner(r) == <<"new", r>>

Owners == {ItemOwner(e) : e \in Estimates} \cup {NewOwner(r) : r \in Requests}

Holding(e, p) ==
    \/ estimate[e].status = "PENDING"
    \/ \E r \in Requests : \E s \in Pend(r) :
        s.kind = "returnParts" /\ \E i \in s.items : i.estimate = e /\ i.part = p

\* At least n units of the part are to be inserted, and taken already.
InHand(r, p, n) ==
    /\ \E s \in Pend(r) : s.kind = "createItem" /\ s.ref = p /\ n <= s.quantity
    /\ \A s \in Pend(r) : s.kind # "decrementStock"

Units(p) ==
    {u \in Owners \X (1 .. MaxQuantity) :
        \/ \E e \in Estimates : u[1] = ItemOwner(e) /\ Holding(e, p) /\ u[2] <= item[e][p]
        \/ \E r \in Requests : u[1] = NewOwner(r) /\ InHand(r, p, u[2])}

Backed(p) == IsFiniteSet(Units(p)) /\ stock[p] + Cardinality(Units(p)) <= InitialStock[p]

\* Without PATCH status the only decision written as it comes is an approval.  What a
\* request returns it has rejected before, and what it takes is what it inserts.
SafePlan(S) ==
    /\ \A s \in S : s.kind \in {"updateEstimate", "decide"} => s.status = "APPROVED"
    /\ \A s \in S : s.kind = "returnParts" => \A i \in s.items :
            \/ estimate[i.estimate].status # "PENDING"
            \/ \E t \in S : t.kind = "rejectEstimates" /\ i.estimate \in t.estimates
    /\ \A s, t \in S : s.kind = "decrementStock" /\ t.kind = "createItem"
            => t.ref = s.part /\ t.quantity = s.quantity

StockInv ==
    /\ \A p \in Parts : Backed(p)
    /\ \A r \in Requests : SafePlan(Pend(r))

\* A batch of units of one owner.
Batch(owner, q) == {owner} \X (1 .. q)

\* A batch of n units has n elements.
LEMMA BatchSize ==
    ASSUME NEW owner, NEW q \in Nat
    PROVE  IsFiniteSet(Batch(owner, q)) /\ Cardinality(Batch(owner, q)) = q
<1>1. IsFiniteSet({owner}) /\ Cardinality({owner}) = 1
  BY FS_Singleton
<1>2. IsFiniteSet(1 .. q) /\ Cardinality(1 .. q) = q
  BY FS_Interval
<1>3. PICK S, T : S = {owner} /\ T = 1 .. q
  OBVIOUS
<1>4. IsFiniteSet(S \X T) /\ Cardinality(S \X T) = Cardinality(S) * Cardinality(T)
  BY <1>1, <1>2, <1>3, FS_Product
<1>5. Cardinality(S) * Cardinality(T) = q
  BY <1>1, <1>2, <1>3
<1> QED BY <1>3, <1>4, <1>5 DEF Batch

\* A set after some of its elements have been lost, batch out, and at most a batch of q
\* has been added, batch in.
LEMMA UnitsMoved ==
    ASSUME NEW U, IsFiniteSet(U), NEW out, IsFiniteSet(out), out \subseteq U,
           NEW in, IsFiniteSet(in), NEW V, V \subseteq (U \ out) \cup in
    PROVE  /\ IsFiniteSet(V)
           /\ Cardinality(V) + Cardinality(out) <= Cardinality(U) + Cardinality(in)
           /\ {Cardinality(S) : S \in {U, V, out, in}} \subseteq Nat
<1>1. IsFiniteSet(U \ out) /\ Cardinality(U \ out) = Cardinality(U) - Cardinality(out)
  <2>1. Cardinality(U \ out) = Cardinality(U) - Cardinality(U \cap out) /\ IsFiniteSet(U \ out)
    BY FS_Difference
  <2>2. U \cap out = out
    OBVIOUS
  <2> QED BY <2>1, <2>2
<1>2. /\ IsFiniteSet((U \ out) \cup in)
      /\ Cardinality((U \ out) \cup in)
            = Cardinality(U \ out) + Cardinality(in) - Cardinality((U \ out) \cap in)
  BY <1>1, FS_Union
<1>3. IsFiniteSet((U \ out) \cap in)
  BY <1>1, FS_Subset
<1>4. IsFiniteSet(V) /\ Cardinality(V) <= Cardinality((U \ out) \cup in)
  BY <1>2, FS_Subset
<1>5. /\ Cardinality(U) \in Nat /\ Cardinality(out) \in Nat /\ Cardinality(in) \in Nat
      /\ Cardinality(V) \in Nat /\ Cardinality((U \ out) \cap in) \in Nat
      /\ Cardinality((U \ out) \cup in) \in Nat
  BY <1>2, <1>3, <1>4, FS_CardinalityType
<1> QED BY <1>1, <1>2, <1>4, <1>5

\* Two owners are the same only if they are the same estimate or the same request.
LEMMA OwnersDiffer ==
    /\ \A e, d : ItemOwner(e) = ItemOwner(d) => e = d
    /\ \A r, p : NewOwner(r) = NewOwner(p) => r = p
    /\ \A e, r : ItemOwner(e) # NewOwner(r)
BY DEF ItemOwner, NewOwner

\* The units by their owners.
LEMMA UnitsOf ==
    ASSUME NEW p
    PROVE  /\ \A e \in Estimates : \A n \in 1 .. MaxQuantity :
                <<ItemOwner(e), n>> \in Units(p) <=> Holding(e, p) /\ n <= item[e][p]
           /\ \A r \in Requests : \A n \in 1 .. MaxQuantity :
                <<NewOwner(r), n>> \in Units(p) <=> InHand(r, p, n)
BY OwnersDiffer DEF Units, Owners

\* Where the units are after a step.
LEMMA UnitsWithin ==
    ASSUME NEW p, NEW V,
           \A e \in Estimates : \A n \in 1 .. MaxQuantity :
                /\ n <= item'[e][p]
                /\ \/ estimate'[e].status = "PENDING"
                   \/ \E r \in Requests : \E s \in Pend(r)' :
                        s.kind = "returnParts" /\ \E i \in s.items : i.estimate = e /\ i.part = p
                => <<ItemOwner(e), n>> \in V,
           \A r \in Requests : \A n \in 1 .. MaxQuantity :
                /\ \E s \in Pend(r)' : s.kind = "createItem" /\ s.ref = p /\ n <= s.quantity
                /\ \A s \in Pend(r)' : s.kind # "decrementStock"
                => <<NewOwner(r), n>> \in V
    PROVE  Units(p)' \subseteq V
<1> SUFFICES ASSUME NEW u \in Units(p)' PROVE u \in V
  OBVIOUS
<1>1. u \in Owners \X (1 .. MaxQuantity)
  BY DEF Units, Owners, ItemOwner, NewOwner
<1>2. u = <<u[1], u[2]>> /\ u[2] \in 1 .. MaxQuantity
  BY <1>1
<1>3. \/ \E e \in Estimates : u[1] = ItemOwner(e) /\ Holding(e, p)' /\ u[2] <= item'[e][p]
      \/ \E r \in Requests : u[1] = NewOwner(r) /\ InHand(r, p, u[2])'
  BY DEF Units, ItemOwner, NewOwner
<1>4. CASE \E e \in Estimates : u[1] = ItemOwner(e) /\ Holding(e, p)' /\ u[2] <= item'[e][p]
  BY <1>2, <1>4 DEF Holding
<1>5. CASE \E r \in Requests : u[1] = NewOwner(r) /\ InHand(r, p, u[2])'
  BY <1>2, <1>5 DEF InHand
<1> QED BY <1>3, <1>4, <1>5

\* A step after which the units of a part are among those of before, but for a batch that
\* has left and one that has come.
LEMMA BackedAfter ==
    ASSUME TypeOK, NEW p \in Parts, Backed(p), NEW out, IsFiniteSet(out), out \subseteq Units(p),
           NEW in, IsFiniteSet(in), Units(p)' \subseteq (Units(p) \ out) \cup in,
           stock'[p] \in Int,
           stock'[p] + Cardinality(in) <= stock[p] + Cardinality(out)
    PROVE  Backed(p)'
<1>1. InitialStock[p] \in Nat /\ stock[p] \in Int
  BY ServiceOrdersAssumption DEF TypeOK
<1>2. PICK U : U = Units(p)
  OBVIOUS
<1>3. PICK V : V = Units(p)'
  OBVIOUS
<1>4. IsFiniteSet(U) /\ out \subseteq U /\ V \subseteq (U \ out) \cup in
  BY <1>2, <1>3 DEF Backed
<1>5. /\ IsFiniteSet(V)
      /\ Cardinality(V) + Cardinality(out) <= Cardinality(U) + Cardinality(in)
      /\ {Cardinality(S) : S \in {U, V, out, in}} \subseteq Nat
  BY <1>4, UnitsMoved
<1>6. /\ Cardinality(U) \in Nat /\ Cardinality(V) \in Nat
      /\ Cardinality(out) \in Nat /\ Cardinality(in) \in Nat
  BY <1>5
<1>7. stock[p] + Cardinality(U) <= InitialStock[p]
  BY <1>2 DEF Backed
<1>8. stock'[p] + Cardinality(V) <= InitialStock[p]
  BY <1>1, <1>5, <1>6, <1>7
<1> QED BY <1>3, <1>5, <1>8 DEF Backed

\* A step that takes no unit: who holds one afterwards held it before.
LEMMA NoUnitTaken ==
    ASSUME TypeOK, NEW p \in Parts, Backed(p), stock'[p] = stock[p],
           \A e \in Estimates :
                /\ item'[e][p] = item[e][p]
                /\ estimate'[e].status = "PENDING"
                    => estimate[e].status = "PENDING" \/ item[e][p] = 0,
           \A r \in Requests : \A s \in Pend(r)' : s.kind = "returnParts"
                => \A i \in s.items : i.part = p => Holding(i.estimate, p),
           \A r \in Requests : \A s \in Pend(r)' :
                /\ s.kind = "createItem" /\ s.ref = p
                /\ \A t \in Pend(r)' : t.kind # "decrementStock"
                => s \in Pend(r) /\ \A t \in Pend(r) : t.kind # "decrementStock"
    PROVE  Backed(p)'
<1>1. PICK U : U = Units(p)
  OBVIOUS
<1>2. ASSUME NEW e \in Estimates, NEW n \in 1 .. MaxQuantity, n <= item'[e][p],
             \/ estimate'[e].status = "PENDING"
             \/ \E r \in Requests : \E s \in Pend(r)' :
                    s.kind = "returnParts" /\ \E i \in s.items : i.estimate = e /\ i.part = p
      PROVE  <<ItemOwner(e), n>> \in U
  <2>1. n <= item[e][p]
    BY <1>2
  <2>2. item[e][p] # 0
    BY <2>1, ServiceOrdersAssumption
  <2>3. Holding(e, p)
    <3>1. CASE estimate'[e].status = "PENDING"
      BY <2>2, <3>1 DEF Holding
    <3>2. CASE \E r \in Requests : \E s \in Pend(r)' :
                    s.kind = "returnParts" /\ \E i \in s.items : i.estimate = e /\ i.part = p
      BY <3>2
    <3> QED BY <1>2, <3>1, <3>2
  <2> QED BY <1>1, <2>1, <2>3, UnitsOf
<1>3. ASSUME NEW r \in Requests, NEW n \in 1 .. MaxQuantity,
             \E s \in Pend(r)' : s.kind = "createItem" /\ s.ref = p /\ n <= s.quantity,
             \A s \in Pend(r)' : s.kind # "decrementStock"
      PROVE  <<NewOwner(r), n>> \in U
  <2>1. InHand(r, p, n)
    BY <1>3 DEF InHand
  <2> QED BY <1>1, <2>1, UnitsOf
<1>4. Units(p)' \subseteq U
  BY <1>2, <1>3, UnitsWithin
<1>5. /\ IsFiniteSet({}) /\ Cardinality({}) = 0 /\ Units(p)' \subseteq (Units(p) \ {}) \cup {}
      /\ stock[p] \in Int
  BY <1>1, <1>4, FS_EmptySet DEF TypeOK
<1>6. PICK none : none = {}
  OBVIOUS
<1>7. /\ IsFiniteSet(none) /\ Cardinality(none) = 0 /\ none \subseteq Units(p)
      /\ Units(p)' \subseteq (Units(p) \ none) \cup none
      /\ stock'[p] \in Int /\ stock'[p] + Cardinality(none) <= stock[p] + Cardinality(none)
  BY <1>5, <1>6
<1> QED BY <1>7, BackedAfter

\* A plan stays safe while it goes on with what it was: its rejections go on, or are done.
LEMMA SafePlanKept ==
    ASSUME NEW p, SafePlan(Pend(p)),
           \A t \in Pend(p)' : t.kind \in {"updateEstimate", "decide", "decrementStock", "createItem"}
                => t \in Pend(p),
           \A t \in Pend(p)' : t.kind = "returnParts" =>
                \E s \in Pend(p) : s.kind = "returnParts" /\ t.items \subseteq s.items,
           \A s \in Pend(p) : s.kind = "rejectEstimates" => \A e \in s.estimates :
                \/ estimate'[e].status # "PENDING"
                \/ \E t \in Pend(p)' : t.kind = "rejectEstimates" /\ e \in t.estimates,
           \A s \in Pend(p) : s.kind = "returnParts" => \A i \in s.items :
                estimate'[i.estimate].status = "PENDING" => estimate[i.estimate].status = "PENDING"
    PROVE  SafePlan(Pend(p))'
<1>1. ASSUME NEW t \in Pend(p)', t.kind = "returnParts", NEW i \in t.items,
             estimate'[i.estimate].status = "PENDING"
      PROVE  \E u \in Pend(p)' : u.kind = "rejectEstimates" /\ i.estimate \in u.estimates
  <2>1. PICK s \in Pend(p) : s.kind = "returnParts" /\ i \in s.items
    BY <1>1
  <2>2. estimate[i.estimate].status = "PENDING"
    BY <1>1, <2>1
  <2>3. PICK u \in Pend(p) : u.kind = "rejectEstimates" /\ i.estimate \in u.estimates
    BY <2>1, <2>2 DEF SafePlan
  <2> QED BY <1>1, <2>3
<1>2. \A t \in Pend(p)' : t.kind \in {"updateEstimate", "decide"} => t.status = "APPROVED"
  BY DEF SafePlan
<1>3. \A s, t \in Pend(p)' : s.kind = "decrementStock" /\ t.kind = "createItem"
            => t.ref = s.part /\ t.quantity = s.quantity
  BY DEF SafePlan
<1> QED BY <1>1, <1>2, <1>3 DEF SafePlan

\* A new plan returns only what it is about to reject, and inserts no part that it has
\* still to take.
NewPlan(S) ==
    /\ SafePlan(S)
    /\ \A s \in S : s.kind = "returnParts" => \A i \in s.items :
            estimate[i.estimate].status = "PENDING"
    /\ \A s \in S : s.kind = "createItem" /\ s.ref \in Parts
            => \E t \in S : t.kind = "decrementStock"

\* A rejection returns the parts of PENDING estimates, which it also rejects.
LEMMA RejectPlanSafe ==
    ASSUME NEW o
    PROVE  NewPlan(RejectPlan(o))
<1>1. PICK E, I : E = PendingOf(o) /\ I = PartItemsOf(E)
  OBVIOUS
<1>2. \A i \in I : i.estimate \in E /\ estimate[i.estimate].status = "PENDING"
  BY <1>1 DEF PartItemsOf, PendingOf
<1>3. \A t \in RejectPlan(o) : t.kind = "returnParts" => t = Returning(I)
  <2>1. Rejecting(E).kind = "rejectEstimates"
    BY DEF Rejecting
  <2> QED BY <1>1, <2>1, MovePlanKinds DEF RejectPlan, Looped
<1>4. E # {} => Rejecting(E) \in RejectPlan(o)
  BY <1>1 DEF RejectPlan, Looped
<1>5. Rejecting(E).kind = "rejectEstimates" /\ Rejecting(E).estimates = E /\ Returning(I).items = I
  BY DEF Rejecting, Returning
<1>6. \A t \in RejectPlan(o) :
            t.kind \in {"updateOrder", "rejectEstimates", "returnParts", "createHistory"}
  BY RejectPlanKinds
<1>7. ASSUME NEW t \in RejectPlan(o), t.kind = "returnParts", NEW i \in t.items
      PROVE  /\ estimate[i.estimate].status = "PENDING"
             /\ \E u \in RejectPlan(o) : u.kind = "rejectEstimates" /\ i.estimate \in u.estimates
  <2>1. i \in I
    BY <1>3, <1>5, <1>7
  <2>2. i.estimate \in E
    BY <1>2, <2>1
  <2> QED BY <1>2, <1>4, <1>5, <2>1, <2>2
<1> QED BY <1>6, <1>7 DEF NewPlan, SafePlan

\* A plan that neither decides, returns nor takes is safe.
LEMMA HarmlessPlan ==
    ASSUME NEW S, \A s \in S : s.kind \notin {"updateEstimate", "decide", "returnParts",
                                              "decrementStock", "createItem"}
    PROVE  NewPlan(S)
BY DEF NewPlan, SafePlan

\* Without PATCH status everything that a handler decides on is safe.
LEMMA DecisionsAreSafe ==
    ASSUME "patchEstimateStatus" \notin Operations, NEW S, DecidesOn(S)
    PROVE  NewPlan(S)
<1>1. ASSUME \/ \E o, method : S = MovePlan(o, method) \/ S = MovePlan(o, method) \cup {Insert(o)}
             \/ \E o, row : S = {Update(o, row)}
             \/ \E e : S = {RejectOrder(e)}
      PROVE  NewPlan(S)
  <2>1. /\ \A o : Insert(o).kind = "createEstimate"
        /\ \A o, row : Update(o, row).kind = "updateOrder"
        /\ \A e : RejectOrder(e).kind = "rejectOrderOf"
    BY DEF Insert, Update, RejectOrder
  <2>2. \A s \in S : s.kind \in {"updateOrder", "createHistory", "createEstimate", "rejectOrderOf"}
    BY <1>1, <2>1, MovePlanKinds
  <2> QED BY <2>2, HarmlessPlan
<1>2. ASSUME NEW e, NEW items, S = {Decide(e, "APPROVED", items)} PROVE NewPlan(S)
  BY <1>2 DEF NewPlan, SafePlan, Decide
<1>3. ASSUME NEW e, NEW ref, NEW q,
             \/ S = {Create(e, ref, q)} /\ ref \in Services
             \/ S = {Take(ref, q), Create(e, ref, q)} /\ ref \in Parts
      PROVE  NewPlan(S)
  <2>1. /\ Create(e, ref, q).kind = "createItem" /\ Create(e, ref, q).ref = ref
        /\ Create(e, ref, q).quantity = q
        /\ Take(ref, q).kind = "decrementStock" /\ Take(ref, q).part = ref
        /\ Take(ref, q).quantity = q
    BY DEF Create, Take
  <2>2. CASE S = {Create(e, ref, q)} /\ ref \in Services
    BY <2>1, <2>2, ServiceOrdersAssumption DEF NewPlan, SafePlan
  <2>3. CASE S = {Take(ref, q), Create(e, ref, q)}
    BY <2>1, <2>3 DEF NewPlan, SafePlan
  <2> QED BY <1>3, <2>2, <2>3
<1> QED BY <1>1, <1>2, <1>3, RejectPlanSafe DEF DecidesOn

\* So is what a request goes on with once it has loaded the order.
LEMMA LoadedPlanIsSafe ==
    ASSUME NEW r, NEW s, LoadsAgain(r, s), SafePlan(Pend(r))
    PROVE  \E S : Goes(r, S) /\ NewPlan(S)
<1>1. PICK o : o = OrderOf(s.estimate)
  OBVIOUS
<1>2. CASE s.kind = "rejectOrderOf" /\ Goes(r, RejectPlan(o))
  BY <1>2, RejectPlanSafe
<1>3. CASE s.kind = "decide" /\ Goes(r, DecisionPlan(o, s))
  <2>1. s.status = "APPROVED"
    BY <1>3 DEF LoadsAgain, SafePlan
  <2>2. \A t \in DecisionPlan(o, s) : \/ t.kind \in {"updateOrder", "createHistory"}
                                      \/ t = SetStatus(s.estimate, "APPROVED")
    BY <2>1, MovePlanKinds DEF DecisionPlan
  <2>3. /\ SetStatus(s.estimate, "APPROVED").kind = "updateEstimate"
        /\ SetStatus(s.estimate, "APPROVED").status = "APPROVED"
    BY DEF SetStatus
  <2>4. NewPlan(DecisionPlan(o, s))
    BY <2>2, <2>3 DEF NewPlan, SafePlan
  <2> QED BY <1>3, <2>4
<1> QED BY <1>1, <1>2, <1>3 DEF LoadsAgain, OrderOf

\* A request goes on with a new plan: no unit has changed hands.
LEMMA NewPlanStock ==
    ASSUME TypeOK, StockInv, UNCHANGED tables, NEW r \in Requests, NEW S, Goes(r, S), NewPlan(S)
    PROVE  StockInv'
<1>1. Pend(r)' = S /\ \A p \in Requests \ {r} : Pend(p)' = Pend(p)
  BY DEF Goes
<1>2. UNCHANGED <<estimate, item, stock>>
  BY DEF tables
<1>3. \A p \in Requests : SafePlan(Pend(p))'
  BY <1>1, <1>2 DEF NewPlan, StockInv, SafePlan
<1> SUFFICES ASSUME NEW p \in Parts PROVE Backed(p)'
  BY <1>3 DEF StockInv
<1>4. \A q \in Requests : \A s \in Pend(q)' : s.kind = "returnParts"
            => \A i \in s.items : i.part = p => Holding(i.estimate, p)
  BY <1>1 DEF NewPlan, Holding
<1>5. \A q \in Requests : \A s \in Pend(q)' :
            /\ s.kind = "createItem" /\ s.ref = p
            /\ \A t \in Pend(q)' : t.kind # "decrementStock"
            => s \in Pend(q) /\ \A t \in Pend(q) : t.kind # "decrementStock"
  BY <1>1 DEF NewPlan
<1> QED BY <1>2, <1>4, <1>5, NoUnitTaken DEF StockInv

\* What is to be returned is an item of an estimate that is issued.
LEMMA ReturnedIsIssued ==
    ASSUME IInv, CurrentInv, NEW p \in Requests, NEW s \in Pend(p), s.kind = "returnParts",
           NEW i \in s.items
    PROVE  /\ i \in PartItem /\ i.estimate \in Estimates /\ i.part \in Parts
           /\ i.quantity \in 1 .. MaxQuantity
           /\ Issued(i.estimate) /\ item[i.estimate][i.part] = i.quantity
<1>1. s \in Statement /\ Held(i)
  BY PendingSound DEF CurrentInv, Current
<1> QED BY <1>1 DEF Statement, PartItem, Held

\* A step that only takes statements off their plans, but rejections and decrements, and
\* makes no estimate PENDING that has items.
LEMMA QuietStock ==
    ASSUME IInv, CurrentInv, StockInv, UNCHANGED <<item, stock>>,
           \A e \in Estimates : estimate'[e].status = "PENDING"
                => estimate[e].status = "PENDING" \/ ~Issued(e),
           \A p \in Requests : Pend(p)' \subseteq Pend(p),
           \A p \in Requests : \A t \in Pend(p) :
                t.kind \in {"decrementStock", "rejectEstimates"} => t \in Pend(p)'
    PROVE  StockInv'
<1>1. TypeOK
  BY SoundIsTyped
<1>2. ASSUME NEW p \in Requests PROVE SafePlan(Pend(p))'
  <2>1. \A s \in Pend(p) : s.kind = "returnParts" => \A i \in s.items :
            estimate'[i.estimate].status = "PENDING" => estimate[i.estimate].status = "PENDING"
    BY ReturnedIsIssued
  <2> QED BY <2>1, SafePlanKept DEF StockInv
<1> SUFFICES ASSUME NEW p \in Parts PROVE Backed(p)'
  BY <1>2 DEF StockInv
<1>3. \A e \in Estimates : /\ item'[e][p] = item[e][p]
                           /\ estimate'[e].status = "PENDING"
                                => estimate[e].status = "PENDING" \/ item[e][p] = 0
  BY DEF CurrentInv, NoItems, References
<1>4. \A q \in Requests : \A s \in Pend(q)' : s.kind = "returnParts"
            => \A i \in s.items : i.part = p => Holding(i.estimate, p)
  BY DEF Holding
<1>5. \A q \in Requests : \A s \in Pend(q)' :
            /\ s.kind = "createItem" /\ s.ref = p
            /\ \A t \in Pend(q)' : t.kind # "decrementStock"
            => s \in Pend(q) /\ \A t \in Pend(q) : t.kind # "decrementStock"
  OBVIOUS
<1> QED BY <1>1, <1>3, <1>4, <1>5, NoUnitTaken DEF StockInv

\* The order, the history, a new estimate, an approval, a total: no unit is taken.
LEMMA PlainStock ==
    ASSUME IInv, CurrentInv, StockInv, NEW r \in Requests, NEW s \in Statement,
           \/ WritesOrder(r, s) \/ AddsHistory(r, s) \/ SetsStatus(r, s) \/ WritesTotal(r, s)
           \/ \E e \in Estimates : IssuesEstimate(r, s, e)
    PROVE  StockInv'
<1>1. TypeOK
  BY SoundIsTyped
<1>2. /\ s.kind \notin {"decrementStock", "rejectEstimates"} /\ Goes(r, Pend(r) \ {s})
      /\ UNCHANGED <<item, stock>>
  BY DEF WritesOrder, AddsHistory, SetsStatus, WritesTotal, IssuesEstimate, Takes
<1>3. /\ \A p \in Requests : Pend(p)' \subseteq Pend(p)
      /\ \A p \in Requests : \A t \in Pend(p) :
            t.kind \in {"decrementStock", "rejectEstimates"} => t \in Pend(p)'
  BY <1>2 DEF Goes
<1>4. ASSUME NEW e \in Estimates, estimate'[e].status = "PENDING"
      PROVE  estimate[e].status = "PENDING" \/ ~Issued(e)
  <2>1. CASE SetsStatus(r, s)
    <3>1. /\ s.kind = "updateEstimate" /\ s \in Pend(r)
          /\ estimate' = [estimate EXCEPT ![s.estimate].status = s.status]
      BY <2>1 DEF SetsStatus, Takes, IsNext
    <3>2. s.status = "APPROVED"
      BY <3>1 DEF StockInv, SafePlan
    <3> QED BY <1>1, <1>4, <3>1, <3>2 DEF TypeOK, EstimateRow
  <2>2. CASE WritesTotal(r, s)
    <3>1. estimate' = [estimate EXCEPT ![s.estimate].totalOf = s.totalOf]
      BY <2>2 DEF WritesTotal
    <3> QED BY <1>1, <1>4, <3>1 DEF TypeOK, EstimateRow
  <2>3. ASSUME NEW d \in Estimates, IssuesEstimate(r, s, d)
        PROVE  estimate[e].status = "PENDING" \/ ~Issued(e)
    BY <1>1, <1>4, <2>3 DEF IssuesEstimate, TypeOK
  <2>4. CASE WritesOrder(r, s) \/ AddsHistory(r, s)
    BY <1>4, <2>4 DEF WritesOrder, AddsHistory
  <2> QED BY <2>1, <2>2, <2>3, <2>4
<1> QED BY <1>2, <1>3, <1>4, QuietStock

\* One estimate is rejected: its parts are still to be returned, or lost.
LEMMA RejectsOneStock ==
    ASSUME IInv, PlansShaped, CurrentInv, StockInv, NEW r \in Requests, NEW s \in Statement,
           NEW d \in Estimates, RejectsOne(r, s, d)
    PROVE  StockInv'
<1>1. TypeOK
  BY SoundIsTyped
<1>2. PICK E : E = s.estimates \ {d}
  OBVIOUS
<1>3. /\ s.kind = "rejectEstimates" /\ s \in Pend(r) /\ d \in s.estimates
      /\ Pend(r)' = (Pend(r) \ {s}) \cup Looped(E, Rejecting(E))
      /\ \A p \in Requests \ {r} : Pend(p)' = Pend(p)
      /\ estimate' = [estimate EXCEPT ![d].status = "REJECTED"]
      /\ UNCHANGED <<item, stock>>
  BY <1>2 DEF RejectsOne, IsNext, Goes
<1>4. /\ Rejecting(E).kind = "rejectEstimates" /\ Rejecting(E).estimates = E
      /\ \A t \in Looped(E, Rejecting(E)) : t = Rejecting(E)
      /\ E # {} => Rejecting(E) \in Looped(E, Rejecting(E))
  BY DEF Rejecting, Looped
<1>5. \A e \in Estimates : /\ estimate'[e].status \in {estimate[e].status, "REJECTED"}
                           /\ e = d => estimate'[e].status = "REJECTED"
  BY <1>1, <1>3 DEF TypeOK, EstimateRow
<1>6. \A p \in Requests : \A t \in Pend(p)' : t.kind # "rejectEstimates" => t \in Pend(p)
  BY <1>3, <1>4
<1>7. \A p \in Requests : \A t \in Pend(p) : t.kind # "rejectEstimates" => t \in Pend(p)'
  BY <1>3
<1>8. ASSUME NEW p \in Requests PROVE SafePlan(Pend(p))'
  <2>1. ASSUME NEW u \in Pend(p), u.kind = "rejectEstimates", NEW e \in u.estimates
        PROVE  \/ estimate'[e].status # "PENDING"
               \/ \E t \in Pend(p)' : t.kind = "rejectEstimates" /\ e \in t.estimates
    <3>1. CASE p = r
      <4>1. u = s
        BY <1>1, <1>3, <2>1, <3>1, OneOfAKind
      <4>2. CASE e = d
        BY <1>5, <4>2
      <4>3. CASE e # d
        <5>1. e \in E
          BY <1>2, <2>1, <4>1, <4>3
        <5> QED BY <1>3, <1>4, <3>1, <5>1
      <4> QED BY <4>2, <4>3
    <3>2. CASE p # r
      BY <1>3, <2>1, <3>2
    <3> QED BY <3>1, <3>2
  <2>2. \A u \in Pend(p) : u.kind = "returnParts" => \A i \in u.items :
            estimate'[i.estimate].status = "PENDING" => estimate[i.estimate].status = "PENDING"
    BY <1>5, ReturnedIsIssued
  <2>3. \A t \in Pend(p)' : t.kind = "returnParts" =>
            \E u \in Pend(p) : u.kind = "returnParts" /\ t.items \subseteq u.items
    BY <1>6
  <2> QED BY <1>6, <2>1, <2>2, <2>3, SafePlanKept DEF StockInv
<1> SUFFICES ASSUME NEW p \in Parts PROVE Backed(p)'
  BY <1>8 DEF StockInv
<1>9. \A e \in Estimates : /\ item'[e][p] = item[e][p]
                           /\ estimate'[e].status = "PENDING"
                                => estimate[e].status = "PENDING" \/ item[e][p] = 0
  BY <1>3, <1>5
<1>10. \A q \in Requests : \A u \in Pend(q)' : u.kind = "returnParts"
            => \A i \in u.items : i.part = p => Holding(i.estimate, p)
  BY <1>6 DEF Holding
<1>11. \A q \in Requests : \A u \in Pend(q)' :
            /\ u.kind = "createItem" /\ u.ref = p
            /\ \A t \in Pend(q)' : t.kind # "decrementStock"
            => u \in Pend(q) /\ \A t \in Pend(q) : t.kind # "decrementStock"
  BY <1>6, <1>7
<1> QED BY <1>1, <1>3, <1>9, <1>10, <1>11, NoUnitTaken DEF StockInv

\* Units leave the stock for the hands of the request that inserts them.
LEMMA TakesStockStock ==
    ASSUME IInv, PlansShaped, CurrentInv, StockInv, NEW r \in Requests, NEW s \in Statement,
           TakesStock(r, s)
    PROVE  StockInv'
<1>1. TypeOK
  BY SoundIsTyped
<1>2. /\ s.kind = "decrementStock" /\ s \in Pend(r) /\ UNCHANGED <<estimate, item>>
      /\ Pend(r)' = Pend(r) \ {s} /\ \A p \in Requests \ {r} : Pend(p)' = Pend(p)
      /\ stock' = [stock EXCEPT ![s.part] = @ - s.quantity]
  BY DEF TakesStock, Takes, IsNext, Goes
<1>3. s.part \in Parts /\ s.quantity \in 1 .. MaxQuantity
  BY <1>2 DEF Statement
<1>4. \A t \in Pend(r) : t.kind = "createItem" => t.ref = s.part /\ t.quantity = s.quantity
  BY <1>2 DEF StockInv, SafePlan
<1>5. ASSUME NEW p \in Requests PROVE SafePlan(Pend(p))'
  <2>1. \A t \in Pend(p)' : t \in Pend(p)
    BY <1>2
  <2>2. \A t \in Pend(p) : t.kind = "rejectEstimates" => t \in Pend(p)'
    BY <1>2
  <2> QED BY <1>2, <2>1, <2>2, SafePlanKept DEF StockInv
<1> SUFFICES ASSUME NEW p \in Parts PROVE Backed(p)'
  BY <1>5 DEF StockInv
<1>6. \A q \in Requests : \A u \in Pend(q)' : u.kind = "returnParts"
            => \A i \in u.items : i.part = p => Holding(i.estimate, p)
  BY <1>2 DEF Holding
<1>7. CASE p # s.part
  <2>1. \A q \in Requests : \A u \in Pend(q)' :
            /\ u.kind = "createItem" /\ u.ref = p
            /\ \A t \in Pend(q)' : t.kind # "decrementStock"
            => u \in Pend(q) /\ \A t \in Pend(q) : t.kind # "decrementStock"
    BY <1>2, <1>4, <1>7
  <2>2. stock'[p] = stock[p]
    BY <1>1, <1>2, <1>7 DEF TypeOK
  <2> QED BY <1>1, <1>2, <1>6, <2>1, <2>2, NoUnitTaken DEF StockInv
<1>8. CASE p = s.part
  <2>1. PICK U, in, none :
            U = Units(p) /\ in = Batch(NewOwner(r), s.quantity) /\ none = {}
    OBVIOUS
  <2>2. ASSUME NEW e \in Estimates, NEW n \in 1 .. MaxQuantity, n <= item'[e][p],
               \/ estimate'[e].status = "PENDING"
               \/ \E q \in Requests : \E u \in Pend(q)' :
                    u.kind = "returnParts" /\ \E i \in u.items : i.estimate = e /\ i.part = p
        PROVE  <<ItemOwner(e), n>> \in U \cup in
    <3>1. Holding(e, p) /\ n <= item[e][p]
      BY <1>2, <1>6, <2>2 DEF Holding
    <3> QED BY <2>1, <3>1, UnitsOf
  <2>3. ASSUME NEW q \in Requests, NEW n \in 1 .. MaxQuantity,
               \E u \in Pend(q)' : u.kind = "createItem" /\ u.ref = p /\ n <= u.quantity,
               \A u \in Pend(q)' : u.kind # "decrementStock"
        PROVE  <<NewOwner(q), n>> \in U \cup in
    <3>1. CASE q = r
      <4>1. n \in 1 .. s.quantity
        BY <1>2, <1>3, <1>4, <2>3, <3>1
      <4> QED BY <2>1, <3>1, <4>1 DEF Batch
    <3>2. CASE q # r
      <4>1. InHand(q, p, n)
        BY <1>2, <2>3, <3>2 DEF InHand
      <4> QED BY <2>1, <4>1, UnitsOf
    <3> QED BY <3>1, <3>2
  <2>4. Units(p)' \subseteq U \cup in
    BY <2>2, <2>3, UnitsWithin
  <2>5. IsFiniteSet(in) /\ Cardinality(in) = s.quantity
    BY <1>3, <2>1, BatchSize, ServiceOrdersAssumption
  <2>6. IsFiniteSet(none) /\ Cardinality(none) = 0 /\ none \subseteq Units(p)
        /\ Units(p)' \subseteq (Units(p) \ none) \cup in
    BY <2>1, <2>4, FS_EmptySet
  <2>7. stock'[p] = stock[p] - s.quantity /\ stock[p] \in Int
    BY <1>1, <1>2, <1>8 DEF TypeOK
  <2>8. stock'[p] \in Int /\ stock'[p] + Cardinality(in) <= stock[p] + Cardinality(none)
    BY <1>3, <2>5, <2>6, <2>7
  <2>9. Backed(p)
    BY DEF StockInv
  <2> QED BY <1>1, <2>5, <2>6, <2>8, <2>9, BackedAfter
<1> QED BY <1>7, <1>8

\* A part goes back to the stock: the estimate that held it is rejected, and nobody else
\* returns it.
LEMMA ReturnsOneStock ==
    ASSUME IInv, PlansShaped, OrdersApart, CurrentInv, StockInv, NEW r \in Requests,
           NEW s \in Statement, NEW i \in PartItem, ReturnsOne(r, s, i)
    PROVE  StockInv'
<1>1. TypeOK
  BY SoundIsTyped
<1>2. PICK I : I = s.items \ {i}
  OBVIOUS
<1>3. /\ s.kind = "returnParts" /\ s \in Pend(r) /\ IsNext(r, s) /\ i \in s.items
      /\ Pend(r)' = (Pend(r) \ {s}) \cup Looped(I, Returning(I))
      /\ \A p \in Requests \ {r} : Pend(p)' = Pend(p)
      /\ stock' = [stock EXCEPT ![i.part] = @ + i.quantity]
      /\ UNCHANGED <<estimate, item>>
  BY <1>2 DEF ReturnsOne, IsNext, Goes
<1>4. /\ Returning(I).kind = "returnParts" /\ Returning(I).items = I
      /\ \A t \in Looped(I, Returning(I)) : t = Returning(I)
  BY DEF Returning, Looped
<1>5. /\ i.estimate \in Estimates /\ i.part \in Parts /\ i.quantity \in 1 .. MaxQuantity
      /\ Issued(i.estimate) /\ item[i.estimate][i.part] = i.quantity
  BY <1>3, ReturnedIsIssued
<1>6. \A p \in Requests : \A t \in Pend(p)' : t.kind # "returnParts" => t \in Pend(p)
  BY <1>3, <1>4
<1>7. \A p \in Requests : \A t \in Pend(p) : t.kind # "returnParts" => t \in Pend(p)'
  BY <1>3
<1>8. \A p \in Requests : \A t \in Pend(p)' : t.kind = "returnParts" =>
            \E u \in Pend(p) : u.kind = "returnParts" /\ t.items \subseteq u.items
  BY <1>2, <1>3, <1>4
<1>9. ASSUME NEW p \in Requests PROVE SafePlan(Pend(p))'
  <2>1. \A u \in Pend(p) : u.kind = "rejectEstimates" => u \in Pend(p)'
    BY <1>7
  <2> QED BY <1>3, <1>6, <1>8, <2>1, SafePlanKept DEF StockInv
<1> SUFFICES ASSUME NEW p \in Parts PROVE Backed(p)'
  BY <1>9 DEF StockInv
<1>10. \A q \in Requests : \A u \in Pend(q)' : u.kind = "returnParts"
            => \A j \in u.items : j.part = p => Holding(j.estimate, p)
  BY <1>8 DEF Holding
<1>11. \A q \in Requests : \A u \in Pend(q)' :
            /\ u.kind = "createItem" /\ u.ref = p
            /\ \A t \in Pend(q)' : t.kind # "decrementStock"
            => u \in Pend(q) /\ \A t \in Pend(q) : t.kind # "decrementStock"
  BY <1>6, <1>7
<1>12. CASE p # i.part
  <2>1. stock'[p] = stock[p]
    BY <1>1, <1>3, <1>12 DEF TypeOK
  <2> QED BY <1>1, <1>3, <1>10, <1>11, <2>1, NoUnitTaken DEF StockInv
<1>13. CASE p = i.part
  <2>1. PICK d, U, out, none :
            /\ d \in Estimates /\ d = i.estimate /\ U = Units(p) /\ out = Batch(ItemOwner(d), i.quantity)
            /\ none = {}
    BY <1>5
  <2>2. Holding(d, p) /\ item[d][p] = i.quantity
    BY <1>3, <1>5, <1>13, <2>1 DEF Holding
  <2>3. IsFiniteSet(out) /\ Cardinality(out) = i.quantity
    BY <1>5, <2>1, BatchSize, ServiceOrdersAssumption
  <2>4. out \subseteq U
    <3>1. \A n \in 1 .. i.quantity : n \in 1 .. MaxQuantity /\ n <= item[d][p]
      BY <1>5, <2>2, ServiceOrdersAssumption
    <3>2. \A n \in 1 .. i.quantity : <<ItemOwner(d), n>> \in U
      BY <2>1, <2>2, <3>1, UnitsOf
    <3> QED BY <2>1, <3>2 DEF Batch
  <2>5. estimate[d].status # "PENDING"
    <3>1. \A t \in Pend(r) : t.kind # "rejectEstimates"
      BY <1>3 DEF IsNext, MayFollow
    <3> QED BY <1>3, <2>1, <3>1 DEF StockInv, SafePlan
  <2>6. ASSUME NEW q \in Requests, NEW u \in Pend(q)', u.kind = "returnParts",
               NEW j \in u.items, j.estimate = d, j.part = p
        PROVE  FALSE
    <3>1. PICK t \in Pend(q) : t.kind = "returnParts" /\ u.items \subseteq t.items
      BY <1>8, <2>6
    <3>2. OrderOf(d) \in Orders
      BY <1>5, <2>1 DEF IInv, EstimatesSound, OrderOf
    <3>3. Concerns(t, OrderOf(d)) /\ Concerns(s, OrderOf(d))
      BY <1>3, <2>1, <2>6, <3>1 DEF Concerns
    <3>4. q = r
      BY <1>3, <3>2, <3>3, Elsewhere
    <3>5. t = s
      BY <1>1, <1>3, <3>1, <3>4, OneOfAKind
    <3>6. u # s
      <4>1. CASE u \in Pend(r) \ {s}
        BY <4>1
      <4>2. CASE u = Returning(I)
        BY <1>2, <1>3, <1>4, <4>2
      <4> QED BY <1>3, <1>4, <2>6, <3>4, <4>1, <4>2
    <3>7. u = Returning(I)
      <4>1. CASE u \in Pend(r)
        BY <1>1, <1>3, <2>6, <3>6, <4>1, OneOfAKind
      <4> QED BY <1>3, <1>4, <2>6, <3>4, <4>1
    <3>8. j \in s.items /\ j # i
      BY <1>2, <1>4, <2>6, <3>7
    <3>9. j \in PartItem /\ j.quantity = i.quantity
      BY <1>3, <2>2, <2>6, <3>8, ReturnedIsIssued
    <3>10. j = i
      BY <1>13, <2>1, <2>6, <3>9 DEF PartItem
    <3> QED BY <3>8, <3>10
  <2>7. ASSUME NEW e \in Estimates, NEW n \in 1 .. MaxQuantity, n <= item'[e][p],
               \/ estimate'[e].status = "PENDING"
               \/ \E q \in Requests : \E u \in Pend(q)' :
                    u.kind = "returnParts" /\ \E j \in u.items : j.estimate = e /\ j.part = p
        PROVE  <<ItemOwner(e), n>> \in U \ out
    <3>1. e # d
      BY <1>3, <2>5, <2>6, <2>7
    <3>2. Holding(e, p) /\ n <= item[e][p]
      BY <1>3, <1>10, <2>7 DEF Holding
    <3>3. <<ItemOwner(e), n>> \in U
      BY <2>1, <3>2, UnitsOf
    <3>4. <<ItemOwner(e), n>> \notin out
      BY <2>1, <3>1, OwnersDiffer DEF Batch
    <3> QED BY <3>3, <3>4
  <2>8. ASSUME NEW q \in Requests, NEW n \in 1 .. MaxQuantity,
               \E u \in Pend(q)' : u.kind = "createItem" /\ u.ref = p /\ n <= u.quantity,
               \A u \in Pend(q)' : u.kind # "decrementStock"
        PROVE  <<NewOwner(q), n>> \in U \ out
    <3>1. InHand(q, p, n)
      BY <1>11, <2>8 DEF InHand
    <3>2. <<NewOwner(q), n>> \in U
      BY <2>1, <3>1, UnitsOf
    <3>3. <<NewOwner(q), n>> \notin out
      BY <2>1, OwnersDiffer DEF Batch
    <3> QED BY <3>2, <3>3
  <2>9. Units(p)' \subseteq U \ out
    BY <2>7, <2>8, UnitsWithin
  <2>10. /\ IsFiniteSet(none) /\ Cardinality(none) = 0
         /\ out \subseteq Units(p) /\ Units(p)' \subseteq (Units(p) \ out) \cup none
    BY <2>1, <2>4, <2>9, FS_EmptySet
  <2>11. stock'[p] = stock[p] + i.quantity /\ stock[p] \in Int
    BY <1>1, <1>3, <1>13 DEF TypeOK
  <2>12. stock'[p] \in Int /\ stock'[p] + Cardinality(none) <= stock[p] + Cardinality(out)
    BY <1>5, <2>3, <2>10, <2>11
  <2>13. Backed(p)
    BY DEF StockInv
  <2> QED BY <1>1, <2>3, <2>10, <2>12, <2>13, BackedAfter
<1> QED BY <1>12, <1>13

\* The units in hand become an item.
LEMMA InsertsItemStock ==
    ASSUME IInv, PlansShaped, CurrentInv, StockInv, NEW r \in Requests, NEW s \in Statement,
           InsertsItem(r, s)
    PROVE  StockInv'
<1>1. TypeOK
  BY SoundIsTyped
<1>2. /\ s.kind = "createItem" /\ Pend(r) = {s} /\ Pend(r)' = {SumUp(s.estimate)}
      /\ \A p \in Requests \ {r} : Pend(p)' = Pend(p)
      /\ item' = [item EXCEPT ![s.estimate][s.ref] = s.quantity]
      /\ UNCHANGED <<estimate, stock>>
  BY DEF InsertsItem, Goes
<1>3. /\ s.estimate \in Estimates /\ s.ref \in References /\ s.quantity \in 1 .. MaxQuantity
  BY <1>2 DEF InsertsItem, Statement
<1>4. SumUp(s.estimate).kind = "sumItems"
  BY DEF SumUp
<1>5. \A p \in Requests : \A t \in Pend(p)' : t.kind # "sumItems" => p # r /\ t \in Pend(p)
  BY <1>2, <1>4
<1>6. ASSUME NEW p \in Requests PROVE SafePlan(Pend(p))'
  <2>1. CASE p = r
    BY <1>2, <1>4, <2>1 DEF SafePlan
  <2>2. CASE p # r
    BY <1>2, <2>2 DEF StockInv, SafePlan
  <2> QED BY <2>1, <2>2
<1> SUFFICES ASSUME NEW p \in Parts PROVE Backed(p)'
  BY <1>6 DEF StockInv
<1>7. \A q \in Requests : \A u \in Pend(q)' : u.kind = "returnParts"
            => \A i \in u.items : i.part = p => Holding(i.estimate, p)
  BY <1>5 DEF Holding
<1>8. /\ \A e \in Estimates : e # s.estimate \/ p # s.ref => item'[e][p] = item[e][p]
      /\ item'[s.estimate][s.ref] = s.quantity
  BY <1>1, <1>2, <1>3 DEF TypeOK, ItemList, References
<1>9. CASE p # s.ref
  <2>1. \A q \in Requests : \A u \in Pend(q)' :
            /\ u.kind = "createItem" /\ u.ref = p
            /\ \A t \in Pend(q)' : t.kind # "decrementStock"
            => u \in Pend(q) /\ \A t \in Pend(q) : t.kind # "decrementStock"
    BY <1>2, <1>5
  <2> QED BY <1>1, <1>2, <1>7, <1>8, <1>9, <2>1, NoUnitTaken DEF StockInv
<1>10. CASE p = s.ref
  <2>1. PICK U, out, in :
            /\ U = Units(p) /\ out = Batch(NewOwner(r), s.quantity)
            /\ in = Batch(ItemOwner(s.estimate), s.quantity)
    OBVIOUS
  <2>2. /\ IsFiniteSet(out) /\ Cardinality(out) = s.quantity
        /\ IsFiniteSet(in) /\ Cardinality(in) = s.quantity
    BY <1>3, <2>1, BatchSize, ServiceOrdersAssumption
  <2>3. out \subseteq U
    <3>1. \A n \in 1 .. s.quantity : n \in 1 .. MaxQuantity /\ InHand(r, p, n)
      BY <1>2, <1>3, <1>10, ServiceOrdersAssumption DEF InHand
    <3>2. \A n \in 1 .. s.quantity : <<NewOwner(r), n>> \in U
      BY <2>1, <3>1, UnitsOf
    <3> QED BY <2>1, <3>2 DEF Batch
  <2>4. ASSUME NEW e \in Estimates, NEW n \in 1 .. MaxQuantity, n <= item'[e][p],
               \/ estimate'[e].status = "PENDING"
               \/ \E q \in Requests : \E u \in Pend(q)' :
                    u.kind = "returnParts" /\ \E i \in u.items : i.estimate = e /\ i.part = p
        PROVE  <<ItemOwner(e), n>> \in (U \ out) \cup in
    <3>1. CASE e = s.estimate
      <4>1. n \in 1 .. s.quantity
        BY <1>3, <1>8, <1>10, <2>4, <3>1
      <4> QED BY <2>1, <3>1, <4>1 DEF Batch
    <3>2. CASE e # s.estimate
      <4>1. Holding(e, p) /\ n <= item[e][p]
        BY <1>2, <1>7, <1>8, <2>4, <3>2 DEF Holding
      <4>2. <<ItemOwner(e), n>> \in U
        BY <2>1, <4>1, UnitsOf
      <4>3. <<ItemOwner(e), n>> \notin out
        BY <2>1, OwnersDiffer DEF Batch
      <4> QED BY <4>2, <4>3
    <3> QED BY <3>1, <3>2
  <2>5. ASSUME NEW q \in Requests, NEW n \in 1 .. MaxQuantity,
               \E u \in Pend(q)' : u.kind = "createItem" /\ u.ref = p /\ n <= u.quantity,
               \A u \in Pend(q)' : u.kind # "decrementStock"
        PROVE  <<NewOwner(q), n>> \in (U \ out) \cup in
    <3>1. q # r /\ InHand(q, p, n)
      BY <1>2, <1>5, <2>5 DEF InHand
    <3>2. <<NewOwner(q), n>> \in U
      BY <2>1, <3>1, UnitsOf
    <3>3. <<NewOwner(q), n>> \notin out
      BY <2>1, <3>1, OwnersDiffer DEF Batch
    <3> QED BY <3>2, <3>3
  <2>6. Units(p)' \subseteq (Units(p) \ out) \cup in /\ out \subseteq Units(p)
    <3>1. Units(p)' \subseteq (U \ out) \cup in
      BY <2>4, <2>5, UnitsWithin
    <3> QED BY <2>1, <2>3, <3>1
  <2>7. /\ stock'[p] \in Int /\ stock'[p] + Cardinality(in) <= stock[p] + Cardinality(out)
    BY <1>1, <1>2, <1>3, <2>2 DEF TypeOK
  <2>8. Backed(p)
    BY DEF StockInv
  <2> QED BY <1>1, <2>2, <2>6, <2>7, <2>8, BackedAfter
<1> QED BY <1>9, <1>10

\* An order opened with items takes their units from the stock at once.
LEMMA OpenOrderWithItemsStock ==
    ASSUME IInv, CurrentInv, StockInv, NEW o \in Orders, NEW d \in Estimates,
           NEW items \in ItemList, OpenOrderWithItems(o, d, items)
    PROVE  StockInv'
<1>1. TypeOK
  BY SoundIsTyped
<1>2. /\ ~Issued(d) /\ \A q \in Requests : Pend(q)' = Pend(q)
      /\ estimate' = [estimate EXCEPT ![d] = [serviceOrder |-> o, status |-> "PENDING",
                                              totalOf |-> items]]
      /\ item' = [item EXCEPT ![d] = items]
      /\ stock' = [q \in Parts |-> stock[q] - items[q]]
  BY DEF OpenOrderWithItems, Pend
<1>3. /\ \A e \in Estimates \ {d} : estimate'[e] = estimate[e] /\ item'[e] = item[e]
      /\ item'[d] = items
  BY <1>1, <1>2 DEF TypeOK
<1>4. ASSUME NEW q \in Requests PROVE SafePlan(Pend(q))'
  <2>1. \A u \in Pend(q) : u.kind = "rejectEstimates" => u \in Pend(q)'
    BY <1>2
  <2>2. \A u \in Pend(q) : u.kind = "returnParts" => \A i \in u.items :
            estimate'[i.estimate].status = "PENDING" => estimate[i.estimate].status = "PENDING"
    BY <1>2, <1>3, ReturnedIsIssued
  <2> QED BY <1>2, <2>1, <2>2, SafePlanKept DEF StockInv
<1> SUFFICES ASSUME NEW p \in Parts PROVE Backed(p)'
  BY <1>4 DEF StockInv
<1>5. items[p] \in 0 .. MaxQuantity /\ items[p] \in Nat
  BY ServiceOrdersAssumption DEF ItemList, References
<1>6. PICK U, in, none :
          U = Units(p) /\ in = Batch(ItemOwner(d), items[p]) /\ none = {}
  OBVIOUS
<1>7. ASSUME NEW e \in Estimates, NEW n \in 1 .. MaxQuantity, n <= item'[e][p],
             \/ estimate'[e].status = "PENDING"
             \/ \E q \in Requests : \E u \in Pend(q)' :
                  u.kind = "returnParts" /\ \E i \in u.items : i.estimate = e /\ i.part = p
      PROVE  <<ItemOwner(e), n>> \in U \cup in
  <2>1. CASE e = d
    <3>1. n \in 1 .. items[p]
      BY <1>3, <1>5, <1>7, <2>1
    <3> QED BY <1>6, <2>1, <3>1 DEF Batch
  <2>2. CASE e # d
    <3>1. Holding(e, p) /\ n <= item[e][p]
      BY <1>2, <1>3, <1>7, <2>2 DEF Holding
    <3> QED BY <1>6, <3>1, UnitsOf
  <2> QED BY <2>1, <2>2
<1>8. ASSUME NEW q \in Requests, NEW n \in 1 .. MaxQuantity,
             \E u \in Pend(q)' : u.kind = "createItem" /\ u.ref = p /\ n <= u.quantity,
             \A u \in Pend(q)' : u.kind # "decrementStock"
      PROVE  <<NewOwner(q), n>> \in U \cup in
  <2>1. InHand(q, p, n)
    BY <1>2, <1>8 DEF InHand
  <2> QED BY <1>6, <2>1, UnitsOf
<1>9. Units(p)' \subseteq U \cup in
  BY <1>7, <1>8, UnitsWithin
<1>10. /\ IsFiniteSet(in) /\ Cardinality(in) = items[p]
  BY <1>5, <1>6, BatchSize
<1>11. /\ IsFiniteSet(none) /\ Cardinality(none) = 0 /\ none \subseteq Units(p)
       /\ Units(p)' \subseteq (Units(p) \ none) \cup in
  BY <1>6, <1>9, FS_EmptySet
<1>12. stock'[p] \in Int /\ stock'[p] + Cardinality(in) <= stock[p] + Cardinality(none)
  BY <1>1, <1>2, <1>5, <1>10, <1>11 DEF TypeOK
<1>13. Backed(p)
  BY DEF StockInv
<1> QED BY <1>1, <1>10, <1>11, <1>12, <1>13, BackedAfter

\* A request in flight takes, returns or loses units, and makes none.
LEMMA RunStock ==
    ASSUME IInv, PlansShaped, OrdersApart, CurrentInv, StockInv, NEW r \in Requests, Run(r)
    PROVE  StockInv'
<1>1. TypeOK
  BY SoundIsTyped
<1>2. CASE Stops(r)
  BY <1>1, <1>2, HarmlessPlan, NewPlanStock DEF Stops
<1>3. ASSUME NEW s \in Statement, LoadsAgain(r, s) PROVE StockInv'
  <2>1. UNCHANGED tables /\ SafePlan(Pend(r))
    BY <1>3 DEF LoadsAgain, StockInv
  <2> QED BY <1>1, <1>3, <2>1, LoadedPlanIsSafe, NewPlanStock
<1>4. ASSUME NEW s \in Statement, SumsUp(r, s) PROVE StockInv'
  <2>1. PICK t : t = WriteSum(s.estimate, item[s.estimate])
    OBVIOUS
  <2>2. t.kind = "writeTotal" /\ Goes(r, {t}) /\ UNCHANGED tables
    BY <1>4, <2>1 DEF SumsUp, WriteSum
  <2> QED BY <1>1, <2>2, HarmlessPlan, NewPlanStock
<1>5. ASSUME NEW s \in Statement,
             \/ WritesOrder(r, s) \/ AddsHistory(r, s) \/ SetsStatus(r, s) \/ WritesTotal(r, s)
             \/ \E e \in Estimates : IssuesEstimate(r, s, e)
      PROVE  StockInv'
  BY <1>5, PlainStock
<1> QED BY <1>2, <1>3, <1>4, <1>5, RunDoes, RejectsOneStock, ReturnsOneStock, TakesStockStock,
           InsertsItemStock DEF Does

\* No step makes a unit of a part out of nothing.
LEMMA NextStock ==
    /\ "patchEstimateStatus" \notin Operations
    /\ IInv /\ PlansShaped /\ OrdersApart /\ CurrentInv /\ StockInv /\ [Next]_vars
    => StockInv'
<1> SUFFICES ASSUME "patchEstimateStatus" \notin Operations, IInv, PlansShaped, OrdersApart,
                    CurrentInv, StockInv, [Next]_vars
             PROVE  StockInv'
  OBVIOUS
<1>1. ASSUME NEW r \in Requests, Handle(r) PROVE StockInv'
  <2>1. UNCHANGED tables /\ \E S : DecidesOn(S) /\ Goes(r, S)
    BY <1>1, SoundIsTyped, HandleDecides
  <2> QED BY <2>1, SoundIsTyped, DecisionsAreSafe, NewPlanStock
<1>2. ASSUME UNCHANGED vars \/ \E o \in Orders : OpenOrder(o) PROVE StockInv'
  <2>1. UNCHANGED <<estimate, item, stock>> /\ \A p \in Requests : Pend(p)' = Pend(p)
    BY <1>2 DEF vars, OpenOrder, Pend
  <2> QED BY <2>1, QuietStock
<1> QED BY <1>1, <1>2, RunStock, OpenOrderWithItemsStock DEF Next

\* All units are in the stock of an empty system.
LEMMA InitStock == Init => StockInv
<1> SUFFICES ASSUME Init PROVE StockInv
  OBVIOUS
<1>1. \A r \in Requests : Pend(r) = {}
  BY NothingPending DEF Init, Pend
<1>2. ASSUME NEW p \in Parts PROVE Backed(p)
  <2>1. \A e \in Estimates : ~Holding(e, p)
    BY <1>1 DEF Init, Holding, NoEstimateRow, Unissued
  <2>2. \A r \in Requests : \A n : ~InHand(r, p, n)
    BY <1>1 DEF InHand
  <2>3. Units(p) = {}
    BY <2>1, <2>2 DEF Units
  <2>4. stock[p] \in Nat /\ stock[p] = InitialStock[p]
    BY ServiceOrdersAssumption DEF Init
  <2> QED BY <2>3, <2>4, FS_EmptySet DEF Backed
<1> QED BY <1>1, <1>2 DEF StockInv, SafePlan

\* Rejections never return more of a part than was taken, whatever fails, as long as no
\* two requests are at work on the same order and no estimate is set back by hand: PATCH
\* status makes a REJECTED estimate PENDING again, and its parts are returned twice.
THEOREM StockIsNeverInvented ==
    ASSUME "patchEstimateStatus" \notin Operations
    PROVE  Spec /\ []OrdersApart => []StockNeverExceedsInitial
<1>1. IInv /\ PlansShaped /\ OrdersApart /\ CurrentInv /\ StockInv /\ [Next]_vars => StockInv'
  BY NextStock
<1>2. IInv /\ StockInv => StockNeverExceedsInitial
  <2> SUFFICES ASSUME IInv, StockInv, NEW p \in Parts PROVE stock[p] <= InitialStock[p]
    BY DEF StockNeverExceedsInitial
  <2>1. Backed(p) /\ stock[p] \in Int /\ InitialStock[p] \in Nat
    BY SoundIsTyped, ServiceOrdersAssumption DEF StockInv, TypeOK
  <2>2. Cardinality(Units(p)) \in Nat
    BY <2>1, FS_CardinalityType DEF Backed
  <2> QED BY <2>1, <2>2 DEF Backed
<1> QED BY <1>1, <1>2, InitStock, CurrentInvariant, SoundnessInvariant, ShapedInvariant, PTL
    DEF Spec

-----------------------------------------------------------------------------
(***************************************************************************)
(* The average time of OrderQueries.  It is a fold over the orders that    *)
(* were timed: what it adds up to is proved by induction on their number,  *)
(* as the least element of a set of naturals.                              *)
(***************************************************************************)

\* Every non-empty set of naturals has a least element.
LEMMA LeastNatural ==
    ASSUME NEW T \in SUBSET Nat, T # {}
    PROVE  \E n \in T : \A m \in T : n <= m
<1> DEFINE R == {pair \in Nat \X Nat : pair[1] < pair[2]}
<1>1. \A m, n \in Nat : m < n => <<m, n>> \in R
  OBVIOUS
<1>2. IsWellFoundedOn(R, Nat)
  BY NatLessThanWellFounded DEF OpToRel
<1> HIDE DEF R
<1>3. PICK n \in T : \A m \in T : ~(<<m, n>> \in R)
  BY <1>2, WFMin
<1>4. ASSUME NEW m \in T, m < n PROVE FALSE
  <2>1. <<m, n>> \in R
    BY <1>1, <1>4
  <2>2. <<m, n>> \notin R
    BY <1>3
  <2> QED BY <2>1, <2>2
<1> QED BY <1>4

\* Induction on the naturals, as a set that contains 0 and each successor.
LEMMA AllNaturals ==
    ASSUME NEW T, 0 \in T, \A n \in Nat : n \in T => n + 1 \in T
    PROVE  \A n \in Nat : n \in T
<1>1. SUFFICES ASSUME Nat \ T # {} PROVE FALSE
  OBVIOUS
<1>2. PICK n \in Nat \ T : \A m \in Nat \ T : n <= m
  BY <1>1, LeastNatural
<1>3. n - 1 \in Nat /\ n - 1 \in T
  BY <1>2
<1> QED BY <1>2, <1>3

\* A non-empty set of indices has a greatest element.
LEMMA MaxOfIndices ==
    ASSUME NEW n \in Nat, NEW S \in SUBSET (0 .. n), S # {}
    PROVE  Max(S) \in S /\ \A m \in S : m <= Max(S)
<1> DEFINE T == {k \in Nat : \A m \in S : m <= k}
<1>1. n \in T
  OBVIOUS
<1>2. PICK k \in T : \A m \in T : k <= m
  BY <1>1, LeastNatural
<1>3. k \in S
  <2>1. CASE k = 0
    <3>1. PICK m : m \in S
      OBVIOUS
    <3>2. m <= k /\ m >= 0
      BY <1>2, <3>1
    <3> QED BY <2>1, <3>1, <3>2
  <2>2. CASE k # 0 /\ k \notin S
    <3>1. k - 1 \in T
      BY <1>2, <2>2
    <3> QED BY <1>2, <3>1
  <2> QED BY <2>1, <2>2
<1>4. \A m \in S : k >= m
  BY <1>2
<1> QED BY <1>3, <1>4 DEF Max

\* The order a fold takes from a set, and one step of the fold.
Choice(S) == CHOOSE o \in S : TRUE

SumStep(g, S) == IF S = {} THEN 0 ELSE Duration(Choice(S)) + g[S \ {Choice(S)}]

\* Taking the chosen order from a set of timed orders.
LEMMA Remaining ==
    ASSUME IsFiniteSet(TimedOrders), NEW S \in SUBSET TimedOrders
    PROVE  /\ Cardinality(S) \in Nat /\ (Cardinality(S) = 0 <=> S = {})
           /\ S # {} => /\ Choice(S) \in S
                        /\ S \ {Choice(S)} \in SUBSET TimedOrders
                        /\ Cardinality(S \ {Choice(S)}) = Cardinality(S) - 1
<1>1. IsFiniteSet(S)
  BY FS_Subset
<1>2. Cardinality(S) \in Nat /\ (Cardinality(S) = 0 <=> S = {})
  BY <1>1, FS_CardinalityType, FS_EmptySet
<1>3. ASSUME S # {}
      PROVE  Choice(S) \in S /\ Cardinality(S \ {Choice(S)}) = Cardinality(S) - 1
  <2>1. Choice(S) \in S
    BY <1>3 DEF Choice
  <2>2. PICK o : o = Choice(S)
    OBVIOUS
  <2>3. Cardinality(S \ {o}) = Cardinality(S) - 1
    BY <1>1, <2>1, <2>2, FS_RemoveElement
  <2> QED BY <2>1, <2>2, <2>3
<1> QED BY <1>2, <1>3

\* The fold is well defined: some function satisfies its equation.
LEMMA SumExists ==
    ASSUME IsFiniteSet(TimedOrders)
    PROVE  \E g : g = [S \in SUBSET TimedOrders |-> SumStep(g, S)]
<1> DEFINE Good(g, n) == \A S \in SUBSET TimedOrders : Cardinality(S) <= n => g[S] = SumStep(g, S)
           T == {n \in Nat : \E g : Good(g, n)}
<1>1. 0 \in T
  <2> DEFINE g == [S \in SUBSET TimedOrders |-> 0]
  <2>1. ASSUME NEW S \in SUBSET TimedOrders, Cardinality(S) <= 0 PROVE g[S] = SumStep(g, S)
    <3>1. Cardinality(S) \in Nat /\ (Cardinality(S) = 0 <=> S = {})
      BY Remaining
    <3>2. S = {}
      BY <2>1, <3>1
    <3> QED BY <3>2 DEF SumStep
  <2>2. Good(g, 0)
    BY <2>1
  <2> HIDE DEF g, Good
  <2> QED BY <2>2
<1>2. ASSUME NEW n \in Nat, n \in T PROVE n + 1 \in T
  <2>1. PICK g : Good(g, n)
    BY <1>2
  <2> DEFINE h == [S \in SUBSET TimedOrders |-> IF Cardinality(S) <= n THEN g[S] ELSE SumStep(g, S)]
  <2>2. \A S \in SUBSET TimedOrders : Cardinality(S) <= n + 1 => h[S] = SumStep(g, S)
    BY <2>1
  <2>3. \A S \in SUBSET TimedOrders : Cardinality(S) <= n => h[S] = g[S]
    OBVIOUS
  <2> HIDE DEF h
  <2>4. ASSUME NEW S \in SUBSET TimedOrders, Cardinality(S) <= n + 1
        PROVE  h[S] = SumStep(h, S)
    <3>1. h[S] = SumStep(g, S)
      BY <2>2, <2>4
    <3>2. CASE S = {}
      BY <3>1, <3>2 DEF SumStep
    <3>3. CASE S # {}
      <4>1. PICK rest \in SUBSET TimedOrders :
                rest = S \ {Choice(S)} /\ Cardinality(rest) = Cardinality(S) - 1
        BY <3>3, Remaining
      <4>2. Cardinality(S) \in Nat
        BY Remaining
      <4>3. h[rest] = g[rest]
        BY <2>3, <2>4, <4>1, <4>2
      <4> QED BY <3>1, <3>3, <4>1, <4>3 DEF SumStep
    <3> QED BY <3>2, <3>3
  <2>5. Good(h, n + 1)
    BY <2>4
  <2> HIDE DEF Good
  <2> QED BY <2>5
<1>3. PICK g : Good(g, Cardinality(TimedOrders))
  <2> HIDE DEF T
  <2>1. \A n \in Nat : n \in T
    BY <1>1, <1>2, AllNaturals
  <2> QED BY <2>1, FS_CardinalityType DEF T
<1> DEFINE h == [S \in SUBSET TimedOrders |-> g[S]]
<1>4. ASSUME NEW S \in SUBSET TimedOrders PROVE h[S] = SumStep(h, S)
  <2>1. Cardinality(S) <= Cardinality(TimedOrders)
    BY FS_Subset
  <2>2. h[S] = SumStep(g, S)
    BY <1>3, <2>1
  <2> QED BY <2>2, Remaining DEF SumStep
<1>5. h = [S \in SUBSET TimedOrders |-> SumStep(h, S)]
  BY <1>4
<1> QED BY <1>5

\* The total is what the equation of the fold gives for all timed orders.
LEMMA TotalIsFold ==
    ASSUME NEW g, g = [S \in SUBSET TimedOrders |-> SumStep(g, S)]
    PROVE  \E sum : /\ sum = [S \in SUBSET TimedOrders |-> SumStep(sum, S)]
                    /\ TotalDuration = sum[TimedOrders]
BY DEF TotalDuration, MapThenSumSet, MapThenFoldSet, SumStep, Choice

\* Orders that each took some time took at least as much together as there are of them.
LEMMA TotalAtLeast ==
    ASSUME IsFiniteSet(TimedOrders), \A o \in TimedOrders : Duration(o) \in Int /\ Duration(o) >= 1
    PROVE  TotalDuration >= Analyzed
<1>1. PICK sum : /\ sum = [S \in SUBSET TimedOrders |-> SumStep(sum, S)]
                 /\ TotalDuration = sum[TimedOrders]
  BY SumExists, TotalIsFold
<1> DEFINE T == {n \in Nat : \A S \in SUBSET TimedOrders :
                                Cardinality(S) = n => sum[S] \in Int /\ sum[S] >= n}
<1>2. 0 \in T
  <2>1. ASSUME NEW S \in SUBSET TimedOrders, Cardinality(S) = 0 PROVE sum[S] = 0
    <3>1. S = {} /\ sum[S] = SumStep(sum, S)
      BY <1>1, <2>1, Remaining
    <3> QED BY <3>1 DEF SumStep
  <2> QED BY <2>1
<1>3. ASSUME NEW n \in Nat, n \in T PROVE n + 1 \in T
  <2> SUFFICES ASSUME NEW S \in SUBSET TimedOrders, Cardinality(S) = n + 1
               PROVE  sum[S] \in Int /\ sum[S] >= n + 1
    OBVIOUS
  <2>1. S # {} /\ Choice(S) \in TimedOrders
    BY Remaining
  <2>2. PICK rest \in SUBSET TimedOrders :
                rest = S \ {Choice(S)} /\ Cardinality(rest) = Cardinality(S) - 1
    BY <2>1, Remaining
  <2>3. sum[rest] \in Int /\ sum[rest] >= n
    <3>1. Cardinality(rest) = n
      BY <2>2
    <3> QED BY <1>3, <3>1
  <2>4. sum[S] = SumStep(sum, S)
    BY <1>1
  <2>5. sum[S] = Duration(Choice(S)) + sum[rest]
    BY <2>1, <2>2, <2>4 DEF SumStep
  <2> QED BY <2>1, <2>3, <2>5
<1> HIDE DEF T
<1>4. \A n \in Nat : n \in T
  BY <1>2, <1>3, AllNaturals
<1>5. Cardinality(TimedOrders) \in T
  BY <1>4, FS_CardinalityType
<1> QED BY <1>1, <1>5 DEF T, Analyzed

-----------------------------------------------------------------------------
(***************************************************************************)
(* What a history that is a path says of the work on the order.            *)
(***************************************************************************)

\* Rows that start at RECEIVED, each an edge from where the one before it ended.
IsLife(q) ==
    /\ Len(q) \in Nat
    /\ \A i \in 1 .. Len(q) :
        IF i = 1 THEN q[i].to = "RECEIVED"
                 ELSE <<q[i].from, q[i].to>> \in Edges /\ q[i - 1].to = q[i].from

\* The work is finished from IN_EXECUTION only, and what is finished stays so.
LEMMA EdgesOfWork ==
    ASSUME NEW from, NEW to, <<from, to>> \in Edges
    PROVE  /\ from \in Finished => to \in Finished
           /\ to \in Finished /\ from \notin Finished => from = "IN_EXECUTION" /\ to = "FINISHED"
<1>1. PICK method \in Methods : from \in ExpectedIn[method] /\ to = ResultOf[method]
  BY DEF Edges
<1> QED BY <1>1 DEF Methods, ExpectedIn, ResultOf, Finished

\* Once a row has finished the work, all later ones are of finished work.
LEMMA FinishedStays ==
    ASSUME NEW q, IsLife(q), NEW i \in 1 .. Len(q), q[i].to \in Finished,
           NEW j \in i .. Len(q)
    PROVE  q[j].to \in Finished
<1> DEFINE T == {k \in i .. Len(q) : q[k].to \notin Finished}
<1> SUFFICES ASSUME T # {} PROVE FALSE
  OBVIOUS
<1>1. T \in SUBSET Nat
  BY DEF IsLife
<1>2. PICK k \in T : \A m \in T : k <= m
  BY <1>1, LeastNatural
<1>3. k \in Nat /\ i \in Nat /\ Len(q) \in Nat /\ k <= Len(q) /\ i <= k /\ k # i /\ i >= 1
  BY <1>2 DEF IsLife
<1>4. k - 1 \in i .. Len(q) /\ k \in 1 .. Len(q) /\ k # 1
  BY <1>3
<1>5. q[k - 1].to \in Finished
  BY <1>2, <1>3, <1>4
<1>6. <<q[k].from, q[k].to>> \in Edges /\ q[k - 1].to = q[k].from
  BY <1>4 DEF IsLife
<1>7. q[k].to \in Finished
  BY <1>5, <1>6, EdgesOfWork
<1> QED BY <1>2, <1>7

\* The first row of finished work is a move to FINISHED, right after one to IN_EXECUTION.
LEMMA FinishedIsWorkedOn ==
    ASSUME NEW q, IsLife(q), NEW i \in 1 .. Len(q), q[i].to \in Finished
    PROVE  \E j \in 2 .. i : q[j].to = "FINISHED" /\ q[j - 1].to = "IN_EXECUTION"
<1> DEFINE T == {k \in 1 .. i : q[k].to \in Finished}
<1>1. T \in SUBSET Nat /\ i \in T
  BY DEF IsLife
<1>2. PICK k \in T : \A m \in T : k <= m
  BY <1>1, LeastNatural
<1>3. k \in 1 .. i /\ k \in 1 .. Len(q) /\ q[k].to \in Finished
  BY <1>2 DEF IsLife
<1>4. k # 1
  BY <1>3 DEF IsLife, Finished
<1>5. k - 1 \in 1 .. i /\ k \in 2 .. i
  BY <1>3, <1>4
<1>6. q[k - 1].to \notin Finished
  BY <1>2, <1>5
<1>7. <<q[k].from, q[k].to>> \in Edges /\ q[k - 1].to = q[k].from
  BY <1>3, <1>4 DEF IsLife
<1>8. q[k].from = "IN_EXECUTION" /\ q[k].to = "FINISHED"
  BY <1>3, <1>6, <1>7, EdgesOfWork
<1> QED BY <1>5, <1>7, <1>8

\* What the metrics read from a history that is a path.
LEMMA TimesOfLife ==
    ASSUME NEW o \in Orders, IsLife(history[o])
    PROVE  /\ ExecutionTime(o).startTime \in Nat /\ ExecutionTime(o).endTime \in Nat
           /\ o \in TimedOrders
                <=> Len(history[o]) >= 1 /\ history[o][Len(history[o])].to \in Finished
           /\ o \in TimedOrders => Duration(o) \in Int /\ Duration(o) >= 1
<1> DEFINE q == history[o]
           n == Len(q)
           begun == MovesTo(o, "IN_EXECUTION")
           ended == MovesTo(o, "FINISHED")
           start == Max(begun \cup {0})
           end == Max(ended \cup {0})
<1>1. n \in Nat
  BY DEF IsLife
<1>2. /\ begun = {i \in 1 .. n : q[i].to = "IN_EXECUTION"}
      /\ ended = {i \in 1 .. n : q[i].to = "FINISHED"}
  BY DEF MovesTo
<1>3. /\ begun \cup {0} \in SUBSET (0 .. n) /\ begun \cup {0} # {}
      /\ ended \cup {0} \in SUBSET (0 .. n) /\ ended \cup {0} # {}
  BY <1>1, <1>2
<1>4. /\ start \in begun \cup {0} /\ \A m \in begun : m <= start
      /\ end \in ended \cup {0} /\ \A m \in ended : m <= end
  <2> HIDE DEF begun, ended, n
  <2> QED BY <1>1, <1>3, MaxOfIndices
<1>5. ExecutionTime(o).startTime = start /\ ExecutionTime(o).endTime = end
  BY DEF ExecutionTime
<1> HIDE DEF start, end
<1>6. start \in Nat /\ end \in Nat
  BY <1>1, <1>2, <1>4
<1>7. o \in TimedOrders <=> start > 0 /\ end > 0
  BY <1>5 DEF TimedOrders
<1>8. ASSUME o \in TimedOrders
      PROVE  /\ n >= 1 /\ q[n].to \in Finished
             /\ Duration(o) \in Int /\ Duration(o) >= 1
  <2>1. start \in 1 .. n /\ end \in 1 .. n /\ q[start].to = "IN_EXECUTION" /\ q[end].to = "FINISHED"
    BY <1>2, <1>4, <1>6, <1>7, <1>8
  <2>2. q[end].to \in Finished /\ q[start].to \notin Finished
    BY <2>1 DEF Finished
  <2>3. n >= 1 /\ n \in end .. n
    BY <1>1, <2>1
  <2>4. q[n].to \in Finished
    BY <2>1, <2>2, <2>3, FinishedStays
  <2>5. ~(start \in end .. n)
    BY <2>1, <2>2, FinishedStays
  <2>6. end > start
    BY <1>1, <2>1, <2>5
  <2>7. Duration(o) = end - start
    BY <1>5 DEF Duration
  <2> QED BY <1>6, <2>3, <2>4, <2>6, <2>7
<1>9. ASSUME n >= 1, q[n].to \in Finished
      PROVE  start > 0 /\ end > 0
  <2>1. n \in 1 .. n
    BY <1>1, <1>9
  <2>2. PICK j \in 2 .. n : q[j].to = "FINISHED" /\ q[j - 1].to = "IN_EXECUTION"
    BY <1>9, <2>1, FinishedIsWorkedOn
  <2>3. j \in ended /\ j - 1 \in begun
    BY <1>1, <1>2, <2>2
  <2> QED BY <1>4, <1>6, <2>2, <2>3
<1> QED BY <1>5, <1>6, <1>7, <1>8, <1>9

-----------------------------------------------------------------------------
(***************************************************************************)
(* The metrics.                                                            *)
(***************************************************************************)

\* An order that is not opened has no history.
Blank == \A o \in Orders : ~Opened(o) => history[o] = <<>>

\* Rows are added to opened orders only, and orders stay opened.
LEMMA NextBlank == IInv /\ PlansShaped /\ Blank /\ [Next]_vars => Blank'
<1> SUFFICES ASSUME IInv, PlansShaped, Blank, [Next]_vars PROVE Blank'
  OBVIOUS
<1>1. TypeOK
  BY SoundIsTyped
<1>2. ASSUME UNCHANGED <<order, history>> PROVE Blank'
  BY <1>2 DEF Blank, Opened
<1>3. ASSUME NEW r \in Requests, NEW s \in Statement, WritesOrder(r, s) PROVE Blank'
  <2>1. s \in Pend(r) /\ s.kind = "updateOrder" /\ s.order \in Orders
    BY <1>3 DEF WritesOrder, Takes, IsNext, Statement
  <2>2. Opened(s.order)
    BY <2>1, PendingSound DEF Sound
  <2>3. history' = history /\ \A o \in Orders : ~Opened(o)' => ~Opened(o)
    <3>1. history' = history /\ \A o \in Orders \ {s.order} : order'[o] = order[o]
      BY <1>1, <1>3 DEF WritesOrder, TypeOK
    <3>2. Opened(s.order)'
      <4>1. s.row.status # Unopened /\ s.row \in Order
        BY <2>1, PendingSound DEF Sound, Statement
      <4>2. order'[s.order].status = s.row.status
        BY <1>1, <1>3, <2>1, <4>1 DEF WritesOrder, TypeOK, Order
      <4> QED BY <4>1, <4>2 DEF Opened
    <3> QED BY <3>1, <3>2 DEF Opened
  <2> QED BY <2>3 DEF Blank
<1>4. ASSUME NEW r \in Requests, NEW s \in Statement, AddsHistory(r, s) PROVE Blank'
  <2>1. s \in Pend(r) /\ s.kind = "createHistory" /\ s.order \in Orders
    BY <1>4 DEF AddsHistory, Takes, IsNext, Statement
  <2>2. Opened(s.order)
    BY <2>1, PendingSound
  <2>3. order' = order /\ \A o \in Orders \ {s.order} : history'[o] = history[o]
    BY <1>1, <1>4 DEF AddsHistory, TypeOK
  <2> QED BY <2>2, <2>3 DEF Blank, Opened
<1>5. ASSUME NEW o \in Orders,
             \/ OpenOrder(o)
             \/ \E e \in Estimates, items \in ItemList : OpenOrderWithItems(o, e, items)
      PROVE  Blank'
  <2>1. /\ \A p \in Orders \ {o} : order'[p] = order[p] /\ history'[p] = history[p]
        /\ \/ order' = [order EXCEPT ![o] = OpenedOrder]
           \/ order' = [order EXCEPT ![o] = Apply(Apply(OpenedOrder, "startDiagnosis"),
                                                  "requestApproval")]
    BY <1>1, <1>5 DEF OpenOrder, OpenOrderWithItems, TypeOK
  <2>2. Opened(o)'
    <3>1. PICK first, second :
            first = OpenedOrder /\ second = Apply(Apply(OpenedOrder, "startDiagnosis"),
                                                  "requestApproval")
      OBVIOUS
    <3>2. first.status = "RECEIVED" /\ second.status = "WAITING_APPROVAL"
      BY <3>1, OpeningRow
    <3>3. order'[o] = first \/ order'[o] = second
      BY <1>1, <2>1, <3>1 DEF TypeOK
    <3> QED BY <3>2, <3>3 DEF Opened, Unopened
  <2> QED BY <2>1, <2>2 DEF Blank, Opened
<1>6. ASSUME NEW r \in Requests, Handle(r) PROVE UNCHANGED <<order, history>>
  BY <1>1, <1>6, HandleDecides DEF tables
<1>7. ASSUME NEW r \in Requests, Run(r) PROVE Blank'
  <2>1. CASE Stops(r)
    BY <1>2, <2>1 DEF Stops, tables
  <2>2. ASSUME NEW s \in Statement, Does(r, s), ~WritesOrder(r, s), ~AddsHistory(r, s)
        PROVE  UNCHANGED <<order, history>>
    BY <2>2 DEF Does, IssuesEstimate, SetsStatus, RejectsOne, ReturnsOne, LoadsAgain, TakesStock,
                InsertsItem, SumsUp, WritesTotal, tables
  <2> QED BY <1>2, <1>3, <1>4, <1>7, <2>1, <2>2, RunDoes
<1>8. CASE UNCHANGED vars
  BY <1>2, <1>8 DEF vars
<1> QED BY <1>2, <1>5, <1>6, <1>7, <1>8 DEF Next

\* An order that is not opened never has a history.
LEMMA BlankInvariant == Spec => []Blank
<1>1. Init => Blank
  BY DEF Init, Blank
<1> QED BY <1>1, NextBlank, SoundnessInvariant, ShapedInvariant, PTL DEF Spec

\* The history of an order, once all requests are answered, is the life of the order.
LEMMA HistoryIsLife ==
    ASSUME IInv, Blank, HistoryIsThePath, Quiet, NEW o \in Orders
    PROVE  /\ IsLife(history[o])
           /\ Opened(o) <=> Len(history[o]) >= 1
           /\ Opened(o) => history[o][Len(history[o])].to = order[o].status
<1>1. history[o] \in Seq(HistoryRow) /\ Len(history[o]) \in Nat
  BY DEF IInv, TablesTyped
<1>2. CASE ~Opened(o)
  <2>1. history[o] = <<>> /\ Len(history[o]) = 0
    BY <1>2 DEF Blank
  <2> QED BY <1>2, <2>1 DEF IsLife
<1>3. CASE Opened(o)
  <2>1. /\ history[o] # <<>>
        /\ \A i \in 1 .. Len(history[o]) - 1 : history[o][i].to = history[o][i + 1].from
        /\ history[o][Len(history[o])].to = order[o].status
    BY <1>3 DEF HistoryIsThePath
  <2>2. Len(history[o]) >= 1
    BY <1>1, <2>1
  <2>3. ASSUME NEW i \in 1 .. Len(history[o]), i # 1
        PROVE  <<history[o][i].from, history[o][i].to>> \in Edges
               /\ history[o][i - 1].to = history[o][i].from
    <3>1. i - 1 \in 1 .. Len(history[o]) - 1 /\ (i - 1) + 1 = i
      BY <1>1, <2>3
    <3> QED BY <2>1, <2>3, <3>1 DEF IInv, HistorySound, HistoryRowsAreEdges
  <2>4. history[o][1].to = "RECEIVED"
    <3>1. 1 \in 1 .. Len(history[o])
      BY <1>1, <2>2
    <3>2. history[o][1] = [from |-> Unopened, to |-> "RECEIVED"]
      BY <3>1 DEF IInv, HistorySound, HistoryRowsAreEdges
    <3> QED BY <3>2
  <2>5. IsLife(history[o])
    BY <1>1, <2>3, <2>4 DEF IsLife
  <2> QED BY <1>3, <2>1, <2>2, <2>5
<1> QED BY <1>2, <1>3

\* Without failures and without two requests at work on the same order, the metrics and
\* the listing agree: the average is over the orders that have left the listing, and each
\* of them took some time.
THEOREM AverageIsOverFinishedOrders ==
    ASSUME ~MayFail, IsFiniteSet(Orders)
    PROVE  Spec /\ []OrdersApart => []AverageIsOfFinishedOrders
<1>1. IInv /\ Blank /\ HistoryIsThePath => AverageIsOfFinishedOrders
  <2> SUFFICES ASSUME IInv, Blank, HistoryIsThePath, Quiet
               PROVE  /\ TimedOrders = {o \in Orders : Opened(o)} \ Listed
                      /\ TotalDuration >= Analyzed
    BY DEF AverageIsOfFinishedOrders
  <2>1. ASSUME NEW o \in Orders
        PROVE  o \in TimedOrders <=> Opened(o) /\ o \notin Listed
    <3>1. order[o].status \in Statuses \cup {Unopened}
      BY SoundIsTyped DEF TypeOK, Order
    <3>2. Opened(o) => (o \notin Listed <=> order[o].status \in Finished)
      BY <3>1 DEF Listed, ListableStatuses, Finished, Statuses, Opened
    <3> QED BY <3>2, HistoryIsLife, TimesOfLife
  <2>2. TimedOrders \subseteq Orders
    BY DEF TimedOrders
  <2>3. IsFiniteSet(TimedOrders)
    BY <2>2, FS_Subset
  <2>4. \A o \in TimedOrders : Duration(o) \in Int /\ Duration(o) >= 1
    BY <2>2, HistoryIsLife, TimesOfLife
  <2>5. TotalDuration >= Analyzed
    BY <2>3, <2>4, TotalAtLeast
  <2> QED BY <2>1, <2>2, <2>5
<1> QED BY <1>1, SoundnessInvariant, BlankInvariant, HistoriesArePaths, PTL

-----------------------------------------------------------------------------
(***************************************************************************)
(* A system that serves one request at a time.  It meets the hypothesis    *)
(* OrdersApart, so that the theorems above hold of it without one.         *)
(***************************************************************************)

\* One request at a time, failing anywhere: orders go through the life cycle, and what
\* is approved stays approved.
THEOREM SerialSystems ==
    ASSUME \A r, p \in Requests : r = p
    PROVE  Spec => ImplementsLifecycle /\ ApprovedIsFinal
<1>1. OrdersApart
  BY OneRequestIsApart
<1> QED BY <1>1, LifecycleIsImplemented, ApprovalIsFinal, PTL

\* One request at a time and none fails: histories, estimates, totals, orders and metrics
\* agree whenever no request is under way.
THEOREM SerialSystemsWithoutFailures ==
    ASSUME \A r, p \in Requests : r = p, ~MayFail, IsFiniteSet(Orders)
    PROVE  Spec => [](/\ HistoryIsThePath /\ TotalIsSumOfItems
                      /\ ApprovedIsUnderWay /\ AverageIsOfFinishedOrders)
<1>1. OrdersApart
  BY OneRequestIsApart
<1> QED BY <1>1, HistoriesArePaths, TotalsAreSums, ApprovedOrdersAreUnderWay,
           AverageIsOverFinishedOrders, PTL
=============================================================================
