--------------------------- MODULE IapProofs -----------------------------
(***************************************************************************)
(* Proofs about IapOrders, for any orders, users, products, requests,      *)
(* grants, clock bound, skew and controls, and about IapSubscriptions, for *)
(* any webhooks and any precision of their times as well.                  *)
(***************************************************************************)
EXTENDS IapSubscriptions, SetSumsProofs

\* What a row, the provider and the inventory say of one order together.
RowOK(o) ==
  /\ Exists(o) =>
       /\ order[o].user = Payer[o] /\ order[o].product = SkuOf[o] /\ payment[o] # "none"
       /\ order[o].grantedAt # Null =>
            order[o].status \in {"GRANTED", "REFUNDED"} /\ delivered[o] = {order[o].grantId}
       /\ order[o].grantedAt = Null =>
            order[o].status # "GRANTED" /\ order[o].completedAt = Null /\ delivered[o] = {}
       /\ order[o].completedAt # Null => o \in confirmed
  /\ ~Exists(o) => delivered[o] = {}
  /\ payment[o] = "completed" => o \in confirmed
  /\ o \in confirmed => Exists(o) /\ order[o].grantedAt # Null

\* What an answer proves, however old it is: a paid status comes of a payment
\* of its own user, and PURCHASED of a completed purchase.
AnswerOK(w) ==
  held[w] # Nothing /\ held[w].ok =>
    LET a == held[w] IN
    /\ a.word = "PURCHASED" => a.order \in confirmed
    /\ a.word \in VerifiedWords => a.user = Payer[a.order] /\ payment[a.order] # "none"
    /\ a.identified => a.product = SkuOf[a.order]

RowInv == \A o \in Orders : RowOK(o)
AnswerInv == \A w \in Workers : AnswerOK(w)
Inv == OrderTypeOK /\ RowInv /\ AnswerInv

-----------------------------------------------------------------------------
\* A row is not the absence of one.
LEMMA RowsExist == ASSUME NEW row \in Rows PROVE row # Absent /\ row.grantedAt \in Times \cup {Null}
BY NullsAssumption DEF Rows, Absent

\* A caller's time is a time, and not NULL.
LEMMA ClockTimes == ASSUME NEW t \in Clock PROVE t \in Times /\ t # Null
BY ClockAssumption DEF Clock, Times, Null

\* What a lookup's answer becomes; only an accepted PURCHASED says GRANTED.
LEMMA AnswerStatus ==
  ASSUME NEW a \in Answers
  PROVE  /\ NewStatus(a) \in Statuses
         /\ NewStatus(a) = "GRANTED" => a.ok /\ a.word = "PURCHASED"
BY DEF NewStatus, IapLedgerStatus, Statuses, Answers, Words

\* What the upsert does to a row that is there.
LEMMA UpsertRow ==
  ASSUME NEW row \in Rows, NEW a \in Answers, NEW t \in Times, t # Null
  PROVE  LET new == AfterUpsert(row, a, t) IN
         /\ new \in Rows
         /\ new.user = row.user /\ new.product = row.product
         /\ new.grantId = row.grantId /\ new.grantedAt = row.grantedAt
         /\ new.status = IF Keeps(row, NewStatus(a)) THEN row.status ELSE NewStatus(a)
         /\ row.completedAt # Null => new.completedAt = row.completedAt
         /\ new.completedAt # row.completedAt => NewStatus(a) = "GRANTED"
<1> DEFINE new == NewStatus(a)
           seen == IF Keeps(row, new) THEN row ELSE [row EXCEPT !.status = new, !.word = a.word]
           stamps == row.status # "REFUNDED" /\ row.completedAt = Null /\ new = "GRANTED"
<1>1. new \in Statuses /\ a.word \in Words
  BY AnswerStatus DEF Answers
<1>2. AfterUpsert(row, a, t) = IF stamps THEN [seen EXCEPT !.completedAt = t] ELSE seen
  BY DEF AfterUpsert
<1>6. new = NewStatus(a)
  OBVIOUS
<1> HIDE DEF new
<1>3. /\ seen \in Rows
      /\ seen.user = row.user /\ seen.product = row.product
      /\ seen.grantId = row.grantId /\ seen.grantedAt = row.grantedAt
      /\ seen.status = IF Keeps(row, new) THEN row.status ELSE new
      /\ seen.completedAt = row.completedAt
  <2>1. CASE Keeps(row, new)
    BY <2>1
  <2>2. CASE ~Keeps(row, new)
    BY <1>1, <2>2 DEF Rows
  <2> QED BY <2>1, <2>2
<1> HIDE DEF seen
<1>4. CASE stamps
  <2>1. AfterUpsert(row, a, t) = [seen EXCEPT !.completedAt = t]
    BY <1>2, <1>4
  <2>2. [seen EXCEPT !.completedAt = t] \in Rows
    BY <1>3 DEF Rows
  <2>3. /\ [seen EXCEPT !.completedAt = t].user = seen.user
        /\ [seen EXCEPT !.completedAt = t].product = seen.product
        /\ [seen EXCEPT !.completedAt = t].grantId = seen.grantId
        /\ [seen EXCEPT !.completedAt = t].grantedAt = seen.grantedAt
        /\ [seen EXCEPT !.completedAt = t].status = seen.status
    BY <1>3 DEF Rows
  <2> QED BY <1>3, <1>4, <1>6, <2>1, <2>2, <2>3
<1>5. CASE ~stamps
  <2>1. AfterUpsert(row, a, t) = seen
    BY <1>2, <1>5
  <2> QED BY <1>3, <1>6, <2>1
<1> QED BY <1>4, <1>5

\* What the grant mark does to a row that is there.
LEMMA GrantRow ==
  ASSUME NEW row \in Rows, NEW g \in GrantIds, NEW t \in Times
  PROVE  LET new == AfterGrant(row, g, t) IN
         /\ new \in Rows
         /\ new.user = row.user /\ new.product = row.product
         /\ new.status = "GRANTED" /\ new.completedAt = row.completedAt
         /\ new.grantedAt = IF row.grantedAt = Null THEN t ELSE row.grantedAt
         /\ new.grantId = IF row.status = "GRANTED" /\ row.grantId # NoGrant THEN row.grantId ELSE g
BY DEF AfterGrant, Rows, Statuses

-----------------------------------------------------------------------------
\* The order ledger starts empty, before any payment, answer or grant.
LEMMA InitInv == OrderInit => Inv
<1> SUFFICES ASSUME OrderInit PROVE Inv
  OBVIOUS
<1>1. 0 \in Times
  BY ClockAssumption DEF Times
<1>2. OrderTypeOK
  BY <1>1 DEF OrderInit, OrderTypeOK
<1>3. RowInv
  BY DEF OrderInit, RowInv, RowOK, Exists
<1>4. AnswerInv
  BY DEF OrderInit, AnswerInv, AnswerOK
<1> QED BY <1>2, <1>3, <1>4 DEF Inv

\* A payment is new to the provider and to nobody else.
LEMMA PayStep == ASSUME Inv, NEW o \in Orders, Pay(o) PROVE Inv'
<1>1. OrderTypeOK'
  BY DEF Inv, OrderTypeOK, Pay
<1>2. ASSUME NEW p \in Orders PROVE RowOK(p)'
  BY DEF Inv, OrderTypeOK, RowInv, RowOK, Pay, Exists
<1>3. ASSUME NEW w \in Workers PROVE AnswerOK(w)'
  <2>1. \A p \in Orders : payment[p] # "none" => payment'[p] # "none"
    BY DEF Inv, OrderTypeOK, Pay
  <2>2. held[w] # Nothing => held[w].order \in Orders
    BY DEF Inv, OrderTypeOK, Answers
  <2>3. AnswerOK(w) /\ held' = held /\ confirmed' = confirmed
    BY DEF Inv, AnswerInv, Pay
  <2> QED BY <2>1, <2>2, <2>3 DEF AnswerOK
<1> QED BY <1>1, <1>2, <1>3 DEF Inv, RowInv, AnswerInv

\* A purchase is completed only after its row carries the grant.
LEMMA CompleteStep == ASSUME Inv, NEW o \in Orders, CompleteProductGrant(o) PROVE Inv'
<1>1. OrderTypeOK'
  BY DEF Inv, OrderTypeOK, CompleteProductGrant
<1>2. ASSUME NEW p \in Orders PROVE RowOK(p)'
  BY DEF Inv, OrderTypeOK, RowInv, RowOK, CompleteProductGrant, Exists
<1>3. ASSUME NEW w \in Workers PROVE AnswerOK(w)'
  <2>1. \A p \in Orders : payment[p] # "none" => payment'[p] # "none"
    BY DEF Inv, OrderTypeOK, CompleteProductGrant
  <2>2. held[w] # Nothing => held[w].order \in Orders
    BY DEF Inv, OrderTypeOK, Answers
  <2>3. AnswerOK(w) /\ held' = held /\ confirmed \subseteq confirmed'
    BY DEF Inv, AnswerInv, CompleteProductGrant
  <2> QED BY <2>1, <2>2, <2>3 DEF AnswerOK
<1> QED BY <1>1, <1>2, <1>3 DEF Inv, RowInv, AnswerInv

\* A refund is of an order that was paid.
LEMMA RefundStep == ASSUME Inv, NEW o \in Orders, Refund(o) PROVE Inv'
<1>1. OrderTypeOK'
  BY DEF Inv, OrderTypeOK, Refund
<1>2. ASSUME NEW p \in Orders PROVE RowOK(p)'
  BY DEF Inv, OrderTypeOK, RowInv, RowOK, Refund, Exists
<1>3. ASSUME NEW w \in Workers PROVE AnswerOK(w)'
  <2>1. \A p \in Orders : payment[p] # "none" => payment'[p] # "none"
    BY DEF Inv, OrderTypeOK, Refund
  <2>2. held[w] # Nothing => held[w].order \in Orders
    BY DEF Inv, OrderTypeOK, Answers
  <2>3. AnswerOK(w) /\ held' = held /\ confirmed' = confirmed
    BY DEF Inv, AnswerInv, Refund
  <2> QED BY <2>1, <2>2, <2>3 DEF AnswerOK
<1> QED BY <1>1, <1>2, <1>3 DEF Inv, RowInv, AnswerInv

\* Each verdict of the provider is true when it is given.
LEMMA LookupStep ==
  ASSUME Inv, NEW w \in Workers, NEW u \in Users, NEW o \in Orders, NEW sku \in Skus,
         Lookup(w, u, o, sku)
  PROVE  Inv'
<1>1. PICK v \in Verdicts(u, o), identified \in BOOLEAN :
        /\ identified => v[2] \in VerifiedWords
        /\ held' = [held EXCEPT ![w] =
             [user |-> u, order |-> o, ok |-> v[1], word |-> v[2],
              identified |-> identified,
              product |-> IF identified THEN SkuOf[o] ELSE sku]]
  BY DEF Lookup
<1> DEFINE a == [user |-> u, order |-> o, ok |-> v[1], word |-> v[2],
                 identified |-> identified, product |-> IF identified THEN SkuOf[o] ELSE sku]
<1>2. payment[o] \in {"none", "paid", "completed", "refunded"}
  BY DEF Inv, OrderTypeOK
<1>3. /\ v[1] \in BOOLEAN /\ v[2] \in Words
      /\ v[1] /\ v[2] = "PURCHASED" => payment[o] = "completed"
      /\ v[1] /\ v[2] \in VerifiedWords => u = Payer[o] /\ payment[o] # "none"
  <2>1. \/ v \in {<<FALSE, "ERROR">>, <<FALSE, "PURCHASED">>, <<TRUE, "NOT_FOUND">>,
                  <<TRUE, "ORDER_IN_PROGRESS">>, <<TRUE, "">>}
        \/ u = Payer[o] /\ payment[o] = "paid" /\ v = <<TRUE, "PAYMENT_COMPLETED">>
        \/ u = Payer[o] /\ payment[o] = "completed" /\ v = <<TRUE, "PURCHASED">>
        \/ u = Payer[o] /\ payment[o] = "refunded" /\ v = <<TRUE, "REFUNDED">>
    <3>1. CASE u # Payer[o]
      BY <3>1 DEF Verdicts
    <3>2. CASE u = Payer[o] /\ payment[o] = "none"
      BY <3>2 DEF Verdicts
    <3>3. CASE u = Payer[o] /\ payment[o] = "paid"
      BY <3>3 DEF Verdicts
    <3>4. CASE u = Payer[o] /\ payment[o] = "completed"
      BY <3>4 DEF Verdicts
    <3>5. CASE u = Payer[o] /\ payment[o] = "refunded"
      BY <3>5 DEF Verdicts
    <3> QED BY <1>2, <3>1, <3>2, <3>3, <3>4, <3>5
  <2>2. \/ v[1] = FALSE /\ v[2] \in {"ERROR", "PURCHASED"}
        \/ v[1] = TRUE /\ v[2] \in {"NOT_FOUND", "ORDER_IN_PROGRESS", ""}
        \/ /\ u = Payer[o] /\ payment[o] # "none" /\ v[1] = TRUE /\ v[2] \in VerifiedWords
           /\ v[2] = "PURCHASED" => payment[o] = "completed"
    <3>1. CASE v = <<FALSE, "ERROR">>
      BY <3>1
    <3>2. CASE v = <<FALSE, "PURCHASED">>
      BY <3>2
    <3>6. CASE v = <<TRUE, "NOT_FOUND">>
      BY <3>6
    <3>7. CASE v = <<TRUE, "ORDER_IN_PROGRESS">>
      BY <3>7
    <3>8. CASE v = <<TRUE, "">>
      BY <3>8
    <3>3. CASE u = Payer[o] /\ payment[o] = "paid" /\ v = <<TRUE, "PAYMENT_COMPLETED">>
      BY <3>3 DEF VerifiedWords
    <3>4. CASE u = Payer[o] /\ payment[o] = "completed" /\ v = <<TRUE, "PURCHASED">>
      BY <3>4 DEF VerifiedWords
    <3>5. CASE u = Payer[o] /\ payment[o] = "refunded" /\ v = <<TRUE, "REFUNDED">>
      BY <3>5 DEF VerifiedWords
    <3> QED BY <2>1, <3>1, <3>2, <3>3, <3>4, <3>5, <3>6, <3>7, <3>8
  <2>3. CASE v[1] = FALSE /\ v[2] \in {"ERROR", "PURCHASED"}
    BY <2>3 DEF Words
  <2>4. CASE v[1] = TRUE /\ v[2] \in {"NOT_FOUND", "ORDER_IN_PROGRESS", ""}
    BY <2>4 DEF Words, VerifiedWords
  <2>5. CASE /\ u = Payer[o] /\ payment[o] # "none" /\ v[1] = TRUE /\ v[2] \in VerifiedWords
             /\ v[2] = "PURCHASED" => payment[o] = "completed"
    BY <2>5 DEF Words, VerifiedWords
  <2> QED BY <2>2, <2>3, <2>4, <2>5
<1>4. a \in Answers
  BY <1>3, ProviderAssumption DEF Answers
<1>5. /\ held' = [held EXCEPT ![w] = a]
      /\ UNCHANGED <<order, control, now, payment, confirmed, delivered>>
  BY <1>1 DEF Lookup
<1>6. a.ok = v[1] /\ a.word = v[2] /\ a.user = u /\ a.order = o
      /\ (a.identified => a.product = SkuOf[o])
  OBVIOUS
<1> HIDE DEF a
<1>7. OrderTypeOK'
  BY <1>4, <1>5 DEF Inv, OrderTypeOK
<1>8. RowInv'
  BY <1>5 DEF Inv, RowInv, RowOK, Exists
<1>9. ASSUME NEW x \in Workers PROVE AnswerOK(x)'
  <2>1. CASE x = w
    <3>1. held'[x] = a
      BY <1>5, <2>1 DEF Inv, OrderTypeOK
    <3>2. payment[o] = "completed" => o \in confirmed
      BY DEF Inv, RowInv, RowOK
    <3> QED BY <1>3, <1>5, <1>6, <3>1, <3>2 DEF AnswerOK
  <2>2. CASE x # w
    <3>1. held'[x] = held[x]
      BY <1>5, <2>2 DEF Inv, OrderTypeOK
    <3> QED BY <1>5, <3>1 DEF Inv, AnswerInv, AnswerOK
  <2> QED BY <2>1, <2>2
<1> QED BY <1>7, <1>8, <1>9 DEF Inv, AnswerInv

\* Only a proven answer makes a row, and none moves what was granted.
LEMMA UpsertStep == ASSUME Inv, NEW w \in Workers, Upsert(w) PROVE Inv'
<1>a. PICK a \in Answers : a = held[w] /\ a # Nothing
  BY DEF Inv, OrderTypeOK, Upsert
<1>b. PICK o \in Orders : o = a.order
  BY DEF Answers
<1> DEFINE mine == Exists(o) /\ order[o].user = a.user /\ order[o].product = a.product
<1>1. /\ AnswerOK(w)
      /\ held' = [held EXCEPT ![w] = Nothing]
      /\ UNCHANGED <<control, now, payment, confirmed, delivered>>
  BY DEF Inv, AnswerInv, Upsert
<1>2. OrderTypeOK /\ RowInv
  BY DEF Inv
<1>3. \/ CanCreate(a) /\ ~Exists(o) /\ \E t \in Clock : order' = [order EXCEPT ![o] = FirstRow(a, t)]
      \/ mine /\ \E t \in Clock : order' = [order EXCEPT ![o] = AfterUpsert(@, a, t)]
      \/ UNCHANGED order
  BY <1>a, <1>b DEF Upsert
<1>4. ASSUME NEW x \in Workers PROVE AnswerOK(x)'
  BY <1>1, <1>2 DEF Inv, AnswerInv, AnswerOK, OrderTypeOK
<1>5. NewStatus(a) = "GRANTED" => o \in confirmed
  BY <1>1, <1>a, <1>b, AnswerStatus DEF AnswerOK
<1>6. held' \in [Workers -> Answers \cup {Nothing}]
  BY <1>1, <1>2 DEF OrderTypeOK
<1> HIDE DEF mine
<1>7. CASE CanCreate(a) /\ ~Exists(o) /\ \E t \in Clock : order' = [order EXCEPT ![o] = FirstRow(a, t)]
  <2>1. PICK t \in Clock : order' = [order EXCEPT ![o] = FirstRow(a, t)]
    BY <1>7
  <2>2. t \in Times /\ t # Null
    BY ClockTimes
  <2>3. NewStatus(a) # "GRANTED"
    BY <1>1, <1>2, <1>5, <1>7 DEF RowInv, RowOK
  <2>4. NewStatus(a) \in Statuses
    BY <1>1, AnswerStatus
  <2>5. /\ FirstRow(a, t) \in Rows
        /\ FirstRow(a, t).user = a.user /\ FirstRow(a, t).product = a.product
        /\ FirstRow(a, t).status = NewStatus(a)
        /\ FirstRow(a, t).grantedAt = Null /\ FirstRow(a, t).completedAt = Null
    BY <1>1, <2>2, <2>3, <2>4 DEF FirstRow, Rows, Answers
  <2>6. a.user = Payer[o] /\ a.product = SkuOf[o] /\ payment[o] # "none"
    BY <1>1, <1>7, <1>a, <1>b DEF CanCreate, AnswerOK
  <2>7. order' \in [Orders -> Rows \cup {Absent}] /\ order'[o] = FirstRow(a, t)
    BY <1>1, <1>2, <2>1, <2>5 DEF OrderTypeOK
  <2>8. OrderTypeOK'
    BY <1>1, <1>2, <1>6, <2>7 DEF OrderTypeOK
  <2>9. ASSUME NEW p \in Orders PROVE RowOK(p)'
    <3>1. CASE p = o
      <4>1. RowOK(o) /\ ~Exists(o)
        BY <1>1, <1>2, <1>7 DEF RowInv
      <4>2. Exists(o)'
        BY <2>5, <2>7, RowsExist DEF Exists
      <4> QED BY <1>1, <2>3, <2>5, <2>6, <2>7, <3>1, <4>1, <4>2 DEF RowOK
    <3>2. CASE p # o
      BY <1>1, <1>2, <2>1, <3>2 DEF RowInv, RowOK, Exists, OrderTypeOK
    <3> QED BY <3>1, <3>2
  <2> QED BY <1>4, <2>8, <2>9 DEF Inv, RowInv, AnswerInv
<1>8. CASE mine /\ \E t \in Clock : order' = [order EXCEPT ![o] = AfterUpsert(@, a, t)]
  <2>1. PICK t \in Clock : order' = [order EXCEPT ![o] = AfterUpsert(order[o], a, t)]
    BY <1>8
  <2>2. t \in Times /\ t # Null
    BY ClockTimes
  <2>3. Exists(o) /\ order[o] \in Rows /\ RowOK(o)
    BY <1>1, <1>2, <1>8 DEF OrderTypeOK, RowInv, Exists, mine
  <2> DEFINE new == AfterUpsert(order[o], a, t)
  <2>4. /\ new \in Rows
        /\ new.user = order[o].user /\ new.product = order[o].product
        /\ new.grantId = order[o].grantId /\ new.grantedAt = order[o].grantedAt
        /\ new.status = IF Keeps(order[o], NewStatus(a)) THEN order[o].status ELSE NewStatus(a)
        /\ order[o].completedAt # Null => new.completedAt = order[o].completedAt
        /\ new.completedAt # order[o].completedAt => NewStatus(a) = "GRANTED"
    BY <1>1, <2>2, <2>3, UpsertRow
  <2>5. order' = [order EXCEPT ![o] = new]
    BY <2>1
  <2> HIDE DEF new
  <2>6. order' \in [Orders -> Rows \cup {Absent}] /\ order'[o] = new
    BY <1>1, <1>2, <2>4, <2>5 DEF OrderTypeOK
  <2>7. OrderTypeOK'
    BY <1>1, <1>2, <1>6, <2>6 DEF OrderTypeOK
  <2>8. ASSUME NEW p \in Orders PROVE RowOK(p)'
    <3>1. CASE p = o
      <4>1. Exists(o)'
        BY <2>4, <2>6, RowsExist DEF Exists
      <4>2. NewStatus(a) = "GRANTED" => order[o].grantedAt # Null
        BY <1>5, <2>3 DEF RowOK
      <4>3. new.grantedAt # Null => new.status \in {"GRANTED", "REFUNDED"}
        BY <2>3, <2>4 DEF RowOK, Keeps
      <4>4. new.grantedAt = Null => new.status # "GRANTED" /\ new.completedAt = Null
        BY <2>3, <2>4, <4>2 DEF RowOK, Keeps
      <4>5. new.completedAt # Null => o \in confirmed
        BY <1>5, <2>3, <2>4 DEF RowOK
      <4> QED BY <1>1, <2>3, <2>4, <2>6, <3>1, <4>1, <4>3, <4>4, <4>5 DEF RowOK
    <3>2. CASE p # o
      BY <1>1, <1>2, <2>5, <3>2 DEF RowInv, RowOK, Exists, OrderTypeOK
    <3> QED BY <3>1, <3>2
  <2> QED BY <1>4, <2>7, <2>8 DEF Inv, RowInv, AnswerInv
<1>9. CASE UNCHANGED order
  <2>1. OrderTypeOK'
    BY <1>1, <1>2, <1>6, <1>9 DEF OrderTypeOK
  <2>2. RowInv'
    BY <1>1, <1>2, <1>9 DEF RowInv, RowOK, Exists
  <2> QED BY <1>4, <2>1, <2>2 DEF Inv, AnswerInv
<1> QED BY <1>3, <1>7, <1>8, <1>9

\* The inventory changes with the first grant of a row, which is marked by it.
LEMMA GrantStep ==
  ASSUME Inv, NEW o \in Orders, NEW g \in GrantIds, MarkGranted(o, g) PROVE Inv'
<1>1. PICK t \in Clock : order' = [order EXCEPT ![o] = AfterGrant(order[o], g, t)]
  BY DEF MarkGranted
<1>2. t \in Times /\ t # Null
  BY ClockTimes
<1>3. /\ Exists(o) /\ order[o].status \in {"PENDING_GRANT", "GRANTED"}
      /\ delivered' = [delivered EXCEPT ![o] =
           IF order[o].status = "PENDING_GRANT" THEN delivered[o] \cup {g} ELSE delivered[o]]
      /\ UNCHANGED <<control, now, payment, confirmed, held>>
  BY DEF MarkGranted
<1>4. OrderTypeOK /\ RowInv /\ RowOK(o) /\ order[o] \in Rows
  BY <1>3 DEF Inv, RowInv, OrderTypeOK, Exists
<1> DEFINE new == AfterGrant(order[o], g, t)
<1>5. /\ new \in Rows
      /\ new.user = order[o].user /\ new.product = order[o].product
      /\ new.status = "GRANTED" /\ new.completedAt = order[o].completedAt
      /\ new.grantedAt = IF order[o].grantedAt = Null THEN t ELSE order[o].grantedAt
      /\ new.grantId = IF order[o].status = "GRANTED" /\ order[o].grantId # NoGrant
                       THEN order[o].grantId ELSE g
  BY <1>2, <1>4, GrantRow
<1>6. order' = [order EXCEPT ![o] = new]
  BY <1>1
<1> HIDE DEF new
<1>7. order' \in [Orders -> Rows \cup {Absent}] /\ order'[o] = new
  BY <1>4, <1>5, <1>6 DEF OrderTypeOK
<1>8. delivered' \in [Orders -> SUBSET GrantIds]
  BY <1>3, <1>4 DEF OrderTypeOK
<1>9. OrderTypeOK'
  BY <1>3, <1>4, <1>7, <1>8 DEF OrderTypeOK
<1>10. ASSUME NEW p \in Orders PROVE RowOK(p)'
  <2>1. CASE p = o
    <3>1. Exists(o)'
      BY <1>5, <1>7, RowsExist DEF Exists
    <3>2. delivered'[o] = IF order[o].status = "PENDING_GRANT" THEN delivered[o] \cup {g} ELSE delivered[o]
      BY <1>3, <1>4 DEF OrderTypeOK
    <3>3. new.grantedAt # Null
      BY <1>2, <1>5
    <3>4. CASE order[o].status = "PENDING_GRANT"
      <4>1. order[o].grantedAt = Null /\ delivered[o] = {}
        BY <1>3, <1>4, <3>4 DEF RowOK
      <4>2. delivered'[o] = {new.grantId}
        BY <1>5, <3>2, <3>4, <4>1
      <4> QED BY <1>3, <1>4, <1>5, <1>7, <2>1, <3>1, <3>3, <4>2 DEF RowOK
    <3>5. CASE order[o].status = "GRANTED"
      <4>1. order[o].grantedAt # Null /\ delivered[o] = {order[o].grantId}
        BY <1>3, <1>4, <3>5 DEF RowOK
      <4>2. order[o].grantId # NoGrant
        BY <1>4, <4>1, NullsAssumption DEF OrderTypeOK
      <4>3. delivered'[o] = {new.grantId}
        BY <1>5, <3>2, <3>5, <4>1, <4>2
      <4> QED BY <1>3, <1>4, <1>5, <1>7, <2>1, <3>1, <3>3, <4>3 DEF RowOK
    <3> QED BY <1>3, <3>4, <3>5
  <2>2. CASE p # o
    BY <1>3, <1>4, <1>6, <2>2 DEF RowInv, RowOK, Exists, OrderTypeOK
  <2> QED BY <2>1, <2>2
<1>11. AnswerInv'
  BY <1>3 DEF Inv, AnswerInv, AnswerOK
<1> QED BY <1>9, <1>10, <1>11 DEF Inv, RowInv

\* A completion is recorded of a confirmed purchase.
LEMMA CompletedStep == ASSUME Inv, NEW o \in Orders, MarkCompleted(o) PROVE Inv'
<1>1. PICK t \in Clock : order' = [order EXCEPT ![o].completedAt = IF @ = Null THEN t ELSE @]
  BY DEF MarkCompleted
<1>2. t \in Times /\ t # Null
  BY ClockTimes
<1>3. /\ o \in confirmed /\ Exists(o) /\ order[o].grantedAt # Null
      /\ UNCHANGED <<control, now, payment, confirmed, delivered, held>>
  BY DEF MarkCompleted
<1>4. OrderTypeOK /\ RowInv /\ RowOK(o) /\ order[o] \in Rows
  BY <1>3 DEF Inv, RowInv, OrderTypeOK, Exists
<1> DEFINE new == [order[o] EXCEPT !.completedAt = IF @ = Null THEN t ELSE @]
<1>5. /\ new \in Rows
      /\ new.user = order[o].user /\ new.product = order[o].product
      /\ new.status = order[o].status /\ new.grantId = order[o].grantId
      /\ new.grantedAt = order[o].grantedAt
  BY <1>2, <1>4 DEF Rows
<1>6. order' = [order EXCEPT ![o] = new]
  BY <1>1
<1> HIDE DEF new
<1>7. order' \in [Orders -> Rows \cup {Absent}] /\ order'[o] = new
  BY <1>4, <1>5, <1>6 DEF OrderTypeOK
<1>8. OrderTypeOK'
  BY <1>3, <1>4, <1>7 DEF OrderTypeOK
<1>9. ASSUME NEW p \in Orders PROVE RowOK(p)'
  <2>1. CASE p = o
    <3>1. Exists(o)'
      BY <1>5, <1>7, RowsExist DEF Exists
    <3> QED BY <1>3, <1>4, <1>5, <1>7, <2>1, <3>1 DEF RowOK
  <2>2. CASE p # o
    BY <1>3, <1>4, <1>6, <2>2 DEF RowInv, RowOK, Exists, OrderTypeOK
  <2> QED BY <2>1, <2>2
<1>10. AnswerInv'
  BY <1>3 DEF Inv, AnswerInv, AnswerOK
<1> QED BY <1>8, <1>9, <1>10 DEF Inv, RowInv

\* The clock and the operator touch no row and no answer.
LEMMA OutsideStep == ASSUME Inv, SetControl \/ Tick \/ UNCHANGED orderVars PROVE Inv'
<1>1. control' \in Settings /\ now' \in Times
  BY ClockAssumption DEF Inv, OrderTypeOK, SetControl, Tick, orderVars, Times
<1>2. UNCHANGED <<order, payment, confirmed, delivered, held>>
  BY DEF SetControl, Tick, orderVars
<1>3. OrderTypeOK'
  BY <1>1, <1>2 DEF Inv, OrderTypeOK
<1>4. RowInv' /\ AnswerInv'
  BY <1>2 DEF Inv, RowInv, RowOK, Exists, AnswerInv, AnswerOK
<1> QED BY <1>3, <1>4 DEF Inv

-----------------------------------------------------------------------------
LEMMA OrderStep == Inv /\ [OrderNext]_orderVars => Inv'
<1> SUFFICES ASSUME Inv, [OrderNext]_orderVars PROVE Inv'
  OBVIOUS
<1> QED BY PayStep, CompleteStep, RefundStep, CompletedStep, LookupStep, UpsertStep,
           GrantStep, OutsideStep DEF OrderNext

\* Rows, provider, inventory and answers fit together in every reachable state.
THEOREM Invariance == OrderSpec => []Inv
BY InitInv, OrderStep, PTL DEF OrderSpec

\* Every reachable state of the order ledger is well typed.
THEOREM TypeCorrect == OrderSpec => []OrderTypeOK
<1>1. Inv => OrderTypeOK
  BY DEF Inv
<1> QED BY <1>1, Invariance, PTL

\* What the ledger says of the inventory is true: one delivery at most, named by
\* the row, no GRANTED row without one, no completion without a confirmation.
THEOREM RecordsDelivery == OrderSpec => []DeliveryIsRecorded
<1>1. Inv => DeliveryIsRecorded
  <2> SUFFICES ASSUME Inv PROVE DeliveryIsRecorded
    OBVIOUS
  <2>1. RowInv /\ OrderTypeOK
    BY DEF Inv
  <2>2. DeliveredIsMarked
    BY <2>1 DEF DeliveredIsMarked, RowInv, RowOK
  <2>3. GrantedIsDelivered
    BY <2>1 DEF GrantedIsDelivered, RowInv, RowOK
  <2>4. CompletionIsReal
    BY <2>1 DEF CompletionIsReal, RowInv, RowOK
  <2> QED BY <2>1, <2>2, <2>3, <2>4 DEF DeliveryIsRecorded
<1> QED BY <1>1, Invariance, PTL

\* An order is recorded only for the user who paid and the product that was bought.
THEOREM RecordsThePayer == OrderSpec => []OnlyThePayer
<1>1. Inv => OnlyThePayer
  BY DEF Inv, RowInv, RowOK, OnlyThePayer
<1> QED BY <1>1, Invariance, PTL

\* No lookup, grant or completion takes back a refund, a grant or the first
\* times and grant identity of an order.
THEOREM KeepsFacts == OrderSpec => OrderFactsAreKept
<1>1. Inv /\ [OrderNext]_orderVars
        => [\A o \in Orders : Exists(o) => KeepsOrderFacts(order[o], order'[o])]_orderVars
  <2> SUFFICES ASSUME Inv, OrderNext, NEW o \in Orders, Exists(o)
               PROVE  KeepsOrderFacts(order[o], order'[o])
    OBVIOUS
  <2>1. order[o] \in Rows /\ RowOK(o) /\ OrderTypeOK
    BY DEF Inv, OrderTypeOK, RowInv, Exists
  <2>2. CASE order'[o] = order[o]
    BY <2>1, <2>2 DEF KeepsOrderFacts
  <2>3. ASSUME NEW w \in Workers, Upsert(w), order'[o] # order[o]
        PROVE  KeepsOrderFacts(order[o], order'[o])
    <3>a. held[w] \in Answers
      BY <2>1, <2>3 DEF Upsert, OrderTypeOK
    <3>b. held[w].order = o /\ \E t \in Clock : order'[o] = AfterUpsert(order[o], held[w], t)
      BY <2>1, <2>3, <3>a DEF Upsert, OrderTypeOK, Answers
    <3>1. PICK a \in Answers, t \in Clock : order'[o] = AfterUpsert(order[o], a, t)
      BY <3>a, <3>b
    <3>2. t \in Times /\ t # Null
      BY ClockTimes
    <3> DEFINE new == AfterUpsert(order[o], a, t)
    <3>3. /\ new.grantId = order[o].grantId /\ new.grantedAt = order[o].grantedAt
          /\ new.status = IF Keeps(order[o], NewStatus(a)) THEN order[o].status ELSE NewStatus(a)
          /\ order[o].completedAt # Null => new.completedAt = order[o].completedAt
      BY <2>1, <3>2, UpsertRow
    <3>4. order'[o] = new
      BY <3>1
    <3> HIDE DEF new
    <3> QED BY <3>3, <3>4 DEF KeepsOrderFacts, Keeps
  <2>4. ASSUME NEW p \in Orders, NEW g \in GrantIds, MarkGranted(p, g), order'[o] # order[o]
        PROVE  KeepsOrderFacts(order[o], order'[o])
    <3>1. PICK t \in Clock : order'[o] = AfterGrant(order[o], g, t)
      BY <2>1, <2>4 DEF MarkGranted, OrderTypeOK
    <3>2. o = p /\ order[o].status \in {"PENDING_GRANT", "GRANTED"}
      BY <2>1, <2>4 DEF MarkGranted, OrderTypeOK
    <3>3. t \in Times /\ t # Null
      BY ClockTimes
    <3> DEFINE new == AfterGrant(order[o], g, t)
    <3>4. /\ new.status = "GRANTED" /\ new.completedAt = order[o].completedAt
          /\ new.grantedAt = IF order[o].grantedAt = Null THEN t ELSE order[o].grantedAt
          /\ new.grantId = IF order[o].status = "GRANTED" /\ order[o].grantId # NoGrant
                           THEN order[o].grantId ELSE g
      BY <2>1, <3>3, GrantRow
    <3>5. order'[o] = new
      BY <3>1
    <3> HIDE DEF new
    <3>6. order[o].grantedAt # Null => order[o].status = "GRANTED" /\ order[o].grantId # NoGrant
      BY <2>1, <3>2, NullsAssumption DEF RowOK, OrderTypeOK
    <3> QED BY <3>2, <3>4, <3>5, <3>6 DEF KeepsOrderFacts
  <2>5. ASSUME NEW p \in Orders, MarkCompleted(p), order'[o] # order[o]
        PROVE  KeepsOrderFacts(order[o], order'[o])
    <3>1. PICK t \in Clock :
            order'[o] = [order[o] EXCEPT !.completedAt = IF @ = Null THEN t ELSE @]
      BY <2>1, <2>5 DEF MarkCompleted, OrderTypeOK
    <3> QED BY <2>1, <3>1 DEF KeepsOrderFacts, Rows
  <2>6. CASE UNCHANGED order
    BY <2>2, <2>6
  <2> QED BY <2>2, <2>3, <2>4, <2>5, <2>6
          DEF OrderNext, Pay, CompleteProductGrant, Refund, Lookup, SetControl, Tick
<1> QED BY <1>1, Invariance, PTL DEF OrderSpec, OrderFactsAreKept

-----------------------------------------------------------------------------
(***************************************************************************)
(* Provider-local times.  A normalized time has a digit in every place, so *)
(* the order of the texts is the order of the instants.                    *)
(***************************************************************************)
Places == FractionDigits + 1
Stamps == {t \in [1 .. Places -> Nat] : \A i \in 2 .. Places : t[i] <= 9}
IsUpTo(f, t) == f = [n \in 0 .. Places |-> IF n = 0 THEN 0 ELSE 10 * f[n - 1] + Digit(t, n)]

LEMMA PlacesAreMany == Places \in Nat /\ Places >= 1
BY WebhooksAssumption DEF Places

LEMMA NormalizedIsStamp ==
  ASSUME NEW t \in Seq(Nat), ValidTimestamp(t), HasDigits(t)
  PROVE  NormalizedTimestamp(t) \in Stamps
<1>1. Len(t) \in Nat /\ \A i \in 1 .. Len(t) : t[i] \in Nat
  OBVIOUS
<1>2. \A i \in 1 .. Places : (IF i <= Len(t) THEN t[i] ELSE 0) \in Nat
  BY <1>1, PlacesAreMany
<1>3. \A i \in 2 .. Places : (IF i <= Len(t) THEN t[i] ELSE 0) <= 9
  BY <1>1, PlacesAreMany DEF HasDigits
<1>4. 1 + FractionDigits = Places /\ \A i \in 2 .. Places : i \in 1 .. Places
  BY WebhooksAssumption, PlacesAreMany DEF Places
<1> QED BY <1>2, <1>3, <1>4 DEF NormalizedTimestamp, Stamps

\* The digits can be counted up, place by place.
LEMMA UpToExists == ASSUME NEW t PROVE \E f : IsUpTo(f, t)
<1> DEFINE Steps(f, m) == f = [n \in 0 .. m |-> IF n = 0 THEN 0 ELSE 10 * f[n - 1] + Digit(t, n)]
           G == {m \in Nat : \E f : Steps(f, m)}
<1>1. 0 \in G
  <2>1. Steps([n \in 0 .. 0 |-> 0], 0)
    OBVIOUS
  <2> QED BY <2>1
<1>2. ASSUME NEW m \in Nat, m \in G PROVE m + 1 \in G
  <2>1. PICK f : Steps(f, m)
    BY <1>2
  <2> DEFINE g == [n \in 0 .. m + 1 |-> IF n = m + 1 THEN 10 * f[m] + Digit(t, n) ELSE f[n]]
  <2>2. \A n \in 0 .. m : f[n] = IF n = 0 THEN 0 ELSE 10 * f[n - 1] + Digit(t, n)
    BY <2>1
  <2>3. \A n \in 0 .. m + 1 : g[n] = IF n = 0 THEN 0 ELSE 10 * g[n - 1] + Digit(t, n)
    <3> SUFFICES ASSUME NEW n \in 0 .. m + 1
                 PROVE  g[n] = IF n = 0 THEN 0 ELSE 10 * g[n - 1] + Digit(t, n)
      OBVIOUS
    <3>1. CASE n = m + 1
      BY <3>1
    <3>2. CASE n # m + 1
      <4>1. n \in 0 .. m /\ g[n] = f[n] /\ (n # 0 => n - 1 \in 0 .. m + 1 /\ n - 1 # m + 1 /\ g[n - 1] = f[n - 1])
        BY <3>2
      <4> QED BY <2>2, <4>1
    <3> QED BY <3>1, <3>2
  <2>4. g = [n \in 0 .. m + 1 |-> g[n]]
    OBVIOUS
  <2>5. Steps(g, m + 1)
    <3> HIDE DEF g
    <3>1. [n \in 0 .. m + 1 |-> g[n]]
            = [n \in 0 .. m + 1 |-> IF n = 0 THEN 0 ELSE 10 * g[n - 1] + Digit(t, n)]
      BY <2>3
    <3> DEFINE h == [n \in 0 .. m + 1 |-> IF n = 0 THEN 0 ELSE 10 * g[n - 1] + Digit(t, n)]
    <3>2. g = h
      <4> HIDE DEF h
      <4>1. [n \in 0 .. m + 1 |-> g[n]] = h
        BY <3>1 DEF h
      <4> QED BY <2>4, <4>1, Zenon
    <3> QED BY <3>2
  <2> HIDE DEF g
  <2>6. \E h : Steps(h, m + 1)
    <3> HIDE DEF Steps
    <3> QED BY <2>5
  <2> QED BY <2>6
<1>3. Places \in G
  <2> HIDE DEF G
  <2> QED BY <1>1, <1>2, NaturalsBySteps, PlacesAreMany
<1> QED BY <1>3 DEF IsUpTo

LEMMA InstantIsCounted == ASSUME NEW t PROVE \E f : IsUpTo(f, t) /\ InstantOf(t) = f[Places]
<1> DEFINE f == CHOOSE g : IsUpTo(g, t)
<1>1. IsUpTo(f, t)
  BY UpToExists
<1>2. InstantOf(t) = f[Places]
  BY DEF InstantOf, IsUpTo, Places
<1> QED BY <1>1, <1>2

LEMMA CountedDigits ==
  ASSUME NEW t \in Stamps, NEW f, IsUpTo(f, t)
  PROVE  /\ f[0] = 0 /\ \A n \in 0 .. Places : f[n] \in Nat
         /\ \A n \in Nat : n + 1 <= Places => f[n + 1] = 10 * f[n] + t[n + 1]
<1>1. f[0] = 0
  BY PlacesAreMany DEF IsUpTo
<1>2. \A n \in Nat : n + 1 <= Places => f[n + 1] = 10 * f[n] + t[n + 1] /\ t[n + 1] \in Nat
  <2> SUFFICES ASSUME NEW n \in Nat, n + 1 <= Places
               PROVE  f[n + 1] = 10 * f[n] + t[n + 1] /\ t[n + 1] \in Nat
    OBVIOUS
  <2>1. n + 1 \in 0 .. Places /\ n + 1 # 0 /\ (n + 1) - 1 = n /\ n + 1 \in 1 .. Places
    BY PlacesAreMany
  <2>2. Digit(t, n + 1) = t[n + 1] /\ t[n + 1] \in Nat
    BY <2>1 DEF Digit, Stamps
  <2>3. f[n + 1] = 10 * f[(n + 1) - 1] + Digit(t, n + 1)
    BY <2>1 DEF IsUpTo
  <2> QED BY <2>1, <2>2, <2>3
<1> DEFINE G == {n \in Nat : n <= Places => f[n] \in Nat}
<1>3. 0 \in G
  BY <1>1
<1>4. ASSUME NEW n \in Nat, n \in G PROVE n + 1 \in G
  BY <1>2, <1>4, PlacesAreMany
<1>5. Nat \subseteq G
  <2> HIDE DEF G
  <2> QED BY <1>3, <1>4, NaturalsBySteps
<1> QED BY <1>1, <1>2, <1>5, PlacesAreMany

\* The first n places of two times agree, or differ first in favour of t.
Agree(s, t, n) == \A j \in 1 .. n : s[j] = t[j]
Sooner(s, t, n) == \E i \in 1 .. n : Agree(s, t, i - 1) /\ s[i] < t[i]

LEMMA OnePlaceMore ==
  ASSUME NEW s \in Stamps, NEW t \in Stamps, NEW n \in Nat, n + 1 <= Places
  PROVE  /\ Agree(s, t, n + 1) <=> Agree(s, t, n) /\ s[n + 1] = t[n + 1]
         /\ Sooner(s, t, n + 1) <=> Sooner(s, t, n) \/ (Agree(s, t, n) /\ s[n + 1] < t[n + 1])
<1>1. 1 .. n + 1 = (1 .. n) \cup {n + 1} /\ (n + 1) - 1 = n
  OBVIOUS
<1> QED BY <1>1 DEF Agree, Sooner

\* Place by place, the counts of two times compare as their digits do.
LEMMA CountsCompare ==
  ASSUME NEW s \in Stamps, NEW t \in Stamps, NEW f, NEW g, IsUpTo(f, s), IsUpTo(g, t)
  PROVE  /\ Agree(s, t, Places) => f[Places] = g[Places]
         /\ Sooner(s, t, Places) => f[Places] < g[Places]
         /\ Sooner(t, s, Places) => g[Places] < f[Places]
         /\ Agree(s, t, Places) \/ Sooner(s, t, Places) \/ Sooner(t, s, Places)
<1> DEFINE P(n) == /\ Agree(s, t, n) => f[n] = g[n]
                   /\ Sooner(s, t, n) => f[n] < g[n]
                   /\ Sooner(t, s, n) => g[n] < f[n]
                   /\ Agree(s, t, n) \/ Sooner(s, t, n) \/ Sooner(t, s, n)
           G == {n \in Nat : n <= Places => P(n)}
<1>1. 0 \in G
  BY CountedDigits, PlacesAreMany DEF Agree, Sooner
<1>2. ASSUME NEW n \in Nat, n \in G PROVE n + 1 \in G
  <2> SUFFICES ASSUME n + 1 <= Places PROVE P(n + 1)
    OBVIOUS
  <2>1. P(n) /\ n \in 0 .. Places
    BY <1>2, PlacesAreMany
  <2>2. /\ f[n + 1] = 10 * f[n] + s[n + 1] /\ g[n + 1] = 10 * g[n] + t[n + 1]
        /\ f[n] \in Nat /\ g[n] \in Nat
    BY <2>1, CountedDigits
  <2>3. s[n + 1] \in Nat /\ t[n + 1] \in Nat
    BY PlacesAreMany DEF Stamps
  <2>4. n >= 1 => s[n + 1] <= 9 /\ t[n + 1] <= 9
    <3>1. n >= 1 => n + 1 \in 2 .. Places
      BY PlacesAreMany
    <3> QED BY <3>1 DEF Stamps
  <2>5. Sooner(s, t, n) \/ Sooner(t, s, n) => n >= 1
    BY DEF Sooner
  <2>6. /\ Agree(s, t, n + 1) <=> Agree(s, t, n) /\ s[n + 1] = t[n + 1]
        /\ Sooner(s, t, n + 1) <=> Sooner(s, t, n) \/ (Agree(s, t, n) /\ s[n + 1] < t[n + 1])
        /\ Sooner(t, s, n + 1) <=> Sooner(t, s, n) \/ (Agree(s, t, n) /\ t[n + 1] < s[n + 1])
    <3>1. Agree(s, t, n) <=> Agree(t, s, n)
      BY DEF Agree
    <3> QED BY <3>1, OnePlaceMore
  <2> QED BY <2>1, <2>2, <2>3, <2>4, <2>5, <2>6
<1>3. Places \in G
  <2> HIDE DEF G
  <2> QED BY <1>1, <1>2, NaturalsBySteps, PlacesAreMany
<1> QED BY <1>3, PlacesAreMany

\* Normalized times compare as texts the way their instants do, and name each
\* instant in one way.
LEMMA StampsCompare ==
  ASSUME NEW s \in Stamps, NEW t \in Stamps
  PROVE  /\ InstantOf(s) \in Nat /\ InstantOf(t) \in Nat
         /\ Before(s, t) <=> InstantOf(s) < InstantOf(t)
         /\ InstantOf(s) = InstantOf(t) => s = t
<1>1. PICK f, g : IsUpTo(f, s) /\ InstantOf(s) = f[Places] /\ IsUpTo(g, t) /\ InstantOf(t) = g[Places]
  BY InstantIsCounted
<1>2. f[Places] \in Nat /\ g[Places] \in Nat
  BY <1>1, CountedDigits, PlacesAreMany
<1>3. Before(s, t) <=> Sooner(s, t, Places)
  <2>1. DOMAIN s = 1 .. Places /\ DOMAIN t = 1 .. Places
    BY DEF Stamps
  <2>2. \A i \in 1 .. Places : \A j \in 1 .. i - 1 : j \in 1 .. Places
    BY PlacesAreMany
  <2> QED BY <2>1, <2>2 DEF Before, Sooner, Agree
<1>4. Agree(s, t, Places) => s = t
  <2> SUFFICES ASSUME \A j \in 1 .. Places : s[j] = t[j] PROVE s = t
    BY DEF Agree
  <2>1. s = [j \in 1 .. Places |-> s[j]] /\ t = [j \in 1 .. Places |-> t[j]]
    BY DEF Stamps
  <2>2. [j \in 1 .. Places |-> s[j]] = [j \in 1 .. Places |-> t[j]]
    OBVIOUS
  <2> QED BY <2>1, <2>2, Zenon
<1> QED BY <1>1, <1>2, <1>3, <1>4, CountsCompare

-----------------------------------------------------------------------------
(***************************************************************************)
(* The projection.  Of the events folded into an entitlement, the one it   *)
(* holds is among the newest, and it is flagged exactly when it is not     *)
(* alone: a step looks at that one event only, so this is inductive, and   *)
(* what is true of the whole of Folded(o) follows.                         *)
(***************************************************************************)
ProjectionOK(o) ==
  /\ Entitled(o) <=> Folded(o) # {}
  /\ \A f \in Folded(o) : f.sku = SkuOf[o]
  /\ Entitled(o) =>
       LET top == entitlement[o].event IN
       /\ top \in Folded(o) /\ \A f \in Folded(o) : Instant[f] <= Instant[top]
       /\ entitlement[o].needsReconciliation <=> \E f \in Folded(o) : f # top /\ Instant[f] = Instant[top]
ProjectionInv == \A o \in Orders : ProjectionOK(o)
SubscriptionInv == Inv /\ SubscriptionTypeOK /\ ProjectionInv


\* An event is a webhook with its times normalized.
LEMMA EventIsNormal ==
  ASSUME NEW w \in Webhooks, Valid(w)
  PROVE  LET e == Normalized(w) IN
         /\ e \in Events /\ e.order \in Orders /\ e.order = w.order /\ e.sku = w.sku /\ e.at \in Stamps
         /\ e.current.expiresAt = NoExpiry \/ e.current.expiresAt \in Stamps
         /\ e = [id |-> e.id, order |-> e.order, sku |-> e.sku, at |-> e.at, current |-> e.current]
         /\ e.current = [status |-> e.current.status, accessGranted |-> e.current.accessGranted,
                         expiresAt |-> e.current.expiresAt]
<1> DEFINE e == Normalized(w)
           expiry == w.current.expiresAt
           snapshot == [w.current EXCEPT !.expiresAt = IF expiry = NoExpiry THEN expiry ELSE NormalizedTimestamp(expiry)]
<1>1. w \in WebhookRecords /\ w.current \in Snapshots /\ w.at \in Seq(Nat) /\ expiry \in Seq(Nat)
  BY WebhooksAssumption DEF WebhookRecords, Snapshots
<1>2. e = [w EXCEPT !.at = NormalizedTimestamp(w.at), !.current = snapshot]
  BY <1>1 DEF Normalized, WebhookRecords, Snapshots
<1>3. /\ e = [id |-> w.id, order |-> w.order, sku |-> w.sku, at |-> NormalizedTimestamp(w.at), current |-> snapshot]
      /\ snapshot = [status |-> w.current.status, accessGranted |-> w.current.accessGranted,
                     expiresAt |-> IF expiry = NoExpiry THEN expiry ELSE NormalizedTimestamp(expiry)]
  BY <1>1, <1>2 DEF WebhookRecords, Snapshots
<1>4. NormalizedTimestamp(w.at) \in Stamps /\ (expiry = NoExpiry \/ NormalizedTimestamp(expiry) \in Stamps)
  BY <1>1, WebhooksAssumption, NormalizedIsStamp DEF Valid
<1>5. e \in Events /\ w.order \in Orders
  BY <1>1 DEF Events, WebhookRecords
<1> HIDE DEF e, snapshot
<1>6. /\ e.at \in Stamps /\ e.order = w.order /\ e.sku = w.sku
      /\ e.current.expiresAt = NoExpiry \/ e.current.expiresAt \in Stamps
      /\ e = [id |-> e.id, order |-> e.order, sku |-> e.sku, at |-> e.at, current |-> e.current]
      /\ e.current = [status |-> e.current.status, accessGranted |-> e.current.accessGranted,
                      expiresAt |-> e.current.expiresAt]
  BY <1>3, <1>4
<1> QED BY <1>5, <1>6 DEF e

LEMMA EventFields ==
  ASSUME NEW e \in Events
  PROVE  /\ e.order \in Orders /\ e.at \in Stamps /\ Instant[e] = InstantOf(e.at) /\ Instant[e] \in Nat
         /\ e.current.expiresAt = NoExpiry \/ e.current.expiresAt \in Stamps
         /\ e = [id |-> e.id, order |-> e.order, sku |-> e.sku, at |-> e.at, current |-> e.current]
         /\ e.current = [status |-> e.current.status, accessGranted |-> e.current.accessGranted,
                         expiresAt |-> e.current.expiresAt]
<1>1. PICK w \in Webhooks : Valid(w) /\ e = Normalized(w)
  BY DEF Events
<1>2. e.at \in Stamps /\ Instant[e] = InstantOf(e.at)
  BY <1>1, EventIsNormal DEF Instant
<1>3. Instant[e] \in Nat
  BY <1>2, StampsCompare
<1> QED BY <1>1, <1>2, <1>3, EventIsNormal

\* Of two events of one instant, a comparison of their times finds them equal.
LEMMA EventsCompare ==
  ASSUME NEW e \in Events, NEW f \in Events
  PROVE  /\ Before(e.at, f.at) <=> Instant[e] < Instant[f]
         /\ e.at = f.at <=> Instant[e] = Instant[f]
<1>1. /\ e.at \in Stamps /\ f.at \in Stamps
      /\ Instant[e] = InstantOf(e.at) /\ Instant[f] = InstantOf(f.at)
  BY EventFields
<1>2. /\ Before(e.at, f.at) <=> InstantOf(e.at) < InstantOf(f.at)
      /\ InstantOf(e.at) = InstantOf(f.at) => e.at = f.at
  BY <1>1, StampsCompare
<1> QED BY <1>1, <1>2

\* Different events report different facts.
LEMMA FactsDiffer ==
  ASSUME NEW e \in Events, NEW f \in Events, Fact[e] = Fact[f]
  PROVE  e = f
<1> DEFINE Expires(x) == IF x.current.expiresAt = NoExpiry THEN {} ELSE {InstantOf(x.current.expiresAt)}
           Reported(x) == [id |-> x.id, order |-> x.order, sku |-> x.sku, at |-> Instant[x],
                           status |-> x.current.status, accessGranted |-> x.current.accessGranted,
                           expires |-> Expires(x)]
<1>1. Fact[e] = Reported(e) /\ Fact[f] = Reported(f)
  BY DEF Fact
<1> HIDE DEF Expires
<1>2. /\ e.id = f.id /\ e.order = f.order /\ e.sku = f.sku /\ Instant[e] = Instant[f]
      /\ e.current.status = f.current.status /\ e.current.accessGranted = f.current.accessGranted
      /\ Expires(e) = Expires(f)
  <2>1. \A x : /\ Reported(x).id = x.id /\ Reported(x).order = x.order /\ Reported(x).sku = x.sku
               /\ Reported(x).at = Instant[x] /\ Reported(x).status = x.current.status
               /\ Reported(x).accessGranted = x.current.accessGranted /\ Reported(x).expires = Expires(x)
    OBVIOUS
  <2>2. Reported(e) = Reported(f)
    BY <1>1
  <2> HIDE DEF Reported
  <2> QED BY <2>1, <2>2
<1>3. e.at = f.at
  BY <1>2, EventsCompare
<1>4. e.current.expiresAt = f.current.expiresAt
  <2>1. CASE e.current.expiresAt = NoExpiry \/ f.current.expiresAt = NoExpiry
    BY <1>2, <2>1 DEF Expires
  <2>2. CASE e.current.expiresAt # NoExpiry /\ f.current.expiresAt # NoExpiry
    <3>1. e.current.expiresAt \in Stamps /\ f.current.expiresAt \in Stamps
      BY <2>2, EventFields
    <3>2. InstantOf(e.current.expiresAt) = InstantOf(f.current.expiresAt)
      BY <1>2, <2>2 DEF Expires
    <3> QED BY <3>1, <3>2, StampsCompare
  <2> QED BY <2>1, <2>2
<1>5. e.current = f.current
  BY <1>2, <1>4, EventFields
<1> QED BY <1>2, <1>3, <1>5, EventFields

LEMMA SubscriptionInit_Inv == SubscriptionInit => SubscriptionInv
<1> SUFFICES ASSUME SubscriptionInit PROVE SubscriptionInv
  OBVIOUS
<1>1. Inv
  BY InitInv DEF SubscriptionInit
<1>2. SubscriptionTypeOK
  BY DEF SubscriptionInit, SubscriptionTypeOK, Dispositions
<1>3. \A o \in Orders : ~Entitled(o) /\ Folded(o) = {}
  BY DEF SubscriptionInit, Entitled, Folded, Processed
<1> QED BY <1>1, <1>2, <1>3 DEF SubscriptionInv, ProjectionInv, ProjectionOK

\* Steps of the order ledger leave the projection alone.
LEMMA ProjectionLeftAlone ==
  ASSUME SubscriptionTypeOK, ProjectionInv, UNCHANGED projectionVars
  PROVE  SubscriptionTypeOK' /\ ProjectionInv'
BY DEF projectionVars, SubscriptionTypeOK, ProjectionInv, ProjectionOK, Entitled, Folded, Processed

\* An event that waits for its order changes what is stored, not what is folded.
LEMMA WaitingKeepsProjection ==
  ASSUME SubscriptionTypeOK, ProjectionInv, NEW e \in Events, ~Duplicate(e),
         inbox' = [inbox EXCEPT ![e] = "RECEIVED"], UNCHANGED entitlement
  PROVE  SubscriptionTypeOK' /\ ProjectionInv'
<1>1. SubscriptionTypeOK'
  BY DEF SubscriptionTypeOK, Dispositions
<1>2. \A f \in Events : Processed(f)' <=> Processed(f)
  BY DEF SubscriptionTypeOK, Duplicate, Processed
<1>3. \A o : Folded(o)' = Folded(o) /\ (Entitled(o)' <=> Entitled(o))
  BY <1>2 DEF Folded, Entitled
<1> QED BY <1>1, <1>3 DEF ProjectionInv, ProjectionOK

\* An event that is folded in is compared with the newest, and so with all.
LEMMA FoldingKeepsProjection ==
  ASSUME Inv, SubscriptionTypeOK, ProjectionInv, NEW e \in Events, ~Duplicate(e),
         VerifiedRow(order[e.order]), order[e.order].product = e.sku,
         inbox' = [inbox EXCEPT ![e] = Disposition(e)],
         entitlement' = [entitlement EXCEPT ![e.order] =
           CASE Disposition(e) = "APPLIED" -> [event |-> e, needsReconciliation |-> FALSE]
             [] Disposition(e) = "CONFLICT" -> [entitlement[e.order] EXCEPT !.needsReconciliation = TRUE]
             [] OTHER -> entitlement[e.order]]
  PROVE  SubscriptionTypeOK' /\ ProjectionInv'
<1> DEFINE o == e.order
           old == entitlement[o]
           top == old.event
           fresh == [event |-> e, needsReconciliation |-> FALSE]
           flagged == [old EXCEPT !.needsReconciliation = TRUE]
<1>1. o \in Orders /\ e.sku = SkuOf[o]
  BY EventFields DEF Inv, RowInv, RowOK, VerifiedRow, Exists
<1>2. Disposition(e) \in {"APPLIED", "STALE", "CONFLICT"}
  BY DEF Disposition
<1>3. e \notin Folded(o) /\ Folded(o)' = Folded(o) \cup {e}
  BY <1>2 DEF SubscriptionTypeOK, Folded, Processed, Duplicate
<1>4. ASSUME NEW p \in Orders, p # o PROVE Folded(p)' = Folded(p) /\ entitlement'[p] = entitlement[p]
  <2>1. Folded(p)' = Folded(p)
    BY <1>4 DEF SubscriptionTypeOK, Folded, Processed
  <2> QED BY <1>4, <2>1 DEF SubscriptionTypeOK
<1>5. /\ Disposition(e) = "APPLIED" => entitlement'[o] = fresh
      /\ Disposition(e) = "CONFLICT" => entitlement'[o] = flagged
      /\ Disposition(e) = "STALE" => entitlement'[o] = old
  BY <1>1, <1>2 DEF SubscriptionTypeOK
<1>6. /\ fresh \in Entitlements /\ fresh # Unentitled /\ fresh.event = e /\ ~fresh.needsReconciliation
      /\ \A x \in Entitlements : x # Unentitled
  BY DEF Entitlements, Unentitled
<1>7. Entitled(o) => /\ old \in Entitlements /\ top \in Events /\ flagged \in Entitlements
                     /\ flagged.event = top /\ flagged.needsReconciliation
  BY <1>1 DEF SubscriptionTypeOK, Entitled, Entitlements
<1>8. /\ Entitled(o) <=> Folded(o) # {}
      /\ \A f \in Folded(o) : f.sku = SkuOf[o]
      /\ Entitled(o) =>
           /\ top \in Folded(o) /\ \A f \in Folded(o) : Instant[f] <= Instant[top]
           /\ old.needsReconciliation <=> \E f \in Folded(o) : f # top /\ Instant[f] = Instant[top]
  BY <1>1 DEF ProjectionInv, ProjectionOK
<1>9. \A f \in Folded(o) \cup {e} : f \in Events /\ Instant[f] \in Nat
  BY EventFields DEF Folded
<1>10. Entitled(o) => /\ Before(e.at, top.at) <=> Instant[e] < Instant[top]
                      /\ top.at = e.at <=> Instant[e] = Instant[top]
  BY <1>7, EventsCompare
<1>11. entitlement'[o] \in Entitlements \cup {Unentitled}
  BY <1>1, <1>2, <1>5, <1>6, <1>7 DEF Disposition, SubscriptionTypeOK
<1> HIDE DEF fresh, flagged
<1>12. SubscriptionTypeOK'
  <2>1. inbox' \in [Events -> Dispositions]
    BY <1>2 DEF SubscriptionTypeOK, Dispositions
  <2>2. entitlement' \in [Orders -> Entitlements \cup {Unentitled}]
    BY <1>4, <1>11 DEF SubscriptionTypeOK
  <2> QED BY <2>1, <2>2 DEF SubscriptionTypeOK
<1>13. ASSUME NEW p \in Orders, p # o PROVE ProjectionOK(p)'
  BY <1>4, <1>13 DEF ProjectionInv, ProjectionOK, Entitled
<1>14. \A f \in Folded(o)' : f.sku = SkuOf[o]
  BY <1>1, <1>3, <1>8
<1>15. CASE Disposition(e) = "APPLIED"
  <2>1. entitlement'[o] = fresh /\ Entitled(o)'
    BY <1>5, <1>6, <1>15 DEF Entitled
  <2>2. \A f \in Folded(o) : Instant[f] < Instant[e]
    <3>1. CASE ~Entitled(o)
      BY <1>8, <3>1
    <3>2. CASE Entitled(o)
      <4>1. Instant[top] < Instant[e]
        BY <1>7, <1>8, <1>9, <1>10, <1>15, <3>2 DEF Disposition
      <4> QED BY <1>8, <1>9, <3>2, <4>1
    <3> QED BY <3>1, <3>2
  <2>3. /\ e \in Folded(o)' /\ \A f \in Folded(o)' : Instant[f] <= Instant[e]
        /\ ~\E f \in Folded(o)' : f # e /\ Instant[f] = Instant[e]
    BY <1>3, <1>9, <2>2
  <2>4. ProjectionOK(o)'
    BY <1>6, <1>14, <2>1, <2>3 DEF ProjectionOK
  <2> QED BY <1>12, <1>13, <2>4 DEF ProjectionInv
<1>16. CASE Disposition(e) = "STALE"
  <2>1. Entitled(o) /\ Instant[e] < Instant[top]
    BY <1>10, <1>16 DEF Disposition
  <2>2. entitlement'[o] = old /\ Entitled(o)'
    BY <1>5, <1>16, <2>1 DEF Entitled
  <2>3. /\ top \in Folded(o)' /\ \A f \in Folded(o)' : Instant[f] <= Instant[top]
        /\ (\E f \in Folded(o)' : f # top /\ Instant[f] = Instant[top])
             <=> \E f \in Folded(o) : f # top /\ Instant[f] = Instant[top]
    BY <1>3, <1>8, <1>9, <2>1
  <2>4. ProjectionOK(o)'
    BY <1>8, <1>14, <2>1, <2>2, <2>3 DEF ProjectionOK
  <2> QED BY <1>12, <1>13, <2>4 DEF ProjectionInv
<1>17. CASE Disposition(e) = "CONFLICT"
  <2>1. Entitled(o) /\ Instant[e] = Instant[top]
    BY <1>10, <1>17 DEF Disposition
  <2>2. entitlement'[o] = flagged /\ Entitled(o)'
    BY <1>5, <1>6, <1>7, <1>17, <2>1 DEF Entitled
  <2>3. /\ top \in Folded(o)' /\ \A f \in Folded(o)' : Instant[f] <= Instant[top]
        /\ \E f \in Folded(o)' : f # top /\ Instant[f] = Instant[top]
    BY <1>3, <1>8, <1>9, <2>1
  <2>4. ProjectionOK(o)'
    BY <1>7, <1>14, <2>1, <2>2, <2>3 DEF ProjectionOK
  <2> QED BY <1>12, <1>13, <2>4 DEF ProjectionInv
<1> QED BY <1>2, <1>15, <1>16, <1>17

LEMMA SubscriptionStep == SubscriptionInv /\ [SubscriptionNext]_subscriptionVars => SubscriptionInv'
<1> SUFFICES ASSUME SubscriptionInv, [SubscriptionNext]_subscriptionVars PROVE SubscriptionInv'
  OBVIOUS
<1> USE DEF SubscriptionInv
<1>1. CASE [OrderNext]_orderVars /\ UNCHANGED projectionVars
  BY <1>1, OrderStep, ProjectionLeftAlone
<1>2. ASSUME NEW w \in Webhooks, ApplyEvent(w) PROVE SubscriptionInv'
  <2> DEFINE e == Normalized(w)
  <2>1. e \in Events /\ ~Duplicate(e)
    BY <1>2, EventIsNormal DEF ApplyEvent
  <2>2. Inv'
    BY <1>2, OrderStep DEF ApplyEvent
  <2>3. CASE inbox' = [inbox EXCEPT ![e] = "RECEIVED"] /\ UNCHANGED entitlement
    BY <2>1, <2>2, <2>3, WaitingKeepsProjection
  <2>4. CASE VerifiedRow(order[e.order])
    <3>1. /\ order[e.order].product = e.sku
          /\ inbox' = [inbox EXCEPT ![e] = Disposition(e)]
          /\ entitlement' = [entitlement EXCEPT ![e.order] =
               CASE Disposition(e) = "APPLIED" -> [event |-> e, needsReconciliation |-> FALSE]
                 [] Disposition(e) = "CONFLICT" -> [entitlement[e.order] EXCEPT !.needsReconciliation = TRUE]
                 [] OTHER -> entitlement[e.order]]
      BY <1>2, <2>4 DEF ApplyEvent
    <3> HIDE DEF e
    <3> QED BY <2>1, <2>2, <2>4, <3>1, FoldingKeepsProjection
  <2> QED BY <1>2, <2>3, <2>4 DEF ApplyEvent
<1> QED BY <1>1, <1>2 DEF SubscriptionNext, ProcessWebhooks, subscriptionVars

\* The ledger's invariant and the projection's hold of every reachable state.
THEOREM SubscriptionInvariance == SubscriptionSpec => []SubscriptionInv
BY SubscriptionInit_Inv, SubscriptionStep, PTL DEF SubscriptionSpec

\* An entitlement is the newest fact of its order, flagged exactly when another
\* fact carries the same time.
THEOREM NewestAlwaysWins == SubscriptionSpec => []NewestWins
<1>1. SubscriptionInv => NewestWins
  <2> SUFFICES ASSUME SubscriptionInv, NEW o \in Orders
               PROVE  IF Newest(o) = {} THEN ~Entitled(o)
                      ELSE /\ Entitled(o) /\ entitlement[o].event \in Newest(o)
                           /\ entitlement[o].needsReconciliation <=>
                                \E e, f \in Newest(o) : Fact[e] # Fact[f]
    BY DEF NewestWins, SubscriptionInv
  <2> DEFINE top == entitlement[o].event
  <2>1. ProjectionOK(o)
    BY DEF SubscriptionInv, ProjectionInv
  <2>2. \A f \in Folded(o) : f \in Events /\ Instant[f] \in Nat
    BY EventFields DEF Folded
  <2>3. CASE ~Entitled(o)
    BY <2>1, <2>3 DEF ProjectionOK, Newest
  <2>4. CASE Entitled(o)
    <3>1. /\ top \in Folded(o) /\ \A f \in Folded(o) : Instant[f] <= Instant[top]
          /\ entitlement[o].needsReconciliation <=> \E f \in Folded(o) : f # top /\ Instant[f] = Instant[top]
      BY <2>1, <2>4 DEF ProjectionOK
    <3>2. \A f : f \in Newest(o) <=> f \in Folded(o) /\ Instant[f] = Instant[top]
      BY <2>2, <3>1 DEF Newest
    <3>3. top \in Newest(o)
      BY <3>1, <3>2
    <3>4. (\E f \in Folded(o) : f # top /\ Instant[f] = Instant[top])
            <=> \E e, f \in Newest(o) : Fact[e] # Fact[f]
      <4>1. ASSUME NEW f \in Folded(o), f # top, Instant[f] = Instant[top]
            PROVE  \E x, y \in Newest(o) : Fact[x] # Fact[y]
        <5>1. f \in Newest(o) /\ f \in Events /\ top \in Events
          BY <2>2, <3>1, <3>2, <4>1
        <5>2. Fact[f] # Fact[top]
          BY <4>1, <5>1, FactsDiffer
        <5> QED BY <3>3, <5>1, <5>2
      <4>2. ASSUME NEW x \in Newest(o), NEW y \in Newest(o), Fact[x] # Fact[y]
            PROVE  \E f \in Folded(o) : f # top /\ Instant[f] = Instant[top]
        <5>1. x # top \/ y # top
          BY <4>2
        <5> QED BY <3>2, <5>1
      <4> QED BY <4>1, <4>2
    <3> QED BY <2>4, <3>1, <3>3, <3>4
  <2> QED BY <2>3, <2>4
<1> QED BY <1>1, SubscriptionInvariance, PTL

\* Whoever gets access paid for the order, and no event of the newest time takes
\* it away.
THEOREM AccessIsAlwaysBacked == SubscriptionSpec => []AccessIsBacked
<1>1. SubscriptionInv => AccessIsBacked
  <2> SUFFICES ASSUME SubscriptionInv, NEW u \in Users, NEW o \in Orders, EntitledUser(u, o),
                      AccessAllowed(entitlement[o], << 0 >>)
               PROVE  /\ u = Payer[o] /\ payment[o] # "none"
                      /\ \A e \in Newest(o) : e.current.accessGranted /\ e.sku = SkuOf[o]
    BY DEF AccessIsBacked
  <2> DEFINE top == entitlement[o].event
  <2>1. u = Payer[o] /\ payment[o] # "none"
    BY DEF SubscriptionInv, Inv, RowInv, RowOK, EntitledUser, VerifiedRow, Exists
  <2>2. Entitled(o) /\ ~entitlement[o].needsReconciliation /\ top.current.accessGranted
    BY DEF EntitledUser, AccessAllowed
  <2>3. /\ top \in Folded(o) /\ \A f \in Folded(o) : Instant[f] <= Instant[top] /\ f.sku = SkuOf[o]
        /\ ~\E f \in Folded(o) : f # top /\ Instant[f] = Instant[top]
    BY <2>2 DEF SubscriptionInv, ProjectionInv, ProjectionOK
  <2>4. \A f \in Folded(o) : Instant[f] \in Nat
    BY EventFields DEF Folded
  <2>5. \A e \in Newest(o) : e = top /\ e \in Folded(o)
    BY <2>3, <2>4 DEF Newest
  <2> QED BY <2>1, <2>2, <2>3, <2>5
<1> QED BY <1>1, SubscriptionInvariance, PTL
=============================================================================
