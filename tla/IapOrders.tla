------------------------------ MODULE IapOrders ------------------------------
(***************************************************************************)
(* The in-app purchase order ledger of                                     *)
(* crates/trailbase-guest-common/src/iap_orders.rs.                        *)
(*                                                                         *)
(* A worker asks the provider for the status of an order on behalf of a    *)
(* user and upserts what it was told, any time later; the answer may be    *)
(* stale by then, and a failed lookup looks like a failed order.  The app  *)
(* grants the product and marks the grant in one transaction, then the SDK *)
(* completes the purchase and the completion is recorded.  The provider    *)
(* may refund at any moment after the payment.                             *)
(*                                                                         *)
(* Left out of the row: the texts kept for diagnostics and the stamps that *)
(* no statement reads (created, updated, failed, refunded).                *)
(***************************************************************************)
EXTENDS OperationPolicy, FiniteSets

CONSTANTS
  Orders, Users, Skus,
  Payer,       \* Payer[o]: the user whose account the provider charges for o
  SkuOf,       \* SkuOf[o]: the product o buys
  NoUser,      \* user_id of a row that does not exist
  Workers,     \* requests in progress, each with the answer of one lookup
  GrantIds,    \* grant_id values the app makes up
  NoGrant,     \* grant_id IS NULL
  MaxTime,     \* bound of the clock
  Skew,        \* how far a caller's `now` may lag
  Settings     \* the controls an operator may switch between

ASSUME ProviderAssumption == Payer \in [Orders -> Users] /\ SkuOf \in [Orders -> Skus]
ASSUME NullsAssumption == NoUser \notin Users /\ NoGrant \notin GrantIds
ASSUME ClockAssumption == MaxTime \in Nat /\ Skew \in Nat
ASSUME SettingsAssumption == Settings \subseteq Controls /\ Settings # {}

VARIABLES
  order,      \* order[o]: the row of iap_orders
  control,    \* operation controls of the Iap feature
  now,
  payment,    \* payment[o]: what the provider knows
  confirmed,  \* orders whose SDK completeProductGrant succeeded
  delivered,  \* delivered[o]: grants that changed the app's inventory
  held        \* held[w]: the answer worker w has and has not applied

orderVars == <<order, control, now, payment, confirmed, delivered, held>>

-----------------------------------------------------------------------------
Null == -1
Times == 0..MaxTime

\* Caller-supplied `now`: at most Skew behind the clock.
Clock == {t \in Times : t <= now /\ now - t <= Skew}

Statuses == {"FAILED", "GRANTED", "NOT_FOUND", "PENDING", "PENDING_GRANT", "REFUNDED", "UNKNOWN"}

\* Provider statuses, one spelling for each answer the ledger tells apart.
Words == {"PAYMENT_COMPLETED", "PURCHASED", "REFUNDED", "ERROR", "NOT_FOUND",
          "ORDER_IN_PROGRESS", ""}

IapLedgerStatus(word) ==
  CASE word = "PAYMENT_COMPLETED" -> "PENDING_GRANT"
    [] word = "PURCHASED" -> "GRANTED"
    [] word = "REFUNDED" -> "REFUNDED"
    [] word = "ERROR" -> "FAILED"
    [] word = "NOT_FOUND" -> "NOT_FOUND"
    [] word = "ORDER_IN_PROGRESS" -> "PENDING"
    [] OTHER -> "UNKNOWN"

\* A normalized lookup.  `product` is the returned SKU when the provider named
\* one, else the caller's; `identified` says it returned order ID and SKU.
Answers == [user : Users, order : Orders, product : Skus, ok : BOOLEAN,
            word : Words, identified : BOOLEAN]
Nothing == [ok |-> FALSE]

NewStatus(a) == IF a.ok THEN IapLedgerStatus(a.word) ELSE "FAILED"

Rows == [user : Users, product : Skus, status : Statuses, word : Words,
         grantId : GrantIds \cup {NoGrant},
         grantedAt : Times \cup {Null}, completedAt : Times \cup {Null}]
Absent == [user |-> NoUser]
Exists(o) == order[o] # Absent

\* The two allow-lists: states that prove a paid order and its owner.
VerifiedWords == {"PAYMENT_COMPLETED", "PURCHASED", "REFUNDED"}
VerifiedStatuses == {"PENDING_GRANT", "GRANTED", "REFUNDED"}

VerifiedRow(row) ==
  row # Absent /\ row.status \in VerifiedStatuses /\ row.word \in VerifiedWords

\* can_create_order.  Broken: the envelope's ok flag is not looked at.
PaidWordCreates(a) == a.word \in VerifiedWords /\ a.identified
CanCreate(a) ==
  /\ a.ok /\ a.identified
  /\ a.word \in VerifiedWords /\ NewStatus(a) \in VerifiedStatuses

\* The CASEs of the upsert: a grant yields to a refund only, a refund to nothing.
\* Broken: only a refund is kept; or a failure is final as well.
KeepsRefund(row, new) == row.status = "REFUNDED" /\ new # "REFUNDED"
KeepsFailure(row, new) == row.status \in {"FAILED", "GRANTED", "REFUNDED"} /\ new # "REFUNDED"
Keeps(row, new) == row.status \in {"GRANTED", "REFUNDED"} /\ new # "REFUNDED"

FirstRow(a, t) ==
  [user |-> a.user, product |-> a.product, status |-> NewStatus(a), word |-> a.word,
   grantId |-> NoGrant, grantedAt |-> Null,
   completedAt |-> IF NewStatus(a) = "GRANTED" THEN t ELSE Null]

AfterUpsert(row, a, t) ==
  LET new == NewStatus(a)
      seen == IF Keeps(row, new) THEN row
              ELSE [row EXCEPT !.status = new, !.word = a.word]
  IN IF row.status # "REFUNDED" /\ row.completedAt = Null /\ new = "GRANTED"
     THEN [seen EXCEPT !.completedAt = t]
     ELSE seen

\* Broken: granting stamps the completion too.
GrantedAndCompleted(row, g, t) ==
  [row EXCEPT !.status = "GRANTED",
              !.grantId = IF row.status = "GRANTED" /\ @ # NoGrant THEN @ ELSE g,
              !.grantedAt = IF @ = Null THEN t ELSE @,
              !.completedAt = IF @ = Null THEN t ELSE @]
AfterGrant(row, g, t) ==
  [row EXCEPT !.status = "GRANTED",
              !.grantId = IF row.status = "GRANTED" /\ @ # NoGrant THEN @ ELSE g,
              !.grantedAt = IF @ = Null THEN t ELSE @]

-----------------------------------------------------------------------------
OrderInit ==
  /\ order = [o \in Orders |-> Absent]
  /\ control \in Settings
  /\ now = 0
  /\ payment = [o \in Orders |-> "none"]
  /\ confirmed = {}
  /\ delivered = [o \in Orders |-> {}]
  /\ held = [w \in Workers |-> Nothing]

\* The payment provider and the SDK.  The app confirms a purchase to the SDK
\* only once its backend reports the grant.
Pay(o) ==
  /\ payment[o] = "none"
  /\ payment' = [payment EXCEPT ![o] = "paid"]
  /\ UNCHANGED <<order, control, now, confirmed, delivered, held>>

CompleteProductGrant(o) ==
  /\ payment[o] = "paid"
  /\ Exists(o) /\ order[o].status = "GRANTED" /\ order[o].grantedAt # Null
  /\ payment' = [payment EXCEPT ![o] = "completed"]
  /\ confirmed' = confirmed \cup {o}
  /\ UNCHANGED <<order, control, now, delivered, held>>

Refund(o) ==
  /\ payment[o] \in {"paid", "completed"}
  /\ payment' = [payment EXCEPT ![o] = "refunded"]
  /\ UNCHANGED <<order, control, now, confirmed, delivered, held>>

\* What the status endpoint may say of o to u.  Any lookup may fail on the way,
\* and a failed one may still quote a paid status.
Verdicts(u, o) ==
  {<<FALSE, "ERROR">>} \cup
  (IF u # Payer[o] THEN {<<TRUE, "NOT_FOUND">>, <<FALSE, "PURCHASED">>}
   ELSE CASE payment[o] = "none" -> {<<TRUE, "NOT_FOUND">>, <<TRUE, "ORDER_IN_PROGRESS">>, <<TRUE, "">>}
          [] payment[o] = "paid" -> {<<TRUE, "PAYMENT_COMPLETED">>, <<TRUE, "ORDER_IN_PROGRESS">>}
          [] payment[o] = "completed" -> {<<TRUE, "PURCHASED">>, <<FALSE, "PURCHASED">>}
          [] payment[o] = "refunded" -> {<<TRUE, "REFUNDED">>})

\* A request names a user (its own), an order and a product; the provider's
\* SKU replaces the product when the answer carries it.
Lookup(w, u, o, sku) ==
  /\ held[w] = Nothing
  /\ \E v \in Verdicts(u, o), identified \in BOOLEAN :
       /\ identified => v[2] \in VerifiedWords
       /\ held' = [held EXCEPT ![w] =
            [user |-> u, order |-> o, ok |-> v[1], word |-> v[2],
             identified |-> identified,
             product |-> IF identified THEN SkuOf[o] ELSE sku]]
  /\ UNCHANGED <<order, control, now, payment, confirmed, delivered>>

\* upsert_iap_order_status_tx.  Nothing is written, and the caller gets
\* UNVERIFIED_IAP_ORDER, when neither a proven order nor a row of the same
\* owner and product is there; a provider status is required.
Upsert(w) ==
  LET a == held[w] IN
  /\ a # Nothing
  /\ held' = [held EXCEPT ![w] = Nothing]
  /\ LET o == a.order
         mine == Exists(o) /\ order[o].user = a.user /\ order[o].product = a.product
     IN \/ /\ a.word # "" /\ CanCreate(a) /\ ~Exists(o)
           /\ \E t \in Clock : order' = [order EXCEPT ![o] = FirstRow(a, t)]
        \/ /\ a.word # "" /\ mine
           /\ \E t \in Clock : order' = [order EXCEPT ![o] = AfterUpsert(@, a, t)]
        \/ /\ a.word = "" \/ (~mine /\ (~CanCreate(a) \/ Exists(o)))
           /\ UNCHANGED order
  /\ UNCHANGED <<control, now, payment, confirmed, delivered>>

\* The app's grant transaction around mark_iap_order_granted_tx: the inventory
\* is changed for an order that needs its grant, and not for a replay.
MarkGranted(o, g) ==
  /\ EnforceConfigured(control, "Iap", "Settlement", now)
  /\ Exists(o) /\ order[o].status \in {"PENDING_GRANT", "GRANTED"}
  /\ \E t \in Clock : order' = [order EXCEPT ![o] = AfterGrant(@, g, t)]
  /\ delivered' = [delivered EXCEPT ![o] =
       IF order[o].status = "PENDING_GRANT" THEN @ \cup {g} ELSE @]
  /\ UNCHANGED <<control, now, payment, confirmed, held>>

\* mark_iap_order_completed_tx, called after the SDK confirmed.  A caller whose
\* clock is behind the grant is refused.
MarkCompleted(o) ==
  /\ o \in confirmed
  /\ Exists(o) /\ order[o].status = "GRANTED" /\ order[o].grantedAt # Null
  /\ \E t \in Clock :
       /\ order[o].grantedAt <= t
       /\ order' = [order EXCEPT ![o].completedAt = IF @ = Null THEN t ELSE @]
  /\ UNCHANGED <<control, now, payment, confirmed, delivered, held>>

SetControl ==
  /\ control' \in Settings \ {control}
  /\ UNCHANGED <<order, now, payment, confirmed, delivered, held>>

Tick ==
  /\ now < MaxTime
  /\ now' = now + 1
  /\ UNCHANGED <<order, control, payment, confirmed, delivered, held>>

OrderNext ==
  \/ \E o \in Orders : Pay(o) \/ CompleteProductGrant(o) \/ Refund(o) \/ MarkCompleted(o)
  \/ \E w \in Workers, u \in Users, o \in Orders, sku \in Skus : Lookup(w, u, o, sku)
  \/ \E w \in Workers : Upsert(w)
  \/ \E o \in Orders, g \in GrantIds : MarkGranted(o, g)
  \/ SetControl \/ Tick

OrderSpec == OrderInit /\ [][OrderNext]_orderVars

-----------------------------------------------------------------------------
\* Every reachable ledger, clock and answer is well formed.
OrderTypeOK ==
  /\ order \in [Orders -> Rows \cup {Absent}]
  /\ control \in Settings
  /\ now \in Times
  /\ payment \in [Orders -> {"none", "paid", "completed", "refunded"}]
  /\ confirmed \subseteq Orders
  /\ delivered \in [Orders -> SUBSET GrantIds]
  /\ held \in [Workers -> Answers \cup {Nothing}]

\* Whatever stale, failed or repeated lookups are applied between the grants, a
\* paid order changes the inventory at most once, and the row names that grant.
DeliveredIsMarked ==
  \A o \in Orders :
    delivered[o] = IF Exists(o) /\ order[o].grantedAt # Null THEN {order[o].grantId} ELSE {}

\* No row says GRANTED of an order whose product was not delivered: GRANTED
\* asks for completion only, so nobody would deliver it later.
GrantedIsDelivered ==
  \A o \in Orders : Exists(o) /\ order[o].status = "GRANTED" => delivered[o] # {}

\* An order is recorded for the user who paid and the product that was bought,
\* however others look it up and whatever failed lookups say.
OnlyThePayer ==
  \A o \in Orders : Exists(o) =>
    order[o].user = Payer[o] /\ order[o].product = SkuOf[o] /\ payment[o] # "none"

\* completed_at is set only of purchases the provider completed, after the
\* product was delivered; it tells recovery that nothing is left to do.
CompletionIsReal ==
  \A o \in Orders : Exists(o) /\ order[o].completedAt # Null =>
    o \in confirmed /\ delivered[o] # {}

\* What the ledger says of the inventory is true, whatever order the answers,
\* grants and completions are applied in.
DeliveryIsRecorded ==
  OrderTypeOK /\ DeliveredIsMarked /\ GrantedIsDelivered /\ CompletionIsReal

\* A refund is final and a grant yields only to a refund; the first grant and
\* completion times are never moved.
KeepsOrderFacts(row, new) ==
  /\ row.status = "REFUNDED" => new.status = "REFUNDED"
  /\ row.status = "GRANTED" => new.status \in {"GRANTED", "REFUNDED"}
  /\ row.grantedAt # Null => new.grantedAt = row.grantedAt /\ new.grantId = row.grantId
  /\ row.completedAt # Null => new.completedAt = row.completedAt
OrderFactsAreKept ==
  [][\A o \in Orders : Exists(o) => KeepsOrderFacts(order[o], order'[o])]_orderVars

-----------------------------------------------------------------------------
\* Fairness of an app that keeps restoring its orders: what was answered gets
\* applied, lookups by the payer are answered by the provider again and again,
\* and an order seen to need its grant again and again is granted.
Answered(o) ==
  \E w \in Workers : Lookup(w, Payer[o], o, SkuOf[o]) /\ held'[w].identified
RestoreFairness ==
  /\ \A w \in Workers : WF_orderVars(Upsert(w))
  /\ \A o \in Orders : /\ SF_orderVars(Answered(o))
                       /\ SF_orderVars(\E g \in GrantIds : MarkGranted(o, g))
FairOrderSpec == OrderSpec /\ RestoreFairness

\* A paid order is delivered or refunded in the end, once settlement stays open:
\* no failed or stale lookup leaves it where the grant can no longer happen.
PaidIsDelivered ==
  <>[]EnforceConfigured(control, "Iap", "Settlement", now) =>
    \A o \in Orders : payment[o] = "paid" ~> delivered[o] # {} \/ payment[o] = "refunded"
=============================================================================
