-------------------------- MODULE IapSubscriptions --------------------------
(***************************************************************************)
(* The subscription projection of                                          *)
(* crates/trailbase-guest-common/src/iap_subscriptions.rs over the order   *)
(* ledger of IapOrders.                                                    *)
(*                                                                         *)
(* The provider posts one webhook per status change, in any order, more    *)
(* than once, and possibly before the order was looked up.  An event is    *)
(* kept in an inbox and folded into the entitlement of its order once the  *)
(* order is verified.                                                      *)
(*                                                                         *)
(* A provider-local time is a sequence: the second, then the digits of its *)
(* fraction, as many as the provider chose to write.  Webhooks are kept    *)
(* and compared with every fraction padded to the same length, so equal    *)
(* records stand for equal digests.  A registration callback changes       *)
(* nothing and is left out.                                                *)
(***************************************************************************)
EXTENDS IapOrders, Sequences

CONSTANTS
  Webhooks,        \* the status events the provider may send
  FractionDigits,  \* the digits of a normalized fraction
  NoEvent          \* event_id of an order without an entitlement

SubscriptionStatuses ==
  {"ACTIVE", "EXPIRED", "IN_GRACE_PERIOD", "ON_HOLD", "PAUSED", "REVOKED"}
NoExpiry == <<>>
Snapshots ==
  [status : SubscriptionStatuses, accessGranted : BOOLEAN, expiresAt : Seq(Nat)]

\* SubscriptionStatusEvent: id stands for its reason and its previous snapshot.
WebhookRecords == [id : Nat, order : Orders, sku : Skus, at : Seq(Nat), current : Snapshots]

\* What a provider writes after the second are decimal digits.
HasDigits(t) == \A i \in 2 .. Len(t) : t[i] <= 9

ASSUME WebhooksAssumption ==
  /\ FractionDigits \in Nat
  /\ Webhooks \subseteq WebhookRecords /\ NoEvent \notin WebhookRecords
  /\ \A w \in Webhooks : HasDigits(w.at) /\ HasDigits(w.current.expiresAt)

-----------------------------------------------------------------------------
\* normalize_provider_local_timestamp: a longer fraction is refused, a shorter
\* one padded with zeros.
ValidTimestamp(t) == Len(t) \in 1 .. 1 + FractionDigits
NormalizedTimestamp(t) ==
  [i \in 1 .. 1 + FractionDigits |-> IF i <= Len(t) THEN t[i] ELSE 0]

\* The order of the stored texts, where a prefix comes first.
Before(s, t) ==
  \E i \in DOMAIN t :
    /\ \A j \in 1 .. i - 1 : j \in DOMAIN s /\ s[j] = t[j]
    /\ i \in DOMAIN s => s[i] < t[i]

\* normalize_event.  Broken: the text is kept as it was sent.
AsSent(w) == w
Valid(w) ==
  ValidTimestamp(w.at) /\ (w.current.expiresAt = NoExpiry \/ ValidTimestamp(w.current.expiresAt))
Normalized(w) ==
  [w EXCEPT !.at = NormalizedTimestamp(@),
            !.current.expiresAt = IF @ = NoExpiry THEN @ ELSE NormalizedTimestamp(@)]
Events == {Normalized(w) : w \in {v \in Webhooks : Valid(v)}}

VARIABLES
  inbox,        \* inbox[e]: disposition in iap_subscription_events, "none" without a row
  entitlement   \* entitlement[o]: the row of iap_subscription_entitlements

projectionVars == <<inbox, entitlement>>
subscriptionVars == <<orderVars, projectionVars>>

-----------------------------------------------------------------------------
Dispositions == {"none", "RECEIVED", "APPLIED", "STALE", "CONFLICT"}
Entitlements == [event : Events, needsReconciliation : BOOLEAN]
Unentitled == [event |-> NoEvent]
Entitled(o) == entitlement[o] # Unentitled

\* A stored event is processed again only while it waits for its order.
\* Broken: any stored event counts as a duplicate.
Stored(e) == inbox[e] # "none"
Duplicate(e) == inbox[e] \notin {"none", "RECEIVED"}

\* What the event is to the newest one folded in so far.  Broken: of two events
\* with the same time the later delivery wins.
LastDelivered(e) ==
  IF Entitled(e.order) /\ Before(e.at, entitlement[e.order].event.at) THEN "STALE" ELSE "APPLIED"
Disposition(e) ==
  IF ~Entitled(e.order) THEN "APPLIED"
  ELSE IF Before(e.at, entitlement[e.order].event.at) THEN "STALE"
  ELSE IF entitlement[e.order].event.at = e.at THEN "CONFLICT"
  ELSE "APPLIED"

\* subscription_entitlement_for_user_tx finds a row.
EntitledUser(u, o) == Entitled(o) /\ VerifiedRow(order[o]) /\ order[o].user = u

\* subscription_access_allowed.  In the grace period the paid term may be over.
\* Broken: an unresolved conflict is let through.
ConflictsIgnored(row, localNow) ==
  LET s == row.event.current
  IN /\ s.accessGranted
     /\ \/ s.status = "IN_GRACE_PERIOD"
        \/ s.status = "ACTIVE" /\ (s.expiresAt = NoExpiry \/ Before(NormalizedTimestamp(localNow), s.expiresAt))
AccessAllowed(row, localNow) ==
  LET s == row.event.current
  IN /\ ~row.needsReconciliation
     /\ s.accessGranted
     /\ \/ s.status = "IN_GRACE_PERIOD"
        \/ s.status = "ACTIVE" /\ (s.expiresAt = NoExpiry \/ Before(NormalizedTimestamp(localNow), s.expiresAt))

-----------------------------------------------------------------------------
SubscriptionInit ==
  /\ OrderInit
  /\ inbox = [e \in Events |-> "none"]
  /\ entitlement = [o \in Orders |-> Unentitled]

\* apply_subscription_event_tx.  An event whose order is not verified stays
\* RECEIVED; one that names another product than its order is refused, and its
\* transaction leaves nothing.
ApplyEvent(w) ==
  LET e == Normalized(w)
      row == order[e.order]
      known == VerifiedRow(row)
  IN /\ Valid(w) /\ ~Duplicate(e)
     /\ \/ /\ ~known
           /\ inbox' = [inbox EXCEPT ![e] = "RECEIVED"]
           /\ UNCHANGED entitlement
        \/ /\ known /\ row.product = e.sku
           /\ inbox' = [inbox EXCEPT ![e] = Disposition(e)]
           /\ entitlement' = [entitlement EXCEPT ![e.order] =
                CASE Disposition(e) = "APPLIED" -> [event |-> e, needsReconciliation |-> FALSE]
                  [] Disposition(e) = "CONFLICT" -> [@ EXCEPT !.needsReconciliation = TRUE]
                  [] OTHER -> @]
     /\ UNCHANGED orderVars

ProcessWebhooks == \E w \in Webhooks : ApplyEvent(w)

SubscriptionNext ==
  \/ OrderNext /\ UNCHANGED projectionVars
  \/ ProcessWebhooks

\* Webhooks are delivered, and waiting ones replayed, until none is left.
SubscriptionSpec ==
  /\ SubscriptionInit /\ [][SubscriptionNext]_subscriptionVars
  /\ WF_subscriptionVars(ProcessWebhooks)

-----------------------------------------------------------------------------
\* Every reachable inbox and projection is well formed.
SubscriptionTypeOK ==
  /\ inbox \in [Events -> Dispositions]
  /\ entitlement \in [Orders -> Entitlements \cup {Unentitled}]

\* The instant a time names, counted in its last digit, whatever digits were
\* written; and what an event reports.
Digit(t, i) == IF i \in DOMAIN t THEN t[i] ELSE 0
InstantOf(t) ==
  LET upTo[n \in 0 .. FractionDigits + 1] ==
        IF n = 0 THEN 0 ELSE 10 * upTo[n - 1] + Digit(t, n)
  IN upTo[FractionDigits + 1]
Instant == [e \in Events |-> InstantOf(e.at)]
Fact == [e \in Events |->
  [id |-> e.id, order |-> e.order, sku |-> e.sku, at |-> Instant[e],
   status |-> e.current.status, accessGranted |-> e.current.accessGranted,
   expires |-> IF e.current.expiresAt = NoExpiry THEN {} ELSE {InstantOf(e.current.expiresAt)}]]

Processed(e) == inbox[e] \in {"APPLIED", "STALE", "CONFLICT"}
Folded(o) == {e \in Events : e.order = o /\ Processed(e)}
Newest(o) == LET folded == Folded(o)
             IN {e \in folded : \A f \in folded : Instant[f] <= Instant[e]}

\* In whatever order the webhooks of an order arrive, and however many digits
\* each delivery writes, its entitlement is the newest fact, flagged exactly
\* when another fact carries the same time.
NewestWins ==
  /\ SubscriptionTypeOK
  /\ \A o \in Orders :
       IF Newest(o) = {} THEN ~Entitled(o)
       ELSE /\ Entitled(o) /\ entitlement[o].event \in Newest(o)
            /\ entitlement[o].needsReconciliation <=>
                 \E e, f \in Newest(o) : Fact[e] # Fact[f]

\* Whoever gets access paid for the order, and no event of the newest time
\* takes that access away.
AccessIsBacked ==
  \A u \in Users, o \in Orders :
    EntitledUser(u, o) /\ AccessAllowed(entitlement[o], <<0>>) =>
      /\ u = Payer[o] /\ payment[o] # "none"
      /\ \A e \in Newest(o) : e.current.accessGranted /\ e.sku = SkuOf[o]

\* An event that came before its order was verified is not lost: once the order
\* stays verified, its replay is folded in.
EventsAreFolded ==
  \A w \in Webhooks : Valid(w) /\ w.sku = SkuOf[w.order] =>
    (<>[]VerifiedRow(order[w.order]) => <>Processed(Normalized(w)))
=============================================================================
