# TLA+ models of the TrailBase Apps-in-Toss kit

This directory holds formal models of the stateful parts of the kit, the TLC
configurations that check them on small instances, and proofs, checked by TLAPS,
that the main results hold for every instance.

The kit lets a TrailBase guest (a WASM component over SQLite) run *effects that
happen somewhere else*: a promotion payout, a smart message, an in-app purchase
grant, a ticket redemption. In each case a row in SQLite says what the app intends
and knows, and a provider behind an mTLS proxy does the thing. The call between
them can be lost, arrive late or be answered with nonsense; workers die; operators
pause features. The hard questions are all of one kind: can the effect happen
twice, can it happen after it was given up, can the row say something that is not
so, and can a row get stuck. The models are built around those questions.

`tlc -config X.cfg M.tla` runs a configuration, `tlapm M.tla` checks a proof module.

## 1. Inventory

### 1.1 Server: `crates/trailbase-guest-common`

| Component | State | Operations | What makes it correct |
|---|---|---|---|
| Promotion reward ledger, `promotion_rewards.rs`, calls in `apps_in_toss_proxy.rs` | one ledger row per `provider_request_id`: status, protocol, key, `execution_started_at`, provider status, stamps | insert, prepare, store key, begin execute, execute, recovery listing, status lookup, apply outcome, abandon | one execution at most, the key that runs is the key stored, abandoned rows never run, success only of a grant, terminal facts final |
| Message outbox, `apps_in_toss_messages.rs`, `message_outbox_recovery.rs` | outbox row per idempotency key, attempt row per leased claim | enqueue, claim (with or without a lease), begin dispatch, send, complete, fail, skip, recover expired, quarantine | one send at most, requeue only what cannot have been sent, both tables agree, unknown is never a confirmed failure, no leased row stuck |
| Operation policy, `operation_policy.rs` | hold, stored policy per feature, audit events | decide Entry, Dispatch, Settlement, Status; enforcement inside the transaction | settlement is never blocked by a dispatch pause; no permit is given after the pause committed |
| Promotion campaigns, `promotion_campaigns.rs` | campaign rows, usage sums over the ledger | load in order, resolve for an amount, provider signals | no spending over budget; the newest running campaign pays; a request keeps its terms; an ended campaign pays nothing more until an operator activates it again |
| Reward cohorts, `reward_cohorts.rs` | subject row, eligibility per period, claim | register, record eligibility, mark claimed | a person is paid once per period across accounts, in one welcome window; promises are kept |
| App rewards, `app_rewards.rs`, and owned currency, `owned_currency.rs` | attempt, grant, currency event | issue, find, claim, record event | one grant per attempt in its window, the receipt final, journal and balance agree |
| Ad-skip tickets, `ad_skip_tickets.rs` | wallet, grant per period, opportunity, redemption | grant, claim opportunity, redeem | one debit per opportunity and per request id, the wallet adds up |
| IAP orders, `iap_orders.rs` | order row | lookup upsert, mark granted, mark completed | one delivery, recorded truthfully, for the payer only; refund final; stale lookups lose; paid orders are delivered |
| IAP subscriptions, `iap_subscriptions.rs` | event inbox, entitlement row | apply webhook, decide access | latest occurrence wins, equal times flagged, replay idempotent, waiting events folded in |
| Message recipients, `message_recipients.rs`, dispatch gate in `apps_in_toss_messages.rs` | recipient of an outbox row, recipient bound to a reward, consents | enqueue, gate and resolve at dispatch, bind, resolve for a call | a message or reward reaches only the identity it was addressed to |
| Login and identity store, `trailbase_auth.rs`, `anonymous_identity.rs`, `toss_identity_store.rs`, `toss_unlink.rs` | accounts, anonymous identities, account links, Toss identities | bootstrap, log in, link, unlink callback, touch | the devices of one Toss user reach one account; an unlinked identity is erased |
| Domain and analytics events, `domain_events.rs`, `analytics_events.rs` | append-only rows | append, sweep | idempotent by key |
| Identity key ring, `crates/trailbase-toss-identity` | configured keys | seal, open, reseal | cryptography, not modelled |

### 1.2 Elsewhere

| Component | State | What makes it correct |
|---|---|---|
| mTLS proxy, `services/toss-mtls-client-proxy` | sockets in flight | every request is answered once (answer, timeout, size limit) |
| Client session, `packages/trailbase-client` | current session, transition counter, storage with a write marker | only the current transition commits; storage survives a crash between two keys |
| Ad-skip controller, `packages/ait-core/src/ad-skip.ts` | pending and applied lists, in-flight map | a retry keeps its request id, an effect is applied once |
| Buffered analytics, `packages/ait-core/src/internal/analytics-core.ts` | queue, flush, clear counter | nothing returns from before a clear, order kept |
| React Native purchases, `packages/ait-rn/src/iap.ts` | one promise per purchase, pending orders | settled once, a grant is never dropped by a timeout |
| Other SDK adapters, runtime tooling, release tools, templates, docs | none of interest | not modelled |

### 1.3 How they interact

- Every `*_tx` helper runs inside one SQLite transaction of the app. Two helpers never
  interleave; anything between two helpers can.
- Network calls happen **between** transactions. That is where the hazards are:
  a claim committed and the call not made, the call made and the answer not applied,
  the answer applied after somebody else settled the row.
- `operation_policy` is read inside the entry, dispatch and settlement transactions.
  A permit that has committed is not revoked by a later pause (`operation_policy.rs:79`).
- Worker loops (in the app, not in the kit) drive recovery: they list stuck rows, look
  them up at the provider and apply the outcomes, expire leases, abandon intents.
- The message helpers take `now` as an argument, so a helper's clock may lag.
- Campaign usage is a query over the promotion ledger; a cohort claim names a ledger row.
- An app reward's claim, its currency event and the app's balance are one transaction.
- A subscription reads the order row of its order; a webhook that comes first waits.
- The client's redemption controller retries over the network with a stored request id;
  the server recognises the request by it.
- Which account a session stands for decides whose identity a message or reward may name,
  and may change between the request and the dispatch.

### 1.4 Hard behaviours

`PROJECT.json` lists them one by one with source lines (40 entries). In short:
racing claims; a worker dying between a committed claim and the call; answers late,
lost, repeated or out of order; a status lookup that overtakes the call it asks about;
expired leases racing a late dispatch; envelopes whose `ok` flag and status disagree, or that name no status;
rows left by an older protocol; a pause between permit and call; stuck rows; stale
lookups written over a grant; webhooks out of order or before their order; budgets
shared by concurrent rewards; a person with several accounts; an identity that moves
between request and dispatch; and on the client timeouts, late copies of requests,
bounded lists and storage writes that a restart cuts in two.

## 2. Modules

| Module | Models |
|---|---|
| `EffectContract` | the promise both ledgers make about one external effect; abstract |
| `PromotionLedger` | `promotion_rewards.rs` and the promotion calls of `apps_in_toss_proxy.rs` |
| `MCPromotionLedger` | its TLC instances |
| `PromotionLedgerProofs` | its inductive invariant and theorems |
| `MessageOutbox` | `apps_in_toss_messages.rs` and `message_outbox_recovery.rs` |
| `MCMessageOutbox` | its TLC instances |
| `MessageOutboxProofs` | its inductive invariant and theorems |
| `OperationPolicy` | `operation_policy.rs`: the decision, used by `IapOrders` and `AppRewards` |
| `IapOrders` | `iap_orders.rs` with the provider, the SDK and the app's inventory |
| `IapSubscriptions` | `iap_subscriptions.rs` over `IapOrders` |
| `IapProofs` | the inductive invariants and theorems of both |
| `SetSums`, `SetSumsProofs` | the sum over a set of rows, and the facts about it that proofs cite |
| `PromotionCampaigns` | `promotion_campaigns.rs` and the usage sums and insert of `promotion_rewards.rs` |
| `RewardCohorts` | `reward_cohorts.rs` over `PromotionCampaigns` |
| `RewardCohortsProofs` | the inductive invariants and theorems of both |
| `AdSkip` | `ad_skip_tickets.rs` composed with the controller of `packages/ait-core/src/ad-skip.ts` |
| `AdSkipProofs` | its inductive invariants and theorems |
| `AppRewards` | `app_rewards.rs` with the journal of `owned_currency.rs` |
| `AppRewardsProofs` | its inductive invariant and theorems |
| `Identities` | accounts, links and identities of `trailbase_auth.rs`, `anonymous_identity.rs`, `toss_identity_store.rs`, `toss_unlink.rs` |
| `MessageRecipients` | `message_recipients.rs` and the dispatch gate, over `Identities` |
| `MessageRecipientsProofs` | the invariants and theorems of both |
| `MCIapOrders`, `MCIapSubscriptions`, `MCPromotionCampaigns`, `MCRewardCohorts`, `MCAdSkip`, `MCAppRewards`, `MCMessageRecipients` | their TLC instances |

### 2.1 `EffectContract`

Three variables per request: how far the intent has gone (`phase`), how often the
effect ran (`runs`), what the ledger says (`record`). It promises: the effect runs at
most once, only after the intent was committed, never after it was dropped; success
is recorded only of an effect that ran and is final; a failure never becomes an open
question again. The ledgers state it as `ImplementsContract` with a refinement
mapping computed from their rows: a promotion row is *committed* from the moment
`execution_started_at` is set, an outbox row from the moment it leaves
READY/CLAIMED by anything but a skip.

### 2.2 `PromotionLedger`

State: `ledger[r]` is the row (columns that matter, timestamps of the provider
reduced to null or set); `allowed` the open phases of the policy; `prepared` the keys
the provider issued; `permit[w]` the row `begin_promotion_reward_execute_tx` returned
to worker *w*, held in memory; `calls` execute calls in flight; `executed` and
`verdict` what the provider did and would answer; `worklist` rows a recovery pass has
read but not looked up; `answers` outcomes held by some worker.

| Action | Code |
|---|---|
| `Insert`, `StoreKey`, `BeginExecute`, `ApplyOutcome`, `Abandon`, `ListRecovery` | the `*_tx` helpers of the same names; guards are the WHERE clauses |
| `Prepare`, `Execute`, `Lookup` | the three proxy calls |
| `Deliver`, `LoseCall`, `Decide` | provider and network (external) |
| `Crash` | the worker dies between claim and call |
| `SetPolicy`, `Tick` | operator, clock |

Workers have no program: any of them may call any helper at any time. The one rule is
the one the helper documents, that an execute call is made by the worker that was
given the row, once. Answers stay in `answers` for ever, so they may be applied late,
twice or in any order. Legacy rows (`LegacyRequests`) start pending, with or without a
key, and may or may not have run. The outcome statement's two sticky guards,
COALESCE of stamps, and the rule that a stored key is never replaced are
`KeptSuccess`, `ShutFailure`, `Stamp` and `AfterOutcome`. `NormalizeProviderStatus`
keeps the rule for envelopes: a refusal without a named failure is UNKNOWN.

Assumed: outcomes are built by `promotion_reward_outcome_from_response` (which sets
`failed_at` only for failures), and transaction keys identify one execution at the
provider.

### 2.3 `MessageOutbox`

State: `outbox[m]` the row, `attempt[m][n]` the attempt row of claim *n*, `permits`
claims whose worker may send, `calls`, `sends`, `fate` network and provider,
`responses` parsed responses somebody holds. A worker is known only by the attempt
it claimed.

| Action | Code |
|---|---|
| `Enqueue`, `ClaimWithLease`, `BeginDispatch`, `CompleteAttempt`, `SkipAttempt`, `RecoverExpired`, `QuarantineLegacy` | the `*_tx` helpers with leases |
| `ClaimReady`, `CompleteReady`, `FailReady`, `SkipReady`, `SkipWaiting` | the helpers without leases |
| `Send` | `smart_message_send` leaves the worker; the proxy may time out |
| `Deliver`, `LoseCall` | provider and network (external) |
| `SetPolicy`, `Tick` | operator, clock |

Each helper picks its `now` from `Clock`, up to `Skew` behind the real one. Leased and
unleased claims live in one model, since one table may see both during an upgrade;
the unleased helpers are applied only to claims made without a lease, which is how
the API separates them. A legacy row's worker either sent and died or is alive and
about to send. `ParseResponse` and `AttemptStatus` are the response taxonomy.
An answer that names a status is one the provider could give about the message
(`Truthful`); an envelope that says `ok:true` and names none comes whatever became of
the message, and the parser's default makes SENT of it. A response's `bare` tells
that it came that way, so that `SentIsBacked` can say of every other one that SENT means
delivered, and `SentWasDelivered` that of all, which is violated.
Checking the lease in `BeginDispatch` and `CompleteAttempt` turns out to be redundant
for safety: expiry is one transaction that changes both tables, so a worker finds
either its attempt still current or no longer its own. The check matters for how
early a late worker is told.

### 2.4 `OperationPolicy`

Operators only. The controls are a hold, a switch and at most one policy row with
the window in which it is in force; `OperationAllowed`, `RequireOperation` and
`EnforceConfigured` are the three functions of the code. A component that is gated
keeps the controls in a variable and lets the operator change them between any two
transactions.

### 2.5 `IapOrders` and `IapSubscriptions`

`order[o]` is the row; `payment`, `confirmed` and `delivered` are what the provider,
the SDK and the app's inventory know; `held[w]` is an answer of the status endpoint
that a request has and has not applied. `Lookup` draws an answer that was true when it
was given (`Verdicts`), `Upsert` applies it any time later: the two allow-lists
(`VerifiedWords`, `VerifiedStatuses`), the owner check and the CASEs of the upsert are
operators of their own. `MarkGranted` is the app's transaction around
`mark_iap_order_granted_tx`; the product is delivered for an order that needs its
grant, not for a replay. `MarkCompleted` follows the SDK's confirmation.

`IapSubscriptions` adds the inbox and the entitlement. Times are sequences of a second
and the digits of its fraction, as many as the provider wrote, because the code
compares normalised texts: `NormalizedTimestamp` pads, `Before` is the order of the
texts, and `NewestWins` compares with the instants the texts stand for (the number of
units of the last digit since the epoch, `InstantOf`). That what follows the second are
decimal digits is an assumption on the webhooks, which the code enforces
(`iap_subscriptions.rs:365`). Expired
registrations and registration callbacks change nothing and are left out.

### 2.6 `PromotionCampaigns` and `RewardCohorts`

The reward ledger is kept by status only; `Settled` is the outcome statement's guard.
`GrantReward` is the app's transaction: usage, `Resolve`, insert under the unique
request id. `SettleReward` applies any outcome. `Signal` writes a provider's campaign
verdict over whatever status the campaign has, ENDED included, and operators set any
status from any status: nothing in the code or the schema keeps a campaign ended.
`ended` is a history variable, the campaigns that operators ended and have not activated
since; a signal does not change it. `revived` remembers rewards that were granted after they were recorded
as failed: their share had been free to be given away. `Resolve` is the set of campaigns
a call may come back with: the query's ORDER BY does not settle ties of status, start
and creation time, so any of the tied rows may come first. The query's LIMIT
(`RowLimit`) is taken before the windows are looked at. Campaigns that are active
with a later start come first, so more of them than the limit hide a running one:
`NewestRunningPays` therefore claims an equality only as long as the limit has room for
the active campaigns, and otherwise that nothing but the newest running one pays.

`RewardCohorts` adds to all of that persons with accounts in turn, the policy in force, subject rows
and eligibilities. Days are local days of `UtcOffset`. `RecordEligibility` checks
overlap, window and cap in the code's order; `ClaimEligibility` links the eligibility
to a ledger row of the same transaction. The requests in `ClaimRequests` are those that
claims make up; the others are rewards granted directly from the same campaigns. Rows of
both kinds are settled, fail and are revived, and operators and signals change the
campaigns under them.

### 2.7 `AdSkip`

Server and client in one module. The server's `Redeem` is one transaction; the client
stores a request, sends it, hears an answer, times out and retries, or is killed and
loads its storage again. A request that timed out stays in `late` for ever and may be
handled again at any time. `EffectKey` is the client's key of an effect: another
request's receipt maps to the resolution it reports. An effect is marked as applied,
the mark is stored, then the effect runs: at most once; a kill between the two loses it.
The pending list is in the order its requests were made up, which is the order of their
ids, so it is kept as a set; its cut keeps the entries with fewer than `MaxPending`
newer ones.

### 2.8 `AppRewards`

Attempts, grants, the currency journal with its policies, and the balance the app
keeps. A claim and its mirror commit or roll back together. Callers pass a time they
read before their transaction. Gates are a function of the controls at the time of the
call. Deleting an account cascades to attempts and grants and strips the journal's
`user_id`.

### 2.9 `Identities` and `MessageRecipients`

An account is named by the device that made it. `Bootstrap`, `TossLogin`, `Unlink` and
`Touch` are the server's flows put together as `docs/en/anonymous-identity.md` and
`docs/en/toss-identity.md` tell the app to; `ManualMerge` and `RevokeAnonymous` are the
app's operators (a merge is assumed to end the device's session). `via[d]` remembers
the Toss login that last decided the account of a device, and the age of the identity
it used.

`MessageRecipients` adds queued messages, consents and rewards. `Dispatch` is the
dispatch transaction: gate over template and consent, then the recipient, which must be
the one of the row and still belong to its account.

## 3. What the runs check

| Run | Properties | Instance |
|---|---|---|
| `promotion_core` | `TypeOK`, `AtMostOneExecution`, `HandleIsStored`, `AbandonedNeverRuns`, `SuccessIsGranted`, `StampsMatchStatus`, `FactsAreWriteOnce`, `ImplementsContract` | a three-step and a legacy request, two keys, two workers, clock 0..2, dispatch pausable; 446,224 states |
| `promotion_not_found` | `FailedMeansNoGrant`, **violated** | one request, one worker |
| `message_core` | `TypeOK`, `AtMostOneSend`, `RequeueIsSafe`, `AttemptsMirrorOutbox`, `UnknownIsNotStamped`, `SentIsBacked`, `OutcomesAreFinal`, `ImplementsContract`, `LeasesEnd` (liveness) | a new message and a legacy lock, two attempts each, lease 1, skew 1, clock 0..2, batches of one, dispatch pausable; 124,052 states |
| `message_sent` | `SentWasDelivered`, **violated** | one message, one claim |
| `message_failed` | `FailedIsConfirmed`, **violated** | one message, one claim |
| `iap_orders` | `DeliveryIsRecorded`, `OnlyThePayer`, `OrderFactsAreKept`, `PaidIsDelivered` (liveness) | one order, its payer and a stranger, two products, two lookups in progress, two grant ids, clock 0..1; 93,992 states |
| `iap_subscriptions` | `NewestWins`, `AccessIsBacked`, `EventsAreFolded` (liveness) | one order, six webhooks: two with equal times, one event in two precisions, one too precise, one for another product; 21,188 states |
| `promotion_campaigns` | `BudgetIsKept`, `NewestRunningPays`, `RewardsAreFixed` | two campaigns, one window inside the other, two rewards of one or two that two users ask for; 93,075 states |
| `reward_cohorts` | `BudgetIsKept`, `PaidOncePerPeriod`, `OneWelcomeSpan`, `SnapshotsAreKept` | one person, two accounts in turn, two policies, three periods of which two overlap, two claims and a direct reward of one campaign; 355,616 states |
| `ad_skip` | `TicketsAddUp`, `ChargesAreKnown`, `EffectsRunOnce` | two opportunities, two requests of two attempts, three periods; 1,529,535 states |
| `app_rewards` | `JournalMirrorsLedger`, `ReceiptsAreFinal` | two accounts, three attempts, an exchange, a policy change, a hold; 58,344 states |
| `message_recipients` | `OneAccountPerTossUser`, `OneRewardRecipient`, `OnlyTheAddressee` | two devices, two Toss users, one message, one reward, one unlink each; 570,495 states |

Bounds and why they are enough.

- *Ledger and outbox.* Rows do not refer to each other except through the sorted
  batches (`Limit`), and no property relates two rows. Two workers and two keys are what
  a race needs: one that holds the claim and one that interferes, one key stored and one
  that must not replace it. In the outbox the new message and the legacy lock compete for
  batches of one. A clock of 0..2 with ages of 0 lets every sweep fire before, between
  and after the steps of a worker. Two attempts let a first claim expire and a second one
  run while the first worker is alive. `ClaimWithLease` never makes a lease that outlives
  the clock, so no lease is left running by the bound.
- *Orders.* Orders share nothing, so one is enough. Two requests in progress let one
  answer be older than the other; two grant ids let a replay bring another one.
- *Subscriptions.* Entitlements share nothing either. The webhooks are one of each kind
  the code tells apart: tie, precision, refusal, wrong product, newest.
- *Campaigns and cohorts.* Two campaigns give every order of rank and window; two
  rewards of 1 or 2 reach a budget of 3 exactly and overshoot it by one, and a second
  reward is over a count of one. A second user asks for a request that is taken. With
  cohorts a budget of 2 is what two of the three rewards use up. The state constraint
  `Explored` leaves out what the campaigns' own run covers: of the statuses that pay
  nothing only PAUSED, at most one settled reward at a time (which may fail and be
  revived), direct rewards of 1. The steps that leave these states are still checked,
  and the theorems know of no constraint. Three periods
  contain a disjoint pair and an overlapping pair; four instants on three local days
  put the midnight of the offset between them.
- *Ad skip.* Two opportunities so that one is passed by for the other, two requests so
  that one opportunity is asked for twice, two attempts so that the first is late.
  `MaxPending` is the number of opportunities, the least for which the cut forgets nothing.
- *App rewards.* A quota of two with three attempts is met and refused; the policy
  changes at time 1 and the controls expire at time 2, so a receipt outlives both.
- *Recipients.* Two devices with an account each are what a collision needs. The instance
  takes the marketing path of the gate; the functional one differs only in which opt-in
  is read. `Times` has one value, which leaves every tie open.

`MaxAttempts`, `MaxUnlinks` and `MaxTime` cut behaviours off. Symmetry is used over
model values that only name things (`promotion_core`, `promotion_campaigns`,
`reward_cohorts`, `app_rewards`, `message_recipients`), and neither symmetry nor a state
constraint in a run with a liveness property. Every passing run checks for deadlock.

Fairness.

- `message_core`: time passes and `RecoverExpired` runs again and again.
  `docs/en/functional-messages.md:199` tells the app to run
  `recover_expired_message_outbox_attempts_tx` from its worker loop, and the helper is
  gated by no policy, so it stays enabled. No fairness is asked of senders, the network,
  the provider or the operator.
- `iap_orders`: an app that keeps restoring orders. An answer that is held is applied
  (weak), lookups by the payer are answered with an identified order again and again, and
  an order seen to need its grant again and again is granted (both strong, since a stale
  answer may close the window for a moment). `PaidIsDelivered` assumes that settlement
  stays open from some time on; it fails if any answer or grant could leave the row where
  the grant is refused for ever.
- `iap_subscriptions`: webhooks are delivered and waiting ones replayed (weak, on the
  processing as a whole).

### Findings

Three runs record where the code does something its own comments rule out.

1. *A failed reward can be granted.* `promotion_rewards.rs:438` says of NOT_FOUND "no
   grant exists". A lookup can overtake the execute call it asks about; the row is then
   failed, the provider grants, and no recovery pass lists the row again.
   A lookup younger than the longest time a call can be under way should not be
   allowed to shut a row; the recovery listing's age argument is the place where an
   app can ensure it.
2. *A message that was delivered can be recorded as a confirmed failure.*
   `apps_in_toss_messages.rs:232` reads an `ok:false` envelope without a status as
   FAILED, which is what the proxy's own timeout envelope looks like;
   `functional-messages.md:141` asks for an explicit failed status. Promotions fold the
   same envelope to UNKNOWN.
3. *A message that was not delivered can be recorded as SENT.*
   `apps_in_toss_messages.rs:231` and `:336` read an `ok:true` envelope without a status
   as SENT. `functional-messages.md:153` says that `ok:true` alone never confirms a send,
   and so does the comment at lines 323-325. Where the provider's answer names a status the
   row is right (`SentIsBacked`). Whether the external provider client ever leaves
   it out is not in this repository.

### Observations

Not disagreements with a stated promise, but worth a maintainer's minute:

- A budget can be exceeded by rewards that are granted after they were recorded as
  failed (the consequence of finding 1 for campaigns). `BudgetIsKept` bounds the excess
  by exactly those rewards.
- A signal overwrites the status of a campaign without looking at it
  (`promotion_campaigns.rs:237-243`). A late one makes an ENDED campaign PAUSED or EXHAUSTED;
  it does not pay by that, but an operator who activates what looks paused makes it pay
  again. `RewardsAreFixed` says that nothing short of that activation does.
- `ad-skip.ts:238` says of a rejected choice that nothing was charged *for this request*.
  A late copy of an attempt the client gave up may be charged after the rejection.
  `ChargesAreKnown` therefore speaks of requests the client heard nothing of.
- The cut of the pending list at `maxPending` forgets requests whose outcome is unknown;
  with more unresolved choices than the limit `ChargesAreKnown` does not hold.
- After a collision links a device to another account, `docs/en/anonymous-identity.md`
  stores the anonymous identity for the canonical account; where the row already belongs
  to the old account that is a conflict, and the bootstrap is refused until an operator
  moves the row.

## 4. What is proved

All theorems are in modules that extend the component's module and hold for every
value of the constants that satisfies its ASSUMEs. Every safety invariant, action
property and refinement that a passing run checks is stated by a theorem.

`PromotionLedgerProofs`: `TypeCorrect`, `Invariance`, `ExecutesAtMostOnce`,
`KeepsHandle`, `AbandonIsFinal`, `SuccessIsReal`, `StampsAreHonest`, `WriteOnce`,
`KeepsContract` (refinement of `EffectContract`).

None of the safety invariants is inductive by itself. `executed[r] <= 1` says nothing
of a call in flight, and a call in flight nothing of the permit it came from. The
invariant `Inv` adds, next to `TypeOK`:

- `RowInv`: which columns of a row can be set together (a start marker only with a key,
  NOT_EXECUTED only on a failed row never claimed, stamps only with their status);
- `KeyInv`: a key belongs to one request, and a row's key was issued for it;
- `PermitInv`, `CallInv`: the right to execute a row is in exactly one place; once
  `execution_started_at` is set it is with one worker, or with one call in flight, or
  spent, or lost, and never in two;
- `ExecutionInv`: a provider that knows a key has executed its row;
- `AnswerInv`: an answer about a row is one the provider could give about its key, and
  a GRANTED answer stays true because a grant is final.

The step lemma has one case per action. The claim's single UPDATE is what carries the
argument: it sets the marker and hands out the permit in one step, and nothing clears
the marker. Action properties and the refinement follow from `Inv` one action at a
time.

`MessageOutboxProofs`: `TypeCorrect`, `Invariance`, `SendsAtMostOnce`,
`RequeuesOnlyUnsent`, `TablesAgree`, `StampsAreConfirmed`, `SentStaysBacked`,
`OutcomesStay`, `KeepsContract` (refinement of `EffectContract`).

`sends[m] <= 1` is not inductive either: a requeued message may be claimed again while
the worker of the first claim is still alive. The invariant `Inv` adds, next to `TypeOK`:

- `LogInv`, per message `LogOK(m)`: the attempt rows are a log. The status of the
  current attempt fits the status of the outbox row (`Agree`), every earlier attempt is
  EXPIRED, no later one exists;
- `RightInv`, per message `RightOK(m)`: a permit, a call in flight or a response belongs
  to the *current* claim of a message that is out (`Out`: being, been or possibly
  sent); permit and call exclude each other and both mean nothing was sent yet;
  a SENT response or row means one send, and one that was delivered unless the
  message was answered without a status.

The argument has two halves. `Moves(m)`, proved for every action, says how the two
tables may change: the log stays a log, a message that is out stays out under the same
claim number, a row becomes SENT only by a SENT response. `RightStep` then follows the
right to send: it is created only by `BeginDispatch` or a claim without a lease, out of a
claim that had none, and is moved or dropped afterwards. What makes it work in the code
is that `recover_expired` requeues only rows still CLAIMED and writes both tables in one
transaction, so a worker that lost its claim can never begin the dispatch of it.

`IapProofs`: `Invariance`, `TypeCorrect`, `RecordsDelivery`, `RecordsThePayer`,
`KeepsFacts` of the orders; `SubscriptionInvariance`, `NewestAlwaysWins`,
`AccessIsAlwaysBacked` of the subscriptions.

That the row tells the truth about the inventory is not inductive: an answer under way
says PURCHASED, and applying it makes the row GRANTED without a delivery unless the
answer itself proves that one happened. The invariant `Inv` adds, next to `OrderTypeOK`:

- `RowInv`, per order `RowOK(o)`: payer, product, status, grant time and grant id,
  completion, provider and inventory fit together. In particular `grantedAt` is set
  exactly when the product was delivered, and stays set through a refund;
- `AnswerInv`, per request `AnswerOK(w)`: what an answer of any age still proves. A paid
  word comes of a payment by its own user, and PURCHASED of a purchase the SDK confirmed,
  which the app does only after the grant. These are facts that never become false, so
  staleness does not matter.

The lemmas `UpsertRow` and `GrantRow` say what the two CASE expressions do to a row, and
the step lemma has one case per action.

A subscription's entitlement is compared with the one event it holds, never with the
events folded in before; that this finds the newest of all is the content of
`ProjectionInv`: the event held is among the newest of those folded in, and the row is
flagged exactly when it is not alone there. It is inductive, and `NewestWins` follows
from it. What makes it work is `StampsCompare`: padded texts compare as the instants
they stand for, for any number of digits, which needs an argument on the first digit in
which two stamps differ (`UpTo`, `CountsCompare`). `FactsDiffer` shows that two events with
the same time and different contents differ in something the entitlement would tell.

`MessageRecipientsProofs`: `Invariance`, `OneAccount`, `OneRecipient`, `KeepsTheAddress`.

`AccountInv` explains why the devices of one Toss user meet: a session stands for the
account its device resolves to (a login links the device in the same transaction), a
remembered login of the current age means the identity is active, and an active identity
never changes its account. `KeyInv` says that an ACTIVE identity is sealed, and that the
recipient of an outbox row is of its kind. `RewardInv` ties every call of a reward to its
bound identity, whose owner never changes, because an anonymous identity is never stored
for another account.

`RewardCohortsProofs`: `CampaignInvariance`, `BudgetsAreKept`, `NewestRunningAlwaysPays`,
`RewardsStayFixed` of the campaigns; `CohortInvariance`, `ClaimsKeepBudgets`,
`ClaimsStayFixed`, `PaidOnceAlways`, `WelcomeSpanStaysOne`, `SnapshotsStay` of the cohorts.

`BudgetIsKept` is inductive only when it is said of the rewards that never failed
(`OnTime`, `OnTimeInv`): theirs is a sum that grows by an insert alone, and an insert
finds room for it, because what a feature has committed includes what its campaign has
(`TotalGrows`). The excess is the revived rewards, so the bound of the property is the
sum over two disjoint sets (`TotalUnites`). `FirstOf` has a member in every finite set of
rows that is not empty, from which `NewestRunningPays` follows in any state. `EndedInv`
says that a campaign in `ended` is not ACTIVE, whatever signals it got, and only an
ACTIVE one pays. `ClaimsKeepBudgets` and `ClaimsStayFixed` carry the campaigns' results
over to the composition, where claims and direct rewards draw on the same budgets, and
rewards of both kinds fail and are revived. For the
cohorts `AccountsInv` says that a person has at most one live account; `SubjectsInv` that
a subject row is no younger than the account alive now, and that the end of a welcome
window comes of a policy and of the join of one of the person's accounts; `EarnedInv`
that what was earned as WELCOME was earned in that window; `PeriodsInv` that the periods
of a person are disjoint and no more than the cap; `ClaimsInv` that claimed eligibilities
and the ledger rows claims made correspond one to one, whatever becomes of the rows.

`AppRewardsProofs`: `Invariance`, `JournalIsMirrored`, `ReceiptsStay`.

`JournalMirrorsLedger` is almost inductive. The invariant adds that an attempt that was
never issued has neither grant nor event, and that there are finitely many grants and
events at any time, for any sets of attempts and keys: without it a balance is a sum
over nothing in particular. Each step adds, removes or leaves alone one summand.

`AdSkipProofs`: `Invariance`, `TicketsStayAddedUp`, `EffectsStayOnce`,
`ChargesStayKnown`, `ChargesStayKnownWithRoom`.

`AskedInv` follows every trace a request leaves (pending, stored, in flight, late,
recorded): an id belongs to one opportunity and to none before it is made up, so a
replay is always of the same choice. `ServerInv` is the server's books; `EffectInv` says
that the key of every effect names how its opportunity was resolved, and that an effect
that has run is marked in memory and on disk. `KeptInv` says that an opportunity has at
most one pending request, which is the one in flight, and that a request that was sent
and may yet be charged is pending on both sides. The last holds as long as the list has
room for a new choice (`RoomLeft`): `ChargesStayKnown` has that as a hypothesis on the
behaviour, and `ChargesStayKnownWithRoom` proves it where the list has room for as many
requests as there are opportunities, which the checked instance has exactly.

`SetSumsProofs` has the lemmas on sums. `Total` is the community modules' fold, which
takes elements in an order of its own choosing. The lemmas show that the order does
not matter: a sum takes one more element (`TotalAdds`), depends on the weights of its
elements only (`TotalSees`), drops one (`TotalDrops`), unites (`TotalUnites`), and
grows with its set (`TotalGrows`). The induction over finite sets is done on the least
counterexample, with the predicate given as a set (`NaturalsBySteps`,
`SetsByElements`), because the library's induction rules take an operator, which the
provers cannot instantiate.

Only model-checked: liveness (`LeasesEnd`, `PaidIsDelivered`, `EventsAreFolded`), because
ENABLED and fairness are out of the backends' reach, and the three violated statements,
whose counterexamples are TLC's. No module uses RECURSIVE operators.

## 5. Not modelled, and why

- Cryptography, identifier and amount validation, template rendering, diagnostic texts,
  SQL text other than its guards and assignments: data the properties do not tell apart.
- SQLite itself: a transaction is one step. `db.rs` and the host give that.
- The app's worker loops, which live outside this repository: they are any sequence of
  helper calls. Where the app owns a transaction (grant, claim, exchange) it is modelled
  as the docs tell the app to write it.
- The provider's real behaviour and the external API client in the proxy: modelled by
  what the guest can observe.
- Login: passwords and their rotation, tokens and cookies, the bootstrap limiter, error
  texts. The older Toss identity variants keyed by a text user id, which take an ACTIVE
  identity along instead of keeping its account. Deleted accounts in `Identities`.
- Domain and analytics events: append-only, idempotent by key, read by nothing else.
- The recovery listing under a limit: a row that only fails never advances `updated_at`
  and may starve others. Listed as a hazard without a property.
- `AdSkip`: the bounded list of applied effects running full, and a storage write that
  fails silently.
- Client session, React Native purchases, buffered analytics, mTLS proxy: listed as
  hazards, no module yet. Other adapters, tooling and release scripts keep no state of
  interest.

## 6. Plan

1. **Done**: `EffectContract`, `PromotionLedger`, `MessageOutbox`, with proofs.
2. **Done**: `OperationPolicy`, `IapOrders` (with proofs), `IapSubscriptions`,
   `PromotionCampaigns`, `RewardCohorts`, `AdSkip`, `AppRewards`, `Identities`,
   `MessageRecipients` (with proofs).
3. **Done**: `RewardCohortsProofs`, `AdSkipProofs`, `AppRewardsProofs`, the subscriptions
   in `IapProofs`, and the sums they need. Every safety property of the runs is proved.
4. Next: proofs of what liveness rests on, as far as it is safety: that no step of the
   outbox locks a row again under an attempt number it already had, and that no step of the
   order ledger makes an order that is paid and not delivered one that refuses its grant.
   Shorter proofs where a leaf cites more than it needs.
5. Further components, each as a module of its own: `RecoverySweep` (rotation of the
   listing under a limit), `ClientSession` (overlapping transitions, write marker, joined
   refreshes), `IapPurchase` (React Native), `AnalyticsBuffer`, `ProxyRequest`. Each
   needs a run, so runs of composed components are merged first.
