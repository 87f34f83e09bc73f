------------------------------- MODULE AdSkip -------------------------------
(***************************************************************************)
(* Ad skip tickets end to end: the server wallet and redemptions of        *)
(* crates/trailbase-guest-common/src/ad_skip_tickets.rs, and the client    *)
(* controller of packages/ait-core/src/ad-skip.ts that redeems them over a *)
(* network that loses answers and delivers requests late.                  *)
(*                                                                         *)
(* One person on one device, one placement; an opportunity stands for its  *)
(* key and context.  A request that timed out stays on the way for as long *)
(* as it likes and may be handled again: the server sees every retry and   *)
(* every late copy.  The bounded list of applied effects is not filled.    *)
(***************************************************************************)
EXTENDS Integers, FiniteSets

CONSTANTS
  Opportunities,  \* 1..n, in the order the app prompts them
  RequestIds,     \* 1..m, in the order the client makes them up
  Periods,        \* cause periods that are rewarded with one ticket
  MaxAttempts,    \* maxAttempts of the controller
  MaxPending      \* maxPending of the controller

ASSUME AdSkipAssumption ==
  /\ Opportunities \subseteq Nat \ {0} /\ RequestIds \subseteq Nat \ {0}
  /\ Periods \subseteq {p \in Int \X Int : p[1] <= p[2]}
  /\ MaxAttempts \in Nat \ {0} /\ MaxPending \in Nat \ {0}

VARIABLES
  wallet,       \* ad_skip_ticket_wallets.balance
  granted,      \* periods in ad_skip_ticket_grants
  opportunity,  \* opportunity[k]: how it was resolved, and by which request
  redemption,   \* redemption[i]: the receipt of request i
  prompted,     \* opportunities the app prompted so far: 1..prompted
  current,      \* the one an ad is due for, 0 when no ad is
  advanced,     \* advanced[k]: times resolving k moved the app's ad state on
  memory, disk, \* the controller's state, and what storage has of it
  flight,       \* flight[k]: the request in flight for k
  late,         \* requests that timed out and may still be handled
  receipts,     \* effects of receipts the app has not applied
  running,      \* effects marked as applied and not run
  effects,      \* effects that ran, with how often
  told          \* told[i]: the definitive answer the client saw

serverVars == <<wallet, granted, opportunity, redemption>>
appVars == <<prompted, current, advanced>>
clientVars == <<memory, disk, flight, late, receipts, running, effects, told>>
adSkipVars == <<serverVars, appVars, clientVars>>

-----------------------------------------------------------------------------
Requests == [id : RequestIds, opp : Opportunities]
Resolutions == {"AD", "TICKET", "FREE"}
OpportunityRows == [by : Resolutions, id : RequestIds \cup {0}]
Unresolved == [by |-> "none", id |-> 0]
Receipts == [opp : Opportunities, resolution : {"TICKET", "FREE", "ALREADY_RESOLVED"}]
NoReceipt == [opp |-> 0, resolution |-> "none"]
Idle == [id |-> 0, tries |-> 0, phase |-> "idle"]

\* An effect key: kind of resolution, opportunity, and the request when a
\* redemption made it.
EffectKeys == Resolutions \X Opportunities \X (RequestIds \cup {0})

\* adSkipEffectKey: another request's receipt maps to the original resolution.
EffectKey(i, k, resolution, resolved) ==
  IF resolution = "ALREADY_RESOLVED" THEN <<resolved.by, k, resolved.id>> ELSE <<resolution, k, i>>

Overlap(p, q) == q[1] <= p[2] /\ q[2] >= p[1]

\* What redeem makes of a request that has no receipt, in the order it looks;
\* `allowed` says that the call's allowlist has the placement.
\* Broken: the opportunity is not looked up.
NotLookedUp(k, allowed) ==
  CASE ~allowed -> "NOT_ALLOWED" [] current = 0 -> "FREE"
    [] wallet < 1 -> "INSUFFICIENT" [] OTHER -> "TICKET"
Verdict(k, allowed) ==
  CASE ~allowed -> "NOT_ALLOWED"
    [] allowed /\ opportunity[k] # Unresolved -> "ALREADY_RESOLVED"
    [] allowed /\ opportunity[k] = Unresolved /\ current = 0 -> "FREE"
    [] allowed /\ opportunity[k] = Unresolved /\ current # 0 ->
         IF wallet < 1 THEN "INSUFFICIENT" ELSE IF current # k THEN "STALE" ELSE "TICKET"

\* write_redemption, for the verdicts that leave a receipt.
WithReceipt(r, verdict) ==
  IF verdict \in {"TICKET", "FREE", "ALREADY_RESOLVED"}
  THEN [redemption EXCEPT ![r.id] = [opp |-> r.opp, resolution |-> verdict]] ELSE redemption

\* The pending list is in the order its requests were made up, which is the
\* order of their IDs: it is kept as a set.
PendingOf(state, k) == {r \in state.pending : r.opp = k}
Without(state, k) == [state EXCEPT !.pending = @ \ PendingOf(state, k)]

\* The newest MaxPending entries are kept.  Broken: the cut leaves one too few.
RememberFewer(state, r) ==
  LET all == state.pending \cup {r}
  IN [state EXCEPT !.pending = {q \in all : Cardinality({n \in all : n.id > q.id}) + 1 < MaxPending}]
Remember(state, r) ==
  LET all == state.pending \cup {r}
  IN [state EXCEPT !.pending = {q \in all : Cardinality({n \in all : n.id > q.id}) < MaxPending}]

\* A choice reuses the first request that is pending for its opportunity, or
\* makes up the next one.
Reusable(k, r) == r \in PendingOf(memory, k) /\ \A q \in PendingOf(memory, k) : r.id <= q.id
Fresh(i) == told[i] = "unused" /\ \A j \in RequestIds : told[j] = "unused" => i <= j

-----------------------------------------------------------------------------
AdSkipInit ==
  /\ wallet = 0 /\ granted = {}
  /\ opportunity = [k \in Opportunities |-> Unresolved]
  /\ redemption = [i \in RequestIds |-> NoReceipt]
  /\ prompted = 0 /\ current = 0
  /\ advanced = [k \in Opportunities |-> 0]
  /\ memory = [pending |-> {}, applied |-> {}]
  /\ disk = memory
  /\ flight = [k \in Opportunities |-> Idle]
  /\ late = {} /\ receipts = {} /\ running = {}
  /\ effects = [e \in EffectKeys |-> 0]
  /\ told = [i \in RequestIds |-> "unused"]

\* The app prompts the next ad; one that was due and not watched is passed by.
Prompt ==
  /\ prompted + 1 \in Opportunities
  /\ prompted' = prompted + 1 /\ current' = prompted + 1
  /\ UNCHANGED <<serverVars, advanced, clientVars>>

\* grant_ad_skip_tickets_tx: any overlap with an earlier period grants nothing.
GrantTickets(p) ==
  /\ \A q \in granted : ~Overlap(p, q)
  /\ granted' = granted \cup {p}
  /\ wallet' = wallet + 1
  /\ UNCHANGED <<opportunity, redemption, appVars, clientVars>>

\* claim_ad_opportunity_tx from an ad that was watched or not filled, however
\* late its callback; only the first claim has an effect on the app's ad state.
Claims(k) == opportunity[k] = Unresolved
ClaimAdOpportunity(k, how) ==
  /\ k <= prompted /\ Claims(k)
  /\ opportunity' = [opportunity EXCEPT ![k] = [by |-> how, id |-> 0]]
  /\ advanced' = [advanced EXCEPT ![k] = @ + 1]
  /\ current' = IF current = k THEN 0 ELSE current
  /\ UNCHANGED <<wallet, granted, redemption, prompted, clientVars>>

\* redeem_ad_skip_ticket_tx.  Every error rolls the transaction back.
Redeem(r, allowed) ==
  LET k == r.opp
      verdict == Verdict(k, allowed)
      replay == redemption[r.id] # NoReceipt
      ticket == ~replay /\ verdict = "TICKET"
  IN /\ redemption' = IF replay THEN redemption ELSE WithReceipt(r, verdict)
     /\ opportunity' = IF ticket THEN [opportunity EXCEPT ![k] = [by |-> "TICKET", id |-> r.id]] ELSE opportunity
     /\ wallet' = IF ticket THEN wallet - 1 ELSE wallet
     /\ advanced' = IF ticket THEN [advanced EXCEPT ![k] = @ + 1] ELSE advanced
     /\ current' = IF ticket THEN 0 ELSE current
     /\ UNCHANGED <<granted, prompted>>

-----------------------------------------------------------------------------
\* redeem() and retryPending(): a running request is joined, a pending one is
\* retried, and a new one is stored before it is sent.
Choose(k) ==
  /\ k <= prompted /\ flight[k] = Idle
  /\ \/ \E r \in Requests :
          /\ Reusable(k, r)
          /\ flight' = [flight EXCEPT ![k] = [id |-> r.id, tries |-> 0, phase |-> "ready"]]
          /\ UNCHANGED <<memory, told>>
     \/ \E i \in RequestIds :
          /\ PendingOf(memory, k) = {} /\ Fresh(i)
          /\ memory' = Remember(memory, [id |-> i, opp |-> k])
          /\ flight' = [flight EXCEPT ![k] = [id |-> i, tries |-> 0, phase |-> "ready"]]
          /\ told' = [told EXCEPT ![i] = "nothing"]
  /\ UNCHANGED <<serverVars, appVars, disk, late, receipts, running, effects>>

\* The queued writes reach storage.
Flush ==
  /\ disk # memory
  /\ disk' = memory
  /\ UNCHANGED <<serverVars, appVars, memory, flight, late, receipts, running, effects, told>>

\* An attempt goes out, the first one once its request is stored.
\* Broken: it does not wait for that.
SendsUnstored(k) == TRUE
MaySend(k) == flight[k].tries = 0 => disk = memory
Send(k) ==
  /\ flight[k].phase = "ready" /\ MaySend(k)
  /\ flight' = [flight EXCEPT ![k].phase = "sent", ![k].tries = @ + 1]
  /\ UNCHANGED <<serverVars, appVars, memory, disk, late, receipts, running, effects, told>>

\* The attempt is handled and its answer comes back in time.
Answer(k, allowed) ==
  LET r == [id |-> flight[k].id, opp |-> k] IN
  /\ flight[k].phase = "sent"
  /\ Redeem(r, allowed)
  /\ flight' = [flight EXCEPT ![k] = Idle]
  /\ memory' = Without(memory, k)
  /\ IF redemption'[r.id] # NoReceipt
     THEN /\ receipts' = receipts \cup {EffectKey(r.id, k, redemption'[r.id].resolution, opportunity'[k])}
          /\ told' = [told EXCEPT ![r.id] = "receipt"]
     ELSE /\ told' = [told EXCEPT ![r.id] = "rejected"]
          /\ UNCHANGED receipts
  /\ UNCHANGED <<disk, late, running, effects>>

\* A request is handled and nobody hears of it.
HandleUnheard(r, allowed) ==
  /\ r \in late \/ (flight[r.opp].id = r.id /\ flight[r.opp].phase = "sent")
  /\ Redeem(r, allowed)
  /\ UNCHANGED clientVars

\* No answer in time: another attempt, or the result stays unknown.
TimeOut(k) ==
  /\ flight[k].phase = "sent"
  /\ late' = late \cup {[id |-> flight[k].id, opp |-> k]}
  /\ flight' = [flight EXCEPT ![k] =
       IF flight[k].tries < MaxAttempts THEN [flight[k] EXCEPT !.phase = "ready"] ELSE Idle]
  /\ UNCHANGED <<serverVars, appVars, memory, disk, receipts, running, effects, told>>

\* discardPending, for an opportunity that was settled by an ad.
Discard(k) ==
  /\ opportunity[k].by \in {"AD", "FREE"} /\ PendingOf(memory, k) # {}
  /\ memory' = Without(memory, k)
  /\ UNCHANGED <<serverVars, appVars, disk, flight, late, receipts, running, effects, told>>

\* applyEffectOnce: the key is stored first, then the effect runs.
\* Broken: the effect runs while the write is under way.
RunsUnstored(e) == TRUE
MayRun(e) == disk = memory
MarkEffect(e) ==
  /\ e \in receipts
  /\ receipts' = receipts \ {e}
  /\ memory' = [memory EXCEPT !.applied = @ \cup {e}]
  /\ running' = IF e \in memory.applied THEN running ELSE running \cup {e}
  /\ UNCHANGED <<serverVars, appVars, disk, flight, late, effects, told>>
RunEffect(e) ==
  /\ e \in running /\ MayRun(e)
  /\ running' = running \ {e}
  /\ effects' = [effects EXCEPT ![e] = @ + 1]
  /\ UNCHANGED <<serverVars, appVars, memory, disk, flight, late, receipts, told>>

\* The app is killed and loads its storage again; what was sent stays sent.
Restart ==
  /\ memory' = disk
  /\ flight' = [k \in Opportunities |-> Idle]
  /\ late' = late \cup {[id |-> flight[k].id, opp |-> k] : k \in {j \in Opportunities : flight[j].phase = "sent"}}
  /\ receipts' = {} /\ running' = {}
  /\ UNCHANGED <<serverVars, appVars, disk, effects, told>>

AdSkipNext ==
  \/ Prompt \/ Flush \/ Restart
  \/ \E p \in Periods : GrantTickets(p)
  \/ \E k \in Opportunities : Choose(k) \/ Send(k) \/ TimeOut(k) \/ Discard(k)
  \/ \E k \in Opportunities, how \in {"AD", "FREE"} : ClaimAdOpportunity(k, how)
  \/ \E k \in Opportunities, allowed \in BOOLEAN : Answer(k, allowed)
  \/ \E r \in Requests, allowed \in BOOLEAN : HandleUnheard(r, allowed)
  \/ \E e \in EffectKeys : MarkEffect(e) \/ RunEffect(e)

AdSkipSpec == AdSkipInit /\ [][AdSkipNext]_adSkipVars

-----------------------------------------------------------------------------
ClientStates == [pending : SUBSET Requests, applied : SUBSET EffectKeys]
Flights == [id : RequestIds \cup {0}, tries : 0..MaxAttempts, phase : {"idle", "ready", "sent"}]

\* Every reachable wallet, receipt and client state is well formed.
AdSkipTypeOK ==
  /\ wallet \in Nat /\ granted \subseteq Periods
  /\ opportunity \in [Opportunities -> OpportunityRows \cup {Unresolved}]
  /\ redemption \in [RequestIds -> Receipts \cup {NoReceipt}]
  /\ prompted \in Opportunities \cup {0} /\ current \in Opportunities \cup {0} /\ current <= prompted
  /\ memory \in ClientStates /\ disk \in ClientStates
  /\ flight \in [Opportunities -> Flights]
  /\ advanced \in [Opportunities -> Nat] /\ effects \in [EffectKeys -> Nat]
  /\ late \subseteq Requests /\ receipts \subseteq EffectKeys /\ running \subseteq EffectKeys
  /\ told \in [RequestIds -> {"unused", "nothing", "receipt", "rejected"}]

Charged == {i \in RequestIds : redemption[i].resolution = "TICKET"}
TicketsOf(k) == {i \in Charged : redemption[i].opp = k}
ResolvedOnce(k) ==
  /\ advanced[k] = IF opportunity[k] = Unresolved THEN 0 ELSE 1
  /\ TicketsOf(k) = IF opportunity[k].by = "TICKET" THEN {opportunity[k].id} ELSE {}

\* The wallet is what was granted, once per period, less the tickets charged;
\* every ticket charged resolved one opportunity, and nothing resolved one twice,
\* whatever callbacks, retries and late copies arrive.
TicketsAddUp ==
  /\ AdSkipTypeOK
  /\ wallet = Cardinality(granted) - Cardinality(Charged)
  /\ \A p, q \in granted : p # q => ~Overlap(p, q)
  /\ \A k \in Opportunities : ResolvedOnce(k)

\* A ticket that was charged while the client heard nothing of it is still
\* asked for: its request is pending, on disk too, through kills and timeouts.
ChargesAreKnown ==
  \A i \in Charged : told[i] = "nothing" =>
    \A state \in {memory, disk} : [id |-> i, opp |-> redemption[i].opp] \in state.pending

\* The ad or ticket that resolved an opportunity has its effect on the device
\* at most once, over replays, other requests for it and kills.
EffectsRunOnce ==
  \A k \in Opportunities :
    LET keys == {e \in EffectKeys : e[2] = k /\ effects[e] > 0 /\ ~(e[1] = "FREE" /\ e[3] # 0)}
    IN Cardinality(keys) <= 1 /\ \A e \in keys : effects[e] = 1 /\ opportunity[k] = [by |-> e[1], id |-> e[3]]
=============================================================================
