---------------------------- MODULE MessageOutbox ----------------------------
(***************************************************************************)
(* The smart-message outbox of crates/trailbase-guest-common:              *)
(* apps_in_toss_messages.rs (the rows) and message_outbox_recovery.rs (the *)
(* dispatch leases, one attempt row per claim).                            *)
(*                                                                         *)
(*   enqueue -> claim with lease -> begin dispatch -> send -> complete     *)
(*                                                                         *)
(* Every *_tx helper is one transaction and one action; the network call   *)
(* is outside of them.  A worker is known only by the attempt it claimed,  *)
(* and a worker that dies simply does nothing more with it.  The helpers'  *)
(* `now` argument is read before the transaction starts, so it may lag     *)
(* behind the clock.                                                       *)
(*                                                                         *)
(* Claims made without a lease (the API older workers use) are in the same *)
(* model: they have no attempt row, and their worker may send at once.     *)
(***************************************************************************)
EXTENDS Integers, FiniteSets

CONSTANTS
  Messages,        \* idempotency keys, one outbox row each
  LegacyMessages,  \* those a worker had locked before attempts were recorded
  Delays,          \* not_before_at - now of an enqueue
  Lease,           \* lease_duration_ms
  Skew,            \* how far a helper's `now` may lag behind the clock
  Limit,           \* LIMIT of a claim
  Policies,        \* the sets of phases an operator may leave open
  MaxTime,         \* bound of the clock: no lease outlives it
  MaxAttempts      \* bound of the attempt counter

ASSUME MessagesAssumption == IsFiniteSet(Messages) /\ LegacyMessages \subseteq Messages
ASSUME ClockAssumption ==
  /\ MaxTime \in Nat /\ Skew \in Nat /\ Delays \subseteq Nat
  /\ Lease \in Nat \ {0} /\ Limit \in Nat \ {0} /\ MaxAttempts \in Nat \ {0}

VARIABLES
  outbox,     \* outbox[m]: the message_outbox row of m
  attempt,    \* attempt[m][n]: the message_outbox_attempts row of m's claim n
  allowed,    \* operation phases the SmartMessage policy lets through
  now,
  permits,    \* claims whose worker may send and has not
  calls,      \* sends on their way to the provider
  sends,      \* sends[m]: sends of m the provider has received
  fate,       \* fate[m]: what became of m at the provider
  responses   \* responses some worker holds

vars == <<outbox, attempt, allowed, now, permits, calls, sends, fate, responses>>

-----------------------------------------------------------------------------
Null == -1
Times == 0..MaxTime
Numbers == 1..MaxAttempts

Rows == [status : {"absent", "READY", "LOCKED", "SENT", "FAILED", "SKIPPED"},
         attempts : 0..MaxAttempts,
         providerStatus : {"NULL", "SENT", "FAILED", "UNKNOWN", "OTHER"},
         failedAt : {"null", "set"},
         notBefore : Nat,
         createdAt : Times,
         lockedAt : Times \cup {Null}]

Absent == [status |-> "absent", attempts |-> 0, providerStatus |-> "NULL",
           failedAt |-> "null", notBefore |-> 0, createdAt |-> 0, lockedAt |-> Null]

AttemptRows == [status : {"none", "CLAIMED", "DISPATCHING", "SENT", "FAILED",
                          "SKIPPED", "EXPIRED", "UNKNOWN"},
                expires : Times \cup {Null}]

NoAttempt == [status |-> "none", expires |-> Null]

Claims == Messages \X Numbers
Responses == [msg : Messages, num : Numbers,
              status : {"SENT", "FAILED", "UNKNOWN", "OTHER"}, bare : BOOLEAN]

\* The attempt row of the row's current claim; none for one without a lease.
Current(m) == IF outbox[m].attempts = 0 THEN NoAttempt ELSE attempt[m][outbox[m].attempts]
Leased(m, n) == attempt[m][n].status # "none"

\* The `now` a helper may be called with.
Clock == {t \in Times : t <= now /\ now - t <= Skew}

Permitted(phase) == phase \in allowed

\* Broken: a status is taken at its word whatever the envelope says.
StatusOverEnvelope(ok, status) ==
  CASE status = "absent" -> IF ok = "true" THEN "SENT" ELSE "UNKNOWN"
    [] OTHER -> status

\* parse_message_proxy_response and normalize_provider_status: the default of
\* a missing status is the envelope's, UNKNOWN survives any envelope, and
\* every other status under ok:false is a failure.
ParseResponse(ok, status) ==
  LET raw == IF status # "absent" THEN status
             ELSE CASE ok = "true" -> "SENT"
                    [] ok = "false" -> "FAILED"
                    [] OTHER -> "UNKNOWN"
  IN IF raw = "UNKNOWN" THEN "UNKNOWN" ELSE IF ok = "false" THEN "FAILED" ELSE raw

\* The answer to a claim as the worker holds it; bare where ok:true came alone.
Response(p, ok, status) ==
  [msg |-> p[1], num |-> p[2], status |-> ParseResponse(ok, status),
   bare |-> ok = "true" /\ status = "absent"]

\* message_attempt_status.  Broken: the outbox status word is copied; an
\* unconfirmed outcome counts as a failure.
CopiedStatus(status) == status
TwoWayStatus(status) == IF status = "SENT" THEN "SENT" ELSE "FAILED"
AttemptStatus(status) == IF status \in {"SENT", "UNKNOWN"} THEN status ELSE "FAILED"

\* complete_message_outbox_tx.  Broken: every outcome but SENT is stamped as a
\* failure.
CompletedStamped(row, status) ==
  [row EXCEPT !.status = IF status = "SENT" THEN "SENT" ELSE "FAILED",
              !.providerStatus = status, !.lockedAt = Null,
              !.failedAt = IF status = "SENT" THEN @ ELSE "set"]
Completed(row, status) ==
  [row EXCEPT !.status = IF status = "SENT" THEN "SENT" ELSE "FAILED",
              !.providerStatus = status, !.lockedAt = Null,
              !.failedAt = IF status = "FAILED" THEN "set" ELSE @]

Skipped(row) == [row EXCEPT !.status = "SKIPPED", !.failedAt = "set", !.lockedAt = Null]

\* The guard START_DISPATCH and FINISH_ATTEMPT share: this attempt is the
\* row's current claim, in that status, and its lease runs.
Owns(m, n, status, t) ==
  /\ attempt[m][n].status = status /\ attempt[m][n].expires > t
  /\ outbox[m].attempts = n /\ outbox[m].status = "LOCKED"

-----------------------------------------------------------------------------
\* A row locked by an older worker, which may have sent its message or be
\* about to.
LegacyRow == [Absent EXCEPT !.status = "LOCKED", !.attempts = 1, !.lockedAt = 0]

Init ==
  /\ outbox = [m \in Messages |-> IF m \in LegacyMessages THEN LegacyRow ELSE Absent]
  /\ attempt = [m \in Messages |-> [n \in Numbers |-> NoAttempt]]
  /\ \E live \in SUBSET LegacyMessages : \E ran \in SUBSET (LegacyMessages \ live) :
       /\ permits = {<<m, 1>> : m \in live}
       /\ sends = [m \in Messages |-> IF m \in ran THEN 1 ELSE 0]
       /\ fate = [m \in Messages |-> IF m \in ran THEN "delivered" ELSE "unseen"]
  /\ allowed \in Policies
  /\ now = 0
  /\ calls = {}
  /\ responses = {}

provider == <<calls, sends, fate>>

\* enqueue_message_outbox_tx; a conflict on the idempotency key returns the
\* row that is there, unchanged.
Enqueue(m) ==
  /\ Permitted("Entry")
  /\ outbox[m].status = "absent"
  /\ \E t \in Clock, d \in Delays :
       outbox' = [outbox EXCEPT ![m] = [Absent EXCEPT
                    !.status = "READY", !.notBefore = t + d, !.createdAt = t]]
  /\ UNCHANGED <<attempt, allowed, now, permits, provider, responses>>

\* ORDER BY not_before_at, created_at LIMIT n over the rows due at t: ties are
\* broken in any way.
Earlier(q, m) ==
  \/ outbox[q].notBefore < outbox[m].notBefore
  \/ /\ outbox[q].notBefore = outbox[m].notBefore
     /\ outbox[q].createdAt < outbox[m].createdAt

\* Broken: a row somebody has locked is due too.
DueAgain(t) ==
  {m \in Messages : outbox[m].status \in {"READY", "LOCKED"} /\ outbox[m].notBefore <= t}
Due(t) == {m \in Messages : outbox[m].status = "READY" /\ outbox[m].notBefore <= t}
Batches(t) ==
  {S \in SUBSET Due(t) \ {{}} :
    /\ Cardinality(S) <= Limit
    /\ Cardinality(S) = Limit \/ S = Due(t)
    /\ \A m \in S, q \in Due(t) \ S : ~Earlier(q, m)}

Locked(S, t) ==
  [m \in Messages |->
    IF m \in S THEN [outbox[m] EXCEPT !.status = "LOCKED", !.attempts = @ + 1,
                                      !.lockedAt = t]
    ELSE outbox[m]]

\* claim_message_outbox_with_lease_tx.
ClaimWithLease ==
  /\ Permitted("Dispatch")
  /\ \E t \in Clock : \E S \in Batches(t) :
       /\ t + Lease <= MaxTime
       /\ \A m \in S : outbox[m].attempts < MaxAttempts
       /\ outbox' = Locked(S, t)
       /\ attempt' = [m \in Messages |->
            IF m \in S
            THEN [attempt[m] EXCEPT ![outbox[m].attempts + 1] =
                    [status |-> "CLAIMED", expires |-> t + Lease]]
            ELSE attempt[m]]
  /\ UNCHANGED <<allowed, now, permits, provider, responses>>

\* claim_ready_message_outbox_tx on its own: the worker may send at once.
ClaimReady ==
  /\ Permitted("Dispatch")
  /\ \E t \in Clock : \E S \in Batches(t) :
       /\ \A m \in S : outbox[m].attempts < MaxAttempts
       /\ outbox' = Locked(S, t)
       /\ permits' = permits \cup {<<m, outbox[m].attempts + 1>> : m \in S}
  /\ UNCHANGED <<attempt, allowed, now, provider, responses>>

\* begin_message_outbox_dispatch_tx, by any worker holding any attempt.
\* Broken: the permit is given out and not recorded.
BeginUnrecorded(m, n) ==
  /\ Permitted("Dispatch")
  /\ \E t \in Clock : Owns(m, n, "CLAIMED", t)
  /\ permits' = permits \cup {<<m, n>>}
  /\ UNCHANGED <<outbox, attempt, allowed, now, provider, responses>>
BeginDispatch(m, n) ==
  /\ Permitted("Dispatch")
  /\ \E t \in Clock : Owns(m, n, "CLAIMED", t)
  /\ attempt' = [attempt EXCEPT ![m][n].status = "DISPATCHING"]
  /\ permits' = permits \cup {<<m, n>>}
  /\ UNCHANGED <<outbox, allowed, now, provider, responses>>

\* The send leaves the worker, at any time after the permit.  The proxy may
\* give up waiting for the provider and answer with its bare error envelope.
Send(p) ==
  /\ permits' = permits \ {p}
  /\ calls' = calls \cup {p}
  /\ responses' = responses \cup {Response(p, "false", "absent")}
  /\ UNCHANGED <<outbox, attempt, allowed, now, sends, fate>>

\* What an envelope can say of a message that met that fate.  `ok` is about the
\* call: without a status it says nothing of the message, nor does UNKNOWN.
Truthful(f, ok, status) ==
  /\ ok # "false" /\ status = "SENT" => f = "delivered"
  /\ ok = "false" /\ status \in {"SENT", "OTHER"} => f = "rejected"
  /\ status = "FAILED" => f = "rejected"

\* The provider receives a send and answers.
Deliver(c) ==
  /\ calls' = calls \ {c}
  /\ sends' = [sends EXCEPT ![c[1]] = @ + 1]
  /\ \E f \in {"delivered", "rejected"}, ok \in {"true", "false", "absent"},
        status \in {"SENT", "FAILED", "UNKNOWN", "OTHER", "absent"} :
       /\ Truthful(f, ok, status)
       /\ fate' = [fate EXCEPT ![c[1]] = f]
       /\ responses' = responses \cup {Response(c, ok, status)}
  /\ UNCHANGED <<outbox, attempt, allowed, now, permits>>

LoseCall(c) ==
  /\ calls' = calls \ {c}
  /\ UNCHANGED <<outbox, attempt, allowed, now, permits, sends, fate, responses>>

\* complete_message_outbox_attempt_tx: a fenced response changes nothing.
CompleteAttempt(a) ==
  /\ \E t \in Clock : Owns(a.msg, a.num, "DISPATCHING", t)
  /\ attempt' = [attempt EXCEPT ![a.msg][a.num].status = AttemptStatus(a.status)]
  /\ outbox' = [outbox EXCEPT ![a.msg] = Completed(@, a.status)]
  /\ UNCHANGED <<allowed, now, permits, provider, responses>>

\* skip_message_outbox_attempt_tx: a gate refused the claimed message.
SkipAttempt(m, n) ==
  /\ \E t \in Clock : Owns(m, n, "CLAIMED", t)
  /\ attempt' = [attempt EXCEPT ![m][n].status = "SKIPPED"]
  /\ outbox' = [outbox EXCEPT ![m] = Skipped(@)]
  /\ UNCHANGED <<allowed, now, permits, provider, responses>>

\* complete_message_outbox_tx and fail_message_outbox_tx by a worker that
\* claimed without a lease, skip_message_outbox_tx by one that has not sent.
CompleteReady(a) ==
  /\ ~Leased(a.msg, a.num)
  /\ outbox[a.msg].status = "LOCKED"
  /\ outbox' = [outbox EXCEPT ![a.msg] = Completed(@, a.status)]
  /\ UNCHANGED <<attempt, allowed, now, permits, provider, responses>>

FailReady(m, n) ==
  /\ ~Leased(m, n)
  /\ <<m, n>> \in permits \/ \E a \in responses : a.msg = m /\ a.num = n
  /\ outbox[m].status = "LOCKED"
  /\ outbox' = [outbox EXCEPT ![m].status = "FAILED", ![m].providerStatus = "FAILED",
                              ![m].failedAt = "set", ![m].lockedAt = Null]
  /\ permits' = permits \ {<<m, n>>}
  /\ UNCHANGED <<attempt, allowed, now, provider, responses>>

SkipReady(m, n) ==
  /\ ~Leased(m, n) /\ <<m, n>> \in permits
  /\ outbox[m].status = "LOCKED"
  /\ outbox' = [outbox EXCEPT ![m] = Skipped(@)]
  /\ permits' = permits \ {<<m, n>>}
  /\ UNCHANGED <<attempt, allowed, now, provider, responses>>

\* skip_message_outbox_tx on a row that is waiting.  Broken: on any row.
SkipAnyRow(m) ==
  /\ outbox[m].status # "absent"
  /\ outbox' = [outbox EXCEPT ![m] = Skipped(@)]
  /\ UNCHANGED <<attempt, allowed, now, permits, provider, responses>>
SkipWaiting(m) ==
  /\ outbox[m].status = "READY"
  /\ outbox' = [outbox EXCEPT ![m] = Skipped(@)]
  /\ UNCHANGED <<attempt, allowed, now, permits, provider, responses>>

\* recover_expired_message_outbox_attempts_tx.  Broken: an attempt that holds
\* a dispatch permit is put back too, or is never looked at.
Active == {"CLAIMED", "DISPATCHING"}
RequeuedAlways(row, status) ==
  [row EXCEPT !.status = "READY", !.providerStatus = "NULL", !.lockedAt = Null]
Recovered(row, status) ==
  IF status = "CLAIMED"
  THEN [row EXCEPT !.status = "READY", !.providerStatus = "NULL", !.lockedAt = Null]
  ELSE [row EXCEPT !.status = "FAILED", !.providerStatus = "UNKNOWN", !.lockedAt = Null]

ExpiredClaim(a, t) == a.status = "CLAIMED" /\ a.expires <= t
Expired(a, t) == a.status \in Active /\ a.expires <= t

RecoverExpired ==
  \E t \in Clock :
    /\ \E m \in Messages, n \in Numbers : Expired(attempt[m][n], t)
    /\ outbox' = [m \in Messages |->
         IF outbox[m].status = "LOCKED" /\ Expired(Current(m), t)
         THEN Recovered(outbox[m], Current(m).status) ELSE outbox[m]]
    /\ attempt' = [m \in Messages |-> [n \in Numbers |->
         IF Expired(attempt[m][n], t)
         THEN [attempt[m][n] EXCEPT !.status = IF @ = "CLAIMED" THEN "EXPIRED" ELSE "UNKNOWN"]
         ELSE attempt[m][n]]]
    /\ UNCHANGED <<allowed, now, permits, provider, responses>>

\* quarantine_legacy_message_outbox_locks_tx(locked_before).
QuarantineLegacy ==
  \E before \in Times :
    LET old == {m \in Messages : /\ outbox[m].status = "LOCKED"
                                 /\ outbox[m].lockedAt <= before
                                 /\ Current(m).status = "none"}
    IN /\ before <= now /\ old # {}
       /\ outbox' = [m \in Messages |->
            IF m \in old
            THEN [outbox[m] EXCEPT !.status = "FAILED", !.providerStatus = "UNKNOWN",
                                   !.lockedAt = Null]
            ELSE outbox[m]]
       /\ UNCHANGED <<attempt, allowed, now, permits, provider, responses>>

SetPolicy ==
  /\ allowed' \in Policies \ {allowed}
  /\ UNCHANGED <<outbox, attempt, now, permits, provider, responses>>

Tick ==
  /\ now < MaxTime
  /\ now' = now + 1
  /\ UNCHANGED <<outbox, attempt, allowed, permits, provider, responses>>

Next ==
  \/ \E m \in Messages : Enqueue(m) \/ SkipWaiting(m)
  \/ \E m \in Messages, n \in Numbers :
       \/ BeginDispatch(m, n) \/ SkipAttempt(m, n)
       \/ FailReady(m, n) \/ SkipReady(m, n)
  \/ \E p \in permits : Send(p)
  \/ \E c \in calls : Deliver(c) \/ LoseCall(c)
  \/ \E a \in responses : CompleteAttempt(a) \/ CompleteReady(a)
  \/ ClaimWithLease \/ ClaimReady \/ RecoverExpired \/ QuarantineLegacy
  \/ SetPolicy \/ Tick

Spec == Init /\ [][Next]_vars

\* The app's worker loop keeps running the recovery sweep, and time passes.
FairSpec == Spec /\ WF_vars(Tick) /\ WF_vars(RecoverExpired)

-----------------------------------------------------------------------------
TypeOK ==
  /\ outbox \in [Messages -> Rows]
  /\ attempt \in [Messages -> [Numbers -> AttemptRows]]
  /\ allowed \in Policies
  /\ now \in Times
  /\ permits \subseteq Claims
  /\ calls \subseteq Claims
  /\ sends \in [Messages -> Nat]
  /\ fate \in [Messages -> {"unseen", "delivered", "rejected"}]
  /\ responses \subseteq Responses

\* A message is sent at most once, across expired leases, requeues, late
\* sends and workers that claimed without a lease.
AtMostOneSend == \A m \in Messages : sends[m] <= 1

\* Whatever can be claimed again, or has been and holds no permit yet, was
\* never sent, is not being sent and cannot be sent by an earlier worker.
RequeueIsSafe ==
  \A m \in Messages :
    outbox[m].status = "READY" \/ Current(m).status = "CLAIMED" =>
      sends[m] = 0 /\ \A n \in Numbers : <<m, n>> \notin permits \cup calls

\* The attempt rows and the outbox row tell one story: an attempt is active
\* only while it is the row's current claim, and ends with the row's outcome.
AttemptsMirrorOutbox ==
  \A m \in Messages, n \in Numbers :
    LET row == outbox[m]  a == attempt[m][n] IN
    /\ a.status \in Active => row.status = "LOCKED" /\ row.attempts = n
    /\ a.status = "SENT" => row.status = "SENT"
    /\ a.status = "FAILED" => row.status = "FAILED" /\ row.providerStatus \in {"FAILED", "OTHER"}
    /\ a.status = "UNKNOWN" => row.status = "FAILED" /\ row.providerStatus = "UNKNOWN"
    /\ a.status = "SKIPPED" => row.status = "SKIPPED"

\* failed_at marks a failure the provider confirmed or a message that was
\* skipped, never an outcome that is unknown.
UnknownIsNotStamped ==
  \A m \in Messages :
    /\ outbox[m].failedAt = "set" => outbox[m].status \in {"FAILED", "SKIPPED"}
    /\ outbox[m].providerStatus \in {"UNKNOWN", "OTHER"} => outbox[m].failedAt = "null"

\* SENT is recorded only of a message the provider received, once, and that it
\* delivered unless all it ever said of it is a bare ok:true: no late answer, no
\* conflicting envelope and no answer to another claim makes a row SENT.
Assumed(m) == \E a \in responses : a.msg = m /\ a.bare
SentIsBacked ==
  \A m \in Messages : outbox[m].status = "SENT" =>
    sends[m] = 1 /\ (fate[m] = "delivered" \/ Assumed(m))

\* A row that reached an outcome is never written again, nor is an attempt
\* that ended: late responses and expiries are fenced out.
Ended(a) == a.status \in {"SENT", "FAILED", "SKIPPED", "EXPIRED", "UNKNOWN"}
OutcomesAreFinal ==
  [][\A m \in Messages :
       /\ outbox[m].status \in {"SENT", "FAILED", "SKIPPED"} => outbox'[m] = outbox[m]
       /\ \A n \in Numbers : Ended(attempt[m][n]) => attempt'[m][n] = attempt[m][n]]_vars

\* The comments on message_attempt_status and normalize_provider_status, and
\* the outcome taxonomy of docs/en/functional-messages.md: a dispatch recorded
\* as a confirmed failure is one the provider confirmed.
FailedIsConfirmed ==
  \A m \in Messages, n \in Numbers :
    attempt[m][n].status = "FAILED" /\ outbox[m].providerStatus = "FAILED" =>
      fate[m] # "delivered"

\* docs/en/functional-messages.md on completion, and the comment in
\* normalize_provider_status: ok:true alone never confirms a send, so a row that
\* says SENT is one whose message was delivered.
SentWasDelivered ==
  \A m \in Messages : outbox[m].status = "SENT" => fate[m] = "delivered"

\* Whatever becomes of its worker and of the policy, a leased row does not
\* stay locked: the sweep closes or requeues it once the lease is over.
LeasesEnd ==
  \A m \in Messages, n \in Numbers :
    (outbox[m].status = "LOCKED" /\ outbox[m].attempts = n /\ Leased(m, n))
      ~> ~(outbox[m].status = "LOCKED" /\ outbox[m].attempts = n)

\* The abstract contract.
Phase(m) ==
  CASE outbox[m].status = "absent" -> "none"
    [] outbox[m].status = "READY" \/ Current(m).status = "CLAIMED" -> "open"
    [] outbox[m].status = "SKIPPED"
       /\ (outbox[m].attempts = 0 \/ Current(m).status # "none") -> "dropped"
    [] OTHER -> "committed"

Record(m) ==
  CASE outbox[m].status = "absent" -> "none"
    [] outbox[m].status \in {"READY", "LOCKED"} -> "pending"
    [] outbox[m].status = "SENT" -> "success"
    [] OTHER -> "failed"

Contract == INSTANCE EffectContract WITH
  Requests <- Messages,
  Committed <- LegacyMessages,
  phase <- [m \in Messages |-> Phase(m)],
  runs <- sends,
  record <- [m \in Messages |-> Record(m)]

ImplementsContract == Contract!Spec
=============================================================================
