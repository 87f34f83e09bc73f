--------------------------- MODULE PromotionLedger ---------------------------
(***************************************************************************)
(* The persisted three-step promotion reward of                            *)
(* crates/trailbase-guest-common/src/promotion_rewards.rs:                 *)
(*   insert -> prepare -> store key -> claim -> execute -> apply outcome.  *)
(*                                                                         *)
(* Every *_tx helper runs in one SQLite transaction and is one action.     *)
(* Workers are not given a program: any worker may call any helper at any  *)
(* time, in any order and after any pause, the one rule being the one the  *)
(* helpers document: an execute call is made only by the worker to which   *)
(* begin_promotion_reward_execute_tx returned the row, once.  Calls may be *)
(* lost or arrive late, answers may be lost, repeated and reordered, and a *)
(* worker may die between its claim and its call.                          *)
(*                                                                         *)
(* Time is a bounded clock read by the helpers as their `now` argument.    *)
(***************************************************************************)
EXTENDS Integers, FiniteSets

CONSTANTS
  Requests,        \* provider_request_id values; numbers, to order ties by id
  LegacyRequests,  \* those with a row written by the removed one-call flow
  Keys,            \* transaction keys the provider can issue
  NoKey,           \* provider_transaction_key IS NULL
  Workers,
  MaxTime,         \* bound of the clock
  AbandonAge,      \* now - updated_before of the abandon sweep
  RecoveryAge,     \* now - started_before of the recovery listing
  Limit,           \* LIMIT of both sweeps
  Policies         \* the sets of phases an operator may leave open

ASSUME RequestsAssumption == Requests \subseteq Nat \ {0} /\ IsFiniteSet(Requests)
ASSUME LegacyAssumption == LegacyRequests \subseteq Requests
ASSUME NoKeyAssumption == NoKey \notin Keys
ASSUME TimeAssumption ==
  MaxTime \in Nat /\ AbandonAge \in Nat /\ RecoveryAge \in Nat /\ Limit \in Nat \ {0}
ASSUME PoliciesAssumption ==
  \A p \in Policies : p \subseteq {"Entry", "Dispatch", "Settlement"}

VARIABLES
  ledger,     \* ledger[r]: the row whose provider_request_id is r
  allowed,    \* operation phases the Promotion policy lets through
  now,
  prepared,   \* <<r, k>>: some worker was issued key k for r's recipient
  permit,     \* permit[w]: the row begin_promotion_reward_execute_tx gave w
  calls,      \* execute calls on their way to the provider
  executed,   \* executed[r]: execute calls for r the provider has received
  verdict,    \* verdict[k]: what the provider's result lookup says of k
  worklist,   \* rows some recovery pass has listed and not yet looked up
  answers     \* answers seen by some worker; applied later, never, or twice

vars == <<ledger, allowed, now, prepared, permit, calls, executed, verdict,
          worklist, answers>>

-----------------------------------------------------------------------------
Null == -1    \* a NULL timestamp
Times == 0..MaxTime

\* granted_at and failed_at come from the provider; only whether there is one
\* matters.
Stamps == {"null", "set"}

\* NOT_EXECUTED is the local marker of an abandoned row; the others are the
\* provider statuses normalize_promotion_provider_status produces.
Observed == {"GRANTED", "PENDING", "UNKNOWN", "FAILED", "NOT_FOUND"}

Rows == [status : {"absent", "pending", "success", "failed"},
         protocol : {"none", "legacy", "three-step"},
         key : Keys \cup {NoKey},
         startedAt : Times \cup {Null},
         providerStatus : Observed \cup {"NONE", "NOT_EXECUTED"},
         grantedAt : Stamps,
         failedAt : Stamps,
         updatedAt : Times \cup {Null}]

Absent == [status |-> "absent", protocol |-> "none", key |-> NoKey,
           startedAt |-> Null, providerStatus |-> "NONE", grantedAt |-> "null",
           failedAt |-> "null", updatedAt |-> Null]

NoPermit == [req |-> 0, key |-> NoKey]
Permits == [req : Requests, key : Keys]
Calls == [req : Requests, key : Keys, by : Workers]
Answers == [req : Requests, key : Keys, status : Observed]

\* Broken: an ok envelope that names no failure passes for a grant.
OkFabricatesGrant(ok, status) ==
  IF ok /\ status # "FAILED" THEN "GRANTED" ELSE "UNKNOWN"

\* The ok flag of the envelope decides what its status is worth: a refusal is
\* definite only when it names a failure, and an ok without a status (NONE)
\* grants nothing.
NormalizeProviderStatus(ok, status) ==
  CASE status = "UNKNOWN" \/ (~ok /\ status # "FAILED") -> "UNKNOWN"
    [] ok /\ status = "NONE" -> "PENDING"
    [] OTHER -> status

\* Broken: the provider's word is stored as the row's status.
StatusPassedThrough(providerStatus) == providerStatus

PromotionLedgerStatus(providerStatus) ==
  CASE providerStatus = "GRANTED" -> "success"
    [] providerStatus \in {"PENDING", "UNKNOWN"} -> "pending"
    [] OTHER -> "failed"

\* enforce_configured_operation_tx(Promotion, phase) returns Ok.
Permitted(phase) == phase \in allowed

\* ORDER BY updated_at, id LIMIT n over the rows S.
Before(q, r) ==
  \/ ledger[q].updatedAt < ledger[r].updatedAt
  \/ ledger[q].updatedAt = ledger[r].updatedAt /\ q < r
Oldest(S, n) == {r \in S : Cardinality({q \in S : Before(q, r)}) < n}

\* The WHERE clauses of the four guarded statements.  Broken variants: a
\* legacy row taken for an unclaimed one, a stored key replaced, a claim that
\* ignores the marker, an abandon sweep that ignores it.
UnclaimedOrLegacy(row) == row.status = "pending" /\ row.startedAt = Null
Unclaimed(row) ==
  row.status = "pending" /\ row.protocol = "three-step" /\ row.startedAt = Null

ReplacesKey(row, k) == row.status = "pending" /\ row.protocol = "three-step"
StoresKey(row, k) == Unclaimed(row) /\ row.key \in {NoKey, k}

ClaimableAgain(row) ==
  row.status = "pending" /\ row.protocol = "three-step" /\ row.key # NoKey
Claimable(row) == Unclaimed(row) /\ row.key # NoKey

AbandonableWhenPending(row) == row.status = "pending" /\ row.protocol = "three-step"
Abandonable(row) == Unclaimed(row)

AwaitsRecovery(row) ==
  /\ row.status = "pending" /\ row.protocol = "three-step"
  /\ row.key # NoKey /\ row.startedAt # Null

\* The sticky-terminal guards of the outcome UPDATE: success is kept unless
\* the new status is success too, a failure is not reopened by a pending one.
KeptSuccess(row, new) == row.status = "success" /\ new # "success"
NeverShut(row, new) == FALSE
ShutFailure(row, new) == row.status = "failed" /\ new = "pending"

\* COALESCE(old, given) while the status the stamp documents applies, else
\* NULL.  Broken: an old stamp survives a change of status.
StampSurvives(old, given, applies) ==
  IF applies /\ old = "null" THEN given ELSE old
Stamp(old, given, applies) ==
  IF ~applies THEN "null" ELSE IF old = "null" THEN given ELSE old

\* apply_promotion_reward_outcome_tx's UPDATE; a stored key is never replaced
\* and a missing one is filled in, on a shut failure too.
AfterOutcome(row, key, providerStatus, stamped) ==
  LET new == PromotionLedgerStatus(providerStatus)
      heldKey == IF row.key # NoKey THEN row.key ELSE key
  IN IF KeptSuccess(row, new) THEN row
     ELSE IF ShutFailure(row, new)
     THEN [row EXCEPT !.key = heldKey, !.grantedAt = "null"]
     ELSE [row EXCEPT !.status = new,
                      !.providerStatus = providerStatus,
                      !.key = heldKey,
                      !.grantedAt = Stamp(@, stamped, new = "success"),
                      !.failedAt = Stamp(@, stamped, new = "failed"),
                      !.updatedAt = now]

-----------------------------------------------------------------------------
\* A legacy row is pending, with or without a key, and may have been executed
\* before the flow that wrote it was removed.
LegacyRow(k) ==
  [Absent EXCEPT !.status = "pending", !.protocol = "legacy", !.key = k,
                 !.providerStatus = "PENDING", !.updatedAt = 0]

Init ==
  /\ \E keyOf \in [LegacyRequests -> Keys \cup {NoKey}], ran \in SUBSET LegacyRequests :
       /\ \A q, r \in LegacyRequests : q # r => keyOf[q] # keyOf[r] \/ keyOf[q] = NoKey
       /\ ledger = [r \in Requests |->
                     IF r \in LegacyRequests THEN LegacyRow(keyOf[r]) ELSE Absent]
       /\ prepared = {<<r, keyOf[r]>> : r \in {q \in LegacyRequests : keyOf[q] # NoKey}}
       /\ executed = [r \in Requests |-> IF r \in ran THEN 1 ELSE 0]
       /\ verdict = [k \in Keys |->
                      IF \E r \in ran : keyOf[r] = k THEN "PENDING" ELSE "NOT_FOUND"]
  /\ allowed \in Policies
  /\ now = 0
  /\ permit = [w \in Workers |-> NoPermit]
  /\ calls = {}
  /\ worklist = {}
  /\ answers = {}

provider == <<calls, executed, verdict>>

\* The row the INSERT writes.
NewRow == [Absent EXCEPT !.status = "pending", !.protocol = "three-step",
                         !.providerStatus = "PENDING", !.updatedAt = now]

\* insert_promotion_reward_ledger_tx.  A row that is already there, for the
\* same context or another one, is returned or refused but never changed.
Insert(r) ==
  /\ Permitted("Entry")
  /\ ledger[r].status = "absent"
  /\ ledger' = [ledger EXCEPT ![r] = NewRow]
  /\ UNCHANGED <<allowed, now, prepared, permit, provider, worklist, answers>>

\* promotion_reward_prepare: the provider issues a fresh key to some worker.
Prepare(r) ==
  /\ ledger[r].status # "absent"
  /\ \E k \in Keys :
       /\ \A q \in Requests : <<q, k>> \notin prepared
       /\ prepared' = prepared \cup {<<r, k>>}
  /\ UNCHANGED <<ledger, allowed, now, permit, provider, worklist, answers>>

\* store_promotion_transaction_key_tx, by any worker that was issued a key.
StoreKey(r, k) ==
  /\ Permitted("Dispatch")
  /\ <<r, k>> \in prepared
  /\ StoresKey(ledger[r], k)
  /\ ledger' = [ledger EXCEPT ![r].key = k, ![r].updatedAt = now]
  /\ UNCHANGED <<allowed, now, prepared, permit, provider, worklist, answers>>

\* begin_promotion_reward_execute_tx: the row goes to one worker.
BeginExecute(w, r) ==
  /\ Permitted("Dispatch")
  /\ permit[w] = NoPermit
  /\ Claimable(ledger[r])
  /\ ledger' = [ledger EXCEPT ![r].startedAt = now, ![r].updatedAt = now]
  /\ permit' = [permit EXCEPT ![w] = [req |-> r, key |-> ledger[r].key]]
  /\ UNCHANGED <<allowed, now, prepared, provider, worklist, answers>>

\* promotion_reward_execute leaves the worker, at any time after the claim and
\* whatever the policy says by now.  From here on the worker may time out.
Execute(w) ==
  /\ permit[w] # NoPermit
  /\ calls' = calls \cup {[req |-> permit[w].req, key |-> permit[w].key, by |-> w]}
  /\ answers' = answers \cup {[req |-> permit[w].req, key |-> permit[w].key,
                               status |-> NormalizeProviderStatus(FALSE, "NONE")]}
  /\ permit' = [permit EXCEPT ![w] = NoPermit]
  /\ UNCHANGED <<ledger, allowed, now, prepared, executed, verdict, worklist>>

\* The worker dies between its claim and its call.
Crash(w) ==
  /\ permit[w] # NoPermit
  /\ permit' = [permit EXCEPT ![w] = NoPermit]
  /\ UNCHANGED <<ledger, allowed, now, prepared, provider, worklist, answers>>

\* The provider receives an execute call and answers with its first verdict;
\* the envelope around it may be a failure and may leave the verdict out.
Deliver(c) ==
  /\ calls' = calls \ {c}
  /\ executed' = [executed EXCEPT ![c.req] = @ + 1]
  /\ \E v \in {"PENDING", "GRANTED", "FAILED"}, ok \in BOOLEAN : \E seen \in {v, "NONE"} :
       /\ verdict' = [verdict EXCEPT ![c.key] = IF @ = "NOT_FOUND" THEN v ELSE @]
       /\ answers' = answers \cup {[req |-> c.req, key |-> c.key,
                                    status |-> NormalizeProviderStatus(ok, seen)]}
  /\ UNCHANGED <<ledger, allowed, now, prepared, permit, worklist>>

\* The call never reaches the provider.
LoseCall(c) ==
  /\ calls' = calls \ {c}
  /\ UNCHANGED <<ledger, allowed, now, prepared, permit, executed, verdict,
                 worklist, answers>>

\* The provider decides an execution it had accepted.
Decide(k) ==
  /\ verdict[k] = "PENDING"
  /\ \E v \in {"GRANTED", "FAILED"} : verdict' = [verdict EXCEPT ![k] = v]
  /\ UNCHANGED <<ledger, allowed, now, prepared, permit, calls, executed,
                 worklist, answers>>

\* promotion_reward_ledgers_awaiting_recovery_tx.
ListRecovery ==
  LET due == {r \in Requests : AwaitsRecovery(ledger[r])
                               /\ ledger[r].startedAt < now - RecoveryAge}
  IN /\ due # {}
     /\ worklist' = worklist \cup Oldest(due, Limit)
     /\ UNCHANGED <<ledger, allowed, now, prepared, permit, provider, answers>>

\* promotion_reward_status with the row's stored key.  A listed row is looked
\* up whatever became of it since; a keyed legacy row is looked up by hand.
Lookup(r) ==
  /\ \/ r \in worklist
     \/ ledger[r].protocol = "legacy" /\ ledger[r].key # NoKey
  /\ \E ok \in BOOLEAN, seen \in {verdict[ledger[r].key], "NONE"} :
       answers' = answers \cup {[req |-> r, key |-> ledger[r].key,
                                 status |-> NormalizeProviderStatus(ok, seen)]}
  /\ worklist' = worklist \ {r}
  /\ UNCHANGED <<ledger, allowed, now, prepared, permit, provider>>

\* apply_promotion_reward_outcome_tx, not gated by the policy.
ApplyOutcome(a) ==
  /\ ledger[a.req].status # "absent"
  /\ \E stamped \in Stamps :
       ledger' = [ledger EXCEPT ![a.req] =
                    AfterOutcome(ledger[a.req], a.key, a.status, stamped)]
  /\ UNCHANGED <<allowed, now, prepared, permit, provider, worklist, answers>>

\* abandon_unexecuted_promotion_reward_ledgers_tx.
Abandon ==
  LET stale == {r \in Requests : Abandonable(ledger[r])
                                 /\ ledger[r].updatedAt < now - AbandonAge}
      given == Oldest(stale, Limit)
  IN /\ Permitted("Settlement")
     /\ stale # {}
     /\ ledger' = [r \in Requests |->
          IF r \in given
          THEN [ledger[r] EXCEPT !.status = "failed", !.providerStatus = "NOT_EXECUTED",
                                 !.failedAt = "set", !.updatedAt = now]
          ELSE ledger[r]]
     /\ UNCHANGED <<allowed, now, prepared, permit, provider, worklist, answers>>

\* An operator pauses or resumes phases of the feature; time passes.
SetPolicy ==
  /\ allowed' \in Policies \ {allowed}
  /\ UNCHANGED <<ledger, now, prepared, permit, provider, worklist, answers>>

Tick ==
  /\ now < MaxTime
  /\ now' = now + 1
  /\ UNCHANGED <<ledger, allowed, prepared, permit, provider, worklist, answers>>

Next ==
  \/ \E r \in Requests : Insert(r) \/ Prepare(r) \/ Lookup(r)
  \/ \E r \in Requests, k \in Keys : StoreKey(r, k)
  \/ \E w \in Workers, r \in Requests : BeginExecute(w, r)
  \/ \E w \in Workers : Execute(w) \/ Crash(w)
  \/ \E c \in calls : Deliver(c) \/ LoseCall(c)
  \/ \E k \in Keys : Decide(k)
  \/ \E a \in answers : ApplyOutcome(a)
  \/ ListRecovery \/ Abandon \/ SetPolicy \/ Tick

Spec == Init /\ [][Next]_vars

-----------------------------------------------------------------------------
TypeOK ==
  /\ ledger \in [Requests -> Rows]
  /\ allowed \in Policies
  /\ now \in Times
  /\ prepared \subseteq Requests \X Keys
  /\ permit \in [Workers -> Permits \cup {NoPermit}]
  /\ calls \subseteq Calls
  /\ executed \in [Requests -> Nat]
  /\ verdict \in [Keys -> Observed]
  /\ worklist \subseteq Requests
  /\ answers \subseteq Answers

\* A reward is executed at most once: not by two workers that claim together,
\* not after a crash and a retry, not by a call that arrives late, and not
\* on top of what a legacy row may already have done.
AtMostOneExecution == \A r \in Requests : executed[r] <= 1

\* The only handle to a running payout is never lost: whatever is or was on
\* its way to the provider for a three-step row carries the key the row holds.
HandleIsStored ==
  \A r \in Requests : ledger[r].protocol = "three-step" =>
    /\ \A c \in calls : c.req = r => c.key = ledger[r].key
    /\ \A w \in Workers : permit[w].req = r => permit[w].key = ledger[r].key
    /\ executed[r] > 0 => ledger[r].key \in Keys /\ verdict[ledger[r].key] # "NOT_FOUND"

\* An abandoned intent can never pay: no call for it was made, is under way
\* or can still be made.
AbandonedNeverRuns ==
  \A r \in Requests : ledger[r].providerStatus = "NOT_EXECUTED" =>
    /\ ledger[r].status = "failed" /\ executed[r] = 0
    /\ \A c \in calls : c.req # r
    /\ \A w \in Workers : permit[w].req # r

\* The ledger says success only of a reward the provider granted.
SuccessIsGranted ==
  \A r \in Requests : ledger[r].status = "success" =>
    executed[r] = 1 /\ ledger[r].key \in Keys /\ verdict[ledger[r].key] = "GRANTED"

\* granted_at and failed_at are never fabricated: each appears only on a row
\* of the status it documents, through every order of outcomes.
StampsMatchStatus ==
  \A r \in Requests : /\ ledger[r].grantedAt = "set" => ledger[r].status = "success"
                      /\ ledger[r].failedAt = "set" => ledger[r].status = "failed"

\* What has been recorded stays: key, protocol and execution start are
\* write-once, success is final, and a failed row is never pending again.
KeepsFacts(r) ==
  /\ ledger[r].status # "absent" => ledger'[r].protocol = ledger[r].protocol
  /\ ledger[r].key # NoKey => ledger'[r].key = ledger[r].key
  /\ ledger[r].startedAt # Null => ledger'[r].startedAt = ledger[r].startedAt
  /\ ledger[r].status = "success" => ledger'[r].status = "success"
  /\ ledger[r].status = "failed" => ledger'[r].status \in {"failed", "success"}
FactsAreWriteOnce == [][\A r \in Requests : KeepsFacts(r)]_vars

\* The comment on promotion_ledger_status: a failed row means that no grant
\* exists.  A NOT_FOUND read before a slow execute call arrives refutes it.
FailedMeansNoGrant ==
  \A r \in Requests : ledger[r].status = "failed" /\ ledger[r].key # NoKey =>
    verdict[ledger[r].key] # "GRANTED"

\* The abstract contract: committed is "the execution start is recorded".
Phase(row) ==
  CASE row.status = "absent" -> "none"
    [] row.protocol = "legacy" \/ row.startedAt # Null -> "committed"
    [] row.status = "pending" /\ row.startedAt = Null /\ row.protocol # "legacy" -> "open"
    [] OTHER -> "dropped"

Contract == INSTANCE EffectContract WITH
  Committed <- LegacyRequests,
  phase <- [r \in Requests |-> Phase(ledger[r])],
  runs <- executed,
  record <- [r \in Requests |->
              IF ledger[r].status = "absent" THEN "none" ELSE ledger[r].status]

ImplementsContract == Contract!Spec
=============================================================================
