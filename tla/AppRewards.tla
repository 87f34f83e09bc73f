------------------------------ MODULE AppRewards ------------------------------
(***************************************************************************)
(* App-owned reward credits and the currency journal that mirrors them:    *)
(* crates/trailbase-guest-common/src/app_rewards.rs and owned_currency.rs, *)
(* with the gates of OperationPolicy.                                      *)
(*                                                                         *)
(* The app issues an attempt and claims it; the claim, its journal event   *)
(* and the balance it moves are one transaction, which rolls back when any *)
(* part is refused.  An exchange spends the balance the same way.  `t` is  *)
(* the time a caller read before its transaction: it may lag behind the    *)
(* server clock, which the gates use.  A call by another account than the  *)
(* owner's finds nothing, writes nothing and is left out.                  *)
(***************************************************************************)
EXTENDS OperationPolicy, FiniteSets, SetSums

CONSTANTS
  Users,
  Attempts,          \* random attempt IDs, each used once
  Exchanges,         \* IDs of the app's exchange requests
  Offers,            \* what the server's offer policy may offer
  CurrencyPolicies,  \* rows of owned_currency_policies an operator may add
  Quantities,        \* what an exchange may spend
  Valuations,        \* market values an exchange may be recorded with
  AppControls,       \* controls the operator sets
  MaxGrants,         \* the app's quota: grants per account
  MaxTime,           \* bound of the clock
  Null, NoOne

Times == 0 .. MaxTime
Keys == Attempts \cup Exchanges

ASSUME AppRewardAssumption ==
  /\ Attempts \cap Exchanges = {} /\ Null \notin Int
  /\ Users \cap {NoOne, Null} = {} /\ NoOne # Null
  /\ Offers \subseteq [version : {p.version : p \in CurrencyPolicies}, amount : Nat \ {0}, ttl : Nat \ {0}]
  /\ \A p \in CurrencyPolicies : p.from \in Nat /\ p.to \in Nat \cup {Null}
                                 /\ p.mode \in {"FIXED_RATE", "MARKET_SNAPSHOT", "NONE"}
  /\ Quantities \subseteq Nat \ {0} /\ Valuations \subseteq Nat /\ AppControls \subseteq Controls
  /\ MaxGrants \in Nat /\ MaxTime \in Nat

VARIABLES
  attempt,   \* attempt[a]: the row of app_reward_attempts
  grant,     \* grant[a]: granted_at of its row in app_reward_grants, or Null
  journal,   \* journal[k]: the row of owned_currency_events with that key
  policies,  \* rows of owned_currency_policies
  balance,   \* balance[u]: the app's own balance
  answer,    \* answer[a]: what the owner was last told about the attempt
  controls, deleted, clock

rows == <<attempt, grant, journal, balance>>
vars == <<attempt, grant, journal, policies, balance, answer, controls, deleted, clock>>

-----------------------------------------------------------------------------
NoAttempt == [user |-> Null]
DeletedAttempt == [user |-> NoOne]
AttemptRows == [user : Users, version : {o.version : o \in Offers}, amount : {o.amount : o \in Offers},
                createdAt : Times, expiresAt : Nat]

NoEvent == [kind |-> "none"]
Events == [user : Users \cup {NoOne}, kind : {"ISSUE", "EXCHANGE"}, quantity : Int \ {0},
           version : {p.version : p \in CurrencyPolicies}, occurredAt : Times,
           valuation : Valuations \cup {Null}]

Owned(u) == {a \in Attempts : attempt[a].user = u}
Issued(u) == {a \in Owned(u) : grant[a] # Null}

\* The WHERE EXISTS of INSERT: the version is in force when the event occurs,
\* and a value is there exactly as its mode asks.
Effective(p, e) ==
  /\ p.version = e.version /\ p.from <= e.occurredAt /\ (p.to # Null => e.occurredAt < p.to)
  /\ e.valuation # Null => p.mode # "NONE"
  /\ p.mode = "MARKET_SNAPSHOT" /\ e.kind = "EXCHANGE" => e.valuation # Null

\* record_with: a new key is inserted under an effective policy, an exact
\* replay is accepted, and everything else is an error of the transaction.
Inserts(k, e) == journal[k] = NoEvent /\ \E p \in policies : Effective(p, e)
\* Broken: an error of the mirror leaves the transaction to commit.
MirrorIgnored(k, e) == TRUE
Accepted(k, e) == Inserts(k, e) \/ journal[k] = e
AfterEvent(k, e) == IF Inserts(k, e) THEN [journal EXCEPT ![k] = e] ELSE journal

\* event_params of the two kinds of event the app records.
IssueEvent(a, at) ==
  [user |-> attempt[a].user, kind |-> "ISSUE", quantity |-> attempt[a].amount,
   version |-> attempt[a].version, occurredAt |-> at, valuation |-> Null]
ExchangeEvent(u, quantity, version, at, value) ==
  [user |-> u, kind |-> "EXCHANGE", quantity |-> -quantity, version |-> version,
   occurredAt |-> at, valuation |-> value]

\* The gate of the public helpers, closed before anything is written.
Gate(phase) == EnforceConfigured(controls, "AppReward", phase, clock)

\* The owner's receipt answers before time, gates and quota are looked at.
\* Broken: an expired attempt is refused first.
ReceiptBeforeExpiry(a, t) == grant[a] # Null /\ t < attempt[a].expiresAt
HasReceipt(a, t) == grant[a] # Null

\* What a new grant needs: the attempt's window, the settlement gate and quota.
Grantable(a, t) ==
  /\ attempt[a].createdAt <= t /\ t < attempt[a].expiresAt
  /\ Gate("Settlement")
  /\ Cardinality(Issued(attempt[a].user)) < MaxGrants
\* INSERT_GRANT: never over an existing grant.
AfterGrant(a, t) == IF grant[a] = Null THEN [grant EXCEPT ![a] = t] ELSE grant

-----------------------------------------------------------------------------
Init ==
  /\ attempt = [a \in Attempts |-> NoAttempt]
  /\ grant = [a \in Attempts |-> Null]
  /\ journal = [k \in Keys |-> NoEvent]
  /\ policies = {}
  /\ balance = [u \in Users |-> 0]
  /\ answer = [a \in Attempts |-> <<"none">>]
  /\ controls \in AppControls
  /\ deleted = {}
  /\ clock = 0

\* issue_app_reward_attempt_tx: the entry gate, then the server's offer.
Issue(u, a, t) ==
  /\ u \notin deleted /\ attempt[a] = NoAttempt /\ t <= clock
  /\ Gate("Entry")
  /\ \E o \in Offers :
       attempt' = [attempt EXCEPT ![a] =
         [user |-> u, version |-> o.version, amount |-> o.amount,
          createdAt |-> t, expiresAt |-> t + o.ttl]]
  /\ answer' = [answer EXCEPT ![a] = <<"open">>]
  /\ UNCHANGED <<grant, journal, policies, balance, controls, deleted, clock>>

\* find_app_reward_attempt_tx: while paused and after expiry too.
Find(a) ==
  /\ attempt[a].user \in Users
  /\ answer' = [answer EXCEPT ![a] = IF grant[a] = Null THEN <<"open">> ELSE <<"granted", grant[a]>>]
  /\ UNCHANGED <<rows, policies, controls, deleted, clock>>

\* claim_app_reward_attempt_tx, then record_event_tx with what the receipt
\* says and, for an inserted event, the balance: all of it or none.
Claim(a, t) ==
  LET again == HasReceipt(a, t)
      at == IF again THEN grant[a] ELSE t
      event == IssueEvent(a, at)
  IN /\ attempt[a].user \in Users /\ t <= clock
     /\ IF (again \/ (grant[a] = Null /\ Grantable(a, t))) /\ Accepted(a, event)
        THEN /\ grant' = IF again THEN grant ELSE AfterGrant(a, t)
             /\ journal' = AfterEvent(a, event)
             /\ balance' = [balance EXCEPT ![attempt[a].user] =
                              @ + IF Inserts(a, event) THEN attempt[a].amount ELSE 0]
             /\ answer' = [answer EXCEPT ![a] = <<"granted", at>>]
        ELSE /\ answer' = [answer EXCEPT ![a] = <<"refused">>]
             /\ UNCHANGED <<grant, journal, balance>>
     /\ UNCHANGED <<attempt, policies, controls, deleted, clock>>

\* The app's exchange: its retry may repeat the stored event or bring another
\* time or value.  The balance must cover a first recording.
Exchange(u, x, quantity, version, t, value) ==
  LET event == ExchangeEvent(u, quantity, version, t, value) IN
  /\ u \notin deleted /\ t <= clock
  /\ Accepted(x, event)
  /\ Inserts(x, event) => quantity <= balance[u]
  /\ journal' = AfterEvent(x, event)
  /\ balance' = [balance EXCEPT ![u] = @ - IF Inserts(x, event) THEN quantity ELSE 0]
  /\ UNCHANGED <<attempt, grant, policies, answer, controls, deleted, clock>>

\* Deleting an account cascades to its attempts and grants and sets the
\* user_id of its events to NULL.
DeleteAccount(u) ==
  /\ u \notin deleted
  /\ deleted' = deleted \cup {u}
  /\ attempt' = [a \in Attempts |-> IF a \in Owned(u) THEN DeletedAttempt ELSE attempt[a]]
  /\ grant' = [a \in Attempts |-> IF a \in Owned(u) THEN Null ELSE grant[a]]
  /\ journal' = [k \in Keys |-> IF journal[k] # NoEvent /\ journal[k].user = u
                                THEN [journal[k] EXCEPT !.user = NoOne] ELSE journal[k]]
  /\ balance' = [balance EXCEPT ![u] = 0]
  /\ UNCHANGED <<policies, answer, controls, clock>>

\* Versions are added, never rewritten.
AddCurrencyPolicy(p) ==
  /\ \A q \in policies : q.version # p.version
  /\ policies' = policies \cup {p}
  /\ UNCHANGED <<rows, answer, controls, deleted, clock>>

SetControls ==
  /\ controls' \in AppControls \ {controls}
  /\ UNCHANGED <<rows, policies, answer, deleted, clock>>

Tick ==
  /\ clock < MaxTime
  /\ clock' = clock + 1
  /\ UNCHANGED <<rows, policies, answer, controls, deleted>>

Next ==
  \/ \E u \in Users, a \in Attempts, t \in Times : Issue(u, a, t)
  \/ \E a \in Attempts : Find(a) \/ \E t \in Times : Claim(a, t)
  \/ \E u \in Users, x \in Exchanges, quantity \in Quantities, p \in CurrencyPolicies, t \in Times,
        value \in Valuations \cup {Null} : Exchange(u, x, quantity, p.version, t, value)
  \/ \E u \in Users : DeleteAccount(u)
  \/ \E p \in CurrencyPolicies : AddCurrencyPolicy(p)
  \/ SetControls \/ Tick

Spec == Init /\ [][Next]_vars

-----------------------------------------------------------------------------
\* Every reachable row, answer and control is well formed.
AppRewardTypeOK ==
  /\ attempt \in [Attempts -> AttemptRows \cup {NoAttempt, DeletedAttempt}]
  /\ grant \in [Attempts -> Times \cup {Null}]
  /\ journal \in [Keys -> Events \cup {NoEvent}]
  /\ policies \subseteq CurrencyPolicies
  /\ balance \in [Users -> Int]
  /\ answer \in [Attempts -> {<<"none">>, <<"open">>, <<"refused">>} \cup ({"granted"} \X Times)]
  /\ controls \in AppControls /\ deleted \subseteq Users /\ clock \in Times

RecordedFor(u) == {k \in Keys : journal[k] # NoEvent /\ journal[k].user = u}
Quantity(u) == [k \in RecordedFor(u) |-> journal[k].quantity]

\* A credit and its one event.
ReceiptOK(a) ==
  attempt[a].user \in Users =>
    /\ (grant[a] = Null) = (journal[a] = NoEvent)
    /\ grant[a] # Null => /\ journal[a] = IssueEvent(a, grant[a])
                          /\ attempt[a].createdAt <= grant[a] /\ grant[a] < attempt[a].expiresAt
WasInForce(k) == journal[k] # NoEvent => \E p \in policies : Effective(p, journal[k])
BalanceOK(u) ==
  /\ balance[u] = Total(Quantity(u), RecordedFor(u))
  /\ balance[u] >= 0 /\ Cardinality(Issued(u)) <= MaxGrants

\* The journal says what the app did, whatever is retried, paused, expired or
\* deleted: a credit in its window has the one ISSUE event of its amount and
\* time, under a policy in force at that time, and an account's balance is the
\* sum of its events, never negative and never beyond its quota of grants.
JournalMirrorsLedger ==
  /\ AppRewardTypeOK
  /\ \A a \in Attempts : ReceiptOK(a)
  /\ \A k \in Keys : WasInForce(k)
  /\ \A u \in Users : BalanceOK(u)

\* A claim retried after its answer was lost gets the original receipt: after
\* expiry, while paused, over quota and under a policy no longer in force; and
\* until the account is deleted nothing else is ever said of a granted attempt.
ReceiptsAreFinal ==
  [][\A a \in Attempts : grant[a] # Null /\ attempt'[a].user \in Users =>
       /\ grant'[a] = grant[a]
       /\ answer'[a] \in {answer[a], <<"granted", grant[a]>>}]_vars
=============================================================================
