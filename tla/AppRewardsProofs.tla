-------------------------- MODULE AppRewardsProofs --------------------------
(***************************************************************************)
(* Proofs about AppRewards, for any accounts, attempts, exchanges, offers, *)
(* currency policies, controls, quota and clock bound.                     *)
(***************************************************************************)
EXTENDS AppRewards, SetSumsProofs

\* An attempt that was never issued has nothing.
UnusedInv == \A a \in Attempts : attempt[a] = NoAttempt => grant[a] = Null /\ journal[a] = NoEvent

\* Only so many rows are there at any time: a balance is a finite sum, and a
\* quota counts a finite set.
Granted == {a \in Attempts : grant[a] # Null}
Recorded == {k \in Keys : journal[k] # NoEvent}
FiniteInv == IsFiniteSet(Granted) /\ IsFiniteSet(Recorded)

Inv == JournalMirrorsLedger /\ UnusedInv /\ FiniteInv

-----------------------------------------------------------------------------
\* An event is told from its absence by its kind, and an attempt's row from
\* its absence and from a deleted one by its user.
LEMMA EventsExist ==
  ASSUME NEW e \in Events
  PROVE  e # NoEvent /\ e.quantity \in Int /\ e.user \in Users \cup {NoOne}
BY DEF Events, NoEvent

LEMMA AttemptsExist ==
  /\ NoAttempt.user \notin Users /\ DeletedAttempt.user \notin Users /\ NoAttempt # DeletedAttempt
  /\ \A r \in AttemptRows : r # NoAttempt /\ r.user \in Users
BY AppRewardAssumption DEF NoAttempt, DeletedAttempt, AttemptRows

\* The attempt of an account is a row.
LEMMA OwnedRows ==
  ASSUME AppRewardTypeOK, NEW a \in Attempts, attempt[a].user \in Users
  PROVE  attempt[a] \in AttemptRows /\ attempt[a] # NoAttempt
BY AttemptsExist DEF AppRewardTypeOK

\* The events the app records are events.
LEMMA IssueEvents ==
  ASSUME AppRewardTypeOK, NEW a \in Attempts, attempt[a].user \in Users, NEW at \in Times
  PROVE  /\ IssueEvent(a, at) \in Events
         /\ IssueEvent(a, at).user = attempt[a].user
         /\ IssueEvent(a, at).quantity = attempt[a].amount
         /\ attempt[a].amount \in Nat \ {0}
<1>1. attempt[a] \in AttemptRows
  BY OwnedRows
<1>2. attempt[a].amount \in Nat \ {0} /\ attempt[a].version \in {p.version : p \in CurrencyPolicies}
  BY <1>1, AppRewardAssumption DEF AttemptRows
<1> QED BY <1>2 DEF IssueEvent, Events

LEMMA ExchangeEvents ==
  ASSUME NEW u \in Users, NEW quantity \in Quantities, NEW p \in CurrencyPolicies, NEW t \in Times,
         NEW value \in Valuations \cup {Null}
  PROVE  LET e == ExchangeEvent(u, quantity, p.version, t, value) IN
         e \in Events /\ e.user = u /\ e.quantity = -quantity /\ quantity \in Nat
BY AppRewardAssumption DEF ExchangeEvent, Events

-----------------------------------------------------------------------------
\* Nobody's events change: neither does any sum of them.
LEMMA SameJournal ==
  ASSUME UNCHANGED journal
  PROVE  /\ \A u : RecordedFor(u)' = RecordedFor(u) /\ Quantity(u)' = Quantity(u)
         /\ Recorded' = Recorded
BY DEF RecordedFor, Quantity, Recorded

\* A new event moves the sum of its account by its quantity, and no other sum.
LEMMA OneMoreEvent ==
  ASSUME journal \in [Keys -> Events \cup {NoEvent}], IsFiniteSet(Recorded),
         NEW k \in Keys, journal[k] = NoEvent, NEW e \in Events,
         journal' = [journal EXCEPT ![k] = e]
  PROVE  /\ \A u \in Users :
              Total(Quantity(u)', RecordedFor(u)') =
                Total(Quantity(u), RecordedFor(u)) + IF u = e.user THEN e.quantity ELSE 0
         /\ IsFiniteSet(Recorded')
<1>1. Recorded' = Recorded \cup {k}
  BY EventsExist DEF Recorded
<1>2. IsFiniteSet(Recorded')
  BY <1>1, FS_AddElement
<1>3. ASSUME NEW u \in Users
      PROVE  Total(Quantity(u)', RecordedFor(u)') =
               Total(Quantity(u), RecordedFor(u)) + IF u = e.user THEN e.quantity ELSE 0
  <2> DEFINE S == RecordedFor(u)
  <2>1. S \in SUBSET Recorded /\ k \notin S /\ \A x \in S : x \in Keys
    BY DEF RecordedFor, Recorded
  <2>2. IsFiniteSet(S)
    BY <2>1, FS_Subset, Zenon
  <2>3. \A x \in S : Quantity(u)[x] \in Int
    BY EventsExist DEF RecordedFor, Quantity
  <2>4. Total(Quantity(u), S) \in Int
    BY <2>2, <2>3, TotalIsInt
  <2>5. CASE u = e.user
    <3>1. RecordedFor(u)' = S \cup {k}
      BY <2>5, EventsExist DEF RecordedFor
    <3>2. Quantity(u)'[k] = e.quantity /\ \A x \in S : Quantity(u)'[x] = Quantity(u)[x]
      BY <2>1, <3>1 DEF Quantity
    <3>3. e.quantity \in Int
      BY EventsExist
    <3> HIDE DEF S
    <3>4. Total(Quantity(u)', S \cup {k}) = Total(Quantity(u)', S) + Quantity(u)'[k]
      BY <2>1, <2>2, <2>3, <3>2, <3>3, TotalAdds
    <3>5. Total(Quantity(u), S) = Total(Quantity(u)', S)
      BY <2>2, <2>3, <3>2, TotalSees
    <3> QED BY <2>5, <3>1, <3>2, <3>4, <3>5 DEF S
  <2>6. CASE u # e.user
    <3>1. RecordedFor(u)' = S
      BY <2>6 DEF RecordedFor
    <3>2. Quantity(u)' = Quantity(u)
      BY <2>1, <3>1 DEF Quantity
    <3> QED BY <2>4, <2>6, <3>1, <3>2
  <2> QED BY <2>5, <2>6
<1> QED BY <1>2, <1>3

-----------------------------------------------------------------------------
\* Before the first attempt nothing is granted, recorded or owed.
LEMMA InitInv == Init => Inv
<1> SUFFICES ASSUME Init PROVE Inv
  OBVIOUS
<1>1. AppRewardTypeOK
  BY AppRewardAssumption DEF Init, AppRewardTypeOK, Times
<1>2. Granted = {} /\ Recorded = {}
  BY DEF Init, Granted, Recorded
<1>3. FiniteInv
  BY <1>2, FS_EmptySet, Zenon DEF FiniteInv
<1>4. UnusedInv
  BY DEF Init, UnusedInv, Keys
<1>5. \A a \in Attempts : ReceiptOK(a)
  BY AttemptsExist DEF Init, ReceiptOK
<1>6. \A k \in Keys : WasInForce(k)
  BY DEF Init, WasInForce
<1>7. ASSUME NEW u \in Users PROVE BalanceOK(u)
  <2>1. RecordedFor(u) = {} /\ Issued(u) = {}
    BY DEF Init, RecordedFor, Issued, Owned
  <2>2. Total(Quantity(u), RecordedFor(u)) = 0
    BY <2>1, TotalOfNone
  <2>3. Cardinality(Issued(u)) = 0
    BY <2>1, FS_EmptySet, Zenon
  <2> QED BY <2>2, <2>3, AppRewardAssumption DEF Init, BalanceOK
<1> QED BY <1>1, <1>3, <1>4, <1>5, <1>6, <1>7 DEF Inv, JournalMirrorsLedger

\* A new attempt has no grant and no event, and changes no other.
LEMMA IssueStep ==
  ASSUME Inv, NEW u \in Users, NEW a \in Attempts, NEW t \in Times, Issue(u, a, t)
  PROVE  Inv'
<1> USE DEF Inv, JournalMirrorsLedger
<1>1. PICK o \in Offers :
        attempt' = [attempt EXCEPT ![a] =
          [user |-> u, version |-> o.version, amount |-> o.amount,
           createdAt |-> t, expiresAt |-> t + o.ttl]]
  BY DEF Issue
<1>2. attempt[a] = NoAttempt /\ grant[a] = Null /\ journal[a] = NoEvent
  BY DEF Issue, UnusedInv
<1>3. UNCHANGED <<grant, journal, policies, balance>> /\ (\A b \in Attempts \ {a} : attempt'[b] = attempt[b])
  BY <1>1 DEF Issue, AppRewardTypeOK
<1>4. attempt'[a].user = u /\ attempt'[a] # NoAttempt /\ attempt'[a] \in AttemptRows
  <2>1. o.ttl \in Nat /\ t + o.ttl \in Nat
    BY AppRewardAssumption DEF Times
  <2>2. attempt'[a] \in AttemptRows /\ attempt'[a].user = u
    BY <1>1, <2>1 DEF AppRewardTypeOK, AttemptRows
  <2> QED BY <2>2, AttemptsExist
<1>5. AppRewardTypeOK'
  BY <1>1, <1>4 DEF Issue, AppRewardTypeOK
<1>6. UnusedInv' /\ FiniteInv'
  BY <1>3, <1>4 DEF UnusedInv, FiniteInv, Granted, Recorded
<1>7. ASSUME NEW b \in Attempts PROVE ReceiptOK(b)'
  <2>1. CASE b = a
    BY <1>2, <1>3, <2>1 DEF ReceiptOK
  <2>2. CASE b # a
    <3>1. ReceiptOK(b) /\ attempt'[b] = attempt[b]
      BY <1>3, <2>2
    <3> QED BY <1>3, <3>1 DEF ReceiptOK, IssueEvent
  <2> QED BY <2>1, <2>2
<1>8. \A k \in Keys : WasInForce(k)'
  BY <1>3 DEF WasInForce
<1>9. ASSUME NEW v \in Users PROVE BalanceOK(v)'
  <2>1. Issued(v)' = Issued(v)
    BY <1>2, <1>3, AttemptsExist DEF Issued, Owned
  <2> QED BY <1>3, <2>1, SameJournal DEF BalanceOK
<1> QED BY <1>5, <1>6, <1>7, <1>8, <1>9

\* A claim that is granted or repeated: the repeat changes nothing that is
\* stored, and the grant comes with its event and the balance.
LEMMA ClaimStep ==
  ASSUME Inv, NEW a \in Attempts, NEW t \in Times, Claim(a, t)
  PROVE  Inv'
<1> USE DEF Inv, JournalMirrorsLedger
<1> DEFINE again == HasReceipt(a, t)
           at == IF again THEN grant[a] ELSE t
           event == IssueEvent(a, at)
           owner == attempt[a].user
           accepts == (again \/ (grant[a] = Null /\ Grantable(a, t))) /\ Accepted(a, event)
<1>1. owner \in Users /\ attempt[a] \in AttemptRows /\ attempt[a] # NoAttempt
  BY OwnedRows DEF Claim
<1>2. at \in Times /\ again = (grant[a] # Null)
  BY DEF HasReceipt, AppRewardTypeOK
<1>3. UNCHANGED <<attempt, policies, controls, deleted, clock>>
  BY DEF Claim
<1>4. event \in Events /\ event.user = owner /\ event.quantity = attempt[a].amount /\ attempt[a].amount \in Nat \ {0}
  BY <1>1, <1>2, IssueEvents
<1>5. event # NoEvent /\ a \in Keys
  BY <1>4, EventsExist DEF Keys
<1>6. ReceiptOK(a)
  OBVIOUS
<1>7. CASE grant[a] # Null \/ ~accepts
  <2>1. grant[a] # Null => journal[a] = event /\ ~Inserts(a, event)
    BY <1>1, <1>2, <1>5, <1>6, <1>7 DEF ReceiptOK, Inserts
  <2>2. UNCHANGED <<grant, journal, balance>>
    <3>1. CASE accepts
      <4>1. again /\ ~Inserts(a, event)
        BY <1>2, <1>7, <2>1, <3>1
      <4>2. grant' = grant /\ journal' = journal
        BY <3>1, <4>1 DEF Claim, AfterEvent
      <4>3. balance' = [balance EXCEPT ![owner] = @ + 0]
        BY <3>1, <4>1 DEF Claim
      <4>4. balance' = balance
        BY <4>3, <1>1 DEF AppRewardTypeOK
      <4> QED BY <4>2, <4>4
    <3>2. CASE ~accepts
      BY <3>2 DEF Claim
    <3> QED BY <3>1, <3>2
  <2>3. answer'[a] \in {<<"refused">>} \cup ({"granted"} \X Times) /\ answer' = [answer EXCEPT ![a] = answer'[a]]
    BY <1>2 DEF Claim, AppRewardTypeOK
  <2>4. AppRewardTypeOK'
    BY <1>3, <2>2, <2>3 DEF AppRewardTypeOK
  <2>5. UnusedInv' /\ FiniteInv' /\ (\A k \in Keys : WasInForce(k)')
    BY <1>3, <2>2 DEF UnusedInv, FiniteInv, Granted, Recorded, WasInForce
  <2>6. \A b \in Attempts : ReceiptOK(b)'
    BY <1>3, <2>2 DEF ReceiptOK, IssueEvent
  <2>7. \A u \in Users : BalanceOK(u)'
    BY <1>3, <2>2, SameJournal DEF BalanceOK, Issued, Owned
  <2> QED BY <2>4, <2>5, <2>6, <2>7
<1>8. CASE grant[a] = Null /\ accepts
  <2>1. journal[a] = NoEvent /\ Inserts(a, event) /\ at = t /\ ~again /\ Grantable(a, t)
    BY <1>1, <1>2, <1>5, <1>6, <1>8 DEF ReceiptOK, Accepted
  <2>2. /\ grant' = [grant EXCEPT ![a] = t] /\ journal' = [journal EXCEPT ![a] = event]
        /\ balance' = [balance EXCEPT ![owner] = @ + attempt[a].amount]
        /\ answer' = [answer EXCEPT ![a] = <<"granted", t>>]
    BY <1>8, <2>1 DEF Claim, AfterGrant, AfterEvent
  <2> HIDE DEF event
  <2>3. AppRewardTypeOK'
    BY <1>1, <1>3, <1>4, <1>5, <2>2 DEF AppRewardTypeOK, AttemptRows
  <2>4. /\ \A u \in Users : Total(Quantity(u)', RecordedFor(u)') =
              Total(Quantity(u), RecordedFor(u)) + IF u = owner THEN attempt[a].amount ELSE 0
        /\ IsFiniteSet(Recorded')
    BY <1>4, <1>5, <2>1, <2>2, OneMoreEvent DEF AppRewardTypeOK, FiniteInv
  <2>5. Granted' = Granted \cup {a} /\ a \notin Granted
    BY <1>8, <2>2, AppRewardAssumption DEF AppRewardTypeOK, Granted, Times
  <2>6. FiniteInv'
    BY <2>4, <2>5, FS_AddElement DEF FiniteInv
  <2>7. UnusedInv'
    BY <1>1, <1>3, <2>2 DEF UnusedInv, AppRewardTypeOK, Keys
  <2>8. ASSUME NEW b \in Attempts PROVE ReceiptOK(b)'
    <3>1. CASE b = a
      <4>1. grant'[b] = t /\ journal'[b] = event /\ event = IssueEvent(b, t) /\ t # Null
        BY <1>5, <2>1, <2>2, <3>1, AppRewardAssumption DEF AppRewardTypeOK, Times, event
      <4>2. attempt[b].createdAt <= t /\ t < attempt[b].expiresAt
        BY <2>1, <3>1 DEF Grantable
      <4> QED BY <1>3, <1>5, <4>1, <4>2 DEF ReceiptOK, IssueEvent
    <3>2. CASE b # a
      <4>1. ReceiptOK(b) /\ grant'[b] = grant[b] /\ journal'[b] = journal[b]
        BY <2>2, <3>2 DEF AppRewardTypeOK, Keys
      <4> QED BY <1>3, <4>1 DEF ReceiptOK, IssueEvent
    <3> QED BY <3>1, <3>2
  <2>9. ASSUME NEW k \in Keys PROVE WasInForce(k)'
    <3>1. WasInForce(k)
      OBVIOUS
    <3>2. CASE k = a
      BY <1>3, <2>1, <2>2, <3>2 DEF WasInForce, Inserts, AppRewardTypeOK
    <3>3. CASE k # a
      BY <1>3, <2>2, <3>1, <3>3 DEF WasInForce, AppRewardTypeOK
    <3> QED BY <3>2, <3>3
  <2>10. ASSUME NEW u \in Users PROVE BalanceOK(u)'
    <3>1. balance'[u] = balance[u] + IF u = owner THEN attempt[a].amount ELSE 0
      BY <1>1, <2>2 DEF AppRewardTypeOK
    <3>2. balance[u] \in Int /\ balance[u] >= 0 /\ balance[u] = Total(Quantity(u), RecordedFor(u))
      BY DEF AppRewardTypeOK, BalanceOK
    <3>3. balance'[u] = Total(Quantity(u)', RecordedFor(u)')
      BY <2>4, <3>1, <3>2
    <3>4. balance'[u] >= 0
      BY <1>4, <3>1, <3>2
    <3>5. IsFiniteSet(Issued(u))
      <4>1. Issued(u) \in SUBSET Granted
        BY DEF Issued, Owned, Granted
      <4> QED BY <4>1, FS_Subset, Zenon DEF FiniteInv
    <3>6. CASE u = owner
      <4>1. Issued(u)' = Issued(u) \cup {a} /\ a \notin Issued(u)
        BY <1>3, <1>8, <2>2, <3>6, AppRewardAssumption DEF Issued, Owned, AppRewardTypeOK, Times
      <4>2. Cardinality(Issued(u)') = Cardinality(Issued(u)) + 1
        BY <3>5, <4>1, FS_AddElement
      <4>3. Cardinality(Issued(u)) < MaxGrants
        BY <2>1, <3>6 DEF Grantable
      <4>4. Cardinality(Issued(u)) \in Nat
        BY <3>5, FS_CardinalityType
      <4> QED BY <3>3, <3>4, <4>2, <4>3, <4>4, AppRewardAssumption DEF BalanceOK
    <3>7. CASE u # owner
      <4>1. Issued(u)' = Issued(u)
        BY <1>3, <2>2, <3>7 DEF Issued, Owned, AppRewardTypeOK
      <4> QED BY <3>3, <3>4, <4>1 DEF BalanceOK
    <3> QED BY <3>6, <3>7
  <2> QED BY <2>3, <2>6, <2>7, <2>8, <2>9, <2>10
<1> QED BY <1>7, <1>8

\* An exchange is recorded once, against a balance that covers it.
LEMMA ExchangeStep ==
  ASSUME Inv, NEW u \in Users, NEW x \in Exchanges, NEW quantity \in Quantities,
         NEW p \in CurrencyPolicies, NEW t \in Times, NEW value \in Valuations \cup {Null},
         Exchange(u, x, quantity, p.version, t, value)
  PROVE  Inv'
<1> USE DEF Inv, JournalMirrorsLedger
<1> DEFINE event == ExchangeEvent(u, quantity, p.version, t, value)
<1>1. event \in Events /\ event.user = u /\ event.quantity = -quantity /\ quantity \in Nat
  BY ExchangeEvents
<1>2. UNCHANGED <<attempt, grant, policies, answer, controls, deleted, clock>>
  BY DEF Exchange
<1>3. x \in Keys /\ x \notin Attempts /\ event # NoEvent
  BY <1>1, EventsExist, AppRewardAssumption DEF Keys
<1> HIDE DEF event
<1>4. CASE ~Inserts(x, event)
  <2>1. UNCHANGED journal /\ balance' = [balance EXCEPT ![u] = @ - 0]
    BY <1>4 DEF Exchange, AfterEvent, event
  <2>2. UNCHANGED balance
    BY <2>1 DEF AppRewardTypeOK
  <2>3. AppRewardTypeOK' /\ UnusedInv' /\ FiniteInv'
    BY <1>2, <2>1, <2>2 DEF AppRewardTypeOK, UnusedInv, FiniteInv, Granted, Recorded
  <2>4. (\A a \in Attempts : ReceiptOK(a)') /\ (\A k \in Keys : WasInForce(k)')
    BY <1>2, <2>1 DEF ReceiptOK, IssueEvent, WasInForce
  <2>5. \A v \in Users : BalanceOK(v)'
    BY <1>2, <2>1, <2>2, SameJournal DEF BalanceOK, Issued, Owned
  <2> QED BY <2>3, <2>4, <2>5
<1>5. CASE Inserts(x, event)
  <2>1. journal[x] = NoEvent /\ \E q \in policies : Effective(q, event)
    BY <1>5 DEF Inserts
  <2>2. /\ journal' = [journal EXCEPT ![x] = event] /\ quantity <= balance[u]
        /\ balance' = [balance EXCEPT ![u] = @ - quantity]
    BY <1>5 DEF Exchange, AfterEvent, event
  <2>3. AppRewardTypeOK'
    BY <1>1, <1>2, <1>3, <2>2 DEF AppRewardTypeOK
  <2>4. /\ \A v \in Users : Total(Quantity(v)', RecordedFor(v)') =
              Total(Quantity(v), RecordedFor(v)) + IF v = u THEN -quantity ELSE 0
        /\ IsFiniteSet(Recorded')
    BY <1>1, <1>3, <2>1, <2>2, OneMoreEvent DEF AppRewardTypeOK, FiniteInv
  <2>5. FiniteInv'
    BY <1>2, <2>4 DEF FiniteInv, Granted
  <2>6. \A a \in Attempts : journal'[a] = journal[a]
    BY <1>3, <2>2 DEF AppRewardTypeOK, Keys
  <2>7. UnusedInv' /\ \A a \in Attempts : ReceiptOK(a)'
    BY <1>2, <2>6 DEF UnusedInv, ReceiptOK, IssueEvent
  <2>8. ASSUME NEW k \in Keys PROVE WasInForce(k)'
    <3>1. WasInForce(k)
      OBVIOUS
    <3>2. CASE k = x
      BY <1>2, <2>1, <2>2, <3>2 DEF WasInForce, AppRewardTypeOK
    <3>3. CASE k # x
      BY <1>2, <2>2, <3>1, <3>3 DEF WasInForce, AppRewardTypeOK
    <3> QED BY <3>2, <3>3
  <2>9. ASSUME NEW v \in Users PROVE BalanceOK(v)'
    <3>1. balance'[v] = balance[v] + IF v = u THEN -quantity ELSE 0
      BY <1>1, <2>2 DEF AppRewardTypeOK
    <3>2. balance[v] \in Int /\ BalanceOK(v)
      BY DEF AppRewardTypeOK
    <3>3. balance'[v] = Total(Quantity(v)', RecordedFor(v)') /\ balance'[v] >= 0
      BY <1>1, <2>2, <2>4, <3>1, <3>2 DEF BalanceOK
    <3>4. Issued(v)' = Issued(v)
      BY <1>2 DEF Issued, Owned
    <3> QED BY <3>2, <3>3, <3>4 DEF BalanceOK
  <2> QED BY <2>3, <2>5, <2>7, <2>8, <2>9
<1> QED BY <1>4, <1>5

\* Deleting an account takes its attempts, its name from its events and its
\* balance, and leaves every other account as it was.
LEMMA DeleteStep ==
  ASSUME Inv, NEW u \in Users, DeleteAccount(u)
  PROVE  Inv'
<1> USE DEF Inv, JournalMirrorsLedger
<1>1. UNCHANGED <<policies, answer, controls, clock>> /\ deleted' \subseteq Users
  BY DEF DeleteAccount, AppRewardTypeOK
<1>2. /\ attempt' = [a \in Attempts |-> IF a \in Owned(u) THEN DeletedAttempt ELSE attempt[a]]
      /\ grant' = [a \in Attempts |-> IF a \in Owned(u) THEN Null ELSE grant[a]]
      /\ balance' = [balance EXCEPT ![u] = 0]
  BY DEF DeleteAccount
<1>3. /\ journal' = [k \in Keys |-> IF journal[k] # NoEvent /\ journal[k].user = u
                                     THEN [journal[k] EXCEPT !.user = NoOne] ELSE journal[k]]
      /\ NoOne \notin Users
  BY AppRewardAssumption DEF DeleteAccount
<1>4. ASSUME NEW k \in Keys
      PROVE  /\ journal'[k] \in Events \cup {NoEvent}
             /\ journal[k] = NoEvent => journal'[k] = NoEvent
             /\ journal[k] # NoEvent => /\ journal'[k] # NoEvent
                                        /\ \A p : Effective(p, journal[k]) => Effective(p, journal'[k])
             /\ (journal[k] = NoEvent \/ journal[k].user # u) => journal'[k] = journal[k]
             /\ (journal[k] # NoEvent /\ journal[k].user = u) => journal'[k].user = NoOne
  <2>1. CASE journal[k] # NoEvent /\ journal[k].user = u
    <3>1. journal[k] \in Events
      BY <2>1 DEF AppRewardTypeOK
    <3>2. journal'[k] = [journal[k] EXCEPT !.user = NoOne]
      BY <1>3, <2>1
    <3>3. journal'[k] \in Events /\ journal'[k].user = NoOne
      BY <3>1, <3>2 DEF Events
    <3>4. \A p : Effective(p, journal[k]) => Effective(p, journal'[k])
      BY <3>1, <3>2 DEF Effective, Events
    <3> QED BY <2>1, <3>3, <3>4, EventsExist
  <2>2. CASE journal[k] = NoEvent \/ journal[k].user # u
    <3>1. journal'[k] = journal[k]
      BY <1>3, <2>2
    <3> QED BY <2>2, <3>1 DEF AppRewardTypeOK
  <2> QED BY <2>1, <2>2
<1>5. AppRewardTypeOK'
  <2>1. attempt' \in [Attempts -> AttemptRows \cup {NoAttempt, DeletedAttempt}]
    BY <1>2 DEF AppRewardTypeOK
  <2>2. grant' \in [Attempts -> Times \cup {Null}] /\ balance' \in [Users -> Int]
    BY <1>2 DEF AppRewardTypeOK
  <2>3. journal' \in [Keys -> Events \cup {NoEvent}]
    BY <1>3, <1>4
  <2> QED BY <1>1, <2>1, <2>2, <2>3 DEF AppRewardTypeOK
<1>6. UnusedInv'
  BY <1>2, <1>4, AttemptsExist DEF UnusedInv, Keys
<1>7. FiniteInv'
  <2>1. Granted' \in SUBSET Granted /\ Recorded' = Recorded
    BY <1>2, <1>4 DEF Granted, Recorded
  <2>2. IsFiniteSet(Granted')
    BY <2>1, FS_Subset, Zenon DEF FiniteInv
  <2> QED BY <2>1, <2>2 DEF FiniteInv
<1>8. ASSUME NEW a \in Attempts PROVE ReceiptOK(a)'
  <2>1. CASE a \in Owned(u)
    BY <1>2, <2>1, AttemptsExist DEF ReceiptOK
  <2>2. CASE a \notin Owned(u)
    <3>1. attempt'[a] = attempt[a] /\ grant'[a] = grant[a] /\ attempt[a].user # u
      BY <1>2, <2>2 DEF Owned
    <3>2. CASE attempt[a].user \in Users
      <4>1. ReceiptOK(a) /\ a \in Keys
        BY DEF Keys
      <4>2. journal[a] # NoEvent => grant[a] \in Times /\ journal[a] = IssueEvent(a, grant[a])
        BY <3>2, <4>1 DEF ReceiptOK, AppRewardTypeOK
      <4>3. journal[a] # NoEvent => journal[a].user # u
        BY <3>1, <4>2 DEF IssueEvent
      <4>4. journal'[a] = journal[a]
        BY <1>4, <4>1, <4>3
      <4> QED BY <3>1, <4>1, <4>4 DEF ReceiptOK, IssueEvent
    <3>3. CASE attempt[a].user \notin Users
      BY <3>1, <3>3 DEF ReceiptOK
    <3> QED BY <3>2, <3>3
  <2> QED BY <2>1, <2>2
<1>9. \A k \in Keys : WasInForce(k)'
  BY <1>1, <1>4 DEF WasInForce
<1>10. ASSUME NEW v \in Users PROVE BalanceOK(v)'
  <2>1. CASE v = u
    <3>1. RecordedFor(v)' = {} /\ Issued(v)' = {}
      BY <1>2, <1>3, <1>4, <2>1, AttemptsExist DEF RecordedFor, Issued, Owned
    <3>2. Total(Quantity(v)', RecordedFor(v)') = 0
      BY <3>1, TotalOfNone
    <3>3. Cardinality(Issued(v)') = 0
      BY <3>1, FS_EmptySet, Zenon
    <3>4. balance'[v] = 0
      BY <1>2, <2>1 DEF AppRewardTypeOK
    <3> QED BY <3>2, <3>3, <3>4, AppRewardAssumption DEF BalanceOK
  <2>2. CASE v # u
    <3>1. RecordedFor(v)' = RecordedFor(v)
      BY <1>3, <1>4, <2>2 DEF RecordedFor
    <3>2. Quantity(v)' = Quantity(v)
      BY <1>4, <2>2, <3>1 DEF Quantity, RecordedFor
    <3>3. Issued(v)' = Issued(v)
      BY <1>2, <2>2, AttemptsExist DEF Issued, Owned
    <3>4. balance'[v] = balance[v]
      BY <1>2, <2>2 DEF AppRewardTypeOK
    <3> QED BY <3>1, <3>2, <3>3, <3>4 DEF BalanceOK
  <2> QED BY <2>1, <2>2
<1> QED BY <1>5, <1>6, <1>7, <1>8, <1>9, <1>10

\* A policy that is added takes none out of force.
LEMMA PolicyStep ==
  ASSUME Inv, NEW p \in CurrencyPolicies, AddCurrencyPolicy(p)
  PROVE  Inv'
<1> USE DEF Inv, JournalMirrorsLedger
<1>1. policies' = policies \cup {p} /\ UNCHANGED <<rows, answer, controls, deleted, clock>>
  BY DEF AddCurrencyPolicy
<1>2. AppRewardTypeOK' /\ UnusedInv' /\ FiniteInv'
  BY <1>1 DEF rows, AppRewardTypeOK, UnusedInv, FiniteInv, Granted, Recorded
<1>3. (\A a \in Attempts : ReceiptOK(a)') /\ (\A k \in Keys : WasInForce(k)')
  BY <1>1 DEF rows, ReceiptOK, IssueEvent, WasInForce
<1>4. \A v \in Users : BalanceOK(v)'
  BY <1>1, SameJournal DEF rows, BalanceOK, Issued, Owned
<1> QED BY <1>2, <1>3, <1>4

\* Reading, the operator's controls, time and stuttering touch no row.
LEMMA OutsideStep ==
  ASSUME Inv, (\E a \in Attempts : Find(a)) \/ SetControls \/ Tick \/ UNCHANGED vars
  PROVE  Inv'
<1> USE DEF Inv, JournalMirrorsLedger
<1>1. UNCHANGED <<rows, policies>>
  BY DEF Find, SetControls, Tick, vars, rows
<1>2. AppRewardTypeOK'
  BY AppRewardAssumption DEF Find, SetControls, Tick, vars, rows, AppRewardTypeOK, Times
<1>3. UnusedInv' /\ FiniteInv'
  BY <1>1 DEF rows, UnusedInv, FiniteInv, Granted, Recorded
<1>4. (\A a \in Attempts : ReceiptOK(a)') /\ (\A k \in Keys : WasInForce(k)')
  BY <1>1 DEF rows, ReceiptOK, IssueEvent, WasInForce
<1>5. \A v \in Users : BalanceOK(v)'
  BY <1>1, SameJournal DEF rows, BalanceOK, Issued, Owned
<1> QED BY <1>2, <1>3, <1>4, <1>5

-----------------------------------------------------------------------------
\* The journal, the grants and the balances agree in every reachable state
\* (claim_app_reward_attempt_tx with record_event_tx in one transaction).
THEOREM Invariance == Spec => []Inv
<1>1. Inv /\ [Next]_vars => Inv'
  BY IssueStep, ClaimStep, ExchangeStep, DeleteStep, PolicyStep, OutsideStep DEF Next
<1> QED BY <1>1, InitInv, PTL DEF Spec

\* A credit has the one event of its amount and time, under a policy in force;
\* a balance is the sum of its account's events, never negative, and an account
\* has no more grants than its quota.
THEOREM JournalIsMirrored == Spec => []JournalMirrorsLedger
<1>1. Inv => JournalMirrorsLedger
  BY DEF Inv
<1> QED BY <1>1, Invariance, PTL

\* A retried claim gets the original receipt, and nothing else is ever said of
\* a granted attempt until its account is deleted.
THEOREM ReceiptsStay == Spec => ReceiptsAreFinal
<1> DEFINE Final == \A a \in Attempts : grant[a] # Null /\ attempt'[a].user \in Users =>
                       /\ grant'[a] = grant[a]
                       /\ answer'[a] \in {answer[a], <<"granted", grant[a]>>}
<1>1. ASSUME Inv, [Next]_vars PROVE [Final]_vars
  <2> USE DEF Inv, JournalMirrorsLedger
  <2> SUFFICES ASSUME NEW a \in Attempts, grant[a] # Null, attempt'[a].user \in Users, ~UNCHANGED vars
               PROVE  grant'[a] = grant[a] /\ answer'[a] \in {answer[a], <<"granted", grant[a]>>}
    OBVIOUS
  <2>1. ASSUME NEW u \in Users, NEW b \in Attempts, NEW t \in Times, Issue(u, b, t)
        PROVE  grant'[a] = grant[a] /\ answer'[a] = answer[a]
    <3>1. a # b
      BY <1>1, <2>1 DEF Issue, UnusedInv
    <3> QED BY <1>1, <2>1, <3>1 DEF Issue, AppRewardTypeOK
  <2>2. ASSUME NEW b \in Attempts, Find(b)
        PROVE  grant'[a] = grant[a] /\ answer'[a] \in {answer[a], <<"granted", grant[a]>>}
    BY <1>1, <2>2 DEF Find, rows, AppRewardTypeOK
  <2>3. ASSUME NEW b \in Attempts, NEW t \in Times, Claim(b, t)
        PROVE  grant'[a] = grant[a] /\ answer'[a] \in {answer[a], <<"granted", grant[a]>>}
    <3>1. CASE a = b
      <4>1. attempt[a].user \in Users /\ HasReceipt(a, t) /\ a \in Keys
        BY <2>3, <3>1 DEF Claim, HasReceipt, Keys
      <4>2. ReceiptOK(a)
        BY <1>1
      <4>3. Accepted(a, IssueEvent(a, grant[a]))
        BY <4>1, <4>2 DEF ReceiptOK, Accepted
      <4>4. grant' = grant /\ answer' = [answer EXCEPT ![a] = <<"granted", grant[a]>>]
        BY <2>3, <3>1, <4>1, <4>3 DEF Claim
      <4> QED BY <1>1, <4>4 DEF AppRewardTypeOK
    <3>2. CASE a # b
      <4>1. grant'[a] = grant[a]
        BY <1>1, <2>3, <3>2 DEF Claim, AfterGrant, AppRewardTypeOK
      <4>2. answer'[a] = answer[a]
        BY <1>1, <2>3, <3>2 DEF Claim, AppRewardTypeOK
      <4> QED BY <4>1, <4>2
    <3> QED BY <3>1, <3>2
  <2>4. ASSUME NEW u \in Users, DeleteAccount(u)
        PROVE  grant'[a] = grant[a] /\ answer'[a] = answer[a]
    <3>1. a \notin Owned(u)
      BY <2>4, AttemptsExist DEF DeleteAccount
    <3> QED BY <2>4, <3>1 DEF DeleteAccount
  <2>5. ASSUME \/ \E u \in Users, x \in Exchanges, quantity \in Quantities, p \in CurrencyPolicies, t \in Times,
                     value \in Valuations \cup {Null} : Exchange(u, x, quantity, p.version, t, value)
               \/ \E p \in CurrencyPolicies : AddCurrencyPolicy(p)
               \/ SetControls \/ Tick
        PROVE  grant'[a] = grant[a] /\ answer'[a] = answer[a]
    BY <2>5 DEF Exchange, AddCurrencyPolicy, SetControls, Tick, rows
  <2> QED BY <1>1, <2>1, <2>2, <2>3, <2>4, <2>5 DEF Next
<1> QED BY <1>1, Invariance, PTL DEF Spec, ReceiptsAreFinal
=============================================================================
