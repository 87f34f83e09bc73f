----------------------- MODULE PromotionLedgerProofs -----------------------
(***************************************************************************)
(* Proofs about PromotionLedger, for any requests, keys, workers, clock    *)
(* bound, sweep limit and policy.                                          *)
(***************************************************************************)
EXTENDS PromotionLedger, TLAPS

\* A row's own columns: what the WHERE clauses and the outcome UPDATE keep
\* true of it together.
RowOK(r) ==
  /\ ledger[r].status = "absent" => ledger[r] = Absent
  /\ ledger[r].status # "absent" =>
       ledger[r].protocol = IF r \in LegacyRequests THEN "legacy" ELSE "three-step"
  /\ r \in LegacyRequests => ledger[r].status # "absent" /\ ledger[r].startedAt = Null
  /\ ledger[r].startedAt # Null => ledger[r].key # NoKey
  /\ ledger[r].providerStatus = "NOT_EXECUTED" =>
       ledger[r].status = "failed" /\ ledger[r].startedAt = Null
       /\ r \notin LegacyRequests
  /\ ledger[r].status = "success" => ledger[r].key # NoKey
  /\ ledger[r].grantedAt = "set" => ledger[r].status = "success"
  /\ ledger[r].failedAt = "set" => ledger[r].status = "failed"

RowInv == \A r \in Requests : RowOK(r)

\* A key belongs to the one request it was prepared for.
KeyInv ==
  /\ \A q, r \in Requests, k \in Keys :
       <<q, k>> \in prepared /\ <<r, k>> \in prepared => q = r
  /\ \A r \in Requests : ledger[r].key # NoKey => <<r, ledger[r].key>> \in prepared

\* The right to execute a row is in one place: still in the row, with one
\* worker, in one call, or spent.
PermitInv ==
  /\ \A w \in Workers : permit[w] # NoPermit =>
       /\ ledger[permit[w].req].startedAt # Null
       /\ ledger[permit[w].req].key = permit[w].key
       /\ executed[permit[w].req] = 0
       /\ \A c \in calls : c.req # permit[w].req
  /\ \A v, w \in Workers :
       permit[v] # NoPermit /\ permit[w] # NoPermit /\ permit[v].req = permit[w].req
         => v = w

CallInv ==
  /\ \A c \in calls : /\ ledger[c.req].startedAt # Null
                      /\ ledger[c.req].key = c.key
                      /\ executed[c.req] = 0
  /\ \A c, d \in calls : c.req = d.req => c = d

\* An execution and the provider's knowledge of its key go together.
ExecutionInv ==
  /\ \A r \in Requests :
       /\ executed[r] \in {0, 1}
       /\ executed[r] = 1 /\ r \notin LegacyRequests =>
            ledger[r].startedAt # Null /\ verdict[ledger[r].key] # "NOT_FOUND"
  /\ \A k \in Keys : verdict[k] # "NOT_FOUND" =>
       \E r \in Requests : ledger[r].key = k /\ executed[r] = 1

\* Only rows that may have executed are looked up or answered for, with
\* their own key, and GRANTED is believed only when the provider said so.
AnswerInv ==
  /\ \A a \in answers :
       /\ ledger[a.req].key = a.key
       /\ a.req \in LegacyRequests \/ ledger[a.req].startedAt # Null
       /\ a.status = "GRANTED" => verdict[a.key] = "GRANTED"
  /\ \A r \in worklist : ledger[r].startedAt # Null
  /\ \A r \in Requests :
       ledger[r].status = "success" => verdict[ledger[r].key] = "GRANTED"

Inv == TypeOK /\ RowInv /\ KeyInv /\ PermitInv /\ CallInv /\ ExecutionInv /\ AnswerInv

-----------------------------------------------------------------------------
\* A sweep takes rows only from the set its WHERE clause selects.
LEMMA OldestSelects == ASSUME NEW S, NEW n PROVE Oldest(S, n) \subseteq S
BY DEF Oldest

\* The status of an envelope stays among the observed statuses, and GRANTED
\* comes only from GRANTED.
LEMMA NormalizedStatus ==
  ASSUME NEW ok \in BOOLEAN, NEW s \in Observed \cup {"NONE"}
  PROVE  /\ NormalizeProviderStatus(ok, s) \in Observed
         /\ NormalizeProviderStatus(ok, s) = "GRANTED" => s = "GRANTED"
BY DEF NormalizeProviderStatus, Observed

\* What the outcome UPDATE does to one row, for every outcome.
LEMMA OutcomeUpdatesRow ==
  ASSUME NEW row \in Rows, NEW key \in Keys, NEW p \in Observed,
         NEW stamped \in Stamps, now \in Times,
         row.grantedAt = "set" => row.status = "success",
         row.failedAt = "set" => row.status = "failed"
  PROVE  LET new == AfterOutcome(row, key, p, stamped) IN
         /\ new \in Rows
         /\ new.protocol = row.protocol
         /\ new.startedAt = row.startedAt
         /\ row.key # NoKey => new.key = row.key
         /\ new.key # NoKey => row.key # NoKey \/ new.key = key
         /\ new.status # "absent" \/ row.status = "absent"
         /\ new.status = "success" => row.status = "success" \/ p = "GRANTED"
         /\ row.status = "success" => new.status = "success"
         /\ row.status = "failed" => new.status \in {"failed", "success"}
         /\ new.providerStatus = "NOT_EXECUTED" =>
              row.providerStatus = "NOT_EXECUTED" /\ new.status = row.status
         /\ new.grantedAt = "set" => new.status = "success"
         /\ new.failedAt = "set" => new.status = "failed"
<1> DEFINE new == PromotionLedgerStatus(p)
           heldKey == IF row.key # NoKey THEN row.key ELSE key
           g == Stamp(row.grantedAt, stamped, new = "success")
           f == Stamp(row.failedAt, stamped, new = "failed")
           res == AfterOutcome(row, key, p, stamped)
<1>1. new \in {"success", "pending", "failed"} /\ (new = "success" => p = "GRANTED")
  BY DEF PromotionLedgerStatus, Observed
<1>2. /\ heldKey \in Keys
      /\ row.key # NoKey => heldKey = row.key
      /\ heldKey = row.key \/ heldKey = key
  BY NoKeyAssumption DEF Rows
<1>3. /\ f \in Stamps /\ g \in Stamps /\ "null" \in Stamps
      /\ g = "set" => new = "success"
      /\ f = "set" => new = "failed"
  BY DEF Rows, Stamps, Stamp
<1>4. res = IF KeptSuccess(row, new) THEN row
            ELSE IF ShutFailure(row, new)
            THEN [row EXCEPT !.key = heldKey, !.grantedAt = "null"]
            ELSE [row EXCEPT !.status = new, !.providerStatus = p, !.key = heldKey,
                             !.grantedAt = g, !.failedAt = f, !.updatedAt = now]
  BY DEF AfterOutcome
<1>5. p # "NOT_EXECUTED"
  BY DEF Observed
<1>9. res = AfterOutcome(row, key, p, stamped)
  OBVIOUS
<1> HIDE DEF new, heldKey, f, g, res
<1>6. CASE KeptSuccess(row, new)
  BY <1>2, <1>4, <1>6, <1>9 DEF KeptSuccess
<1>7. CASE ~KeptSuccess(row, new) /\ ShutFailure(row, new)
  <2>1. res = [row EXCEPT !.key = heldKey, !.grantedAt = "null"]
    BY <1>4, <1>7
  <2>2. res \in Rows
    BY <1>2, <1>3, <2>1 DEF Rows
  <2>3. /\ res.status = row.status /\ res.protocol = row.protocol
        /\ res.startedAt = row.startedAt /\ res.key = heldKey
        /\ res.providerStatus = row.providerStatus
        /\ res.grantedAt = "null" /\ res.failedAt = row.failedAt
    BY <2>1 DEF Rows
  <2> QED BY <1>2, <1>7, <1>9, <2>2, <2>3 DEF ShutFailure
<1>8. CASE ~KeptSuccess(row, new) /\ ~ShutFailure(row, new)
  <2>1. res = [row EXCEPT !.status = new, !.providerStatus = p, !.key = heldKey,
                          !.grantedAt = g, !.failedAt = f, !.updatedAt = now]
    BY <1>4, <1>8
  <2>2. res \in Rows
    BY <1>1, <1>2, <1>3, <2>1 DEF Rows
  <2>3. /\ res.status = new /\ res.protocol = row.protocol
        /\ res.startedAt = row.startedAt /\ res.key = heldKey
        /\ res.providerStatus = p /\ res.grantedAt = g /\ res.failedAt = f
    BY <2>1 DEF Rows
  <2> QED BY <1>1, <1>2, <1>3, <1>5, <1>8, <1>9, <2>2, <2>3
          DEF KeptSuccess, ShutFailure
<1> QED BY <1>6, <1>7, <1>8

-----------------------------------------------------------------------------
LEMMA AbsentRow == Absent \in Rows
BY DEF Absent, Rows, Stamps, Null

LEMMA LegacyRows == \A k \in Keys \cup {NoKey} : LegacyRow(k) \in Rows
<1>1. 0 \in Times
  BY TimeAssumption DEF Times
<1> QED BY AbsentRow, <1>1 DEF LegacyRow, Rows, Observed

LEMMA TypeInit == Init => TypeOK
<1> SUFFICES ASSUME Init PROVE TypeOK OBVIOUS
<1>1. PICK keyOf \in [LegacyRequests -> Keys \cup {NoKey}], ran \in SUBSET LegacyRequests :
        /\ ledger = [r \in Requests |->
                      IF r \in LegacyRequests THEN LegacyRow(keyOf[r]) ELSE Absent]
        /\ prepared = {<<r, keyOf[r]>> : r \in {q \in LegacyRequests : keyOf[q] # NoKey}}
        /\ executed = [r \in Requests |-> IF r \in ran THEN 1 ELSE 0]
        /\ verdict = [k \in Keys |->
                       IF \E r \in ran : keyOf[r] = k THEN "PENDING" ELSE "NOT_FOUND"]
  BY DEF Init
<1>2. ledger \in [Requests -> Rows]
  BY <1>1, LegacyRows, AbsentRow
<1>3. prepared \subseteq Requests \X Keys
  BY <1>1, LegacyAssumption
<1>4. executed \in [Requests -> Nat] /\ verdict \in [Keys -> Observed]
  BY <1>1 DEF Observed
<1>5. now \in Times /\ permit \in [Workers -> Permits \cup {NoPermit}]
  BY TimeAssumption DEF Init, Times
<1> QED BY <1>2, <1>3, <1>4, <1>5 DEF Init, TypeOK

\* Every step keeps the types.
LEMMA TypeStep == TypeOK /\ RowInv /\ AnswerInv /\ [Next]_vars => TypeOK'
<1> SUFFICES ASSUME TypeOK, RowInv, AnswerInv, [Next]_vars PROVE TypeOK' OBVIOUS
<1> USE DEF TypeOK, provider
<1>1. ASSUME NEW r \in Requests, Insert(r) PROVE TypeOK'
  <2>1. NewRow \in Rows
    BY AbsentRow DEF NewRow, Rows, Observed
  <2> QED BY <1>1, <2>1 DEF Insert
<1>2. ASSUME NEW r \in Requests, Prepare(r) PROVE TypeOK'
  BY <1>2 DEF Prepare
<1>3. ASSUME NEW r \in Requests, NEW k \in Keys, StoreKey(r, k) PROVE TypeOK'
  <2>1. [ledger[r] EXCEPT !.key = k, !.updatedAt = now] \in Rows
    BY DEF Rows
  <2>2. ledger' = [ledger EXCEPT ![r] = [ledger[r] EXCEPT !.key = k, !.updatedAt = now]]
    BY <1>3 DEF StoreKey
  <2> QED BY <1>3, <2>1, <2>2 DEF StoreKey
<1>4. ASSUME NEW w \in Workers, NEW r \in Requests, BeginExecute(w, r) PROVE TypeOK'
  <2>1. ledger[r].key \in Keys
    BY <1>4 DEF BeginExecute, Claimable, Rows
  <2>2. [req |-> r, key |-> ledger[r].key] \in Permits
    BY <2>1 DEF Permits
  <2>3. [ledger[r] EXCEPT !.startedAt = now, !.updatedAt = now] \in Rows
    BY DEF Rows
  <2>4. ledger' = [ledger EXCEPT ![r] =
                     [ledger[r] EXCEPT !.startedAt = now, !.updatedAt = now]]
    BY <1>4 DEF BeginExecute
  <2> QED BY <1>4, <2>2, <2>3, <2>4 DEF BeginExecute
<1>5. ASSUME NEW w \in Workers, Execute(w) PROVE TypeOK'
  <2>1. permit[w] \in Permits
    BY <1>5 DEF Execute
  <2>2. /\ [req |-> permit[w].req, key |-> permit[w].key, by |-> w] \in Calls
        /\ [req |-> permit[w].req, key |-> permit[w].key,
             status |-> NormalizeProviderStatus(FALSE, "NONE")] \in Answers
    BY <2>1, NormalizedStatus DEF Permits, Calls, Answers
  <2> QED BY <1>5, <2>2 DEF Execute
<1>6. ASSUME NEW w \in Workers, Crash(w) PROVE TypeOK'
  BY <1>6 DEF Crash
<1>7. ASSUME NEW c \in calls, Deliver(c) PROVE TypeOK'
  <2>1. c \in Calls
    OBVIOUS
  <2>2. PICK v \in {"PENDING", "GRANTED", "FAILED"}, ok \in BOOLEAN,
              seen \in Observed \cup {"NONE"} :
          /\ seen \in {v, "NONE"}
          /\ verdict' = [verdict EXCEPT ![c.key] = IF @ = "NOT_FOUND" THEN v ELSE @]
          /\ answers' = answers \cup {[req |-> c.req, key |-> c.key,
                                       status |-> NormalizeProviderStatus(ok, seen)]}
    BY <1>7 DEF Deliver, Observed
  <2>3. v \in Observed
    BY DEF Observed
  <2>4. [req |-> c.req, key |-> c.key, status |-> NormalizeProviderStatus(ok, seen)] \in Answers
    BY <2>1, <2>3, NormalizedStatus DEF Calls, Answers
  <2>5. verdict' \in [Keys -> Observed]
    BY <2>1, <2>2, <2>3 DEF Calls
  <2>6. executed' \in [Requests -> Nat]
    BY <1>7, <2>1 DEF Deliver, Calls
  <2> QED BY <1>7, <2>2, <2>4, <2>5, <2>6 DEF Deliver
<1>8. ASSUME NEW c \in calls, LoseCall(c) PROVE TypeOK'
  BY <1>8 DEF LoseCall
<1>9. ASSUME NEW k \in Keys, Decide(k) PROVE TypeOK'
  BY <1>9 DEF Decide, Observed
<1>10. CASE ListRecovery
  BY <1>10, OldestSelects DEF ListRecovery
<1>11. ASSUME NEW r \in Requests, Lookup(r) PROVE TypeOK'
  <2>1. ledger[r].key \in Keys
    BY <1>11 DEF Lookup, RowInv, RowOK, AnswerInv, Rows
  <2>2. PICK ok \in BOOLEAN, seen \in {verdict[ledger[r].key], "NONE"} :
          answers' = answers \cup {[req |-> r, key |-> ledger[r].key,
                                    status |-> NormalizeProviderStatus(ok, seen)]}
    BY <1>11 DEF Lookup
  <2>3. verdict[ledger[r].key] \in Observed
    BY <2>1
  <2>4. NormalizeProviderStatus(ok, seen) \in Observed
    BY <2>3, NormalizedStatus
  <2> QED BY <1>11, <2>1, <2>2, <2>4 DEF Lookup, Answers
<1>12. ASSUME NEW a \in answers, ApplyOutcome(a) PROVE TypeOK'
  <2>1. a \in Answers
    OBVIOUS
  <2>2. PICK stamped \in Stamps :
          ledger' = [ledger EXCEPT ![a.req] =
                       AfterOutcome(ledger[a.req], a.key, a.status, stamped)]
    BY <1>12 DEF ApplyOutcome
  <2>3. AfterOutcome(ledger[a.req], a.key, a.status, stamped) \in Rows
    BY <2>1, OutcomeUpdatesRow DEF Answers, RowInv, RowOK
  <2> QED BY <1>12, <2>1, <2>2, <2>3 DEF ApplyOutcome, Answers
<1>13. CASE Abandon
  <2>1. ASSUME NEW row \in Rows
        PROVE  [row EXCEPT !.status = "failed", !.providerStatus = "NOT_EXECUTED",
                           !.failedAt = "set", !.updatedAt = now] \in Rows
    BY DEF Rows, Stamps
  <2> QED BY <1>13, <2>1 DEF Abandon
<1>14. CASE SetPolicy
  BY <1>14 DEF SetPolicy
<1>15. CASE Tick
  BY <1>15, TimeAssumption DEF Tick, Times
<1>16. CASE UNCHANGED vars
  BY <1>16 DEF vars
<1> QED BY <1>1, <1>2, <1>3, <1>4, <1>5, <1>6, <1>7, <1>8, <1>9, <1>10, <1>11,
           <1>12, <1>13, <1>14, <1>15, <1>16 DEF Next

-----------------------------------------------------------------------------
\* What one application of an outcome does to the row it is for.
LEMMA OutcomeStep ==
  ASSUME TypeOK, RowInv, AnswerInv, NEW a \in answers, ApplyOutcome(a)
  PROVE  LET r == a.req IN
         /\ r \in Requests
         /\ \A q \in Requests \ {r} : ledger'[q] = ledger[q]
         /\ r \in LegacyRequests \/ ledger[r].startedAt # Null
         /\ ledger[r].status # "absent" /\ ledger'[r].status # "absent"
         /\ ledger'[r].protocol = ledger[r].protocol
         /\ ledger'[r].startedAt = ledger[r].startedAt
         /\ ledger'[r].key = ledger[r].key /\ ledger[r].key \in Keys
         /\ ledger'[r].status = "success" =>
              ledger[r].status = "success" \/ verdict[ledger[r].key] = "GRANTED"
         /\ ledger[r].status = "success" => ledger'[r].status = "success"
         /\ ledger[r].status = "failed" => ledger'[r].status \in {"failed", "success"}
         /\ ledger'[r].providerStatus = "NOT_EXECUTED" =>
              ledger[r].providerStatus = "NOT_EXECUTED"
              /\ ledger'[r].status = ledger[r].status
         /\ ledger'[r].grantedAt = "set" => ledger'[r].status = "success"
         /\ ledger'[r].failedAt = "set" => ledger'[r].status = "failed"
<1> DEFINE r == a.req
<1>1. r \in Requests /\ a.key \in Keys /\ a.status \in Observed
  BY DEF TypeOK, Answers
<1>2. PICK stamped \in Stamps :
        ledger' = [ledger EXCEPT ![r] = AfterOutcome(ledger[r], a.key, a.status, stamped)]
  BY DEF ApplyOutcome
<1>3. ledger[r] \in Rows /\ now \in Times /\ RowOK(r)
  BY <1>1 DEF TypeOK, RowInv
<1>4. /\ ledger[r].key = a.key
      /\ a.status = "GRANTED" => verdict[a.key] = "GRANTED"
      /\ r \in LegacyRequests \/ ledger[r].startedAt # Null
      /\ ledger[r].status # "absent"
  BY DEF AnswerInv, ApplyOutcome
<1>5. ledger'[r] = AfterOutcome(ledger[r], a.key, a.status, stamped)
  BY <1>1, <1>2 DEF TypeOK
<1>6. \A q \in Requests \ {r} : ledger'[q] = ledger[q]
  BY <1>1, <1>2 DEF TypeOK
<1> HIDE DEF r
<1>7. /\ ledger'[r].protocol = ledger[r].protocol
      /\ ledger'[r].startedAt = ledger[r].startedAt
      /\ ledger'[r].key = ledger[r].key
      /\ ledger'[r].status # "absent"
      /\ ledger'[r].status = "success" =>
           ledger[r].status = "success" \/ a.status = "GRANTED"
      /\ ledger[r].status = "success" => ledger'[r].status = "success"
      /\ ledger[r].status = "failed" => ledger'[r].status \in {"failed", "success"}
      /\ ledger'[r].providerStatus = "NOT_EXECUTED" =>
           ledger[r].providerStatus = "NOT_EXECUTED"
           /\ ledger'[r].status = ledger[r].status
      /\ ledger'[r].grantedAt = "set" => ledger'[r].status = "success"
      /\ ledger'[r].failedAt = "set" => ledger'[r].status = "failed"
  BY <1>1, <1>3, <1>4, <1>5, OutcomeUpdatesRow, NoKeyAssumption DEF RowOK
<1> QED BY <1>1, <1>4, <1>6, <1>7 DEF r

\* The abandon sweep changes unclaimed rows only, each in the same way.
LEMMA AbandonStep ==
  ASSUME TypeOK, Abandon, NEW r \in Requests
  PROVE  \/ ledger'[r] = ledger[r]
         \/ /\ Unclaimed(ledger[r])
            /\ ledger'[r].status = "failed"
            /\ ledger'[r].protocol = ledger[r].protocol
            /\ ledger'[r].startedAt = ledger[r].startedAt
            /\ ledger'[r].key = ledger[r].key
            /\ ledger'[r].providerStatus = "NOT_EXECUTED"
            /\ ledger'[r].grantedAt = ledger[r].grantedAt
<1> SUFFICES ASSUME ledger'[r] # ledger[r]
             PROVE  /\ Unclaimed(ledger[r])
                    /\ ledger'[r].status = "failed"
                    /\ ledger'[r].protocol = ledger[r].protocol
                    /\ ledger'[r].startedAt = ledger[r].startedAt
                    /\ ledger'[r].key = ledger[r].key
                    /\ ledger'[r].providerStatus = "NOT_EXECUTED"
                    /\ ledger'[r].grantedAt = ledger[r].grantedAt
  OBVIOUS
<1>1. /\ Abandonable(ledger[r])
      /\ ledger'[r] = [ledger[r] EXCEPT !.status = "failed",
                         !.providerStatus = "NOT_EXECUTED",
                         !.failedAt = "set", !.updatedAt = now]
  BY OldestSelects DEF Abandon
<1>2. ledger[r] \in Rows
  BY DEF TypeOK
<1> QED BY <1>1, <1>2 DEF Abandonable, Rows

\* Every step keeps the columns of a row consistent, and its facts.
LEMMA RowStep ==
  TypeOK /\ RowInv /\ AnswerInv /\ [Next]_vars =>
    RowInv' /\ \A r \in Requests : KeepsFacts(r)
<1> USE DEF RowOK
<1> SUFFICES ASSUME TypeOK, RowInv, AnswerInv, [Next]_vars, NEW q \in Requests
             PROVE  RowOK(q)' /\ KeepsFacts(q)
  BY DEF RowInv
<1> ledger[q] \in Rows
  BY DEF TypeOK
<1> now \in Times /\ ledger \in [Requests -> Rows]
  BY DEF TypeOK
<1>0. RowOK(q)
  BY DEF RowInv
<1>1. ASSUME ledger'[q] = ledger[q] PROVE RowOK(q)' /\ KeepsFacts(q)
  BY <1>0, <1>1 DEF KeepsFacts
<1>2. ASSUME NEW r \in Requests, Insert(r) PROVE RowOK(q)' /\ KeepsFacts(q)
  <2>1. CASE r # q
    BY <1>1, <1>2, <2>1 DEF Insert
  <2>2. CASE r = q
    <3>1. ledger'[q] = NewRow
      BY <1>2, <2>2 DEF Insert
    <3>2. /\ ledger'[q].status = "pending" /\ ledger'[q].protocol = "three-step"
          /\ ledger'[q].startedAt = Null /\ ledger'[q].key = NoKey
          /\ ledger'[q].providerStatus = "PENDING"
          /\ ledger'[q].grantedAt = "null" /\ ledger'[q].failedAt = "null"
      BY <3>1 DEF NewRow, Absent
    <3>3. ledger[q] = Absent /\ q \notin LegacyRequests
      BY <1>0, <1>2, <2>2 DEF Insert
    <3> QED BY <3>2, <3>3 DEF KeepsFacts, Absent
  <2> QED BY <2>1, <2>2
<1>3. ASSUME NEW r \in Requests, NEW k \in Keys, StoreKey(r, k)
      PROVE  RowOK(q)' /\ KeepsFacts(q)
  <2>1. CASE r # q
    BY <1>1, <1>3, <2>1 DEF StoreKey
  <2>2. CASE r = q
    <3>1. ledger'[q] = [ledger[q] EXCEPT !.key = k, !.updatedAt = now]
      BY <1>3, <2>2 DEF StoreKey
    <3>2. /\ ledger'[q].status = ledger[q].status /\ ledger'[q].protocol = ledger[q].protocol
          /\ ledger'[q].startedAt = ledger[q].startedAt /\ ledger'[q].key = k
          /\ ledger'[q].providerStatus = ledger[q].providerStatus
          /\ ledger'[q].grantedAt = ledger[q].grantedAt
          /\ ledger'[q].failedAt = ledger[q].failedAt
      BY <3>1 DEF Rows
    <3>3. StoresKey(ledger[q], k)
      BY <1>3, <2>2 DEF StoreKey
    <3> QED BY <1>0, <3>2, <3>3, NoKeyAssumption DEF KeepsFacts, StoresKey, Unclaimed
  <2> QED BY <2>1, <2>2
<1>4. ASSUME NEW w \in Workers, NEW r \in Requests, BeginExecute(w, r)
      PROVE  RowOK(q)' /\ KeepsFacts(q)
  <2>1. CASE r # q
    BY <1>1, <1>4, <2>1 DEF BeginExecute
  <2>2. CASE r = q
    <3>1. ledger'[q] = [ledger[q] EXCEPT !.startedAt = now, !.updatedAt = now]
      BY <1>4, <2>2 DEF BeginExecute
    <3>2. /\ ledger'[q].status = ledger[q].status /\ ledger'[q].protocol = ledger[q].protocol
          /\ ledger'[q].startedAt = now /\ ledger'[q].key = ledger[q].key
          /\ ledger'[q].providerStatus = ledger[q].providerStatus
          /\ ledger'[q].grantedAt = ledger[q].grantedAt
          /\ ledger'[q].failedAt = ledger[q].failedAt
      BY <3>1 DEF Rows
    <3>3. Claimable(ledger[q])
      BY <1>4, <2>2 DEF BeginExecute
    <3> QED BY <1>0, <3>2, <3>3 DEF KeepsFacts, Claimable, Unclaimed
  <2> QED BY <2>1, <2>2
<1>5. ASSUME NEW a \in answers, ApplyOutcome(a) PROVE RowOK(q)' /\ KeepsFacts(q)
  <2>1. CASE a.req # q
    BY <1>1, <1>5, <2>1 DEF ApplyOutcome
  <2>2. CASE a.req = q
    <3> QED BY <1>0, <1>5, <2>2, OutcomeStep, NoKeyAssumption DEF KeepsFacts
  <2> QED BY <2>1, <2>2
<1>6. CASE Abandon
  <2>1. CASE ledger'[q] = ledger[q]
    BY <1>1, <2>1
  <2>2. CASE ledger'[q] # ledger[q]
    <3> QED BY <1>0, <1>6, <2>2, AbandonStep DEF KeepsFacts, Unclaimed, Rows, Stamps
  <2> QED BY <2>1, <2>2
<1>7. CASE UNCHANGED ledger
  BY <1>1, <1>7
<1> QED BY <1>2, <1>3, <1>4, <1>5, <1>6, <1>7
        DEF Next, vars, Prepare, Execute, Crash, Deliver, LoseCall, Decide,
            ListRecovery, Lookup, SetPolicy, Tick

-----------------------------------------------------------------------------
\* A key is prepared for one request only, and rows hold prepared keys only.
LEMMA KeyStep ==
  TypeOK /\ RowInv /\ KeyInv /\ AnswerInv /\ [Next]_vars => KeyInv'
<1> SUFFICES ASSUME TypeOK, RowInv, KeyInv, AnswerInv, [Next]_vars PROVE KeyInv' OBVIOUS
<1> USE DEF TypeOK, KeyInv
<1>1. ASSUME NEW r \in Requests, Insert(r) PROVE KeyInv'
  <2>1. \A q \in Requests : ledger'[q].key # NoKey => ledger'[q] = ledger[q]
    BY <1>1 DEF Insert, NewRow, Absent
  <2>2. prepared' = prepared
    BY <1>1 DEF Insert
  <2> QED BY <2>1, <2>2
<1>2. ASSUME NEW r \in Requests, Prepare(r) PROVE KeyInv'
  BY <1>2 DEF Prepare
<1>3. ASSUME NEW r \in Requests, NEW k \in Keys, StoreKey(r, k) PROVE KeyInv'
  <2>1. \A q \in Requests : ledger'[q].key = IF q = r THEN k ELSE ledger[q].key
    BY <1>3 DEF StoreKey, Rows
  <2> QED BY <1>3, <2>1 DEF StoreKey
<1>4. ASSUME NEW w \in Workers, NEW r \in Requests, BeginExecute(w, r) PROVE KeyInv'
  <2>1. \A q \in Requests : ledger'[q].key = ledger[q].key
    BY <1>4 DEF BeginExecute, Rows
  <2> QED BY <1>4, <2>1 DEF BeginExecute
<1>5. ASSUME NEW a \in answers, ApplyOutcome(a) PROVE KeyInv'
  <2>1. \A q \in Requests : ledger'[q].key = ledger[q].key
    BY <1>5, OutcomeStep
  <2> QED BY <1>5, <2>1 DEF ApplyOutcome
<1>6. CASE Abandon
  <2>1. \A q \in Requests : ledger'[q].key = ledger[q].key
    BY <1>6, AbandonStep
  <2>2. prepared' = prepared
    BY <1>6 DEF Abandon
  <2> QED BY <2>1, <2>2
<1>7. CASE UNCHANGED <<ledger, prepared>>
  BY <1>7
<1> QED BY <1>1, <1>2, <1>3, <1>4, <1>5, <1>6, <1>7
        DEF Next, vars, Execute, Crash, Deliver, LoseCall, Decide,
            ListRecovery, Lookup, SetPolicy, Tick

\* A row that is started keeps its start and its key.
LEMMA StartedRowStays ==
  ASSUME TypeOK, RowInv, AnswerInv, [Next]_vars, NEW r \in Requests,
         ledger[r].startedAt # Null
  PROVE  ledger'[r].startedAt # Null /\ ledger'[r].key = ledger[r].key
BY RowStep DEF RowInv, RowOK, KeepsFacts

\* The right to execute stays in one place.
LEMMA PermitStep ==
  TypeOK /\ RowInv /\ AnswerInv /\ PermitInv /\ CallInv /\ ExecutionInv /\ [Next]_vars
    => PermitInv' /\ CallInv'
<1> SUFFICES ASSUME TypeOK, RowInv, AnswerInv, PermitInv, CallInv, ExecutionInv, [Next]_vars
             PROVE  PermitInv' /\ CallInv'
  OBVIOUS
<1> USE DEF TypeOK, provider
<1>a. \A r \in Requests : ledger[r].startedAt # Null =>
        ledger'[r].startedAt # Null /\ ledger'[r].key = ledger[r].key
  BY StartedRowStays
<1>b. \A w \in Workers : permit[w] # NoPermit => permit[w].req \in Requests
  BY DEF Permits
<1>c. \A c \in calls : c.req \in Requests
  BY DEF Calls
<1>1. CASE UNCHANGED <<permit, calls, executed>>
  BY <1>1, <1>a, <1>b, <1>c DEF PermitInv, CallInv
<1>2. ASSUME NEW w \in Workers, NEW r \in Requests, BeginExecute(w, r)
      PROVE  PermitInv' /\ CallInv'
  <2>1. /\ permit' = [permit EXCEPT ![w] = [req |-> r, key |-> ledger[r].key]]
        /\ calls' = calls /\ executed' = executed
        /\ ledger[r].startedAt = Null /\ ledger[r].protocol = "three-step"
        /\ ledger[r].status # "absent"
    BY <1>2 DEF BeginExecute, Claimable, Unclaimed
  <2>2. ledger'[r].startedAt # Null /\ ledger'[r].key = ledger[r].key
    BY <1>2 DEF BeginExecute, Rows, Times, Null
  <2>3. r \notin LegacyRequests
    BY <2>1 DEF RowInv, RowOK
  <2>4. /\ executed[r] = 0
        /\ \A c \in calls : c.req # r
        /\ \A v \in Workers : permit[v] # NoPermit => permit[v].req # r
    BY <2>1, <2>3, <1>b, <1>c DEF ExecutionInv, CallInv, PermitInv
  <2>5. permit'[w].req = r /\ permit'[w].key = ledger[r].key
        /\ \A v \in Workers \ {w} : permit'[v] = permit[v]
    BY <2>1
  <2>6. PermitInv'
    BY <2>1, <2>2, <2>4, <2>5, <1>a, <1>b DEF PermitInv
  <2>7. CallInv'
    BY <2>1, <1>a, <1>c DEF CallInv
  <2> QED BY <2>6, <2>7
<1>3. ASSUME NEW w \in Workers, Execute(w) PROVE PermitInv' /\ CallInv'
  <2> DEFINE c == [req |-> permit[w].req, key |-> permit[w].key, by |-> w]
  <2>1. /\ permit[w] # NoPermit /\ calls' = calls \cup {c}
        /\ permit' = [permit EXCEPT ![w] = NoPermit]
        /\ executed' = executed /\ ledger' = ledger
    BY <1>3 DEF Execute
  <2>2. /\ ledger[c.req].startedAt # Null /\ ledger[c.req].key = c.key
        /\ executed[c.req] = 0
        /\ \A d \in calls : d.req # c.req
        /\ \A v \in Workers \ {w} : permit[v] # NoPermit => permit[v].req # c.req
    BY <2>1 DEF PermitInv
  <2>3. /\ permit'[w] = NoPermit
        /\ \A v \in Workers \ {w} : permit'[v] = permit[v]
    BY <2>1
  <2> HIDE DEF c
  <2>4. PermitInv'
    BY <2>1, <2>2, <2>3, <1>b DEF PermitInv
  <2>5. CallInv'
    BY <2>1, <2>2 DEF CallInv
  <2> QED BY <2>4, <2>5
<1>4. ASSUME NEW w \in Workers, Crash(w) PROVE PermitInv' /\ CallInv'
  <2>1. /\ permit' = [permit EXCEPT ![w] = NoPermit]
        /\ executed' = executed /\ ledger' = ledger /\ calls' = calls
    BY <1>4 DEF Crash
  <2>2. /\ permit'[w] = NoPermit
        /\ \A v \in Workers \ {w} : permit'[v] = permit[v]
    BY <2>1
  <2> QED BY <2>1, <2>2, <1>b DEF PermitInv, CallInv
<1>5. ASSUME NEW c \in calls, Deliver(c) PROVE PermitInv' /\ CallInv'
  <2>1. /\ calls' = calls \ {c} /\ permit' = permit /\ ledger' = ledger
        /\ executed' = [executed EXCEPT ![c.req] = @ + 1]
    BY <1>5 DEF Deliver
  <2>2. /\ \A d \in calls' : d.req # c.req
        /\ \A v \in Workers : permit[v] # NoPermit => permit[v].req # c.req
    BY <2>1 DEF CallInv, PermitInv
  <2>3. \A r \in Requests : r # c.req => executed'[r] = executed[r]
    BY <2>1
  <2> QED BY <2>1, <2>2, <2>3, <1>b, <1>c DEF PermitInv, CallInv
<1>6. ASSUME NEW c \in calls, LoseCall(c) PROVE PermitInv' /\ CallInv'
  BY <1>6 DEF LoseCall, PermitInv, CallInv
<1> QED BY <1>1, <1>2, <1>3, <1>4, <1>5, <1>6
        DEF Next, vars, Insert, Prepare, StoreKey, Decide, ListRecovery, Lookup,
            ApplyOutcome, Abandon, SetPolicy, Tick

\* An execution makes the provider know the key, and nothing makes it forget.
LEMMA ExecutionStep ==
  TypeOK /\ RowInv /\ KeyInv /\ CallInv /\ ExecutionInv /\ AnswerInv /\ [Next]_vars
    => ExecutionInv'
<1> SUFFICES ASSUME TypeOK, RowInv, KeyInv, CallInv, ExecutionInv, AnswerInv, [Next]_vars
             PROVE  ExecutionInv'
  OBVIOUS
<1> USE DEF TypeOK, provider
<1>a. \A r \in Requests :
        /\ ledger[r].startedAt # Null =>
             ledger'[r].startedAt # Null /\ ledger'[r].key = ledger[r].key
        /\ ledger[r].key # NoKey => ledger'[r].key = ledger[r].key
  BY StartedRowStays, RowStep DEF KeepsFacts
<1>b. \A r \in Requests : ledger[r].startedAt # Null => ledger[r].key \in Keys
  BY DEF RowInv, RowOK, Rows
<1>1. ASSUME executed' = executed,
             \A k \in Keys : verdict'[k] = "NOT_FOUND" <=> verdict[k] = "NOT_FOUND"
      PROVE  ExecutionInv'
  BY <1>1, <1>a, <1>b, NoKeyAssumption DEF ExecutionInv
<1>2. ASSUME NEW c \in calls, Deliver(c) PROVE ExecutionInv'
  <2>1. PICK v \in {"PENDING", "GRANTED", "FAILED"} :
          verdict' = [verdict EXCEPT ![c.key] = IF @ = "NOT_FOUND" THEN v ELSE @]
    BY <1>2 DEF Deliver
  <2>2. /\ executed' = [executed EXCEPT ![c.req] = @ + 1] /\ ledger' = ledger
        /\ c.req \in Requests /\ c.key \in Keys
    BY <1>2 DEF Deliver, Calls
  <2>3. ledger[c.req].startedAt # Null /\ ledger[c.req].key = c.key /\ executed[c.req] = 0
    BY DEF CallInv
  <2>4. /\ verdict'[c.key] # "NOT_FOUND"
        /\ \A k \in Keys : k # c.key => verdict'[k] = verdict[k]
        /\ \A k \in Keys : verdict[k] # "NOT_FOUND" => verdict'[k] # "NOT_FOUND"
    BY <2>1, <2>2
  <2>5. executed'[c.req] = 1 /\ \A r \in Requests : r # c.req => executed'[r] = executed[r]
    BY <2>2, <2>3
  <2>6. ASSUME NEW r \in Requests
        PROVE  /\ executed'[r] \in {0, 1}
               /\ executed'[r] = 1 /\ r \notin LegacyRequests =>
                    ledger'[r].startedAt # Null /\ verdict'[ledger'[r].key] # "NOT_FOUND"
    <3>1. CASE r = c.req
      BY <2>2, <2>3, <2>4, <2>5, <3>1
    <3>2. CASE r # c.req
      BY <2>2, <2>4, <2>5, <3>2, <1>b DEF ExecutionInv
    <3> QED BY <3>1, <3>2
  <2>7. ASSUME NEW k \in Keys, verdict'[k] # "NOT_FOUND"
        PROVE  \E r \in Requests : ledger'[r].key = k /\ executed'[r] = 1
    <3>1. CASE k = c.key
      BY <2>2, <2>3, <2>5, <3>1
    <3>2. CASE k # c.key
      <4>1. PICK r \in Requests : ledger[r].key = k /\ executed[r] = 1
        BY <2>4, <2>7, <3>2 DEF ExecutionInv
      <4>2. r # c.req
        BY <2>3, <4>1
      <4> QED BY <2>2, <2>5, <4>1, <4>2
    <3> QED BY <3>1, <3>2
  <2> QED BY <2>6, <2>7 DEF ExecutionInv
<1>3. ASSUME NEW k \in Keys, Decide(k) PROVE ExecutionInv'
  <2>1. PICK v \in {"GRANTED", "FAILED"} : verdict' = [verdict EXCEPT ![k] = v]
    BY <1>3 DEF Decide
  <2> QED BY <1>1, <1>3, <2>1 DEF Decide
<1>4. CASE UNCHANGED <<executed, verdict>>
  BY <1>1, <1>4
<1> QED BY <1>2, <1>3, <1>4
        DEF Next, vars, Insert, Prepare, StoreKey, BeginExecute, Execute, Crash, LoseCall,
            ListRecovery, Lookup, ApplyOutcome, Abandon, SetPolicy, Tick

\* A grant, once the provider's word, stays its word.
LEMMA GrantStays ==
  ASSUME TypeOK, [Next]_vars, NEW k \in Keys, verdict[k] = "GRANTED"
  PROVE  verdict'[k] = "GRANTED"
<1> USE DEF TypeOK, provider
<1>1. ASSUME NEW c \in calls, Deliver(c) PROVE verdict'[k] = "GRANTED"
  BY <1>1 DEF Deliver
<1>2. ASSUME NEW j \in Keys, Decide(j) PROVE verdict'[k] = "GRANTED"
  BY <1>2 DEF Decide
<1> QED BY <1>1, <1>2
        DEF Next, vars, Insert, Prepare, StoreKey, BeginExecute, Execute, Crash, LoseCall,
            ListRecovery, Lookup, ApplyOutcome, Abandon, SetPolicy, Tick

\* Answers stay what they say of a row that stays what it was.
LEMMA AnswerStep ==
  TypeOK /\ RowInv /\ KeyInv /\ PermitInv /\ CallInv /\ ExecutionInv /\ AnswerInv
    /\ [Next]_vars => AnswerInv'
<1> SUFFICES ASSUME TypeOK, RowInv, KeyInv, PermitInv, CallInv, ExecutionInv, AnswerInv,
                    [Next]_vars
             PROVE  AnswerInv'
  OBVIOUS
<1> USE DEF TypeOK, provider
<1> DEFINE Good(a) ==
      /\ a.req \in Requests /\ a.key \in Keys
      /\ ledger[a.req].key = a.key
      /\ a.req \in LegacyRequests \/ ledger[a.req].startedAt # Null
      /\ a.status = "GRANTED" => verdict'[a.key] = "GRANTED"
<1>a. \A r \in Requests :
        /\ ledger[r].startedAt # Null => ledger'[r].startedAt # Null
        /\ ledger[r].key # NoKey => ledger'[r].key = ledger[r].key
  BY StartedRowStays, RowStep DEF KeepsFacts
<1>b. \A k \in Keys : verdict[k] = "GRANTED" => verdict'[k] = "GRANTED"
  BY GrantStays
<1>c. ASSUME NEW a \in answers PROVE Good(a)
  BY <1>b DEF AnswerInv, Answers
<1>d. \A r \in Requests : ledger[r].status = "success" =>
        ledger[r].key \in Keys /\ verdict'[ledger[r].key] = "GRANTED"
  BY <1>b DEF AnswerInv, RowInv, RowOK, Rows
<1>e. ASSUME \A r \in Requests : ledger'[r].status = "success" => ledger[r].status = "success"
      PROVE  \A r \in Requests : ledger'[r].status = "success" =>
               verdict'[ledger'[r].key] = "GRANTED"
  BY <1>a, <1>d, <1>e, NoKeyAssumption
<1>f. ASSUME NEW a, Good(a)
      PROVE  /\ ledger'[a.req].key = a.key
             /\ a.req \in LegacyRequests \/ ledger'[a.req].startedAt # Null
             /\ a.status = "GRANTED" => verdict'[a.key] = "GRANTED"
  BY <1>a, <1>f, NoKeyAssumption
<1>g. ASSUME \A a \in answers' : Good(a),
             \A r \in worklist' : r \in Requests /\ ledger[r].startedAt # Null,
             \A r \in Requests : ledger'[r].status = "success" => ledger[r].status = "success"
      PROVE  AnswerInv'
  <2> HIDE DEF Good
  <2> QED BY <1>a, <1>e, <1>f, <1>g DEF AnswerInv
<1>h. \A r \in worklist : r \in Requests /\ ledger[r].startedAt # Null
  BY DEF AnswerInv
<1> HIDE DEF Good
<1>1. CASE UNCHANGED <<answers, worklist, ledger>>
  BY <1>1, <1>c, <1>g, <1>h
<1>2. ASSUME NEW r \in Requests, Insert(r) PROVE AnswerInv'
  <2>1. \A q \in Requests : ledger'[q].status = "success" => ledger[q].status = "success"
    BY <1>2 DEF Insert, NewRow, Absent
  <2> QED BY <1>2, <2>1, <1>c, <1>g, <1>h DEF Insert
<1>3. ASSUME NEW r \in Requests, NEW k \in Keys, StoreKey(r, k) PROVE AnswerInv'
  <2>1. \A q \in Requests : ledger'[q].status = ledger[q].status
    BY <1>3 DEF StoreKey, Rows
  <2> QED BY <1>3, <2>1, <1>c, <1>g, <1>h DEF StoreKey
<1>4. ASSUME NEW w \in Workers, NEW r \in Requests, BeginExecute(w, r) PROVE AnswerInv'
  <2>1. \A q \in Requests : ledger'[q].status = ledger[q].status
    BY <1>4 DEF BeginExecute, Rows
  <2> QED BY <1>4, <2>1, <1>c, <1>g, <1>h DEF BeginExecute
<1>5. ASSUME NEW w \in Workers, Execute(w) PROVE AnswerInv'
  <2> DEFINE a == [req |-> permit[w].req, key |-> permit[w].key,
                   status |-> NormalizeProviderStatus(FALSE, "NONE")]
  <2>1. /\ permit[w] \in Permits
        /\ ledger[permit[w].req].startedAt # Null
        /\ ledger[permit[w].req].key = permit[w].key
    BY <1>5 DEF Execute, PermitInv
  <2>2. NormalizeProviderStatus(FALSE, "NONE") # "GRANTED"
    BY NormalizedStatus
  <2>3. Good(a)
    BY <2>1, <2>2 DEF Permits, Good
  <2>4. answers' = answers \cup {a} /\ worklist' = worklist /\ ledger' = ledger
    BY <1>5 DEF Execute
  <2> QED BY <2>3, <2>4, <1>c, <1>g, <1>h
<1>6. ASSUME NEW c \in calls, Deliver(c) PROVE AnswerInv'
  <2>1. PICK v \in {"PENDING", "GRANTED", "FAILED"}, ok \in BOOLEAN,
              seen \in Observed \cup {"NONE"} :
          /\ seen \in {v, "NONE"}
          /\ verdict' = [verdict EXCEPT ![c.key] = IF @ = "NOT_FOUND" THEN v ELSE @]
          /\ answers' = answers \cup {[req |-> c.req, key |-> c.key,
                                       status |-> NormalizeProviderStatus(ok, seen)]}
    BY <1>6 DEF Deliver, Observed
  <2>2. /\ c.req \in Requests /\ c.key \in Keys
        /\ ledger[c.req].startedAt # Null /\ ledger[c.req].key = c.key
        /\ executed[c.req] = 0
    BY DEF CallInv, Calls
  <2>3. verdict[c.key] = "NOT_FOUND"
    <3>1. SUFFICES ASSUME verdict[c.key] # "NOT_FOUND" PROVE FALSE
      OBVIOUS
    <3>2. PICK r \in Requests : ledger[r].key = c.key /\ executed[r] = 1
      BY <2>2, <3>1 DEF ExecutionInv
    <3>3. r = c.req
      BY <2>2, <3>2, NoKeyAssumption DEF KeyInv
    <3> QED BY <2>2, <3>2, <3>3
  <2>4. verdict'[c.key] = v
    BY <2>1, <2>2, <2>3
  <2>5. NormalizeProviderStatus(ok, seen) = "GRANTED" => v = "GRANTED"
    BY <2>1, NormalizedStatus
  <2>6. Good([req |-> c.req, key |-> c.key, status |-> NormalizeProviderStatus(ok, seen)])
    BY <2>2, <2>4, <2>5 DEF Good
  <2> QED BY <1>6, <2>1, <2>6, <1>c, <1>g, <1>h DEF Deliver
<1>7. CASE ListRecovery
  <2>1. \A r \in worklist' : r \in Requests /\ ledger[r].startedAt # Null
    BY <1>7, <1>h, OldestSelects DEF ListRecovery, AwaitsRecovery
  <2> QED BY <1>7, <2>1, <1>c, <1>g DEF ListRecovery
<1>8. ASSUME NEW r \in Requests, Lookup(r) PROVE AnswerInv'
  <2>1. /\ ledger[r].key \in Keys
        /\ r \in LegacyRequests \/ ledger[r].startedAt # Null
    BY <1>8, <1>h DEF Lookup, RowInv, RowOK, Rows, Absent
  <2>2. PICK ok \in BOOLEAN, seen \in {verdict[ledger[r].key], "NONE"} :
          answers' = answers \cup {[req |-> r, key |-> ledger[r].key,
                                    status |-> NormalizeProviderStatus(ok, seen)]}
    BY <1>8 DEF Lookup
  <2>3. verdict[ledger[r].key] \in Observed
    BY <2>1
  <2>4. NormalizeProviderStatus(ok, seen) = "GRANTED" =>
          verdict[ledger[r].key] = "GRANTED"
    BY <2>3, NormalizedStatus
  <2>5. Good([req |-> r, key |-> ledger[r].key,
              status |-> NormalizeProviderStatus(ok, seen)])
    BY <2>1, <2>4, <1>b DEF Good
  <2> QED BY <1>8, <2>2, <2>5, <1>c, <1>g, <1>h DEF Lookup
<1>9. ASSUME NEW a \in answers, ApplyOutcome(a) PROVE AnswerInv'
  <2>1. \A r \in Requests : ledger'[r].status = "success" =>
          verdict'[ledger'[r].key] = "GRANTED"
    <3> SUFFICES ASSUME NEW r \in Requests, ledger'[r].status = "success"
                 PROVE  verdict'[ledger'[r].key] = "GRANTED"
      OBVIOUS
    <3>1. CASE r # a.req
      BY <1>9, <3>1, <1>d, OutcomeStep
    <3>2. CASE r = a.req
      BY <1>9, <3>2, <1>b, <1>d, OutcomeStep
    <3> QED BY <3>1, <3>2
  <2>2. answers' = answers /\ worklist' = worklist
    BY <1>9 DEF ApplyOutcome
  <2>3. \A b \in answers' : /\ ledger'[b.req].key = b.key
                            /\ b.req \in LegacyRequests \/ ledger'[b.req].startedAt # Null
                            /\ b.status = "GRANTED" => verdict'[b.key] = "GRANTED"
    BY <2>2, <1>c, <1>f
  <2>4. \A r \in worklist' : ledger'[r].startedAt # Null
    BY <2>2, <1>a, <1>h
  <2> QED BY <2>1, <2>3, <2>4 DEF AnswerInv
<1>10. CASE Abandon
  <2>1. \A r \in Requests : ledger'[r].status = "success" => ledger[r].status = "success"
    BY <1>10, AbandonStep
  <2> QED BY <1>10, <2>1, <1>c, <1>g, <1>h DEF Abandon
<1> QED BY <1>1, <1>2, <1>3, <1>4, <1>5, <1>6, <1>7, <1>8, <1>9, <1>10
        DEF Next, vars, Prepare, Crash, LoseCall, Decide, SetPolicy, Tick

-----------------------------------------------------------------------------
\* The invariant holds of every initial state, whatever the legacy rows are.
LEMMA InvInit == Init => Inv
<1> SUFFICES ASSUME Init PROVE Inv OBVIOUS
<1>1. PICK keyOf \in [LegacyRequests -> Keys \cup {NoKey}], ran \in SUBSET LegacyRequests :
        /\ \A q, r \in LegacyRequests : q # r => keyOf[q] # keyOf[r] \/ keyOf[q] = NoKey
        /\ ledger = [r \in Requests |->
                      IF r \in LegacyRequests THEN LegacyRow(keyOf[r]) ELSE Absent]
        /\ prepared = {<<r, keyOf[r]>> : r \in {q \in LegacyRequests : keyOf[q] # NoKey}}
        /\ executed = [r \in Requests |-> IF r \in ran THEN 1 ELSE 0]
        /\ verdict = [k \in Keys |->
                       IF \E r \in ran : keyOf[r] = k THEN "PENDING" ELSE "NOT_FOUND"]
  BY DEF Init
<1>2. TypeOK
  BY TypeInit
<1>3. /\ Absent.status = "absent" /\ Absent.key = NoKey /\ Absent.startedAt = Null
      /\ Absent.providerStatus = "NONE" /\ Absent.grantedAt = "null"
      /\ Absent.failedAt = "null"
  BY DEF Absent
<1>4. ASSUME NEW k \in Keys \cup {NoKey}
      PROVE  /\ LegacyRow(k).status = "pending" /\ LegacyRow(k).key = k
             /\ LegacyRow(k).protocol = "legacy" /\ LegacyRow(k).startedAt = Null
             /\ LegacyRow(k).providerStatus = "PENDING"
             /\ LegacyRow(k).grantedAt = "null" /\ LegacyRow(k).failedAt = "null"
  BY DEF LegacyRow, Absent
<1>5. \A r \in Requests : ledger[r] = IF r \in LegacyRequests THEN LegacyRow(keyOf[r]) ELSE Absent
  BY <1>1
<1>6. RowInv
  BY <1>3, <1>4, <1>5 DEF RowInv, RowOK
<1>7. KeyInv
  <2>1. \A q \in Requests : \A k : <<q, k>> \in prepared <=>
          q \in LegacyRequests /\ keyOf[q] # NoKey /\ k = keyOf[q]
    BY <1>1, LegacyAssumption
  <2>2. \A r \in Requests : ledger[r].key # NoKey =>
          r \in LegacyRequests /\ ledger[r].key = keyOf[r]
    BY <1>3, <1>4, <1>5
  <2> QED BY <1>1, <2>1, <2>2 DEF KeyInv
<1>8. PermitInv /\ CallInv
  BY DEF Init, PermitInv, CallInv
<1>9. ExecutionInv
  BY <1>1, <1>4, <1>5, LegacyAssumption DEF ExecutionInv
<1>10. AnswerInv
  BY <1>3, <1>4, <1>5 DEF Init, AnswerInv
<1> QED BY <1>2, <1>6, <1>7, <1>8, <1>9, <1>10 DEF Inv

\* Every step keeps the invariant.
LEMMA InvStep == Inv /\ [Next]_vars => Inv'
BY TypeStep, RowStep, KeyStep, PermitStep, ExecutionStep, AnswerStep DEF Inv

\* Every reachable state satisfies the inductive invariant.
THEOREM Invariance == Spec => []Inv
BY InvInit, InvStep, PTL DEF Spec

\* Every helper leaves a well-formed ledger and well-formed messages behind.
THEOREM TypeCorrect == Spec => []TypeOK
<1>1. Inv => TypeOK
  BY DEF Inv
<1> QED BY <1>1, Invariance, PTL

\* However claims, crashes, retries and late calls interleave, the provider
\* receives at most one execute call for a request.
THEOREM ExecutesAtMostOnce == Spec => []AtMostOneExecution
<1>1. Inv => AtMostOneExecution
  BY DEF Inv, ExecutionInv, AtMostOneExecution
<1> QED BY <1>1, Invariance, PTL

\* Every call that is under way or was received carries the key its row holds.
THEOREM KeepsHandle == Spec => []HandleIsStored
<1>1. ASSUME Inv PROVE HandleIsStored
  <2> SUFFICES ASSUME NEW r \in Requests, ledger[r].protocol = "three-step"
               PROVE  /\ \A c \in calls : c.req = r => c.key = ledger[r].key
                      /\ \A w \in Workers : permit[w].req = r => permit[w].key = ledger[r].key
                      /\ executed[r] > 0 => ledger[r].key \in Keys
                                            /\ verdict[ledger[r].key] # "NOT_FOUND"
    BY DEF HandleIsStored
  <2> USE <1>1 DEF Inv
  <2>1. \A w \in Workers : permit[w].req = r => permit[w].key = ledger[r].key
    BY RequestsAssumption DEF PermitInv, NoPermit
  <2>2. r \notin LegacyRequests
    BY DEF RowInv, RowOK, Absent
  <2>3. executed[r] > 0 => executed[r] = 1
    BY DEF ExecutionInv
  <2>4. executed[r] = 1 => ledger[r].key \in Keys /\ verdict[ledger[r].key] # "NOT_FOUND"
    BY <2>2 DEF ExecutionInv, RowInv, RowOK, TypeOK, Rows
  <2> QED BY <2>1, <2>3, <2>4 DEF CallInv
<1> QED BY <1>1, Invariance, PTL

\* An intent the abandon sweep gave up was not executed and never will be.
THEOREM AbandonIsFinal == Spec => []AbandonedNeverRuns
<1>1. ASSUME Inv PROVE AbandonedNeverRuns
  <2> SUFFICES ASSUME NEW r \in Requests, ledger[r].providerStatus = "NOT_EXECUTED"
               PROVE  /\ ledger[r].status = "failed" /\ executed[r] = 0
                      /\ \A c \in calls : c.req # r
                      /\ \A w \in Workers : permit[w].req # r
    BY DEF AbandonedNeverRuns
  <2> USE <1>1 DEF Inv
  <2>1. ledger[r].status = "failed" /\ ledger[r].startedAt = Null /\ r \notin LegacyRequests
    BY DEF RowInv, RowOK
  <2>2. executed[r] = 0
    BY <2>1 DEF ExecutionInv
  <2>3. \A w \in Workers : permit[w].req # r
    BY <2>1, RequestsAssumption DEF PermitInv, NoPermit
  <2> QED BY <2>1, <2>2, <2>3 DEF CallInv
<1> QED BY <1>1, Invariance, PTL

\* Success in a row of an invariant state is the provider's word.
LEMMA SuccessWasRun == Inv => SuccessIsGranted
<1> SUFFICES ASSUME Inv, NEW r \in Requests, ledger[r].status = "success"
             PROVE  executed[r] = 1 /\ ledger[r].key \in Keys
                    /\ verdict[ledger[r].key] = "GRANTED"
  BY DEF SuccessIsGranted
<1> USE DEF Inv
<1>1. ledger[r].key \in Keys /\ verdict[ledger[r].key] = "GRANTED"
  BY DEF RowInv, RowOK, AnswerInv, TypeOK, Rows
<1>2. PICK q \in Requests : ledger[q].key = ledger[r].key /\ executed[q] = 1
  BY <1>1 DEF ExecutionInv
<1>3. q = r
  BY <1>1, <1>2, NoKeyAssumption DEF KeyInv
<1> QED BY <1>1, <1>2, <1>3

\* The ledger calls successful only what the provider executed and granted.
THEOREM SuccessIsReal == Spec => []SuccessIsGranted
BY SuccessWasRun, Invariance, PTL

\* No order of outcomes leaves a timestamp on a row of another status.
THEOREM StampsAreHonest == Spec => []StampsMatchStatus
<1>1. Inv => StampsMatchStatus
  BY DEF Inv, RowInv, RowOK, StampsMatchStatus
<1> QED BY <1>1, Invariance, PTL

\* No step of any helper takes back what a row has recorded.
THEOREM WriteOnce == Spec => FactsAreWriteOnce
<1>1. Inv /\ [Next]_vars => \A r \in Requests : KeepsFacts(r)
  BY RowStep DEF Inv
<1> QED BY <1>1, Invariance, PTL DEF Spec, FactsAreWriteOnce

-----------------------------------------------------------------------------
\* The refinement mapping, row by row.
Recorded(row) == IF row.status = "absent" THEN "none" ELSE row.status

\* Initially legacy rows are committed and nothing else has been asked for.
LEMMA ContractInit == Init => Contract!Init
<1> SUFFICES ASSUME Init PROVE Contract!Init OBVIOUS
<1>1. PICK keyOf \in [LegacyRequests -> Keys \cup {NoKey}], ran \in SUBSET LegacyRequests :
        /\ ledger = [r \in Requests |->
                      IF r \in LegacyRequests THEN LegacyRow(keyOf[r]) ELSE Absent]
        /\ executed = [r \in Requests |-> IF r \in ran THEN 1 ELSE 0]
  BY DEF Init
<1>2. ASSUME NEW r \in Requests
      PROVE  /\ Phase(ledger[r]) = IF r \in LegacyRequests THEN "committed" ELSE "none"
             /\ Recorded(ledger[r]) = IF r \in LegacyRequests THEN "pending" ELSE "none"
  <2>1. CASE r \in LegacyRequests
    <3>1. ledger[r].status = "pending" /\ ledger[r].protocol = "legacy"
      BY <1>1, <2>1 DEF LegacyRow, Absent
    <3> QED BY <2>1, <3>1 DEF Phase, Recorded
  <2>2. CASE r \notin LegacyRequests
    <3>1. /\ ledger[r].status = "absent" /\ ledger[r].protocol = "none"
          /\ ledger[r].startedAt = Null
      BY <1>1, <2>2 DEF Absent
    <3> QED BY <2>2, <3>1 DEF Phase, Recorded
  <2> QED BY <2>1, <2>2
<1>3. executed \in [Requests -> 0..1] /\ \A r \in Requests \ LegacyRequests : executed[r] = 0
  BY <1>1
<1> QED BY <1>2, <1>3 DEF Contract!Init, Recorded

\* Every step is a step of the contract or leaves what it can see alone.
LEMMA ContractStep == Inv /\ Inv' /\ [Next]_vars => [Contract!Next]_(Contract!vars)
<1> SUFFICES ASSUME Inv, Inv', [Next]_vars PROVE [Contract!Next]_(Contract!vars) OBVIOUS
<1> USE DEF provider
<1> DEFINE Ph(r) == Phase(ledger[r])
           Rc(r) == Recorded(ledger[r])
<1>a. TypeOK /\ RowInv /\ KeyInv /\ CallInv /\ ExecutionInv /\ AnswerInv
  BY DEF Inv
<1>b. \A r \in Requests : ledger[r] \in Rows /\ ledger'[r] \in Rows
  BY DEF Inv, TypeOK
<1>c. ASSUME NEW r \in Requests, ledger'[r].status = ledger[r].status,
             ledger'[r].protocol = ledger[r].protocol,
             ledger'[r].startedAt = ledger[r].startedAt
      PROVE  Ph(r)' = Ph(r) /\ Rc(r)' = Rc(r)
  BY <1>c DEF Phase, Recorded
<1>d. ASSUME \A r \in Requests : Ph(r)' = Ph(r) /\ Rc(r)' = Rc(r), executed' = executed
      PROVE  [Contract!Next]_(Contract!vars)
  BY <1>d DEF Contract!vars, Recorded
<1>e. ASSUME NEW r \in Requests, \A q \in Requests \ {r} : ledger'[q] = ledger[q]
      PROVE  \A q \in Requests \ {r} : Ph(q)' = Ph(q) /\ Rc(q)' = Rc(q)
  BY <1>e
<1>1. ASSUME NEW r \in Requests, Insert(r) PROVE Contract!Open(r)
  <2>1. /\ ledger[r].status = "absent" /\ executed' = executed
        /\ ledger'[r] = NewRow
        /\ \A q \in Requests \ {r} : ledger'[q] = ledger[q]
    BY <1>1, <1>a DEF Insert, TypeOK
  <2>2. /\ ledger'[r].status = "pending" /\ ledger'[r].protocol = "three-step"
        /\ ledger'[r].startedAt = Null
    BY <2>1 DEF NewRow, Absent
  <2>3. ledger[r].protocol = "none" /\ ledger[r].startedAt = Null
    BY <2>1, <1>a DEF RowInv, RowOK, Absent
  <2>4. Ph(r) = "none" /\ Ph(r)' = "open" /\ Rc(r)' = "pending"
    BY <2>1, <2>2, <2>3 DEF Phase, Recorded
  <2> QED BY <2>1, <2>4, <1>e DEF Contract!Open, Recorded
<1>2. ASSUME NEW r \in Requests, NEW k \in Keys, StoreKey(r, k)
      PROVE  [Contract!Next]_(Contract!vars)
  <2>1. executed' = executed /\ \A q \in Requests :
          /\ ledger'[q].status = ledger[q].status
          /\ ledger'[q].protocol = ledger[q].protocol
          /\ ledger'[q].startedAt = ledger[q].startedAt
    BY <1>2, <1>a, <1>b DEF StoreKey, TypeOK, Rows
  <2> QED BY <2>1, <1>c, <1>d
<1>3. ASSUME NEW w \in Workers, NEW r \in Requests, BeginExecute(w, r)
      PROVE  Contract!Commit({r})
  <2>1. /\ Unclaimed(ledger[r]) /\ executed' = executed
        /\ ledger'[r] = [ledger[r] EXCEPT !.startedAt = now, !.updatedAt = now]
        /\ \A q \in Requests \ {r} : ledger'[q] = ledger[q]
        /\ now \in Times
    BY <1>3, <1>a DEF BeginExecute, Claimable, TypeOK
  <2>2. /\ ledger'[r].status = ledger[r].status
        /\ ledger'[r].protocol = ledger[r].protocol
        /\ ledger'[r].startedAt # Null
    BY <2>1, <1>b DEF Rows, Times, Null
  <2>3. Ph(r) = "open" /\ Ph(r)' = "committed" /\ Rc(r)' = Rc(r)
    BY <2>1, <2>2 DEF Phase, Recorded, Unclaimed
  <2> QED BY <2>1, <2>3, <1>e DEF Contract!Commit, Recorded
<1>4. ASSUME NEW c \in calls, Deliver(c) PROVE Contract!Run(c.req)
  <2>1. c.req \in Requests /\ ledger[c.req].startedAt # Null /\ executed[c.req] = 0
    BY <1>4, <1>a DEF CallInv, TypeOK, Calls
  <2>3. ledger' = ledger /\ executed' = [executed EXCEPT ![c.req] = 1]
    BY <1>4, <2>1 DEF Deliver
  <2>2. Ph(c.req) = "committed"
    BY <2>1, <1>a DEF Phase, RowInv, RowOK, Absent
  <2> QED BY <2>1, <2>2, <2>3 DEF Contract!Run, Recorded
<1>5. ASSUME NEW a \in answers, ApplyOutcome(a)
      PROVE  \E S \in SUBSET Requests, s \in {"pending", "success", "failed"} : Contract!Learn(S, s)
  <2>1. PICK r \in Requests : r = a.req
    BY <1>5, <1>a, OutcomeStep
  <2>2. /\ \A q \in Requests \ {r} : ledger'[q] = ledger[q]
        /\ r \in LegacyRequests \/ ledger[r].startedAt # Null
        /\ ledger[r].status # "absent" /\ ledger'[r].status # "absent"
        /\ ledger'[r].protocol = ledger[r].protocol
        /\ ledger'[r].startedAt = ledger[r].startedAt
        /\ ledger[r].status = "success" => ledger'[r].status = "success"
        /\ ledger[r].status = "failed" => ledger'[r].status \in {"failed", "success"}
    BY <1>5, <1>a, <2>1, OutcomeStep
  <2>3. PICK s \in {"pending", "success", "failed"} : s = ledger'[r].status
    BY <1>b, <2>2 DEF Rows
  <2>4. executed' = executed
    BY <1>5 DEF ApplyOutcome
  <2>5. s = "success" => executed[r] = 1
    <3>1. SuccessIsGranted'
      BY SuccessWasRun, PTL
    <3> QED BY <2>3, <2>4, <3>1 DEF SuccessIsGranted
  <2>6. Ph(r) = "committed" /\ Ph(r)' = "committed"
    BY <2>2, <1>a DEF Phase, RowInv, RowOK
  <2>7. Rc(r) = ledger[r].status /\ Rc(r)' = s
    BY <2>2, <2>3 DEF Recorded
  <2>8. /\ \A q \in Requests \ {r} : Ph(q)' = Ph(q) /\ Rc(q)' = Rc(q)
        /\ ledger[r].status = "success" => s = "success"
        /\ ledger[r].status = "failed" => s # "pending"
    BY <2>2, <2>3, <1>e
  <2>9. Contract!Learn({r}, s)
    BY <2>4, <2>5, <2>6, <2>7, <2>8 DEF Contract!Learn, Recorded
  <2> QED BY <2>9
<1>6. ASSUME Abandon PROVE \E S \in SUBSET Requests : Contract!Drop(S)
  <2>1. PICK S \in SUBSET Requests : S = {r \in Requests : ledger'[r] # ledger[r]}
    OBVIOUS
  <2>2. executed' = executed
    BY <1>6 DEF Abandon
  <2>3. ASSUME NEW r \in S
        PROVE  Ph(r) = "open" /\ Ph(r)' = "dropped" /\ Rc(r)' = "failed"
    BY <1>6, <1>a, <2>1, AbandonStep DEF Phase, Recorded, Unclaimed
  <2>4. \A r \in Requests \ S : Ph(r)' = Ph(r) /\ Rc(r)' = Rc(r)
    BY <2>1
  <2>5. Contract!Drop(S)
    BY <2>2, <2>3, <2>4 DEF Contract!Drop, Recorded
  <2> QED BY <2>5
<1>7. CASE UNCHANGED <<ledger, executed>>
  BY <1>7, <1>d
<1> QED BY <1>1, <1>2, <1>3, <1>4, <1>5, <1>6, <1>7, <1>a
        DEF Next, Contract!Next, vars, TypeOK, Calls, Prepare, Execute, Crash, LoseCall,
            Decide, ListRecovery, Lookup, SetPolicy, Tick

\* The ledger keeps the reward contract: at most one run, only of a committed
\* intent, and a record that says success only of a run.
THEOREM KeepsContract == Spec => ImplementsContract
<1>1. Init => Contract!Init
  BY ContractInit
<1>2. Inv /\ Inv' /\ [Next]_vars => [Contract!Next]_(Contract!vars)
  BY ContractStep
<1> QED BY <1>1, <1>2, Invariance, PTL DEF Spec, Contract!Spec, ImplementsContract
=============================================================================
