------------------------ MODULE MessageOutboxProofs ------------------------
(***************************************************************************)
(* Proofs about MessageOutbox, for any messages, leases, clock lag, batch  *)
(* size, policy and bounds.                                                *)
(***************************************************************************)
EXTENDS MessageOutbox, TLAPS

\* What a row says when the status of its current attempt is cur.
Agree(row, cur) ==
  /\ row.status = "absent" => row.attempts = 0
  /\ row.status \in {"LOCKED", "SENT", "FAILED"} => row.attempts # 0
  /\ row.status = "READY" => row.attempts = 0 \/ cur = "EXPIRED"
  /\ row.status = "LOCKED" => cur \in {"none", "CLAIMED", "DISPATCHING"}
  /\ row.status = "SENT" => cur \in {"none", "SENT"}
  /\ row.status = "FAILED" =>
       \/ cur = "none"
       \/ cur = "FAILED" /\ row.providerStatus \in {"FAILED", "OTHER"}
       \/ cur = "UNKNOWN" /\ row.providerStatus = "UNKNOWN"
  /\ row.status = "SKIPPED" => row.attempts = 0 \/ cur \in {"none", "SKIPPED", "EXPIRED"}
  /\ row.status \in {"absent", "READY", "LOCKED"} =>
       row.failedAt = "null" /\ row.providerStatus = "NULL"
  /\ row.status = "SENT" => row.failedAt = "null"
  /\ row.providerStatus \in {"UNKNOWN", "OTHER"} => row.failedAt = "null"

\* The claims before the current one have expired, those after it do not
\* exist, and the current one agrees with the row.
LogOK(m) ==
  /\ Agree(outbox[m], Current(m).status)
  /\ \A n \in Numbers : /\ n > outbox[m].attempts => attempt[m][n].status = "none"
                        /\ n < outbox[m].attempts => attempt[m][n].status = "EXPIRED"

LogInv == \A m \in Messages : LogOK(m)

\* The message has been, is being or may be sent by its current claim.
Out(m) ==
  \/ outbox[m].status = "LOCKED" /\ Current(m).status # "CLAIMED"
  \/ outbox[m].status \in {"SENT", "FAILED"}
  \/ outbox[m].status = "SKIPPED" /\ outbox[m].attempts # 0 /\ Current(m).status = "none"

\* The right to send is in one place: a permit, a call, or spent; it belongs
\* to the current claim, and SENT is said only of what was delivered, or of what
\* was assumed to be for a bare ok:true.
RightOK(m) ==
  /\ \A n \in Numbers : <<m, n>> \in permits =>
       n = outbox[m].attempts /\ Out(m) /\ <<m, n>> \notin calls /\ sends[m] = 0
  /\ \A n \in Numbers : <<m, n>> \in calls =>
       n = outbox[m].attempts /\ Out(m) /\ sends[m] = 0
  /\ \A a \in responses : a.msg = m =>
       /\ a.num = outbox[m].attempts /\ Out(m)
       /\ a.status = "SENT" => sends[m] = 1 /\ (fate[m] = "delivered" \/ Assumed(m))
  /\ sends[m] \in {0, 1}
  /\ sends[m] = 1 => Out(m)
  /\ outbox[m].status = "SENT" => sends[m] = 1 /\ (fate[m] = "delivered" \/ Assumed(m))

RightInv == \A m \in Messages : RightOK(m)

Inv == TypeOK /\ LogInv /\ RightInv

-----------------------------------------------------------------------------
\* Every response has a status of the outcome taxonomy, and SENT is read only
\* out of an envelope that says so.
LEMMA ParsedStatus ==
  ASSUME NEW ok \in {"true", "false", "absent"},
         NEW status \in {"SENT", "FAILED", "UNKNOWN", "OTHER", "absent"}
  PROVE  /\ ParseResponse(ok, status) \in {"SENT", "FAILED", "UNKNOWN", "OTHER"}
         /\ ParseResponse(ok, status) = "SENT" =>
              ok # "false" /\ (status = "SENT" \/ (ok = "true" /\ status = "absent"))
<1>1. CASE status = "absent"
  <2>1. CASE ok = "true"
    BY <1>1, <2>1 DEF ParseResponse
  <2>2. CASE ok = "false"
    BY <1>1, <2>2 DEF ParseResponse
  <2>3. CASE ok = "absent"
    BY <1>1, <2>3 DEF ParseResponse
  <2> QED BY <2>1, <2>2, <2>3
<1>2. CASE status # "absent"
  BY <1>2 DEF ParseResponse
<1> QED BY <1>1, <1>2

LEMMA ClockInTimes == now \in Times => Clock \subseteq Times
BY DEF Clock

LEMMA CurrentTyped ==
  TypeOK => \A m \in Messages : Current(m) \in AttemptRows
<1> SUFFICES ASSUME TypeOK, NEW m \in Messages PROVE Current(m) \in AttemptRows
  OBVIOUS
<1>1. NoAttempt \in AttemptRows
  BY DEF NoAttempt, AttemptRows
<1>2. outbox[m].attempts \in 0..MaxAttempts
  BY DEF TypeOK, Rows
<1>3. outbox[m].attempts # 0 => outbox[m].attempts \in Numbers
  BY <1>2, ClockAssumption DEF Numbers
<1> QED BY <1>1, <1>3 DEF Current, TypeOK

\* An attempt row that takes a status of its kind is still one.
LEMMA AttemptWritten ==
  ASSUME TypeOK, NEW m \in Messages, NEW n \in Numbers,
         NEW s \in {"DISPATCHING", "SENT", "FAILED", "SKIPPED", "UNKNOWN"},
         attempt' = [attempt EXCEPT ![m][n].status = s]
  PROVE  /\ attempt' \in [Messages -> [Numbers -> AttemptRows]]
         /\ attempt'[m][n].status = s
         /\ \A k \in Numbers \ {n} : attempt'[m][k] = attempt[m][k]
         /\ \A q \in Messages \ {m} : attempt'[q] = attempt[q]
<1> DEFINE new == [attempt[m][n] EXCEPT !.status = s]
<1>1. attempt[m][n] \in AttemptRows
  BY DEF TypeOK
<1>2. new \in AttemptRows /\ new.status = s
  BY <1>1 DEF AttemptRows
<1>3. attempt' = [attempt EXCEPT ![m] = [attempt[m] EXCEPT ![n] = new]]
  OBVIOUS
<1> HIDE DEF new
<1>4. [attempt[m] EXCEPT ![n] = new] \in [Numbers -> AttemptRows]
  BY <1>2 DEF TypeOK
<1>5. attempt' \in [Messages -> [Numbers -> AttemptRows]]
  BY <1>3, <1>4 DEF TypeOK
<1>6. attempt'[m] = [attempt[m] EXCEPT ![n] = new]
      /\ \A q \in Messages \ {m} : attempt'[q] = attempt[q]
  BY <1>3 DEF TypeOK
<1>7. attempt'[m][n] = new /\ \A k \in Numbers \ {n} : attempt'[m][k] = attempt[m][k]
  BY <1>6 DEF TypeOK
<1> QED BY <1>2, <1>5, <1>6, <1>7

\* What a response writes into the log.
LEMMA ResponseWritten ==
  ASSUME TypeOK, NEW a \in responses, CompleteAttempt(a)
  PROVE  /\ a.msg \in Messages /\ a.num \in Numbers
         /\ a.status \in {"SENT", "FAILED", "UNKNOWN", "OTHER"}
         /\ attempt' \in [Messages -> [Numbers -> AttemptRows]]
         /\ attempt'[a.msg][a.num].status = AttemptStatus(a.status)
         /\ \A k \in Numbers \ {a.num} : attempt'[a.msg][k] = attempt[a.msg][k]
         /\ \A p \in Messages \ {a.msg} : attempt'[p] = attempt[p]
<1>1. /\ a.msg \in Messages /\ a.num \in Numbers
      /\ a.status \in {"SENT", "FAILED", "UNKNOWN", "OTHER"}
      /\ AttemptStatus(a.status) \in {"SENT", "FAILED", "UNKNOWN"}
  BY DEF TypeOK, Responses, AttemptStatus
<1>2. PICK s \in {"DISPATCHING", "SENT", "FAILED", "SKIPPED", "UNKNOWN"} :
        s = AttemptStatus(a.status)
  BY <1>1
<1>3. PICK q \in Messages : q = a.msg
  BY <1>1
<1>4. PICK n \in Numbers : n = a.num
  BY <1>1
<1>5. attempt' = [attempt EXCEPT ![a.msg][a.num].status = AttemptStatus(a.status)]
  BY DEF CompleteAttempt
<1>6. attempt' = [attempt EXCEPT ![q][n].status = s]
  BY <1>2, <1>3, <1>4, <1>5
<1>7. /\ attempt' \in [Messages -> [Numbers -> AttemptRows]]
      /\ attempt'[q][n].status = s
      /\ \A k \in Numbers \ {n} : attempt'[q][k] = attempt[q][k]
      /\ \A p \in Messages \ {q} : attempt'[p] = attempt[p]
  BY <1>6, AttemptWritten
<1> QED BY <1>1, <1>2, <1>3, <1>4, <1>7

\* Closing a row keeps it a row.
LEMMA ClosedRows ==
  ASSUME NEW row \in Rows
  PROVE  /\ Skipped(row) \in Rows
         /\ \A s \in {"SENT", "FAILED", "UNKNOWN", "OTHER"} : Completed(row, s) \in Rows
         /\ \A s : Recovered(row, s) \in Rows
<1>1. Skipped(row) \in Rows
  BY DEF Skipped, Rows
<1>2. ASSUME NEW s \in {"SENT", "FAILED", "UNKNOWN", "OTHER"}
      PROVE  Completed(row, s) \in Rows
  BY DEF Completed, Rows
<1>3. ASSUME NEW s PROVE Recovered(row, s) \in Rows
  BY DEF Recovered, Rows
<1> QED BY <1>1, <1>2, <1>3

LEMMA TypeInit == Init => TypeOK
<1> SUFFICES ASSUME Init PROVE TypeOK OBVIOUS
<1>1. 0 \in Times /\ 1 \in Numbers /\ 0 \in 0..MaxAttempts /\ 1 \in 0..MaxAttempts
  BY ClockAssumption DEF Times, Numbers
<1>2. Absent \in Rows
  BY <1>1 DEF Absent, Rows
<1>3. LegacyRow \in Rows
  BY <1>1 DEF LegacyRow, Absent, Rows
<1>4. NoAttempt \in AttemptRows
  BY DEF NoAttempt, AttemptRows
<1>5. permits \subseteq Claims /\ sends \in [Messages -> Nat]
      /\ fate \in [Messages -> {"unseen", "delivered", "rejected"}]
  BY <1>1, MessagesAssumption DEF Init, Claims
<1> QED BY <1>1, <1>2, <1>3, <1>4, <1>5 DEF Init, TypeOK

\* Every step keeps the types.
LEMMA TypeStep == TypeOK /\ [Next]_vars => TypeOK'
<1> SUFFICES ASSUME TypeOK, [Next]_vars PROVE TypeOK' OBVIOUS
<1> USE DEF TypeOK, provider
<1>c. Clock \subseteq Times
  BY ClockInTimes
<1>1. ASSUME NEW m \in Messages, Enqueue(m) PROVE TypeOK'
  <2>1. PICK t \in Clock, d \in Delays :
          outbox' = [outbox EXCEPT ![m] = [Absent EXCEPT
                       !.status = "READY", !.notBefore = t + d, !.createdAt = t]]
    BY <1>1 DEF Enqueue
  <2>2. t \in Times /\ t + d \in Nat /\ 0 \in 0..MaxAttempts
    BY <1>c, ClockAssumption DEF Times
  <2>3. [Absent EXCEPT !.status = "READY", !.notBefore = t + d, !.createdAt = t] \in Rows
    BY <2>2 DEF Absent, Rows
  <2> QED BY <1>1, <2>1, <2>3 DEF Enqueue
<1>2. ASSUME NEW m \in Messages, SkipWaiting(m) PROVE TypeOK'
  BY <1>2, ClosedRows DEF SkipWaiting
<1>3. ASSUME NEW m \in Messages, NEW n \in Numbers, BeginDispatch(m, n) PROVE TypeOK'
  <2>1. attempt' \in [Messages -> [Numbers -> AttemptRows]]
    BY <1>3, AttemptWritten DEF BeginDispatch
  <2> QED BY <1>3, <2>1 DEF BeginDispatch, Claims
<1>4. ASSUME NEW m \in Messages, NEW n \in Numbers, SkipAttempt(m, n) PROVE TypeOK'
  <2>1. attempt' \in [Messages -> [Numbers -> AttemptRows]]
    BY <1>4, AttemptWritten DEF SkipAttempt
  <2> QED BY <1>4, <2>1, ClosedRows DEF SkipAttempt
<1>5. ASSUME NEW m \in Messages, NEW n \in Numbers, FailReady(m, n) PROVE TypeOK'
  <2>1. [outbox[m] EXCEPT !.status = "FAILED", !.providerStatus = "FAILED",
                          !.failedAt = "set", !.lockedAt = Null] \in Rows
    BY DEF Rows
  <2>2. outbox' = [outbox EXCEPT ![m] =
          [outbox[m] EXCEPT !.status = "FAILED", !.providerStatus = "FAILED",
                            !.failedAt = "set", !.lockedAt = Null]]
    BY <1>5 DEF FailReady
  <2> QED BY <1>5, <2>1, <2>2 DEF FailReady
<1>6. ASSUME NEW m \in Messages, NEW n \in Numbers, SkipReady(m, n) PROVE TypeOK'
  BY <1>6, ClosedRows DEF SkipReady
<1>7. ASSUME NEW p \in permits, Send(p) PROVE TypeOK'
  <2>1. p[1] \in Messages /\ p[2] \in Numbers
    BY DEF Claims
  <2>2. ParseResponse("false", "absent") \in {"SENT", "FAILED", "UNKNOWN", "OTHER"}
    BY ParsedStatus
  <2>3. Response(p, "false", "absent") \in Responses
    BY <2>1, <2>2 DEF Responses, Response
  <2> QED BY <1>7, <2>3 DEF Send
<1>8. ASSUME NEW c \in calls, Deliver(c) PROVE TypeOK'
  <2>1. c[1] \in Messages /\ c[2] \in Numbers
    BY DEF Claims
  <2>2. PICK f \in {"delivered", "rejected"}, ok \in {"true", "false", "absent"},
              status \in {"SENT", "FAILED", "UNKNOWN", "OTHER", "absent"} :
          /\ fate' = [fate EXCEPT ![c[1]] = f]
          /\ responses' = responses \cup {Response(c, ok, status)}
    BY <1>8 DEF Deliver
  <2>3. Response(c, ok, status) \in Responses
    BY <2>1, ParsedStatus DEF Responses, Response
  <2>4. sends' \in [Messages -> Nat]
    BY <1>8, <2>1 DEF Deliver
  <2> QED BY <1>8, <2>1, <2>2, <2>3, <2>4 DEF Deliver
<1>9. ASSUME NEW c \in calls, LoseCall(c) PROVE TypeOK'
  BY <1>9 DEF LoseCall
<1>10. ASSUME NEW a \in responses, CompleteAttempt(a) PROVE TypeOK'
  <2>1. a.msg \in Messages /\ a.num \in Numbers
        /\ a.status \in {"SENT", "FAILED", "UNKNOWN", "OTHER"}
    BY DEF Responses
  <2>3. attempt' \in [Messages -> [Numbers -> AttemptRows]]
    BY <1>10, ResponseWritten
  <2>4. outbox' \in [Messages -> Rows]
    BY <1>10, <2>1, ClosedRows DEF CompleteAttempt
  <2> QED BY <1>10, <2>3, <2>4 DEF CompleteAttempt
<1>11. ASSUME NEW a \in responses, CompleteReady(a) PROVE TypeOK'
  <2>1. a.msg \in Messages /\ a.status \in {"SENT", "FAILED", "UNKNOWN", "OTHER"}
    BY DEF Responses
  <2> QED BY <1>11, <2>1, ClosedRows DEF CompleteReady
<1>l. ASSUME NEW S \in SUBSET Messages, NEW t \in Clock,
             \A m \in S : outbox[m].attempts < MaxAttempts
      PROVE  /\ Locked(S, t) \in [Messages -> Rows]
             /\ \A m \in S : outbox[m].attempts + 1 \in Numbers
  <2>1. t \in Times
    BY <1>c
  <2>2. ASSUME NEW m \in S
        PROVE  /\ [outbox[m] EXCEPT !.status = "LOCKED", !.attempts = @ + 1,
                                    !.lockedAt = t] \in Rows
               /\ outbox[m].attempts + 1 \in Numbers
    <3>1. outbox[m] \in Rows /\ outbox[m].attempts \in 0..MaxAttempts
      BY DEF Rows
    <3>2. outbox[m].attempts + 1 \in 1..MaxAttempts /\ outbox[m].attempts + 1 \in 0..MaxAttempts
      BY <1>l, <3>1, ClockAssumption
    <3> QED BY <2>1, <3>1, <3>2 DEF Rows, Numbers
  <2> QED BY <2>2 DEF Locked
<1>12. CASE ClaimWithLease
  <2>1. PICK t \in Clock : \E S \in Batches(t) :
          /\ t + Lease <= MaxTime
          /\ \A m \in S : outbox[m].attempts < MaxAttempts
          /\ outbox' = Locked(S, t)
          /\ attempt' = [m \in Messages |->
               IF m \in S
               THEN [attempt[m] EXCEPT ![outbox[m].attempts + 1] =
                       [status |-> "CLAIMED", expires |-> t + Lease]]
               ELSE attempt[m]]
    BY <1>12 DEF ClaimWithLease
  <2>2. PICK S \in SUBSET Messages :
          /\ t + Lease <= MaxTime
          /\ \A m \in S : outbox[m].attempts < MaxAttempts
          /\ outbox' = Locked(S, t)
          /\ attempt' = [m \in Messages |->
               IF m \in S
               THEN [attempt[m] EXCEPT ![outbox[m].attempts + 1] =
                       [status |-> "CLAIMED", expires |-> t + Lease]]
               ELSE attempt[m]]
    BY <2>1 DEF Batches, Due
  <2>3. t + Lease \in Times
    BY <1>c, <2>2, ClockAssumption DEF Times
  <2>4. [status |-> "CLAIMED", expires |-> t + Lease] \in AttemptRows
    BY <2>3 DEF AttemptRows
  <2>5. ASSUME NEW m \in S
        PROVE  [attempt[m] EXCEPT ![outbox[m].attempts + 1] =
                  [status |-> "CLAIMED", expires |-> t + Lease]] \in [Numbers -> AttemptRows]
    BY <2>4
  <2>6. attempt' \in [Messages -> [Numbers -> AttemptRows]]
    BY <2>2, <2>5
  <2> QED BY <1>12, <1>l, <2>2, <2>6 DEF ClaimWithLease
<1>13. CASE ClaimReady
  <2>1. PICK t \in Clock : \E S \in Batches(t) :
          /\ \A m \in S : outbox[m].attempts < MaxAttempts
          /\ outbox' = Locked(S, t)
          /\ permits' = permits \cup {<<m, outbox[m].attempts + 1>> : m \in S}
    BY <1>13 DEF ClaimReady
  <2>2. PICK S \in SUBSET Messages :
          /\ \A m \in S : outbox[m].attempts < MaxAttempts
          /\ outbox' = Locked(S, t)
          /\ permits' = permits \cup {<<m, outbox[m].attempts + 1>> : m \in S}
    BY <2>1 DEF Batches, Due
  <2>4. \A m \in S : <<m, outbox[m].attempts + 1>> \in Claims
    BY <1>l, <2>2 DEF Claims
  <2>3. permits' \subseteq Claims
    BY <2>2, <2>4
  <2> QED BY <1>13, <1>l, <2>2, <2>3 DEF ClaimReady
<1>14. CASE RecoverExpired
  <2>1. PICK t \in Clock :
          /\ outbox' = [m \in Messages |->
               IF outbox[m].status = "LOCKED" /\ Expired(Current(m), t)
               THEN Recovered(outbox[m], Current(m).status) ELSE outbox[m]]
          /\ attempt' = [m \in Messages |-> [n \in Numbers |->
               IF Expired(attempt[m][n], t)
               THEN [attempt[m][n] EXCEPT !.status = IF @ = "CLAIMED" THEN "EXPIRED" ELSE "UNKNOWN"]
               ELSE attempt[m][n]]]
    BY <1>14 DEF RecoverExpired
  <2>2. ASSUME NEW a \in AttemptRows
        PROVE  [a EXCEPT !.status = IF @ = "CLAIMED" THEN "EXPIRED" ELSE "UNKNOWN"] \in AttemptRows
    BY DEF AttemptRows
  <2>3. ASSUME NEW m \in Messages, NEW n \in Numbers
        PROVE  attempt'[m][n] \in AttemptRows
    BY <2>1, <2>2
  <2>4. attempt' \in [Messages -> [Numbers -> AttemptRows]]
    BY <2>1, <2>3
  <2>5. outbox' \in [Messages -> Rows]
    BY <2>1, ClosedRows
  <2> QED BY <1>14, <2>4, <2>5 DEF RecoverExpired
<1>15. CASE QuarantineLegacy
  <2>1. ASSUME NEW row \in Rows
        PROVE  [row EXCEPT !.status = "FAILED", !.providerStatus = "UNKNOWN",
                           !.lockedAt = Null] \in Rows
    BY DEF Rows
  <2>2. PICK old \in SUBSET Messages :
          outbox' = [m \in Messages |->
            IF m \in old
            THEN [outbox[m] EXCEPT !.status = "FAILED", !.providerStatus = "UNKNOWN",
                                   !.lockedAt = Null]
            ELSE outbox[m]]
    BY <1>15 DEF QuarantineLegacy
  <2> QED BY <1>15, <2>1, <2>2 DEF QuarantineLegacy
<1>16. CASE SetPolicy
  BY <1>16 DEF SetPolicy
<1>17. CASE Tick
  BY <1>17, ClockAssumption DEF Tick, Times
<1>18. CASE UNCHANGED vars
  BY <1>18 DEF vars
<1> QED BY <1>1, <1>2, <1>3, <1>4, <1>5, <1>6, <1>7, <1>8, <1>9, <1>10, <1>11,
           <1>12, <1>13, <1>14, <1>15, <1>16, <1>17, <1>18 DEF Next
-----------------------------------------------------------------------------
\* Rows and attempts that are left alone.
LEMMA SameRow ==
  ASSUME NEW m \in Messages, outbox'[m] = outbox[m], attempt'[m] = attempt[m]
  PROVE  /\ Current(m)' = Current(m)
         /\ LogOK(m) => LogOK(m)'
         /\ Out(m)' <=> Out(m)
         /\ Phase(m)' = Phase(m)
         /\ Record(m)' = Record(m)
<1>1. Current(m)' = Current(m)
  BY DEF Current
<1> QED BY <1>1 DEF LogOK, Agree, Out, Phase, Record

\* A step that writes a row and its current attempt only has to make the two
\* agree.
LEMMA RowWritten ==
  ASSUME NEW m \in Messages, LogOK(m),
         outbox'[m].attempts = outbox[m].attempts,
         \A n \in Numbers \ {outbox[m].attempts} : attempt'[m][n] = attempt[m][n],
         outbox[m].attempts \in 0..MaxAttempts,
         Agree(outbox'[m], Current(m)'.status)
  PROVE  LogOK(m)'
BY DEF LogOK, Numbers

\* The current attempt of a row that has one.
LEMMA CurrentAttempt ==
  ASSUME NEW m \in Messages, TypeOK, outbox[m].attempts # 0
  PROVE  Current(m) = attempt[m][outbox[m].attempts] /\ outbox[m].attempts \in Numbers
<1>1. outbox[m].attempts \in 0..MaxAttempts
  BY DEF TypeOK, Rows
<1> QED BY <1>1, ClockAssumption DEF Current, Numbers

\* What closing a locked row writes, column by column.
LEMMA CompletedColumns ==
  ASSUME NEW row \in Rows, NEW s \in {"SENT", "FAILED", "UNKNOWN", "OTHER"}
  PROVE  /\ Completed(row, s).status = IF s = "SENT" THEN "SENT" ELSE "FAILED"
         /\ Completed(row, s).attempts = row.attempts
         /\ Completed(row, s).providerStatus = s
         /\ Completed(row, s).failedAt = IF s = "FAILED" THEN "set" ELSE row.failedAt
BY DEF Completed, Rows

LEMMA SkippedColumns ==
  ASSUME NEW row \in Rows
  PROVE  /\ Skipped(row).status = "SKIPPED"
         /\ Skipped(row).attempts = row.attempts
         /\ Skipped(row).providerStatus = row.providerStatus
BY DEF Skipped, Rows

LEMMA RecoveredColumns ==
  ASSUME NEW row \in Rows, NEW s
  PROVE  /\ Recovered(row, s).status = IF s = "CLAIMED" THEN "READY" ELSE "FAILED"
         /\ Recovered(row, s).attempts = row.attempts
         /\ Recovered(row, s).providerStatus = IF s = "CLAIMED" THEN "NULL" ELSE "UNKNOWN"
         /\ Recovered(row, s).failedAt = row.failedAt
BY DEF Recovered, Rows

-----------------------------------------------------------------------------
\* What a step can do to the row of one message: the log stays in order, a
\* message that is out stays out under the same claim, and a row becomes SENT
\* only by a response that says so.
Moves(m) ==
  /\ LogOK(m)'
  /\ Out(m) => Out(m)' /\ outbox'[m].attempts = outbox[m].attempts
  /\ outbox'[m].status = "SENT" =>
       \/ outbox[m].status = "SENT"
       \/ \E a \in responses : a.msg = m /\ a.status = "SENT"

LEMMA Stays ==
  ASSUME NEW m \in Messages, LogOK(m), outbox'[m] = outbox[m], attempt'[m] = attempt[m]
  PROVE  Moves(m)
BY SameRow DEF Moves

\* The claim an attempt helper is called with is the current one.
LEMMA Owned ==
  ASSUME TypeOK, NEW m \in Messages, NEW n \in Numbers, NEW s, NEW t, Owns(m, n, s, t)
  PROVE  /\ outbox[m].attempts = n /\ outbox[m].status = "LOCKED"
         /\ Current(m) = attempt[m][n] /\ Current(m).status = s
<1>1. outbox[m].attempts = n /\ outbox[m].status = "LOCKED" /\ attempt[m][n].status = s
  BY DEF Owns
<1>2. n # 0
  BY DEF Numbers
<1> QED BY <1>1, <1>2 DEF Current

\* An unleased claim that is still locked is the current one.
LEMMA Unleased ==
  ASSUME TypeOK, NEW m \in Messages, NEW n \in Numbers, LogOK(m), ~Leased(m, n),
         n = outbox[m].attempts
  PROVE  Current(m).status = "none"
BY DEF Current, Leased, Numbers

LEMMA EnqueueMoves ==
  ASSUME TypeOK, LogInv, NEW q \in Messages, Enqueue(q), NEW m \in Messages
  PROVE  Moves(m)
<1>1. CASE m # q
  <2>1. outbox'[m] = outbox[m] /\ attempt'[m] = attempt[m]
    BY <1>1 DEF Enqueue, TypeOK
  <2> QED BY <2>1, Stays DEF LogInv
<1>2. CASE m = q
  <2>1. outbox[m].status = "absent" /\ attempt' = attempt
    BY <1>2 DEF Enqueue
  <2>2. /\ outbox'[m].status = "READY" /\ outbox'[m].attempts = 0
        /\ outbox'[m].failedAt = "null" /\ outbox'[m].providerStatus = "NULL"
    BY <1>2 DEF Enqueue, TypeOK, Absent
  <2>3. outbox[m].attempts = 0 /\ LogOK(m)
    BY <2>1 DEF LogInv, LogOK, Agree
  <2>4. Agree(outbox'[m], Current(m)'.status)
    BY <2>2 DEF Agree
  <2>5. LogOK(m)'
    BY <2>1, <2>2, <2>3, <2>4, RowWritten, ClockAssumption
  <2>6. ~Out(m)
    BY <2>1 DEF Out
  <2> QED BY <2>2, <2>5, <2>6 DEF Moves
<1> QED BY <1>1, <1>2

LEMMA SkipWaitingMoves ==
  ASSUME TypeOK, LogInv, NEW q \in Messages, SkipWaiting(q), NEW m \in Messages
  PROVE  Moves(m)
<1>1. CASE m # q
  <2>1. outbox'[m] = outbox[m] /\ attempt'[m] = attempt[m]
    BY <1>1 DEF SkipWaiting, TypeOK
  <2> QED BY <2>1, Stays DEF LogInv
<1>2. CASE m = q
  <2>1. /\ outbox[m].status = "READY" /\ attempt' = attempt
        /\ outbox'[m] = Skipped(outbox[m])
    BY <1>2 DEF SkipWaiting, TypeOK
  <2>2. LogOK(m) /\ outbox[m] \in Rows /\ outbox[m].attempts \in 0..MaxAttempts
    BY DEF LogInv, TypeOK, Rows
  <2>3. /\ outbox'[m].status = "SKIPPED" /\ outbox'[m].attempts = outbox[m].attempts
        /\ outbox'[m].providerStatus = outbox[m].providerStatus
    BY <2>1, <2>2, SkippedColumns
  <2>4. Current(m)' = Current(m)
    BY <2>1, <2>3 DEF Current
  <2>5. Agree(outbox'[m], Current(m)'.status)
    BY <2>1, <2>2, <2>3, <2>4 DEF LogOK, Agree
  <2>6. LogOK(m)'
    BY <2>1, <2>2, <2>3, <2>5, RowWritten
  <2>7. ~Out(m)
    BY <2>1 DEF Out
  <2> QED BY <2>3, <2>6, <2>7 DEF Moves
<1> QED BY <1>1, <1>2

LEMMA BeginMoves ==
  ASSUME TypeOK, LogInv, NEW q \in Messages, NEW n \in Numbers, BeginDispatch(q, n),
         NEW m \in Messages
  PROVE  Moves(m)
<1>a. attempt' = [attempt EXCEPT ![q][n].status = "DISPATCHING"] /\ outbox' = outbox
  BY DEF BeginDispatch
<1>b. /\ attempt'[q][n].status = "DISPATCHING"
      /\ \A k \in Numbers \ {n} : attempt'[q][k] = attempt[q][k]
      /\ \A p \in Messages \ {q} : attempt'[p] = attempt[p]
  BY <1>a, AttemptWritten
<1>1. CASE m # q
  BY <1>1, <1>a, <1>b, Stays DEF LogInv
<1>2. CASE m = q
  <2>1. outbox[m].attempts = n /\ outbox[m].status = "LOCKED" /\ Current(m).status = "CLAIMED"
    BY <1>2, Owned DEF BeginDispatch
  <2>2. LogOK(m) /\ outbox[m].attempts \in 0..MaxAttempts
    BY DEF LogInv, TypeOK, Rows
  <2>3. Current(m)'.status = "DISPATCHING"
    BY <1>2, <1>a, <1>b, <2>1 DEF Current, Numbers
  <2>4. Agree(outbox'[m], Current(m)'.status)
    BY <1>a, <2>1, <2>2, <2>3 DEF LogOK, Agree
  <2>5. LogOK(m)'
    BY <1>2, <1>a, <1>b, <2>1, <2>2, <2>4, RowWritten
  <2>6. ~Out(m)
    BY <2>1 DEF Out
  <2> QED BY <1>a, <2>1, <2>5, <2>6 DEF Moves
<1> QED BY <1>1, <1>2

LEMMA SkipAttemptMoves ==
  ASSUME TypeOK, LogInv, NEW q \in Messages, NEW n \in Numbers, SkipAttempt(q, n),
         NEW m \in Messages
  PROVE  Moves(m)
<1>a. /\ attempt' = [attempt EXCEPT ![q][n].status = "SKIPPED"]
      /\ outbox' = [outbox EXCEPT ![q] = Skipped(outbox[q])]
  BY DEF SkipAttempt
<1>b. /\ attempt'[q][n].status = "SKIPPED"
      /\ \A k \in Numbers \ {n} : attempt'[q][k] = attempt[q][k]
      /\ \A p \in Messages \ {q} : attempt'[p] = attempt[p]
  BY <1>a, AttemptWritten
<1>1. CASE m # q
  <2>1. outbox'[m] = outbox[m]
    BY <1>1, <1>a DEF TypeOK
  <2> QED BY <1>1, <1>b, <2>1, Stays DEF LogInv
<1>2. CASE m = q
  <2>1. outbox[m].attempts = n /\ outbox[m].status = "LOCKED" /\ Current(m).status = "CLAIMED"
    BY <1>2, Owned DEF SkipAttempt
  <2>2. LogOK(m) /\ outbox[m] \in Rows /\ outbox[m].attempts \in 0..MaxAttempts
    BY DEF LogInv, TypeOK, Rows
  <2>3. /\ outbox'[m].status = "SKIPPED" /\ outbox'[m].attempts = n
        /\ outbox'[m].providerStatus = outbox[m].providerStatus
    BY <1>2, <1>a, <2>1, <2>2, SkippedColumns DEF TypeOK
  <2>4. Current(m)'.status = "SKIPPED"
    BY <1>2, <1>b, <2>3 DEF Current, Numbers
  <2>5. Agree(outbox'[m], Current(m)'.status)
    BY <2>1, <2>2, <2>3, <2>4 DEF LogOK, Agree
  <2>6. LogOK(m)'
    BY <1>2, <1>b, <2>1, <2>2, <2>3, <2>5, RowWritten
  <2>7. ~Out(m)
    BY <2>1 DEF Out
  <2> QED BY <2>3, <2>6, <2>7 DEF Moves
<1> QED BY <1>1, <1>2

LEMMA CompleteAttemptMoves ==
  ASSUME TypeOK, LogInv, NEW a \in responses, CompleteAttempt(a), NEW m \in Messages
  PROVE  Moves(m)
<1> DEFINE q == a.msg
           n == a.num
<1>t. /\ q \in Messages /\ n \in Numbers
      /\ a.status \in {"SENT", "FAILED", "UNKNOWN", "OTHER"}
      /\ AttemptStatus(a.status) \in {"SENT", "FAILED", "UNKNOWN"}
  BY DEF TypeOK, Responses, AttemptStatus
<1>a. /\ outbox' = [outbox EXCEPT ![q] = Completed(outbox[q], a.status)]
      /\ \E t \in Clock : Owns(q, n, "DISPATCHING", t)
  BY DEF CompleteAttempt
<1>b. /\ attempt'[q][n].status = AttemptStatus(a.status)
      /\ \A k \in Numbers \ {n} : attempt'[q][k] = attempt[q][k]
      /\ \A p \in Messages \ {q} : attempt'[p] = attempt[p]
  BY ResponseWritten
<1> HIDE DEF q, n
<1>1. CASE m # q
  <2>1. outbox'[m] = outbox[m]
    BY <1>1, <1>a, <1>t DEF TypeOK
  <2> QED BY <1>1, <1>b, <2>1, Stays DEF LogInv
<1>2. CASE m = q
  <2>1. outbox[m].attempts = n /\ outbox[m].status = "LOCKED" /\ Current(m).status = "DISPATCHING"
    BY <1>2, <1>a, <1>t, Owned
  <2>2. LogOK(m) /\ outbox[m] \in Rows /\ outbox[m].attempts \in 0..MaxAttempts
    BY DEF LogInv, TypeOK, Rows
  <2>3. outbox'[m] = Completed(outbox[m], a.status)
    BY <1>2, <1>a, <1>t DEF TypeOK
  <2>4. /\ outbox'[m].status = IF a.status = "SENT" THEN "SENT" ELSE "FAILED"
        /\ outbox'[m].attempts = n
        /\ outbox'[m].providerStatus = a.status
        /\ outbox'[m].failedAt = IF a.status = "FAILED" THEN "set" ELSE outbox[m].failedAt
    BY <1>t, <2>1, <2>2, <2>3, CompletedColumns
  <2>5. Current(m)'.status = AttemptStatus(a.status)
    BY <1>2, <1>b, <1>t, <2>4 DEF Current, Numbers
  <2>6. Agree(outbox'[m], Current(m)'.status)
    BY <1>t, <2>1, <2>2, <2>4, <2>5 DEF LogOK, Agree, AttemptStatus
  <2>7. LogOK(m)'
    BY <1>2, <1>b, <2>1, <2>2, <2>4, <2>6, RowWritten
  <2>8. Out(m)' /\ (outbox'[m].status = "SENT" => a.status = "SENT" /\ a.msg = m)
    BY <1>2, <2>4 DEF Out, q
  <2> QED BY <2>1, <2>4, <2>7, <2>8 DEF Moves
<1> QED BY <1>1, <1>2

\* Closing an unleased claim: the log is not touched and its current entry is
\* still none.
LEMMA UnleasedMoves ==
  ASSUME TypeOK, LogInv, NEW m \in Messages, attempt' = attempt,
         outbox[m].status = "LOCKED", Current(m).status = "none",
         outbox'[m].attempts = outbox[m].attempts,
         outbox'[m].status \in {"SENT", "FAILED", "SKIPPED"},
         outbox'[m].status = "SENT" =>
           outbox'[m].failedAt = "null" /\ \E a \in responses : a.msg = m /\ a.status = "SENT",
         outbox'[m].providerStatus \in {"UNKNOWN", "OTHER"} => outbox'[m].failedAt = "null"
  PROVE  Moves(m)
<1>1. LogOK(m) /\ outbox[m].attempts \in 0..MaxAttempts
  BY DEF LogInv, TypeOK, Rows
<1>2. Current(m)' = Current(m)
  BY DEF Current
<1>3. outbox[m].attempts # 0
  BY <1>1 DEF LogOK, Agree
<1>4. Agree(outbox'[m], Current(m)'.status)
  BY <1>2, <1>3 DEF Agree
<1>5. LogOK(m)'
  BY <1>1, <1>4, RowWritten
<1>6. Out(m)'
  BY <1>2, <1>3 DEF Out
<1> QED BY <1>5, <1>6 DEF Moves

LEMMA CompleteReadyMoves ==
  ASSUME TypeOK, LogInv, RightInv, NEW a \in responses, CompleteReady(a), NEW m \in Messages
  PROVE  Moves(m)
<1>1. /\ a.msg \in Messages /\ a.num \in Numbers
      /\ a.status \in {"SENT", "FAILED", "UNKNOWN", "OTHER"}
  BY DEF TypeOK, Responses
<1>2. /\ attempt' = attempt /\ ~Leased(a.msg, a.num) /\ outbox[a.msg].status = "LOCKED"
      /\ outbox' = [outbox EXCEPT ![a.msg] = Completed(outbox[a.msg], a.status)]
  BY DEF CompleteReady
<1>3. CASE m # a.msg
  <2>1. outbox'[m] = outbox[m]
    BY <1>1, <1>2, <1>3 DEF TypeOK
  <2> QED BY <1>2, <2>1, Stays DEF LogInv
<1>4. CASE m = a.msg
  <2>1. a.num = outbox[m].attempts /\ LogOK(m)
    BY <1>4 DEF RightInv, RightOK, LogInv
  <2>2. Current(m).status = "none"
    BY <1>1, <1>2, <1>4, <2>1, Unleased
  <2>3. outbox[m] \in Rows /\ outbox'[m] = Completed(outbox[m], a.status)
    BY <1>1, <1>2, <1>4 DEF TypeOK
  <2>4. outbox[m].failedAt = "null"
    BY <1>2, <1>4, <2>1 DEF LogOK, Agree
  <2>5. /\ outbox'[m].status = IF a.status = "SENT" THEN "SENT" ELSE "FAILED"
        /\ outbox'[m].attempts = outbox[m].attempts
        /\ outbox'[m].providerStatus = a.status
        /\ outbox'[m].failedAt = IF a.status = "FAILED" THEN "set" ELSE "null"
    BY <1>1, <2>3, <2>4, CompletedColumns
  <2> QED BY <1>2, <1>4, <2>2, <2>5, UnleasedMoves
<1> QED BY <1>3, <1>4

LEMMA FailReadyMoves ==
  ASSUME TypeOK, LogInv, RightInv, NEW q \in Messages, NEW n \in Numbers, FailReady(q, n),
         NEW m \in Messages
  PROVE  Moves(m)
<1>1. /\ attempt' = attempt /\ ~Leased(q, n) /\ outbox[q].status = "LOCKED"
      /\ outbox' = [outbox EXCEPT ![q] =
           [outbox[q] EXCEPT !.status = "FAILED", !.providerStatus = "FAILED",
                             !.failedAt = "set", !.lockedAt = Null]]
  BY DEF FailReady
<1>2. CASE m # q
  <2>1. outbox'[m] = outbox[m]
    BY <1>1, <1>2 DEF TypeOK
  <2> QED BY <1>1, <2>1, Stays DEF LogInv
<1>3. CASE m = q
  <2>1. n = outbox[m].attempts /\ LogOK(m)
    BY <1>3 DEF FailReady, RightInv, RightOK, LogInv
  <2>2. Current(m).status = "none"
    BY <1>1, <1>3, <2>1, Unleased
  <2>3. /\ outbox'[m].status = "FAILED" /\ outbox'[m].attempts = outbox[m].attempts
        /\ outbox'[m].providerStatus = "FAILED"
    BY <1>1, <1>3 DEF TypeOK, Rows
  <2> QED BY <1>1, <1>3, <2>2, <2>3, UnleasedMoves
<1> QED BY <1>2, <1>3

LEMMA SkipReadyMoves ==
  ASSUME TypeOK, LogInv, RightInv, NEW q \in Messages, NEW n \in Numbers, SkipReady(q, n),
         NEW m \in Messages
  PROVE  Moves(m)
<1>1. /\ attempt' = attempt /\ ~Leased(q, n) /\ outbox[q].status = "LOCKED"
      /\ outbox' = [outbox EXCEPT ![q] = Skipped(outbox[q])]
  BY DEF SkipReady
<1>2. CASE m # q
  <2>1. outbox'[m] = outbox[m]
    BY <1>1, <1>2 DEF TypeOK
  <2> QED BY <1>1, <2>1, Stays DEF LogInv
<1>3. CASE m = q
  <2>1. n = outbox[m].attempts /\ LogOK(m)
    BY <1>3 DEF SkipReady, RightInv, RightOK, LogInv
  <2>2. Current(m).status = "none"
    BY <1>1, <1>3, <2>1, Unleased
  <2>3. outbox[m].providerStatus = "NULL"
    BY <1>1, <1>3, <2>1 DEF LogOK, Agree
  <2>4. outbox[m] \in Rows /\ outbox'[m] = Skipped(outbox[m])
    BY <1>1, <1>3 DEF TypeOK
  <2>5. /\ outbox'[m].status = "SKIPPED" /\ outbox'[m].attempts = outbox[m].attempts
        /\ outbox'[m].providerStatus = "NULL"
    BY <2>3, <2>4, SkippedColumns
  <2> QED BY <1>1, <1>3, <2>2, <2>5, UnleasedMoves
<1> QED BY <1>2, <1>3

\* What both claims do to the rows they select.
LEMMA ClaimedRows ==
  ASSUME TypeOK, LogInv, NEW t \in Clock, NEW S \in Batches(t), outbox' = Locked(S, t),
         \A m \in S : outbox[m].attempts < MaxAttempts, NEW m \in Messages
  PROVE  /\ S \subseteq Messages
         /\ m \notin S => outbox'[m] = outbox[m]
         /\ m \in S => /\ outbox[m].status = "READY" /\ LogOK(m)
                       /\ outbox'[m].status = "LOCKED"
                       /\ outbox[m].attempts \in 0..MaxAttempts
                       /\ outbox[m].attempts + 1 \in Numbers
                       /\ outbox'[m].attempts = outbox[m].attempts + 1
                       /\ outbox'[m].providerStatus = "NULL"
                       /\ outbox'[m].failedAt = "null"
<1>1. S \subseteq Messages /\ \A q \in S : outbox[q].status = "READY"
  BY DEF Batches, Due
<1>2. m \notin S => outbox'[m] = outbox[m]
  BY DEF Locked
<1>3. ASSUME m \in S
      PROVE  /\ outbox[m].status = "READY" /\ LogOK(m)
             /\ outbox'[m].status = "LOCKED"
             /\ outbox[m].attempts \in 0..MaxAttempts
             /\ outbox[m].attempts + 1 \in Numbers
             /\ outbox'[m].attempts = outbox[m].attempts + 1
             /\ outbox'[m].providerStatus = "NULL"
             /\ outbox'[m].failedAt = "null"
  <2>1. /\ outbox[m] \in Rows /\ outbox[m].attempts \in 0..MaxAttempts
        /\ outbox[m].status = "READY" /\ LogOK(m)
    BY <1>1, <1>3 DEF TypeOK, LogInv, Rows
  <2>2. outbox[m].providerStatus = "NULL" /\ outbox[m].failedAt = "null"
    BY <2>1 DEF LogOK, Agree
  <2>3. outbox[m].attempts + 1 \in Numbers
    BY <1>3, <2>1, ClockAssumption DEF Numbers
  <2>4. outbox'[m] = [outbox[m] EXCEPT !.status = "LOCKED", !.attempts = outbox[m].attempts + 1,
                                       !.lockedAt = t]
    BY <1>3 DEF Locked
  <2>5. /\ outbox'[m].status = "LOCKED" /\ outbox'[m].attempts = outbox[m].attempts + 1
        /\ outbox'[m].providerStatus = outbox[m].providerStatus
        /\ outbox'[m].failedAt = outbox[m].failedAt
    BY <2>1, <2>4 DEF Rows
  <2> QED BY <2>1, <2>2, <2>3, <2>5
<1> QED BY <1>1, <1>2, <1>3

LEMMA ClaimWithLeaseMoves ==
  ASSUME TypeOK, LogInv, ClaimWithLease, NEW m \in Messages
  PROVE  Moves(m)
<1>1. PICK t \in Clock : \E S \in Batches(t) :
        /\ \A q \in S : outbox[q].attempts < MaxAttempts
        /\ outbox' = Locked(S, t)
        /\ attempt' = [q \in Messages |->
             IF q \in S
             THEN [attempt[q] EXCEPT ![outbox[q].attempts + 1] =
                     [status |-> "CLAIMED", expires |-> t + Lease]]
             ELSE attempt[q]]
  BY DEF ClaimWithLease
<1>2. PICK S \in Batches(t) :
        /\ \A q \in S : outbox[q].attempts < MaxAttempts
        /\ outbox' = Locked(S, t)
        /\ attempt' = [q \in Messages |->
             IF q \in S
             THEN [attempt[q] EXCEPT ![outbox[q].attempts + 1] =
                     [status |-> "CLAIMED", expires |-> t + Lease]]
             ELSE attempt[q]]
  BY <1>1
<1>3. CASE m \notin S
  <2>1. outbox'[m] = outbox[m]
    BY <1>2, <1>3, ClaimedRows
  <2>2. attempt'[m] = attempt[m]
    BY <1>2, <1>3
  <2> QED BY <2>1, <2>2, Stays DEF LogInv
<1>4. CASE m \in S
  <2>1. /\ outbox[m].status = "READY" /\ LogOK(m)
        /\ outbox'[m].status = "LOCKED"
        /\ outbox[m].attempts \in 0..MaxAttempts
        /\ outbox[m].attempts + 1 \in Numbers
        /\ outbox'[m].attempts = outbox[m].attempts + 1
        /\ outbox'[m].providerStatus = "NULL"
        /\ outbox'[m].failedAt = "null"
    BY <1>2, <1>4, ClaimedRows
  <2>2. /\ attempt'[m][outbox[m].attempts + 1].status = "CLAIMED"
        /\ \A k \in Numbers \ {outbox[m].attempts + 1} : attempt'[m][k] = attempt[m][k]
    BY <1>2, <1>4, <2>1 DEF TypeOK
  <2>3. Current(m)'.status = "CLAIMED"
    BY <2>1, <2>2 DEF Current
  <2>4. Agree(outbox'[m], Current(m)'.status)
    BY <2>1, <2>3 DEF Agree
  <2>5. outbox[m].attempts # 0 => attempt[m][outbox[m].attempts].status = "EXPIRED"
    BY <2>1 DEF LogOK, Agree, Current
  <2>6. ASSUME NEW k \in Numbers
        PROVE  /\ k > outbox'[m].attempts => attempt'[m][k].status = "none"
               /\ k < outbox'[m].attempts => attempt'[m][k].status = "EXPIRED"
    <3>1. /\ k > outbox[m].attempts => attempt[m][k].status = "none"
          /\ k < outbox[m].attempts => attempt[m][k].status = "EXPIRED"
      BY <2>1 DEF LogOK
    <3>2. k \in Nat /\ k # 0 /\ outbox[m].attempts \in Nat
      BY <2>1, ClockAssumption DEF Numbers
    <3> QED BY <2>1, <2>2, <2>5, <3>1, <3>2
  <2>7. LogOK(m)'
    BY <2>4, <2>6 DEF LogOK
  <2>8. ~Out(m)
    BY <2>1 DEF Out
  <2> QED BY <2>1, <2>7, <2>8 DEF Moves
<1> QED BY <1>3, <1>4

LEMMA ClaimReadyMoves ==
  ASSUME TypeOK, LogInv, ClaimReady, NEW m \in Messages
  PROVE  Moves(m)
<1>1. PICK t \in Clock : \E S \in Batches(t) :
        /\ \A q \in S : outbox[q].attempts < MaxAttempts
        /\ outbox' = Locked(S, t)
  BY DEF ClaimReady
<1>2. PICK S \in Batches(t) :
        /\ \A q \in S : outbox[q].attempts < MaxAttempts
        /\ outbox' = Locked(S, t)
  BY <1>1
<1>3. attempt' = attempt
  BY DEF ClaimReady
<1>4. CASE m \notin S
  BY <1>2, <1>3, <1>4, ClaimedRows, Stays DEF LogInv
<1>5. CASE m \in S
  <2>1. /\ outbox[m].status = "READY" /\ LogOK(m)
        /\ outbox'[m].status = "LOCKED"
        /\ outbox[m].attempts \in 0..MaxAttempts
        /\ outbox[m].attempts + 1 \in Numbers
        /\ outbox'[m].attempts = outbox[m].attempts + 1
        /\ outbox'[m].providerStatus = "NULL"
        /\ outbox'[m].failedAt = "null"
    BY <1>2, <1>5, ClaimedRows
  <2>2. outbox[m].attempts \in Nat /\ outbox[m].attempts + 1 > outbox[m].attempts
    BY <2>1, ClockAssumption
  <2>3. Current(m)'.status = "none"
    BY <1>3, <2>1, <2>2 DEF Current, LogOK
  <2>4. Agree(outbox'[m], Current(m)'.status)
    BY <2>1, <2>2, <2>3 DEF Agree
  <2>5. outbox[m].attempts # 0 => attempt[m][outbox[m].attempts].status = "EXPIRED"
    BY <2>1 DEF LogOK, Agree, Current
  <2>6. ASSUME NEW k \in Numbers
        PROVE  /\ k > outbox'[m].attempts => attempt'[m][k].status = "none"
               /\ k < outbox'[m].attempts => attempt'[m][k].status = "EXPIRED"
    <3>1. /\ k > outbox[m].attempts => attempt[m][k].status = "none"
          /\ k < outbox[m].attempts => attempt[m][k].status = "EXPIRED"
      BY <2>1 DEF LogOK
    <3>2. k \in Nat /\ k # 0 /\ outbox[m].attempts \in Nat
      BY <2>1, ClockAssumption DEF Numbers
    <3> QED BY <1>3, <2>1, <2>5, <3>1, <3>2
  <2>7. LogOK(m)'
    BY <2>4, <2>6 DEF LogOK
  <2>8. ~Out(m)
    BY <2>1 DEF Out
  <2> QED BY <2>1, <2>7, <2>8 DEF Moves
<1> QED BY <1>4, <1>5

LEMMA RecoverMoves ==
  ASSUME TypeOK, LogInv, RecoverExpired, NEW m \in Messages
  PROVE  Moves(m)
<1>1. PICK t \in Clock :
        /\ outbox' = [q \in Messages |->
             IF outbox[q].status = "LOCKED" /\ Expired(Current(q), t)
             THEN Recovered(outbox[q], Current(q).status) ELSE outbox[q]]
        /\ attempt' = [q \in Messages |-> [n \in Numbers |->
             IF Expired(attempt[q][n], t)
             THEN [attempt[q][n] EXCEPT !.status = IF @ = "CLAIMED" THEN "EXPIRED" ELSE "UNKNOWN"]
             ELSE attempt[q][n]]]
  BY DEF RecoverExpired
<1>2. LogOK(m) /\ outbox[m] \in Rows /\ outbox[m].attempts \in 0..MaxAttempts
  BY DEF LogInv, TypeOK, Rows
<1>3. \A n \in Numbers \ {outbox[m].attempts} : attempt'[m][n] = attempt[m][n]
  <2> SUFFICES ASSUME NEW n \in Numbers, n # outbox[m].attempts
               PROVE  attempt'[m][n] = attempt[m][n]
    OBVIOUS
  <2>1. n < outbox[m].attempts \/ n > outbox[m].attempts
    BY <1>2, ClockAssumption DEF Numbers
  <2>2. ~Expired(attempt[m][n], t)
    BY <1>2, <2>1 DEF LogOK, Expired, Active
  <2> QED BY <1>1, <2>2
<1>4. CASE outbox[m].status = "LOCKED" /\ Expired(Current(m), t)
  <2>1. outbox'[m] = Recovered(outbox[m], Current(m).status)
    BY <1>1, <1>4
  <2>2. /\ outbox'[m].status = IF Current(m).status = "CLAIMED" THEN "READY" ELSE "FAILED"
        /\ outbox'[m].attempts = outbox[m].attempts
        /\ outbox'[m].providerStatus = IF Current(m).status = "CLAIMED" THEN "NULL" ELSE "UNKNOWN"
        /\ outbox'[m].failedAt = outbox[m].failedAt
    BY <1>2, <2>1, RecoveredColumns
  <2>3. outbox[m].attempts # 0 /\ outbox[m].failedAt = "null"
    BY <1>2, <1>4 DEF LogOK, Agree
  <2>4. Current(m) = attempt[m][outbox[m].attempts] /\ outbox[m].attempts \in Numbers
    BY <2>3, CurrentAttempt
  <2>5. attempt[m][outbox[m].attempts] \in AttemptRows
    BY <2>4 DEF TypeOK
  <2>6. attempt'[m][outbox[m].attempts].status =
          IF Current(m).status = "CLAIMED" THEN "EXPIRED" ELSE "UNKNOWN"
    BY <1>1, <1>4, <2>4, <2>5 DEF AttemptRows
  <2>7. Current(m)'.status = IF Current(m).status = "CLAIMED" THEN "EXPIRED" ELSE "UNKNOWN"
    BY <2>2, <2>3, <2>6 DEF Current
  <2>8. Agree(outbox'[m], Current(m)'.status)
    BY <2>2, <2>3, <2>7 DEF Agree
  <2>9. LogOK(m)'
    BY <1>2, <1>3, <2>2, <2>8, RowWritten
  <2>10. Out(m) => Out(m)'
    BY <1>4, <2>2 DEF Out
  <2> QED BY <2>2, <2>9, <2>10 DEF Moves
<1>5. CASE ~(outbox[m].status = "LOCKED" /\ Expired(Current(m), t))
  <2>1. outbox'[m] = outbox[m]
    BY <1>1, <1>5
  <2>2. ~Expired(Current(m), t)
    <3>1. outbox[m].attempts = 0 => Current(m).status = "none"
      BY DEF Current, NoAttempt
    <3>2. outbox[m].status \in {"absent", "READY", "LOCKED", "SENT", "FAILED", "SKIPPED"}
      BY <1>2 DEF Rows
    <3>3. outbox[m].status # "LOCKED" => Current(m).status \notin Active
      BY <1>2, <3>1, <3>2 DEF LogOK, Agree, Active
    <3> QED BY <1>5, <3>3 DEF Expired
  <2>3. \A n \in Numbers : attempt'[m][n] = attempt[m][n]
    BY <1>1, <1>3, <2>2 DEF Current, Numbers
  <2>4. attempt'[m] = attempt[m]
    <3>1. attempt[m] \in [Numbers -> AttemptRows]
      BY DEF TypeOK
    <3>2. attempt'[m] = [n \in Numbers |-> attempt'[m][n]]
      BY <1>1
    <3> QED BY <2>3, <3>1, <3>2
  <2> QED BY <1>2, <2>1, <2>4, Stays
<1> QED BY <1>4, <1>5

LEMMA QuarantineMoves ==
  ASSUME TypeOK, LogInv, QuarantineLegacy, NEW m \in Messages
  PROVE  Moves(m)
<1>1. PICK old \in SUBSET Messages :
        /\ \A q \in old : outbox[q].status = "LOCKED" /\ Current(q).status = "none"
        /\ outbox' = [q \in Messages |->
             IF q \in old
             THEN [outbox[q] EXCEPT !.status = "FAILED", !.providerStatus = "UNKNOWN",
                                    !.lockedAt = Null]
             ELSE outbox[q]]
  BY DEF QuarantineLegacy
<1>2. attempt' = attempt
  BY DEF QuarantineLegacy
<1>3. CASE m \notin old
  BY <1>1, <1>2, <1>3, Stays DEF LogInv
<1>4. CASE m \in old
  <2>1. outbox[m] \in Rows /\ LogOK(m)
    BY DEF TypeOK, LogInv
  <2>2. /\ outbox'[m].status = "FAILED" /\ outbox'[m].attempts = outbox[m].attempts
        /\ outbox'[m].failedAt = outbox[m].failedAt
    BY <1>1, <1>4, <2>1 DEF Rows
  <2>3. outbox[m].failedAt = "null"
    BY <1>1, <1>4, <2>1 DEF LogOK, Agree
  <2> QED BY <1>1, <1>2, <1>4, <2>2, <2>3, UnleasedMoves
<1> QED BY <1>3, <1>4

\* Every step moves every row in an orderly way.
LEMMA MovesStep ==
  ASSUME Inv, [Next]_vars, NEW m \in Messages
  PROVE  Moves(m)
<1>a. TypeOK /\ LogInv /\ RightInv
  BY DEF Inv
<1>1. ASSUME outbox' = outbox, attempt' = attempt PROVE Moves(m)
  BY <1>1, <1>a, Stays DEF LogInv
<1>2. ASSUME NEW p, Send(p) PROVE Moves(m)
  BY <1>1, <1>2 DEF Send
<1>3. ASSUME NEW c, Deliver(c) \/ LoseCall(c) PROVE Moves(m)
  BY <1>1, <1>3 DEF Deliver, LoseCall
<1>4. CASE SetPolicy \/ Tick \/ UNCHANGED vars
  BY <1>1, <1>4 DEF SetPolicy, Tick, vars
<1>5. ASSUME NEW q \in Messages, Enqueue(q) \/ SkipWaiting(q) PROVE Moves(m)
  BY <1>5, <1>a, EnqueueMoves, SkipWaitingMoves
<1>6. ASSUME NEW q \in Messages, NEW n \in Numbers,
             BeginDispatch(q, n) \/ SkipAttempt(q, n)
      PROVE  Moves(m)
  BY <1>6, <1>a, BeginMoves, SkipAttemptMoves
<1>7. ASSUME NEW q \in Messages, NEW n \in Numbers,
             FailReady(q, n) \/ SkipReady(q, n)
      PROVE  Moves(m)
  BY <1>7, <1>a, FailReadyMoves, SkipReadyMoves
<1>8. ASSUME NEW a \in responses, CompleteAttempt(a) \/ CompleteReady(a) PROVE Moves(m)
  BY <1>8, <1>a, CompleteAttemptMoves, CompleteReadyMoves
<1>9. CASE ClaimWithLease \/ ClaimReady
  BY <1>9, <1>a, ClaimWithLeaseMoves, ClaimReadyMoves
<1>10. CASE RecoverExpired \/ QuarantineLegacy
  BY <1>10, <1>a, RecoverMoves, QuarantineMoves
<1> QED BY <1>2, <1>3, <1>4, <1>5, <1>6, <1>7, <1>8, <1>9, <1>10 DEF Next

-----------------------------------------------------------------------------
\* The right to send survives every step in one place.  Given Moves, only the
\* actions that write permits, calls, sends or responses have anything to show.
LEMMA RightKept ==
  ASSUME RightInv, NEW m \in Messages, Moves(m),
         sends'[m] = sends[m], fate'[m] = fate[m],
         \A n \in Numbers : <<m, n>> \in permits' => <<m, n>> \in permits,
         \A n \in Numbers : <<m, n>> \in calls' => <<m, n>> \in calls,
         \A a \in responses' : a.msg = m => a \in responses,
         responses \subseteq responses'
  PROVE  RightOK(m)'
<1>1. RightOK(m)
  BY DEF RightInv
<1>2. Out(m) => Out(m)' /\ outbox'[m].attempts = outbox[m].attempts
  BY DEF Moves
<1>3. outbox'[m].status = "SENT" => sends[m] = 1 /\ (fate[m] = "delivered" \/ Assumed(m))
  BY <1>1 DEF Moves, RightOK
<1>4. Assumed(m) => Assumed(m)'
  BY DEF Assumed
<1> QED BY <1>1, <1>2, <1>3, <1>4 DEF RightOK

LEMMA BeginRight ==
  ASSUME TypeOK, RightInv, NEW q \in Messages, NEW n \in Numbers, BeginDispatch(q, n),
         NEW m \in Messages, Moves(m)
  PROVE  RightOK(m)'
<1>1. /\ sends' = sends /\ fate' = fate /\ calls' = calls /\ responses' = responses
      /\ permits' = permits \cup {<<q, n>>} /\ outbox' = outbox
      /\ attempt' = [attempt EXCEPT ![q][n].status = "DISPATCHING"]
  BY DEF BeginDispatch, provider
<1>2. CASE m # q
  BY <1>1, <1>2, RightKept
<1>3. CASE m = q
  <2>1. outbox[m].attempts = n /\ outbox[m].status = "LOCKED" /\ Current(m).status = "CLAIMED"
    BY <1>3, Owned DEF BeginDispatch
  <2>2. ~Out(m) /\ RightOK(m)
    BY <2>1 DEF Out, RightInv
  <2>3. attempt'[m][n].status = "DISPATCHING"
    BY <1>1, <1>3, AttemptWritten
  <2>4. Current(m)'.status = "DISPATCHING"
    BY <1>1, <2>1, <2>3 DEF Current, Numbers
  <2>5. Out(m)'
    BY <1>1, <2>1, <2>4 DEF Out
  <2>6. /\ \A k \in Numbers : <<m, k>> \notin permits /\ <<m, k>> \notin calls
        /\ \A a \in responses : a.msg # m
        /\ sends[m] = 0
    BY <2>2 DEF RightOK
  <2>7. \A k \in Numbers : <<m, k>> \in permits' => k = n
    BY <1>1, <2>6
  <2> QED BY <1>1, <2>1, <2>5, <2>6, <2>7 DEF RightOK
<1> QED BY <1>2, <1>3

LEMMA ClaimReadyRight ==
  ASSUME TypeOK, LogInv, RightInv, ClaimReady, NEW m \in Messages, Moves(m)
  PROVE  RightOK(m)'
<1>1. PICK t \in Clock : \E S \in Batches(t) :
        /\ \A q \in S : outbox[q].attempts < MaxAttempts
        /\ outbox' = Locked(S, t)
        /\ permits' = permits \cup {<<q, outbox[q].attempts + 1>> : q \in S}
  BY DEF ClaimReady
<1>2. PICK S \in Batches(t) :
        /\ \A q \in S : outbox[q].attempts < MaxAttempts
        /\ outbox' = Locked(S, t)
        /\ permits' = permits \cup {<<q, outbox[q].attempts + 1>> : q \in S}
  BY <1>1
<1>3. /\ sends' = sends /\ fate' = fate /\ calls' = calls /\ responses' = responses
      /\ attempt' = attempt
  BY DEF ClaimReady, provider
<1>4. CASE m \notin S
  <2>1. \A k \in Numbers : <<m, k>> \in permits' => <<m, k>> \in permits
    BY <1>2, <1>4
  <2> QED BY <1>3, <2>1, RightKept
<1>5. CASE m \in S
  <2>1. /\ outbox[m].status = "READY" /\ LogOK(m)
        /\ outbox'[m].status = "LOCKED"
        /\ outbox[m].attempts \in 0..MaxAttempts
        /\ outbox[m].attempts + 1 \in Numbers
        /\ outbox'[m].attempts = outbox[m].attempts + 1
    BY <1>2, <1>5, ClaimedRows
  <2>2. outbox[m].attempts \in Nat
    BY <2>1, ClockAssumption
  <2>3. Current(m)'.status = "none"
    BY <1>3, <2>1, <2>2 DEF Current, LogOK
  <2>4. Out(m)' /\ ~Out(m)
    BY <2>1, <2>3 DEF Out
  <2>5. /\ \A k \in Numbers : <<m, k>> \notin permits /\ <<m, k>> \notin calls
        /\ \A a \in responses : a.msg # m
        /\ sends[m] = 0
    BY <2>4 DEF RightInv, RightOK
  <2>6. \A k \in Numbers : <<m, k>> \in permits' => k = outbox'[m].attempts
    BY <1>2, <2>1, <2>5
  <2> QED BY <1>3, <2>1, <2>4, <2>5, <2>6 DEF RightOK
<1> QED BY <1>4, <1>5

LEMMA SendRight ==
  ASSUME TypeOK, RightInv, NEW p \in permits, Send(p), NEW m \in Messages, Moves(m)
  PROVE  RightOK(m)'
<1>1. PICK q \in Messages : p = <<q, p[2]>> /\ p[2] \in Numbers /\ p[1] = q
  BY DEF TypeOK, Claims
<1>2. /\ sends' = sends /\ fate' = fate /\ outbox' = outbox /\ attempt' = attempt
      /\ permits' = permits \ {p} /\ calls' = calls \cup {p}
      /\ responses' = responses \cup {[msg |-> q, num |-> p[2],
                                       status |-> ParseResponse("false", "absent"), bare |-> FALSE]}
  BY <1>1 DEF Send, Response
<1>3. CASE m # q
  <2>1. \A n \in Numbers : <<m, n>> \in calls' => <<m, n>> \in calls
    BY <1>1, <1>2, <1>3
  <2>2. \A a \in responses' : a.msg = m => a \in responses
    BY <1>2, <1>3
  <2> QED BY <1>2, <2>1, <2>2, RightKept
<1>4. CASE m = q
  <2>1. /\ p[2] = outbox[m].attempts /\ Out(m) /\ p \notin calls /\ sends[m] = 0
        /\ RightOK(m)
    BY <1>1, <1>4 DEF RightInv, RightOK
  <2>2. Out(m)' /\ outbox'[m].attempts = outbox[m].attempts
    BY <1>2, <2>1 DEF Moves
  <2>3. ParseResponse("false", "absent") # "SENT"
    BY ParsedStatus
  <2>4. \A n \in Numbers : <<m, n>> \notin permits'
    BY <1>1, <1>2, <1>4, <2>1 DEF RightOK
  <2>5. \A n \in Numbers : <<m, n>> \in calls' => n = outbox'[m].attempts
    BY <1>1, <1>2, <1>4, <2>1 DEF RightOK
  <2>8. Assumed(m) => Assumed(m)'
    BY <1>2 DEF Assumed
  <2>6. \A a \in responses' : a.msg = m =>
          /\ a.num = outbox'[m].attempts
          /\ a.status = "SENT" => sends[m] = 1 /\ (fate[m] = "delivered" \/ Assumed(m)')
    BY <1>2, <1>4, <2>1, <2>3, <2>8 DEF RightOK
  <2>7. outbox'[m].status = "SENT" => sends[m] = 1 /\ (fate[m] = "delivered" \/ Assumed(m)')
    BY <1>2, <2>1, <2>8 DEF RightOK
  <2> QED BY <1>2, <2>1, <2>2, <2>4, <2>5, <2>6, <2>7 DEF RightOK
<1> QED BY <1>3, <1>4

LEMMA DeliverRight ==
  ASSUME TypeOK, RightInv, NEW c \in calls, Deliver(c), NEW m \in Messages, Moves(m)
  PROVE  RightOK(m)'
<1>1. PICK q \in Messages : c = <<q, c[2]>> /\ c[2] \in Numbers /\ c[1] = q
  BY DEF TypeOK, Claims
<1>2. /\ outbox' = outbox /\ attempt' = attempt /\ permits' = permits
      /\ calls' = calls \ {c} /\ sends' = [sends EXCEPT ![q] = sends[q] + 1]
  BY <1>1 DEF Deliver
<1>0. PICK f \in {"delivered", "rejected"}, ok \in {"true", "false", "absent"},
            status \in {"SENT", "FAILED", "UNKNOWN", "OTHER", "absent"} :
        /\ Truthful(f, ok, status)
        /\ fate' = [fate EXCEPT ![c[1]] = f]
        /\ responses' = responses \cup {Response(c, ok, status)}
  BY DEF Deliver
<1>3. /\ Truthful(f, ok, status)
      /\ fate' = [fate EXCEPT ![q] = f]
      /\ responses' = responses \cup {[msg |-> q, num |-> c[2], status |-> ParseResponse(ok, status),
                                       bare |-> ok = "true" /\ status = "absent"]}
  BY <1>0, <1>1 DEF Response
<1>4. CASE m # q
  <2>1. sends'[m] = sends[m] /\ fate'[m] = fate[m]
    BY <1>2, <1>3, <1>4 DEF TypeOK
  <2>2. (\A a \in responses' : a.msg = m => a \in responses) /\ responses \subseteq responses'
    <3>1. Response(c, ok, status).msg = q
      BY <1>1 DEF Response
    <3> QED BY <1>0, <1>4, <3>1
  <2> QED BY <1>2, <2>1, <2>2, RightKept
<1>5. CASE m = q
  <2>1. c[2] = outbox[m].attempts /\ Out(m) /\ sends[m] = 0 /\ RightOK(m)
    BY <1>1, <1>5 DEF RightInv, RightOK
  <2>2. Out(m)' /\ outbox'[m].attempts = outbox[m].attempts
    BY <1>2, <2>1 DEF Moves
  <2>3. sends'[m] = 1 /\ fate'[m] = f
    BY <1>2, <1>3, <1>5, <2>1 DEF TypeOK
  <2>4. ParseResponse(ok, status) = "SENT" => f = "delivered" \/ Assumed(m)'
    <3>1. ParseResponse(ok, status) = "SENT" => f = "delivered" \/ (ok = "true" /\ status = "absent")
      BY <1>3, ParsedStatus DEF Truthful
    <3>2. ASSUME ok = "true", status = "absent" PROVE Assumed(m)'
      <4>1. Response(c, ok, status) \in responses'
        BY <1>0
      <4>2. Response(c, ok, status).msg = m /\ Response(c, ok, status).bare
        BY <1>1, <1>5, <3>2 DEF Response
      <4> QED BY <4>1, <4>2, Zenon DEF Assumed
    <3> QED BY <3>1, <3>2
  <2>5. \A n \in Numbers : <<m, n>> \notin permits
    BY <1>1, <1>5, <2>1 DEF RightOK
  <2>6. \A n \in Numbers : <<m, n>> \notin calls'
    BY <1>1, <1>2, <1>5, <2>1 DEF RightOK
  <2>7. \A a \in responses : a.msg = m => a.num = outbox[m].attempts /\ a.status # "SENT"
    BY <2>1 DEF RightOK
  <2>8. \A a \in responses' : a.msg = m =>
          /\ a.num = outbox'[m].attempts
          /\ a.status = "SENT" => f = "delivered" \/ Assumed(m)'
    BY <1>2, <1>3, <1>5, <2>1, <2>4, <2>7
  <2>9. outbox'[m].status # "SENT"
    BY <1>2, <2>1 DEF RightOK
  <2> QED BY <1>2, <2>2, <2>3, <2>5, <2>6, <2>8, <2>9 DEF RightOK
<1> QED BY <1>4, <1>5

\* Every step keeps the right to send in one place.
LEMMA RightStep ==
  ASSUME Inv, [Next]_vars, NEW m \in Messages
  PROVE  RightOK(m)'
<1>a. TypeOK /\ LogInv /\ RightInv /\ Moves(m)
  BY MovesStep DEF Inv
<1>1. ASSUME sends' = sends, fate' = fate, responses' = responses,
             permits' \subseteq permits, calls' \subseteq calls
      PROVE  RightOK(m)'
  BY <1>1, <1>a, RightKept
<1>2. ASSUME NEW q \in Messages, Enqueue(q) \/ SkipWaiting(q) PROVE RightOK(m)'
  BY <1>1, <1>2 DEF Enqueue, SkipWaiting, provider
<1>3. ASSUME NEW q \in Messages, NEW n \in Numbers, BeginDispatch(q, n) PROVE RightOK(m)'
  BY <1>3, <1>a, BeginRight
<1>4. ASSUME NEW q \in Messages, NEW n \in Numbers,
             SkipAttempt(q, n) \/ FailReady(q, n) \/ SkipReady(q, n)
      PROVE  RightOK(m)'
  BY <1>1, <1>4 DEF SkipAttempt, FailReady, SkipReady, provider
<1>5. ASSUME NEW p \in permits, Send(p) PROVE RightOK(m)'
  BY <1>5, <1>a, SendRight
<1>6. ASSUME NEW c \in calls, Deliver(c) PROVE RightOK(m)'
  BY <1>6, <1>a, DeliverRight
<1>7. ASSUME NEW c \in calls, LoseCall(c) PROVE RightOK(m)'
  BY <1>1, <1>7 DEF LoseCall
<1>8. ASSUME NEW a \in responses, CompleteAttempt(a) \/ CompleteReady(a) PROVE RightOK(m)'
  BY <1>1, <1>8 DEF CompleteAttempt, CompleteReady, provider
<1>9. CASE ClaimReady
  BY <1>9, <1>a, ClaimReadyRight
<1>10. CASE ClaimWithLease \/ RecoverExpired \/ QuarantineLegacy
  BY <1>1, <1>10 DEF ClaimWithLease, RecoverExpired, QuarantineLegacy, provider
<1>11. CASE SetPolicy \/ Tick \/ UNCHANGED vars
  BY <1>1, <1>11 DEF SetPolicy, Tick, vars, provider
<1> QED BY <1>2, <1>3, <1>4, <1>5, <1>6, <1>7, <1>8, <1>9, <1>10, <1>11 DEF Next

-----------------------------------------------------------------------------
\* The invariant holds of every initial state, whatever older workers did.
LEMMA InvInit == Init => Inv
<1> SUFFICES ASSUME Init PROVE Inv OBVIOUS
<1>1. TypeOK
  BY TypeInit
<1>2. /\ Absent.status = "absent" /\ Absent.attempts = 0
      /\ Absent.failedAt = "null" /\ Absent.providerStatus = "NULL"
      /\ LegacyRow.status = "LOCKED" /\ LegacyRow.attempts = 1
      /\ LegacyRow.failedAt = "null" /\ LegacyRow.providerStatus = "NULL"
  BY DEF LegacyRow, Absent
<1>3. ASSUME NEW m \in Messages
      PROVE  /\ outbox[m] = IF m \in LegacyMessages THEN LegacyRow ELSE Absent
             /\ \A n \in Numbers : attempt[m][n].status = "none"
             /\ Current(m).status = "none"
  <2>1. \A n \in Numbers : attempt[m][n] = NoAttempt
    BY DEF Init
  <2>2. 1 \in Numbers
    BY ClockAssumption DEF Numbers
  <2>3. outbox[m] = IF m \in LegacyMessages THEN LegacyRow ELSE Absent
    BY DEF Init
  <2>4. Current(m) = NoAttempt
    BY <1>2, <2>1, <2>2, <2>3 DEF Current
  <2> QED BY <2>1, <2>3, <2>4 DEF NoAttempt
<1>4. LogInv
  <2> SUFFICES ASSUME NEW m \in Messages PROVE LogOK(m)
    BY DEF LogInv
  <2>1. Agree(outbox[m], Current(m).status)
    BY <1>2, <1>3 DEF Agree
  <2>2. \A n \in Numbers : ~(n < outbox[m].attempts)
    BY <1>2, <1>3 DEF Numbers
  <2> QED BY <1>3, <2>1, <2>2 DEF LogOK
<1>5. PICK live \in SUBSET LegacyMessages : \E ran \in SUBSET (LegacyMessages \ live) :
        /\ permits = {<<m, 1>> : m \in live}
        /\ sends = [m \in Messages |-> IF m \in ran THEN 1 ELSE 0]
  BY DEF Init
<1>6. PICK ran \in SUBSET LegacyMessages :
        /\ ran \cap live = {}
        /\ permits = {<<m, 1>> : m \in live}
        /\ sends = [m \in Messages |-> IF m \in ran THEN 1 ELSE 0]
  BY <1>5
<1>7. RightInv
  <2> SUFFICES ASSUME NEW m \in Messages PROVE RightOK(m)
    BY DEF RightInv
  <2>1. calls = {} /\ responses = {}
    BY DEF Init
  <2>2. m \in LegacyMessages => Out(m) /\ outbox[m].attempts = 1
    BY <1>2, <1>3 DEF Out
  <2>3. \A n \in Numbers : <<m, n>> \in permits => m \in live /\ n = 1
    BY <1>6
  <2>4. sends[m] = IF m \in ran THEN 1 ELSE 0
    BY <1>6
  <2>5. outbox[m].status # "SENT"
    BY <1>2, <1>3
  <2> QED BY <1>6, <2>1, <2>2, <2>3, <2>4, <2>5 DEF RightOK
<1> QED BY <1>1, <1>4, <1>7 DEF Inv

\* Every step keeps the invariant.
LEMMA InvStep == Inv /\ [Next]_vars => Inv'
<1> SUFFICES ASSUME Inv, [Next]_vars PROVE Inv' OBVIOUS
<1>1. TypeOK'
  BY TypeStep DEF Inv
<1>2. LogInv'
  BY MovesStep DEF LogInv, Moves
<1>3. RightInv'
  BY RightStep DEF RightInv
<1> QED BY <1>1, <1>2, <1>3 DEF Inv

\* Every reachable state satisfies the inductive invariant.
THEOREM Invariance == Spec => []Inv
BY InvInit, InvStep, PTL DEF Spec

\* Every helper leaves well-formed outbox and attempt rows behind.
THEOREM TypeCorrect == Spec => []TypeOK
<1>1. Inv => TypeOK
  BY DEF Inv
<1> QED BY <1>1, Invariance, PTL

\* Across expired leases, requeues, late sends and claims without a lease,
\* the provider receives a message at most once.
THEOREM SendsAtMostOnce == Spec => []AtMostOneSend
<1>1. Inv => AtMostOneSend
  BY DEF Inv, RightInv, RightOK, AtMostOneSend
<1> QED BY <1>1, Invariance, PTL

\* Whatever the sweep has put back was not sent and cannot be sent by the
\* worker that lost it.
THEOREM RequeuesOnlyUnsent == Spec => []RequeueIsSafe
<1>1. ASSUME Inv PROVE RequeueIsSafe
  <2> SUFFICES ASSUME NEW m \in Messages,
                      outbox[m].status = "READY" \/ Current(m).status = "CLAIMED"
               PROVE  /\ sends[m] = 0
                      /\ \A n \in Numbers : <<m, n>> \notin permits \cup calls
    BY DEF RequeueIsSafe
  <2>1. RightOK(m) /\ LogOK(m)
    BY <1>1 DEF Inv, RightInv, LogInv
  <2>2. ~Out(m)
    BY <2>1 DEF LogOK, Agree, Out
  <2> QED BY <2>1, <2>2 DEF RightOK
<1> QED BY <1>1, Invariance, PTL

\* The two tables tell one story in every reachable state.
THEOREM TablesAgree == Spec => []AttemptsMirrorOutbox
<1>1. ASSUME Inv PROVE AttemptsMirrorOutbox
  <2> SUFFICES ASSUME NEW m \in Messages, NEW n \in Numbers
               PROVE  LET row == outbox[m]  a == attempt[m][n] IN
                 /\ a.status \in Active => row.status = "LOCKED" /\ row.attempts = n
                 /\ a.status = "SENT" => row.status = "SENT"
                 /\ a.status = "FAILED" => row.status = "FAILED"
                                           /\ row.providerStatus \in {"FAILED", "OTHER"}
                 /\ a.status = "UNKNOWN" => row.status = "FAILED"
                                            /\ row.providerStatus = "UNKNOWN"
                 /\ a.status = "SKIPPED" => row.status = "SKIPPED"
    BY DEF AttemptsMirrorOutbox
  <2>1. LogOK(m) /\ outbox[m] \in Rows /\ outbox[m].attempts \in 0..MaxAttempts
    BY <1>1 DEF Inv, TypeOK, LogInv, Rows
  <2>2. CASE n # outbox[m].attempts
    <3>1. n < outbox[m].attempts \/ n > outbox[m].attempts
      BY <2>1, <2>2, ClockAssumption DEF Numbers
    <3>2. attempt[m][n].status \in {"none", "EXPIRED"}
      BY <2>1, <3>1 DEF LogOK
    <3> QED BY <3>2 DEF Active
  <2>3. CASE n = outbox[m].attempts
    <3>1. Current(m) = attempt[m][n] /\ outbox[m].attempts # 0
      BY <2>3 DEF Current, Numbers
    <3>2. outbox[m].status \in {"absent", "READY", "LOCKED", "SENT", "FAILED", "SKIPPED"}
      BY <2>1 DEF Rows
    <3> QED BY <2>1, <2>3, <3>1, <3>2 DEF LogOK, Agree, Active
  <2> QED BY <2>2, <2>3
<1> QED BY <1>1, Invariance, PTL

\* No path stamps an outcome nobody confirmed.
THEOREM StampsAreConfirmed == Spec => []UnknownIsNotStamped
<1>1. ASSUME Inv PROVE UnknownIsNotStamped
  <2> SUFFICES ASSUME NEW m \in Messages
               PROVE  /\ outbox[m].failedAt = "set" => outbox[m].status \in {"FAILED", "SKIPPED"}
                      /\ outbox[m].providerStatus \in {"UNKNOWN", "OTHER"} =>
                           outbox[m].failedAt = "null"
    BY DEF UnknownIsNotStamped
  <2>1. LogOK(m) /\ outbox[m] \in Rows
    BY <1>1 DEF Inv, TypeOK, LogInv
  <2> QED BY <2>1 DEF LogOK, Agree, Rows
<1> QED BY <1>1, Invariance, PTL

\* SENT is recorded only of a message the provider received once, and delivered
\* unless its answer was a bare ok:true.
THEOREM SentStaysBacked == Spec => []SentIsBacked
<1>1. Inv => SentIsBacked
  BY DEF Inv, RightInv, RightOK, SentIsBacked
<1> QED BY <1>1, Invariance, PTL

-----------------------------------------------------------------------------
\* One row and one log through one step: what has ended is not written.
Final(m) ==
  /\ outbox[m].status \in {"SENT", "FAILED", "SKIPPED"} => outbox'[m] = outbox[m]
  /\ \A n \in Numbers : Ended(attempt[m][n]) => attempt'[m][n] = attempt[m][n]

\* A step on a row that is not closed, which writes at most one attempt, and
\* one that has not ended.
LEMMA FinalOne ==
  ASSUME NEW q \in Messages, NEW n \in Numbers, NEW m \in Messages,
         outbox[q].status \notin {"SENT", "FAILED", "SKIPPED"},
         ~Ended(attempt[q][n]),
         \A p \in Messages \ {q} : outbox'[p] = outbox[p] /\ attempt'[p] = attempt[p],
         \A k \in Numbers \ {n} : attempt'[q][k] = attempt[q][k]
  PROVE  Final(m)
<1>1. CASE m = q
  BY <1>1 DEF Final
<1>2. CASE m # q
  BY <1>2 DEF Final
<1> QED BY <1>1, <1>2

LEMMA FinalStep ==
  ASSUME Inv, [Next]_vars, NEW m \in Messages
  PROVE  Final(m)
<1>a. TypeOK /\ LogInv /\ RightInv
  BY DEF Inv
<1>1. ASSUME attempt' = attempt,
             outbox[m].status \in {"SENT", "FAILED", "SKIPPED"} => outbox'[m] = outbox[m]
      PROVE  Final(m)
  BY <1>1 DEF Final
<1>2. ASSUME NEW q \in Messages, Enqueue(q) \/ SkipWaiting(q) PROVE Final(m)
  BY <1>1, <1>2, <1>a DEF Enqueue, SkipWaiting, TypeOK
<1>3. ASSUME NEW q \in Messages, NEW n \in Numbers, FailReady(q, n) \/ SkipReady(q, n)
      PROVE  Final(m)
  BY <1>1, <1>3, <1>a DEF FailReady, SkipReady, TypeOK
<1>4. ASSUME NEW q \in Messages, NEW n \in Numbers, BeginDispatch(q, n) PROVE Final(m)
  <2>1. /\ outbox' = outbox /\ outbox[q].status = "LOCKED" /\ attempt[q][n].status = "CLAIMED"
        /\ attempt' = [attempt EXCEPT ![q][n].status = "DISPATCHING"]
    BY <1>4 DEF BeginDispatch, Owns
  <2>2. /\ \A k \in Numbers \ {n} : attempt'[q][k] = attempt[q][k]
        /\ \A p \in Messages \ {q} : attempt'[p] = attempt[p]
    BY <1>a, <2>1, AttemptWritten
  <2> QED BY <2>1, <2>2, FinalOne DEF Ended
<1>5. ASSUME NEW q \in Messages, NEW n \in Numbers, SkipAttempt(q, n) PROVE Final(m)
  <2>1. /\ outbox' = [outbox EXCEPT ![q] = Skipped(outbox[q])]
        /\ outbox[q].status = "LOCKED" /\ attempt[q][n].status = "CLAIMED"
        /\ attempt' = [attempt EXCEPT ![q][n].status = "SKIPPED"]
    BY <1>5 DEF SkipAttempt, Owns
  <2>2. /\ \A k \in Numbers \ {n} : attempt'[q][k] = attempt[q][k]
        /\ \A p \in Messages \ {q} : attempt'[p] = attempt[p]
    BY <1>a, <2>1, AttemptWritten
  <2>3. \A p \in Messages \ {q} : outbox'[p] = outbox[p]
    BY <1>a, <2>1 DEF TypeOK
  <2> QED BY <2>1, <2>2, <2>3, FinalOne DEF Ended
<1>6. ASSUME NEW a \in responses, CompleteAttempt(a) PROVE Final(m)
  <2>1. /\ a.msg \in Messages /\ a.num \in Numbers
    BY <1>a DEF TypeOK, Responses
  <2>2. /\ outbox' = [outbox EXCEPT ![a.msg] = Completed(outbox[a.msg], a.status)]
        /\ outbox[a.msg].status = "LOCKED" /\ attempt[a.msg][a.num].status = "DISPATCHING"
    BY <1>6 DEF CompleteAttempt, Owns
  <2>3. /\ \A k \in Numbers \ {a.num} : attempt'[a.msg][k] = attempt[a.msg][k]
        /\ \A p \in Messages \ {a.msg} : attempt'[p] = attempt[p]
    BY <1>6, <1>a, ResponseWritten
  <2>4. \A p \in Messages \ {a.msg} : outbox'[p] = outbox[p]
    BY <1>a, <2>1, <2>2 DEF TypeOK
  <2> QED BY <2>1, <2>2, <2>3, <2>4, FinalOne DEF Ended
<1>7. ASSUME NEW a \in responses, CompleteReady(a) PROVE Final(m)
  BY <1>1, <1>7, <1>a DEF CompleteReady, TypeOK
<1>8. CASE ClaimWithLease
  <2>1. PICK t \in Clock : \E S \in Batches(t) :
          /\ \A q \in S : outbox[q].attempts < MaxAttempts
          /\ outbox' = Locked(S, t)
          /\ attempt' = [q \in Messages |->
               IF q \in S
               THEN [attempt[q] EXCEPT ![outbox[q].attempts + 1] =
                       [status |-> "CLAIMED", expires |-> t + Lease]]
               ELSE attempt[q]]
    BY <1>8 DEF ClaimWithLease
  <2>2. PICK S \in Batches(t) :
          /\ \A q \in S : outbox[q].attempts < MaxAttempts
          /\ outbox' = Locked(S, t)
          /\ attempt' = [q \in Messages |->
               IF q \in S
               THEN [attempt[q] EXCEPT ![outbox[q].attempts + 1] =
                       [status |-> "CLAIMED", expires |-> t + Lease]]
               ELSE attempt[q]]
    BY <2>1
  <2>3. CASE m \notin S
    <3>1. outbox'[m] = outbox[m]
      BY <1>a, <2>2, <2>3, ClaimedRows
    <3>2. attempt'[m] = attempt[m]
      BY <2>2, <2>3
    <3> QED BY <3>1, <3>2 DEF Final
  <2>4. CASE m \in S
    <3>1. /\ outbox[m].status = "READY" /\ LogOK(m)
          /\ outbox[m].attempts \in 0..MaxAttempts
          /\ outbox[m].attempts + 1 \in Numbers
      BY <1>a, <2>2, <2>4, ClaimedRows
    <3>2. attempt[m][outbox[m].attempts + 1].status = "none"
      <4>1. outbox[m].attempts + 1 > outbox[m].attempts
        BY <3>1, ClockAssumption
      <4> QED BY <3>1, <4>1 DEF LogOK
    <3>3. \A k \in Numbers \ {outbox[m].attempts + 1} : attempt'[m][k] = attempt[m][k]
      BY <1>a, <2>2, <2>4, <3>1 DEF TypeOK
    <3> QED BY <3>1, <3>2, <3>3 DEF Final, Ended
  <2> QED BY <2>3, <2>4
<1>9. CASE ClaimReady
  <2>1. PICK t \in Clock : \E S \in Batches(t) :
          /\ \A q \in S : outbox[q].attempts < MaxAttempts
          /\ outbox' = Locked(S, t)
    BY <1>9 DEF ClaimReady
  <2>2. PICK S \in Batches(t) :
          /\ \A q \in S : outbox[q].attempts < MaxAttempts
          /\ outbox' = Locked(S, t)
    BY <2>1
  <2>3. outbox[m].status \in {"SENT", "FAILED", "SKIPPED"} => outbox'[m] = outbox[m]
    BY <1>a, <2>2, ClaimedRows
  <2> QED BY <1>1, <1>9, <2>3 DEF ClaimReady
<1>10. CASE RecoverExpired
  <2>1. PICK t \in Clock :
          /\ outbox' = [q \in Messages |->
               IF outbox[q].status = "LOCKED" /\ Expired(Current(q), t)
               THEN Recovered(outbox[q], Current(q).status) ELSE outbox[q]]
          /\ attempt' = [q \in Messages |-> [n \in Numbers |->
               IF Expired(attempt[q][n], t)
               THEN [attempt[q][n] EXCEPT !.status = IF @ = "CLAIMED" THEN "EXPIRED" ELSE "UNKNOWN"]
               ELSE attempt[q][n]]]
    BY <1>10 DEF RecoverExpired
  <2>2. \A n \in Numbers : Ended(attempt[m][n]) => ~Expired(attempt[m][n], t)
    BY DEF Ended, Expired, Active
  <2> QED BY <2>1, <2>2 DEF Final
<1>11. CASE QuarantineLegacy
  BY <1>1, <1>11 DEF QuarantineLegacy
<1>12. ASSUME outbox' = outbox, attempt' = attempt PROVE Final(m)
  BY <1>12 DEF Final
<1>13. ASSUME NEW p, Send(p) \/ Deliver(p) \/ LoseCall(p) PROVE Final(m)
  BY <1>12, <1>13 DEF Send, Deliver, LoseCall
<1>14. CASE SetPolicy \/ Tick \/ UNCHANGED vars
  BY <1>12, <1>14 DEF SetPolicy, Tick, vars
<1> QED BY <1>2, <1>3, <1>4, <1>5, <1>6, <1>7, <1>8, <1>9, <1>10, <1>11, <1>13, <1>14 DEF Next

\* No late response, expiry or quarantine writes an outcome again.
THEOREM OutcomesStay == Spec => OutcomesAreFinal
<1>1. Inv /\ [Next]_vars => \A m \in Messages :
        /\ outbox[m].status \in {"SENT", "FAILED", "SKIPPED"} => outbox'[m] = outbox[m]
        /\ \A n \in Numbers : Ended(attempt[m][n]) => attempt'[m][n] = attempt[m][n]
  BY FinalStep DEF Final
<1> QED BY <1>1, Invariance, PTL DEF Spec, OutcomesAreFinal

-----------------------------------------------------------------------------
\* The refinement mapping in terms of the invariant.
Mapped(m) ==
  /\ outbox[m].status = "absent" => Phase(m) = "none" /\ Record(m) = "none"
  /\ outbox[m].status = "READY" => Phase(m) = "open" /\ Record(m) = "pending"
  /\ outbox[m].status = "LOCKED" => Record(m) = "pending"
  /\ outbox[m].status = "LOCKED" /\ Current(m).status = "CLAIMED" => Phase(m) = "open"
  /\ Out(m) => Phase(m) = "committed"
  /\ outbox[m].status = "SENT" => Record(m) = "success" /\ sends[m] = 1
  /\ outbox[m].status \in {"FAILED", "SKIPPED"} => Record(m) = "failed"
  /\ outbox[m].status = "SKIPPED" /\ ~Out(m) => Phase(m) = "dropped"

LEMMA Mapping == Inv => \A m \in Messages : Mapped(m)
<1> SUFFICES ASSUME Inv, NEW m \in Messages PROVE Mapped(m) OBVIOUS
<1>1. LogOK(m) /\ RightOK(m)
  BY DEF Inv, LogInv, RightInv
<1>2. outbox[m].attempts = 0 => Current(m).status = "none"
  BY DEF Current, NoAttempt
<1>3. Agree(outbox[m], Current(m).status)
  BY <1>1 DEF LogOK
<1>4. outbox[m].status = "SENT" => sends[m] = 1
  BY <1>1 DEF RightOK
<1> QED BY <1>2, <1>3, <1>4 DEF Mapped, Phase, Record, Out, Agree

\* Initially the rows older workers locked are committed and the others have
\* not been asked for.
LEMMA ContractInit == Init => Contract!Init
<1> SUFFICES ASSUME Init PROVE Contract!Init OBVIOUS
<1>1. Inv /\ \A m \in Messages : Mapped(m)
  BY InvInit, Mapping
<1>2. ASSUME NEW m \in Messages
      PROVE  /\ Phase(m) = IF m \in LegacyMessages THEN "committed" ELSE "none"
             /\ Record(m) = IF m \in LegacyMessages THEN "pending" ELSE "none"
  <2>1. outbox[m] = IF m \in LegacyMessages THEN LegacyRow ELSE Absent
    BY DEF Init
  <2>2. Absent.status = "absent" /\ LegacyRow.status = "LOCKED" /\ LegacyRow.attempts = 1
    BY DEF Absent, LegacyRow
  <2>3. m \in LegacyMessages => Current(m).status = "none"
    BY <2>1, <2>2, ClockAssumption DEF Init, Current, NoAttempt, Numbers
  <2>4. m \in LegacyMessages => Out(m)
    BY <2>1, <2>2, <2>3 DEF Out
  <2> QED BY <1>1, <2>1, <2>2, <2>4 DEF Mapped
<1>3. PICK ran \in SUBSET LegacyMessages : sends = [m \in Messages |-> IF m \in ran THEN 1 ELSE 0]
  BY DEF Init
<1>4. sends \in [Messages -> 0..1] /\ \A m \in Messages \ LegacyMessages : sends[m] = 0
  BY <1>3
<1> QED BY <1>2, <1>4 DEF Contract!Init

\* A step that changes the rows of S in one and the same way.
Same(m) == Phase(m)' = Phase(m) /\ Record(m)' = Record(m)

\* Every step is a step of the contract or leaves what it can see alone.
LEMMA ContractStep == Inv /\ Inv' /\ [Next]_vars => [Contract!Next]_(Contract!vars)
<1> SUFFICES ASSUME Inv, Inv', [Next]_vars PROVE [Contract!Next]_(Contract!vars) OBVIOUS
<1> USE DEF provider
<1>a. TypeOK /\ LogInv /\ RightInv
  BY DEF Inv
<1>b. \A m \in Messages : Mapped(m) /\ Mapped(m)'
  <2>1. \A m \in Messages : Mapped(m)
    BY Mapping
  <2>2. (\A m \in Messages : Mapped(m))'
    BY Mapping, PTL
  <2> QED BY <2>1, <2>2
<1>c. \A m \in Messages : Moves(m)
  BY MovesStep
<1>s. ASSUME NEW m \in Messages, outbox'[m] = outbox[m], attempt'[m] = attempt[m] PROVE Same(m)
  BY <1>s, SameRow DEF Same
<1>S. ASSUME \A m \in Messages : Same(m), sends' = sends PROVE [Contract!Next]_(Contract!vars)
  BY <1>S DEF Contract!vars, Same
<1>C. ASSUME NEW S \in SUBSET Messages, sends' = sends, \A m \in Messages \ S : Same(m),
             \A m \in S : Phase(m) = "open" /\ Phase(m)' = "committed" /\ Record(m)' = Record(m)
      PROVE  Contract!Next
  <2>1. Contract!Commit(S)
    BY <1>C DEF Contract!Commit, Same
  <2> QED BY <2>1 DEF Contract!Next
<1>D. ASSUME NEW S \in SUBSET Messages, sends' = sends, \A m \in Messages \ S : Same(m),
             \A m \in S : Phase(m) = "open" /\ Phase(m)' = "dropped" /\ Record(m)' = "failed"
      PROVE  Contract!Next
  <2>1. Contract!Drop(S)
    BY <1>D DEF Contract!Drop, Same
  <2> QED BY <2>1 DEF Contract!Next
<1>L. ASSUME NEW S \in SUBSET Messages, NEW s \in {"pending", "success", "failed"},
             sends' = sends, \A m \in Messages \ S : Same(m),
             \A m \in S : /\ Phase(m) = "committed" /\ Phase(m)' = "committed"
                          /\ Record(m) = "pending" /\ Record(m)' = s
                          /\ s = "success" => sends[m] = 1
      PROVE  Contract!Next
  <2>1. Contract!Learn(S, s)
    BY <1>L DEF Contract!Learn, Same
  <2> QED BY <2>1 DEF Contract!Next
<1>l. ASSUME NEW m \in Messages, sends' = sends, Out(m), outbox[m].status = "LOCKED",
             outbox'[m].status \in {"SENT", "FAILED", "SKIPPED"},
             \A q \in Messages \ {m} : outbox'[q] = outbox[q] /\ attempt'[q] = attempt[q]
      PROVE  Contract!Next
  <2>1. Out(m)'
    BY <1>c, <1>l DEF Moves
  <2>2. \A q \in Messages \ {m} : Same(q)
    BY <1>l, <1>s
  <2>3. /\ Phase(m) = "committed" /\ Phase(m)' = "committed" /\ Record(m) = "pending"
        /\ outbox'[m].status = "SENT" => Record(m)' = "success" /\ sends[m] = 1
        /\ outbox'[m].status # "SENT" => Record(m)' = "failed"
    BY <1>b, <1>l, <2>1 DEF Mapped
  <2>4. CASE outbox'[m].status = "SENT"
    BY <1>L, <1>l, <2>2, <2>3, <2>4
  <2>5. CASE outbox'[m].status # "SENT"
    BY <1>L, <1>l, <2>2, <2>3, <2>5
  <2> QED BY <2>4, <2>5
<1>1. ASSUME NEW m \in Messages, Enqueue(m) PROVE Contract!Next
  <2>1. /\ outbox[m].status = "absent" /\ outbox'[m].status = "READY"
        /\ attempt' = attempt /\ sends' = sends
        /\ \A q \in Messages \ {m} : outbox'[q] = outbox[q]
    BY <1>1, <1>a DEF Enqueue, TypeOK, Absent
  <2>2. \A q \in Messages \ {m} : Same(q)
    BY <1>s, <2>1
  <2>3. Phase(m) = "none" /\ Phase(m)' = "open" /\ Record(m)' = "pending"
    BY <1>b, <2>1 DEF Mapped
  <2>4. Contract!Open(m)
    BY <2>1, <2>2, <2>3 DEF Contract!Open, Same
  <2> QED BY <2>4 DEF Contract!Next
<1>2. ASSUME NEW m \in Messages, SkipWaiting(m) PROVE Contract!Next
  <2>1. /\ outbox[m].status = "READY" /\ outbox'[m] = Skipped(outbox[m])
        /\ attempt' = attempt /\ sends' = sends /\ outbox[m] \in Rows
        /\ \A q \in Messages \ {m} : outbox'[q] = outbox[q]
    BY <1>2, <1>a DEF SkipWaiting, TypeOK
  <2>2. outbox'[m].status = "SKIPPED" /\ outbox'[m].attempts = outbox[m].attempts
    BY <2>1, SkippedColumns
  <2>3. Current(m)' = Current(m)
    BY <2>1, <2>2 DEF Current
  <2>4. ~Out(m)'
    BY <1>a, <2>1, <2>2, <2>3 DEF Out, LogInv, LogOK, Agree
  <2>5. Phase(m) = "open" /\ Phase(m)' = "dropped" /\ Record(m)' = "failed"
    BY <1>b, <2>1, <2>2, <2>4 DEF Mapped
  <2>6. \A q \in Messages \ {m} : Same(q)
    BY <1>s, <2>1
  <2>9. /\ {m} \in SUBSET Messages
        /\ \A p \in {m} : Phase(p) = "open" /\ Phase(p)' = "dropped" /\ Record(p)' = "failed"
    BY <2>5
  <2> QED BY <1>D, <2>1, <2>6, <2>9
<1>3. ASSUME NEW m \in Messages, NEW n \in Numbers, BeginDispatch(m, n) PROVE Contract!Next
  <2>1. /\ outbox' = outbox /\ sends' = sends
        /\ attempt' = [attempt EXCEPT ![m][n].status = "DISPATCHING"]
    BY <1>3 DEF BeginDispatch
  <2>2. outbox[m].attempts = n /\ outbox[m].status = "LOCKED" /\ Current(m).status = "CLAIMED"
    BY <1>3, <1>a, Owned DEF BeginDispatch
  <2>3. /\ attempt'[m][n].status = "DISPATCHING"
        /\ \A q \in Messages \ {m} : attempt'[q] = attempt[q]
    BY <1>a, <2>1, AttemptWritten
  <2>4. Current(m)'.status = "DISPATCHING"
    BY <2>1, <2>2, <2>3 DEF Current, Numbers
  <2>5. Out(m)'
    BY <2>1, <2>2, <2>4 DEF Out
  <2>6. /\ Phase(m) = "open" /\ Phase(m)' = "committed"
        /\ Record(m)' = Record(m)
    BY <1>b, <2>1, <2>2, <2>5 DEF Mapped
  <2>7. \A q \in Messages \ {m} : Same(q)
    BY <1>s, <2>1, <2>3
  <2>9. /\ {m} \in SUBSET Messages
        /\ \A p \in {m} : Phase(p) = "open" /\ Phase(p)' = "committed" /\ Record(p)' = Record(p)
    BY <2>6
  <2> QED BY <1>C, <2>1, <2>7, <2>9
<1>4. ASSUME NEW m \in Messages, NEW n \in Numbers, SkipAttempt(m, n) PROVE Contract!Next
  <2>1. /\ sends' = sends /\ outbox' = [outbox EXCEPT ![m] = Skipped(outbox[m])]
        /\ attempt' = [attempt EXCEPT ![m][n].status = "SKIPPED"]
    BY <1>4 DEF SkipAttempt
  <2>2. outbox[m].attempts = n /\ outbox[m].status = "LOCKED" /\ Current(m).status = "CLAIMED"
    BY <1>4, <1>a, Owned DEF SkipAttempt
  <2>3. /\ attempt'[m][n].status = "SKIPPED"
        /\ \A q \in Messages \ {m} : attempt'[q] = attempt[q]
    BY <1>a, <2>1, AttemptWritten
  <2>4. /\ outbox'[m].status = "SKIPPED" /\ outbox'[m].attempts = n
        /\ \A q \in Messages \ {m} : outbox'[q] = outbox[q]
    BY <1>a, <2>1, <2>2, SkippedColumns DEF TypeOK
  <2>5. Current(m)'.status = "SKIPPED"
    BY <2>3, <2>4 DEF Current, Numbers
  <2>6. ~Out(m)'
    BY <2>4, <2>5 DEF Out
  <2>7. Phase(m) = "open" /\ Phase(m)' = "dropped" /\ Record(m)' = "failed"
    BY <1>b, <2>2, <2>4, <2>6 DEF Mapped
  <2>8. \A q \in Messages \ {m} : Same(q)
    BY <1>s, <2>3, <2>4
  <2>9. /\ {m} \in SUBSET Messages
        /\ \A p \in {m} : Phase(p) = "open" /\ Phase(p)' = "dropped" /\ Record(p)' = "failed"
    BY <2>7
  <2> QED BY <1>D, <2>1, <2>8, <2>9
<1>5. ASSUME NEW m \in Messages, NEW n \in Numbers, FailReady(m, n) \/ SkipReady(m, n)
      PROVE  Contract!Next
  <2>1. /\ sends' = sends /\ attempt' = attempt /\ outbox[m].status = "LOCKED" /\ ~Leased(m, n)
        /\ outbox'[m].status \in {"FAILED", "SKIPPED"}
        /\ \A q \in Messages \ {m} : outbox'[q] = outbox[q]
    BY <1>5, <1>a, SkippedColumns DEF FailReady, SkipReady, TypeOK, Rows
  <2>2. n = outbox[m].attempts /\ LogOK(m)
    BY <1>5, <1>a DEF FailReady, SkipReady, RightInv, RightOK, LogInv
  <2>3. Current(m).status = "none"
    BY <1>a, <2>1, <2>2, Unleased
  <2>4. Out(m)
    BY <2>1, <2>3 DEF Out
  <2> QED BY <1>l, <2>1, <2>4
<1>6. ASSUME NEW p \in permits, Send(p) PROVE [Contract!Next]_(Contract!vars)
  <2>1. outbox' = outbox /\ attempt' = attempt /\ sends' = sends
    BY <1>6 DEF Send
  <2> QED BY <1>S, <1>s, <2>1
<1>7. ASSUME NEW c \in calls, Deliver(c) PROVE Contract!Next
  <2>1. PICK m \in Messages : c = <<m, c[2]>> /\ c[2] \in Numbers /\ c[1] = m
    BY <1>a DEF TypeOK, Claims
  <2>2. outbox' = outbox /\ attempt' = attempt
    BY <1>7 DEF Deliver
  <2>3. sends' = [sends EXCEPT ![m] = sends[m] + 1]
    BY <1>7, <2>1 DEF Deliver
  <2>4. Out(m) /\ sends[m] = 0
    BY <1>a, <2>1 DEF RightInv, RightOK
  <2>5. Phase(m) = "committed" /\ sends' = [sends EXCEPT ![m] = 1]
    BY <1>b, <2>3, <2>4 DEF Mapped
  <2>6. \A q \in Messages : Same(q)
    BY <1>s, <2>2
  <2>7. Contract!Run(m)
    BY <2>4, <2>5, <2>6 DEF Contract!Run, Same
  <2> QED BY <2>7 DEF Contract!Next
<1>8. ASSUME NEW c \in calls, LoseCall(c) PROVE [Contract!Next]_(Contract!vars)
  <2>1. outbox' = outbox /\ attempt' = attempt /\ sends' = sends
    BY <1>8 DEF LoseCall
  <2> QED BY <1>S, <1>s, <2>1
<1>9. ASSUME NEW a \in responses, CompleteAttempt(a) PROVE Contract!Next
  <2>1. /\ a.msg \in Messages /\ a.num \in Numbers
        /\ a.status \in {"SENT", "FAILED", "UNKNOWN", "OTHER"}
    BY <1>a DEF TypeOK, Responses
  <2>2. /\ sends' = sends
        /\ outbox' = [outbox EXCEPT ![a.msg] = Completed(outbox[a.msg], a.status)]
        /\ \E t \in Clock : Owns(a.msg, a.num, "DISPATCHING", t)
    BY <1>9 DEF CompleteAttempt
  <2>3. outbox[a.msg].status = "LOCKED" /\ Current(a.msg).status = "DISPATCHING"
    BY <1>a, <2>1, <2>2, Owned
  <2>4. /\ outbox'[a.msg].status \in {"SENT", "FAILED"}
        /\ \A q \in Messages \ {a.msg} : outbox'[q] = outbox[q]
    BY <1>a, <2>1, <2>2, CompletedColumns DEF TypeOK
  <2>5. \A q \in Messages \ {a.msg} : attempt'[q] = attempt[q]
    BY <1>9, <1>a, ResponseWritten
  <2>6. Out(a.msg)
    BY <2>3 DEF Out
  <2> QED BY <1>l, <2>1, <2>2, <2>3, <2>4, <2>5, <2>6
<1>10. ASSUME NEW a \in responses, CompleteReady(a) PROVE Contract!Next
  <2>1. /\ a.msg \in Messages /\ a.num \in Numbers
        /\ a.status \in {"SENT", "FAILED", "UNKNOWN", "OTHER"}
    BY <1>a DEF TypeOK, Responses
  <2>2. /\ sends' = sends /\ attempt' = attempt /\ ~Leased(a.msg, a.num)
        /\ outbox' = [outbox EXCEPT ![a.msg] = Completed(outbox[a.msg], a.status)]
        /\ outbox[a.msg].status = "LOCKED"
    BY <1>10 DEF CompleteReady
  <2>3. a.num = outbox[a.msg].attempts /\ LogOK(a.msg)
    BY <1>a, <2>1 DEF RightInv, RightOK, LogInv
  <2>4. Current(a.msg).status = "none"
    BY <1>a, <2>1, <2>2, <2>3, Unleased
  <2>5. /\ outbox'[a.msg].status \in {"SENT", "FAILED"}
        /\ \A q \in Messages \ {a.msg} : outbox'[q] = outbox[q]
    BY <1>a, <2>1, <2>2, CompletedColumns DEF TypeOK
  <2>6. Out(a.msg)
    BY <2>2, <2>4 DEF Out
  <2> QED BY <1>l, <2>1, <2>2, <2>5, <2>6
<1>11. CASE ClaimWithLease
  <2>1. PICK t \in Clock : \E S \in Batches(t) :
          /\ \A q \in S : outbox[q].attempts < MaxAttempts
          /\ outbox' = Locked(S, t)
          /\ attempt' = [q \in Messages |->
               IF q \in S
               THEN [attempt[q] EXCEPT ![outbox[q].attempts + 1] =
                       [status |-> "CLAIMED", expires |-> t + Lease]]
               ELSE attempt[q]]
    BY <1>11 DEF ClaimWithLease
  <2>2. PICK S \in Batches(t) :
          /\ \A q \in S : outbox[q].attempts < MaxAttempts
          /\ outbox' = Locked(S, t)
          /\ attempt' = [q \in Messages |->
               IF q \in S
               THEN [attempt[q] EXCEPT ![outbox[q].attempts + 1] =
                       [status |-> "CLAIMED", expires |-> t + Lease]]
               ELSE attempt[q]]
    BY <2>1
  <2>3. ASSUME NEW m \in Messages \ S PROVE Same(m)
    <3>1. outbox'[m] = outbox[m]
      BY <1>a, <2>2, <2>3, ClaimedRows
    <3>2. attempt'[m] = attempt[m]
      BY <2>2, <2>3
    <3> QED BY <1>s, <3>1, <3>2
  <2>4. ASSUME NEW m \in Messages, m \in S PROVE Same(m)
    <3>1. /\ outbox[m].status = "READY" /\ outbox'[m].status = "LOCKED"
          /\ outbox[m].attempts \in 0..MaxAttempts
          /\ outbox[m].attempts + 1 \in Numbers
          /\ outbox'[m].attempts = outbox[m].attempts + 1
      BY <1>a, <2>2, <2>4, ClaimedRows
    <3>2. attempt'[m][outbox[m].attempts + 1].status = "CLAIMED"
      BY <1>a, <2>2, <2>4, <3>1 DEF TypeOK
    <3>3. Current(m)'.status = "CLAIMED"
      BY <3>1, <3>2 DEF Current
    <3> QED BY <1>b, <3>1, <3>3 DEF Mapped, Same
  <2>5. sends' = sends
    BY <1>11 DEF ClaimWithLease
  <2> QED BY <1>S, <2>3, <2>4, <2>5
<1>12. CASE ClaimReady
  <2>1. PICK t \in Clock : \E S \in Batches(t) :
          /\ \A q \in S : outbox[q].attempts < MaxAttempts
          /\ outbox' = Locked(S, t)
    BY <1>12 DEF ClaimReady
  <2>2. PICK S \in Batches(t) :
          /\ \A q \in S : outbox[q].attempts < MaxAttempts
          /\ outbox' = Locked(S, t)
    BY <2>1
  <2>3. attempt' = attempt /\ sends' = sends /\ S \in SUBSET Messages
    BY <1>12, <2>2 DEF ClaimReady, Batches, Due
  <2>4. \A m \in Messages \ S : Same(m)
    BY <1>a, <1>s, <2>2, <2>3, ClaimedRows
  <2>5. ASSUME NEW m \in S
        PROVE  Phase(m) = "open" /\ Phase(m)' = "committed" /\ Record(m)' = Record(m)
    <3>1. /\ m \in Messages /\ outbox[m].status = "READY" /\ LogOK(m)
          /\ outbox'[m].status = "LOCKED"
          /\ outbox[m].attempts \in 0..MaxAttempts
          /\ outbox[m].attempts + 1 \in Numbers
          /\ outbox'[m].attempts = outbox[m].attempts + 1
      BY <1>a, <2>2, <2>3, <2>5, ClaimedRows
    <3>2. outbox[m].attempts + 1 > outbox[m].attempts /\ outbox[m].attempts + 1 # 0
      BY <3>1, ClockAssumption
    <3>3. Current(m)'.status = "none"
      BY <2>3, <3>1, <3>2 DEF Current, LogOK
    <3>4. Out(m)'
      BY <3>1, <3>3 DEF Out
    <3> QED BY <1>b, <3>1, <3>4 DEF Mapped
  <2> QED BY <1>C, <2>3, <2>4, <2>5
<1>13. CASE RecoverExpired
  <2>1. PICK t \in Clock :
          /\ outbox' = [q \in Messages |->
               IF outbox[q].status = "LOCKED" /\ Expired(Current(q), t)
               THEN Recovered(outbox[q], Current(q).status) ELSE outbox[q]]
          /\ attempt' = [q \in Messages |-> [n \in Numbers |->
               IF Expired(attempt[q][n], t)
               THEN [attempt[q][n] EXCEPT !.status = IF @ = "CLAIMED" THEN "EXPIRED" ELSE "UNKNOWN"]
               ELSE attempt[q][n]]]
    BY <1>13 DEF RecoverExpired
  <2>2. sends' = sends
    BY <1>13 DEF RecoverExpired
  <2> DEFINE Over == {m \in Messages : outbox[m].status = "LOCKED" /\ Expired(Current(m), t)}
             S == {m \in Over : Current(m).status = "DISPATCHING"}
  <2>3. ASSUME NEW m \in Over
        PROVE  /\ Current(m).status = "CLAIMED" => outbox'[m].status = "READY"
               /\ Current(m).status # "CLAIMED" => outbox'[m].status = "FAILED"
    BY <1>a, <2>1, RecoveredColumns DEF TypeOK
  <2>4. ASSUME NEW m \in S
        PROVE  /\ Phase(m) = "committed" /\ Phase(m)' = "committed"
               /\ Record(m) = "pending" /\ Record(m)' = "failed"
    <3>1. outbox[m].status = "LOCKED" /\ outbox'[m].status = "FAILED" /\ Out(m) /\ Out(m)'
      BY <2>3 DEF Out
    <3> QED BY <1>b, <3>1 DEF Mapped
  <2>5. ASSUME NEW m \in Messages \ S PROVE Same(m)
    <3>1. CASE m \in Over
      <4>1. Current(m).status = "CLAIMED"
        BY <2>5, <3>1 DEF Expired, Active
      <4> QED BY <1>b, <2>3, <3>1, <4>1 DEF Mapped, Same
    <3>2. CASE m \notin Over
      <4>1. outbox'[m] = outbox[m]
        BY <2>1, <3>2
      <4>2. ~Expired(Current(m), t)
        <5>1. outbox[m].attempts = 0 => Current(m).status = "none"
          BY DEF Current, NoAttempt
        <5>2. outbox[m].status \in {"absent", "READY", "LOCKED", "SENT", "FAILED", "SKIPPED"}
          BY <1>a DEF TypeOK, Rows
        <5>3. outbox[m].status # "LOCKED" => Current(m).status \notin Active
          BY <1>a, <5>1, <5>2 DEF LogInv, LogOK, Agree, Active
        <5> QED BY <3>2, <5>3 DEF Expired
      <4>3. Current(m)' = Current(m)
        BY <2>1, <4>1, <4>2, <1>a, CurrentAttempt DEF Current
      <4> QED BY <4>1, <4>3 DEF Same, Phase, Record
    <3> QED BY <3>1, <3>2
  <2>6. S \in SUBSET Messages
    OBVIOUS
  <2> HIDE DEF Over, S
  <2> QED BY <1>L, <2>2, <2>4, <2>5, <2>6
<1>14. CASE QuarantineLegacy
  <2>1. PICK old \in SUBSET Messages :
          /\ \A q \in old : outbox[q].status = "LOCKED" /\ Current(q).status = "none"
          /\ outbox' = [q \in Messages |->
               IF q \in old
               THEN [outbox[q] EXCEPT !.status = "FAILED", !.providerStatus = "UNKNOWN",
                                      !.lockedAt = Null]
               ELSE outbox[q]]
    BY <1>14 DEF QuarantineLegacy
  <2>2. attempt' = attempt /\ sends' = sends
    BY <1>14 DEF QuarantineLegacy
  <2>3. \A m \in Messages \ old : Same(m)
    BY <1>s, <2>1, <2>2
  <2>4. ASSUME NEW m \in old
        PROVE  /\ Phase(m) = "committed" /\ Phase(m)' = "committed"
               /\ Record(m) = "pending" /\ Record(m)' = "failed"
    <3>1. outbox[m].status = "LOCKED" /\ outbox'[m].status = "FAILED" /\ Out(m) /\ Out(m)'
      BY <1>a, <2>1 DEF Out, TypeOK, Rows
    <3> QED BY <1>b, <3>1 DEF Mapped
  <2> QED BY <1>L, <2>2, <2>3, <2>4
<1>15. CASE SetPolicy \/ Tick \/ UNCHANGED vars
  <2>1. outbox' = outbox /\ attempt' = attempt /\ sends' = sends
    BY <1>15 DEF SetPolicy, Tick, vars
  <2> QED BY <1>S, <1>s, <2>1
<1> QED BY <1>1, <1>2, <1>3, <1>4, <1>5, <1>6, <1>7, <1>8, <1>9, <1>10, <1>11, <1>12,
           <1>13, <1>14, <1>15 DEF Next

\* The outbox keeps the contract of external effects: a message is sent at most
\* once, only after a committed dispatch, never after it was dropped.
THEOREM KeepsContract == Spec => ImplementsContract
<1>1. Init => Contract!Init
  BY ContractInit
<1>2. Inv /\ Inv' /\ [Next]_vars => [Contract!Next]_(Contract!vars)
  BY ContractStep
<1> QED BY <1>1, <1>2, Invariance, PTL DEF Spec, Contract!Spec, ImplementsContract
=============================================================================
