------------------------ MODULE MessageRecipientsProofs ------------------------
(***************************************************************************)
(* Proofs about Identities and MessageRecipients, for any devices, Toss    *)
(* users, messages, rewards, templates and consents.                       *)
(***************************************************************************)
EXTENDS MessageRecipients, FiniteSetTheorems, TLAPS

TypesOK == IdentityTypeOK /\ RecipientTypeOK

\* What a Toss login left behind: an identity of the age the login saw is still
\* active, and its account is the one the device reaches.
ViaOK(d) ==
  via[d] # None =>
    LET t == via[d][1] IN
    /\ via[d][2] <= unlinks[t]
    /\ via[d][2] = unlinks[t] => IsActive(t) /\ Canonical(d) = toss[t].user

\* A session stands for the account its device reaches.
SessionOK(d) == session[d] # None => session[d] = Canonical(d) /\ session[d] \in account

\* An identity in use is sealed and belongs to an account.
TossOK(t) == IsActive(t) => toss[t].sealed = "sealed" /\ toss[t].user \in account

\* A reward's calls name the identity it is bound to, which is its owner's.
RewardOK(r) ==
  /\ paid[r] \subseteq {bound[r]} \ {None}
  /\ bound[r] # None => owner[r] # None /\ anon[bound[r]].user = owner[r]

AccountInv == (\A d \in Devices : ViaOK(d) /\ SessionOK(d)) /\ (\A t \in Tosses : TossOK(t))
RewardInv == \A r \in Rewards : RewardOK(r)
Inv == TypesOK /\ AccountInv /\ RewardInv

-----------------------------------------------------------------------------
\* A Toss row that is active is a linked one.
LEMMA ActiveIsLinked ==
  ASSUME IdentityTypeOK, NEW t \in Tosses, IsActive(t)
  PROVE  toss[t] \in Linked
BY DEF IdentityTypeOK, IsActive, Unlinked

\* The account a device reaches is a user.
LEMMA CanonicalUser ==
  ASSUME IdentityTypeOK, NEW d \in Devices
  PROVE  Canonical(d) \in Users /\ Canonical(d) # None
BY IdentityAssumption DEF IdentityTypeOK, Canonical, Users

\* What linking a Toss identity to the account of a session gives.
LEMMA UpsertedRow ==
  ASSUME IdentityTypeOK, NEW t \in Tosses, NEW u \in Users, NEW n \in Times
  PROVE  LET row == Upserted(t, u, n) IN
         /\ row \in Linked /\ row.status = "ACTIVE" /\ row.sealed = "sealed"
         /\ row.user = IF IsActive(t) THEN toss[t].user ELSE u
<1> toss[t] \in Linked \/ ~IsActive(t)
  BY ActiveIsLinked
<1> QED BY DEF Upserted, OwnerAfter, Linked, IsActive

\* A row of the anonymous identities that is not there belongs to nobody.
LEMMA OwnedIsVerified ==
  ASSUME NEW d \in Devices, NEW u \in Users, OwnsAnonymous(u, d)
  PROVE  anon[d].user = u /\ u # None
BY IdentityAssumption DEF OwnsAnonymous, Users

\* A recipient is the key of the row, and the account's at this moment.
LEMMA RecipientIsAddressed ==
  ASSUME TypesOK, AccountInv, NEW m \in Messages, outbox[m] # NotQueued, NEW k \in RecipientOf(outbox[m])
  PROVE  /\ k = outbox[m].key /\ k \in Devices \cup Tosses
         /\ k \in Devices => OwnsAnonymous(outbox[m].user, k)
         /\ k \in Tosses => IsActive(k) /\ toss[k].user = outbox[m].user /\ toss[k].sealed = "sealed"
<1> DEFINE row == outbox[m]
<1>1. row \in OutboxRows
  BY DEF TypesOK, RecipientTypeOK
<1>2. CASE row.kind = "ANONYMOUS_KEY"
  <2>1. k = row.key /\ OwnsAnonymous(row.user, k) /\ k \in Devices
    BY <1>1, <1>2 DEF RecipientOf, OutboxRows
  <2> QED BY <2>1, IdentityAssumption
<1>3. CASE row.kind = "TOSS_USER_KEY"
  <2>1. k = row.key /\ k \in FirstActive(row.user) /\ k \in Tosses
    BY <1>1, <1>3 DEF RecipientOf, OutboxRows
  <2>2. IsActive(k) /\ toss[k].user = row.user
    BY <2>1 DEF FirstActive, ActiveOf
  <2> QED BY <2>1, <2>2, IdentityAssumption DEF AccountInv, TossOK
<1> QED BY <1>1, <1>2, <1>3 DEF OutboxRows

-----------------------------------------------------------------------------
\* The invariant holds at the start.
LEMMA InvInit == RecipientInit => Inv
<1> SUFFICES ASSUME RecipientInit PROVE Inv
  OBVIOUS
<1>1. IdentityTypeOK
  BY IdentityAssumption DEF RecipientInit, IdentityInit, IdentityTypeOK
<1>2. RecipientTypeOK
  BY DEF RecipientInit, RecipientTypeOK
<1>3. AccountInv
  BY DEF RecipientInit, IdentityInit, AccountInv, ViaOK, SessionOK, TossOK, IsActive, Unlinked
<1>4. RewardInv
  BY DEF RecipientInit, RewardInv, RewardOK
<1> QED BY <1>1, <1>2, <1>3, <1>4 DEF Inv, TypesOK

\* Every step of the accounts keeps their rows well formed.
LEMMA IdentityTypes == IdentityTypeOK /\ IdentityNext => IdentityTypeOK'
<1> SUFFICES ASSUME IdentityTypeOK, IdentityNext PROVE IdentityTypeOK'
  OBVIOUS
<1> USE DEF IdentityTypeOK
<1>1. ASSUME NEW d \in Devices, Bootstrap(d) PROVE IdentityTypeOK'
  BY <1>1, CanonicalUser DEF Bootstrap, Ensured, Verified
<1>2. ASSUME NEW d \in Devices, NEW t \in Tosses, NEW n \in Times, TossLogin(d, t, n)
      PROVE  IdentityTypeOK'
  <2> DEFINE row == Upserted(t, session[d], n)
  <2>1. session[d] \in Users
    BY <1>2 DEF TossLogin
  <2>2. row \in Linked /\ row.user \in Users
    BY <2>1, UpsertedRow DEF Linked
  <2> HIDE DEF row
  <2>3. /\ toss' = [toss EXCEPT ![t] = row]
        /\ link' = link \/ link' = [link EXCEPT ![d] = row.user]
        /\ session' = [session EXCEPT ![d] = row.user]
        /\ via' = [via EXCEPT ![d] = <<t, unlinks[t]>>]
        /\ UNCHANGED <<account, anon, unlinks>>
    BY <1>2 DEF TossLogin, LinkedTo, row
  <2> QED BY <2>2, <2>3
<1>3. ASSUME NEW c \in Callbacks, Unlink(c) PROVE IdentityTypeOK'
  <2>1. c.key \in Tosses /\ toss[c.key] \in Linked
    BY <1>3, ActiveIsLinked DEF Unlink
  <2>2. toss' \in [Tosses -> Linked \cup {Unlinked}]
    BY <1>3, <2>1 DEF Unlink, Revoked, Linked
  <2>3. unlinks' \in [Tosses -> 0 .. MaxUnlinks]
    BY <1>3, <2>1, IdentityAssumption DEF Unlink
  <2> QED BY <1>3, <2>2, <2>3 DEF Unlink
<1>4. ASSUME NEW u \in Users, NEW n \in Times, Touch(u, n) PROVE IdentityTypeOK'
  <2>1. \A t \in ActiveOf(u) : toss[t] \in Linked
    BY ActiveIsLinked DEF ActiveOf
  <2> QED BY <1>4, <2>1 DEF Touch, Linked
<1>5. ASSUME NEW d \in Devices, NEW u \in Users, ManualMerge(d, u) PROVE IdentityTypeOK'
  BY <1>5 DEF ManualMerge, LinkedTo
<1>6. ASSUME NEW d \in Devices, RevokeAnonymous(d) PROVE IdentityTypeOK'
  BY <1>6 DEF RevokeAnonymous, Verified
<1> QED BY <1>1, <1>2, <1>3, <1>4, <1>5, <1>6 DEF IdentityNext

\* So does every step of the messages and rewards.
LEMMA RecipientTypes ==
  ASSUME Inv, RecipientNext PROVE RecipientTypeOK'
<1> USE DEF RecipientTypeOK
<1>0. IdentityTypeOK /\ RecipientTypeOK
  BY DEF Inv, TypesOK
<1>1. CASE UNCHANGED recipientVars
  BY <1>0, <1>1 DEF recipientVars
<1>2. ASSUME NEW m \in Messages, NEW d \in Devices, EnqueueAnonymous(m, d) PROVE RecipientTypeOK'
  <2>1. session[d] \in Users
    BY <1>0, <1>2 DEF EnqueueAnonymous, IdentityTypeOK
  <2> QED BY <1>0, <1>2, <2>1 DEF EnqueueAnonymous, OutboxRows
<1>3. ASSUME NEW m \in Messages, NEW u \in Users, EnqueueToss(m, u) PROVE RecipientTypeOK'
  <2>1. PICK t \in Tosses :
          outbox' = [outbox EXCEPT ![m] = [user |-> u, kind |-> "TOSS_USER_KEY", key |-> t]]
    BY <1>3 DEF EnqueueToss, FirstActive, ActiveOf
  <2> QED BY <1>0, <1>3, <2>1 DEF EnqueueToss, OutboxRows
<1>4. ASSUME NEW m \in Messages, NEW template \in Templates, Dispatch(m, template) PROVE RecipientTypeOK'
  <2>1. PICK k \in RecipientOf(outbox[m]) : delivered' = [delivered EXCEPT ![m] = k]
    BY <1>4 DEF Dispatch
  <2>2. k \in Devices \cup Tosses
    BY <1>4, RecipientIsAddressed DEF Inv, Dispatch
  <2> QED BY <1>0, <1>4, <2>1, <2>2 DEF Dispatch
<1>5. ASSUME NEW r \in Rewards, NEW d \in Devices, BindReward(r, d) PROVE RecipientTypeOK'
  <2>1. session[d] \in Users /\ BoundTo(bound[r], d) = d
    BY <1>0, <1>5 DEF BindReward, IdentityTypeOK
  <2> QED BY <1>0, <1>5, <2>1 DEF BindReward
<1>6. ASSUME NEW r \in Rewards, PayReward(r) PROVE RecipientTypeOK'
  BY <1>0, <1>6 DEF PayReward
<1>7. ASSUME NEW u \in Users, NEW c \in Consents, SetConsent(u, c) PROVE RecipientTypeOK'
  BY <1>0, <1>7 DEF SetConsent, ConsentAfter
<1> QED BY <1>1, <1>2, <1>3, <1>4, <1>5, <1>6, <1>7 DEF RecipientNext

-----------------------------------------------------------------------------
\* Every step of the accounts keeps sessions, logins and identities consistent.
LEMMA AccountStep ==
  ASSUME IdentityTypeOK, AccountInv, IdentityNext PROVE AccountInv'
<1>1. ASSUME NEW d \in Devices, Bootstrap(d) PROVE AccountInv'
  <2>1. UNCHANGED <<link, toss, unlinks, via>> /\ account' = account \cup {Canonical(d)}
        /\ session' = [session EXCEPT ![d] = Canonical(d)]
    BY <1>1 DEF Bootstrap, Ensured
  <2>2. \A e \in Devices : ViaOK(e)'
    BY <2>1 DEF AccountInv, ViaOK, Canonical, IsActive
  <2>3. \A e \in Devices : SessionOK(e)'
    BY <2>1 DEF AccountInv, SessionOK, Canonical, IdentityTypeOK
  <2>4. \A t \in Tosses : TossOK(t)'
    BY <2>1 DEF AccountInv, TossOK, IsActive
  <2> QED BY <2>2, <2>3, <2>4 DEF AccountInv
<1>2. ASSUME NEW d \in Devices, NEW t \in Tosses, NEW n \in Times, TossLogin(d, t, n)
      PROVE  AccountInv'
  <2> DEFINE row == Upserted(t, session[d], n)
  <2>1. session[d] \in Users /\ session[d] = Canonical(d) /\ session[d] \in account
    BY <1>2 DEF TossLogin, IdentityTypeOK, AccountInv, SessionOK
  <2>2. /\ row \in Linked /\ row.status = "ACTIVE" /\ row.sealed = "sealed"
        /\ row.user = IF IsActive(t) THEN toss[t].user ELSE session[d]
    BY <2>1, UpsertedRow
  <2>3. row.user \in Users /\ row.user # None /\ row.user \in account
    BY <2>1, <2>2, IdentityAssumption DEF Linked, Users, AccountInv, TossOK
  <2> HIDE DEF row
  <2>4. /\ toss' = [toss EXCEPT ![t] = row]
        /\ link' = IF row.user = session[d] THEN link ELSE [link EXCEPT ![d] = row.user]
        /\ session' = [session EXCEPT ![d] = row.user]
        /\ via' = [via EXCEPT ![d] = <<t, unlinks[t]>>]
        /\ UNCHANGED <<account, unlinks>>
    BY <1>2 DEF TossLogin, LinkedTo, row
  <2>5. Canonical(d)' = row.user
    BY <2>1, <2>3, <2>4 DEF Canonical, IdentityTypeOK
  <2>6. \A e \in Devices \ {d} : Canonical(e)' = Canonical(e) /\ via'[e] = via[e] /\ session'[e] = session[e]
    BY <2>4 DEF Canonical, IdentityTypeOK
  <2>7. toss'[t] = row /\ \A s \in Tosses \ {t} : toss'[s] = toss[s]
    BY <2>4 DEF IdentityTypeOK
  <2>8. via'[d] = <<t, unlinks[t]>> /\ session'[d] = row.user
    BY <2>4 DEF IdentityTypeOK
  <2>9. ViaOK(d)'
    <3>1. unlinks'[t] \in Nat /\ unlinks' = unlinks
      BY <2>4, IdentityAssumption DEF IdentityTypeOK
    <3> QED BY <3>1, <2>2, <2>5, <2>7, <2>8 DEF ViaOK, IsActive
  <2>10. ASSUME NEW e \in Devices \ {d} PROVE ViaOK(e)'
    <3>1. CASE via[e] = None
      BY <3>1, <2>6 DEF ViaOK
    <3>2. CASE via[e] # None
      <4>1. ViaOK(e) /\ via[e][1] \in Tosses
        BY <3>2 DEF AccountInv, IdentityTypeOK
      <4>2. CASE via[e][1] = t
        BY <4>1, <4>2, <3>2, <2>2, <2>4, <2>6, <2>7 DEF ViaOK, IsActive
      <4>3. CASE via[e][1] # t
        BY <4>1, <4>3, <3>2, <2>4, <2>6, <2>7 DEF ViaOK, IsActive
      <4> QED BY <4>2, <4>3
    <3> QED BY <3>1, <3>2
  <2>11. \A e \in Devices : SessionOK(e)'
    BY <2>3, <2>4, <2>5, <2>6, <2>8 DEF AccountInv, SessionOK
  <2>12. \A s \in Tosses : TossOK(s)'
    BY <2>2, <2>3, <2>4, <2>7 DEF AccountInv, TossOK, IsActive
  <2> QED BY <2>9, <2>10, <2>11, <2>12 DEF AccountInv
<1>3. ASSUME NEW c \in Callbacks, Unlink(c) PROVE AccountInv'
  <2>1. /\ c.key \in Tosses /\ toss' = Revoked(c.key)
        /\ unlinks' = [unlinks EXCEPT ![c.key] = @ + 1]
        /\ UNCHANGED <<account, link, session, via>>
    BY <1>3 DEF Unlink
  <2>2. ~IsActive(c.key)' /\ \A s \in Tosses \ {c.key} : toss'[s] = toss[s]
    BY <1>3, <2>1, ActiveIsLinked DEF Unlink, Revoked, IsActive, IdentityTypeOK, Linked
  <2>3. \A e \in Devices : SessionOK(e)'
    BY <2>1 DEF AccountInv, SessionOK, Canonical
  <2>4. \A s \in Tosses : TossOK(s)'
    BY <2>1, <2>2 DEF AccountInv, TossOK, IsActive
  <2>5. ASSUME NEW e \in Devices, via[e] # None PROVE ViaOK(e)'
    <3>1. /\ ViaOK(e) /\ via[e][1] \in Tosses /\ via[e][2] \in Nat
          /\ unlinks[via[e][1]] \in Nat
      BY <2>5, IdentityAssumption DEF AccountInv, IdentityTypeOK
    <3>2. CASE via[e][1] = c.key
      <4>1. unlinks'[c.key] = unlinks[c.key] + 1
        BY <2>1 DEF IdentityTypeOK
      <4>2. via[e][2] <= unlinks[c.key]
        BY <3>1, <3>2, <2>5 DEF ViaOK
      <4> QED BY <4>1, <4>2, <3>1, <3>2, <2>1 DEF ViaOK
    <3>3. CASE via[e][1] # c.key
      <4>1. unlinks'[via[e][1]] = unlinks[via[e][1]] /\ toss'[via[e][1]] = toss[via[e][1]]
        BY <2>1, <2>2, <3>1, <3>3 DEF IdentityTypeOK
      <4> QED BY <4>1, <3>1, <2>1, <2>5 DEF ViaOK, IsActive, Canonical
    <3> QED BY <3>2, <3>3
  <2>6. \A e \in Devices : ViaOK(e)'
    BY <2>1, <2>5 DEF ViaOK
  <2> QED BY <2>3, <2>4, <2>6 DEF AccountInv
<1>4. ASSUME NEW u \in Users, NEW n \in Times, Touch(u, n) PROVE AccountInv'
  <2>1. \A t \in Tosses : IsActive(t)' = IsActive(t)
                          /\ (IsActive(t) => toss'[t].user = toss[t].user /\ toss'[t].sealed = toss[t].sealed)
    BY <1>4, ActiveIsLinked DEF Touch, ActiveOf, IsActive, Linked
  <2>2. UNCHANGED <<account, link, unlinks, session, via>>
    BY <1>4 DEF Touch
  <2>3. \A e \in Devices : via[e] # None => via[e][1] \in Tosses
    BY DEF IdentityTypeOK
  <2> QED BY <2>1, <2>2, <2>3 DEF AccountInv, ViaOK, SessionOK, TossOK, Canonical
<1>5. ASSUME NEW d \in Devices, NEW u \in Users, ManualMerge(d, u) PROVE AccountInv'
  <2>1. /\ session'[d] = None /\ via'[d] = None
        /\ \A e \in Devices \ {d} : session'[e] = session[e] /\ via'[e] = via[e] /\ Canonical(e)' = Canonical(e)
        /\ UNCHANGED <<account, toss, unlinks>>
    BY <1>5 DEF ManualMerge, LinkedTo, Canonical, IdentityTypeOK
  <2> QED BY <2>1 DEF AccountInv, ViaOK, SessionOK, TossOK, IsActive
<1>6. ASSUME NEW d \in Devices, RevokeAnonymous(d) PROVE AccountInv'
  <2>1. UNCHANGED <<account, link, toss, unlinks, session, via>>
    BY <1>6 DEF RevokeAnonymous
  <2> QED BY <2>1 DEF AccountInv, ViaOK, SessionOK, TossOK, IsActive, Canonical
<1> QED BY <1>1, <1>2, <1>3, <1>4, <1>5, <1>6 DEF IdentityNext

\* An anonymous identity never changes its account.
LEMMA IdentityIsKept ==
  ASSUME IdentityTypeOK, IdentityNext, NEW d \in Devices, anon[d].user # None
  PROVE  anon'[d].user = anon[d].user
<1>1. anon[d] \in Verified
  BY DEF IdentityTypeOK, Unverified
<1>2. ASSUME NEW e \in Devices, Bootstrap(e) PROVE anon'[d].user = anon[d].user
  <2>1. CASE d = e
    BY <1>1, <1>2, <2>1 DEF Bootstrap, Storable, Unverified, IdentityTypeOK, Verified
  <2>2. CASE d # e
    BY <1>2, <2>2 DEF Bootstrap, IdentityTypeOK
  <2> QED BY <2>1, <2>2
<1>3. ASSUME NEW e \in Devices, RevokeAnonymous(e) PROVE anon'[d].user = anon[d].user
  BY <1>1, <1>3 DEF RevokeAnonymous, IdentityTypeOK, Verified
<1>4. CASE UNCHANGED anon
  BY <1>4
<1> QED BY <1>2, <1>3, <1>4 DEF IdentityNext, TossLogin, Unlink, Touch, ManualMerge

\* Every step keeps the calls of a reward to one identity of its owner.
LEMMA RewardStep ==
  ASSUME Inv, RecipientNext PROVE RewardInv'
<1>0. IdentityTypeOK /\ RecipientTypeOK /\ RewardInv
  BY DEF Inv, TypesOK
<1>1. CASE IdentityNext /\ UNCHANGED recipientVars
  <2> SUFFICES ASSUME NEW r \in Rewards PROVE RewardOK(r)'
    BY DEF RewardInv
  <2>1. UNCHANGED <<owner, bound, paid>> /\ bound[r] \in Devices \cup {None} /\ RewardOK(r)
    BY <1>0, <1>1 DEF recipientVars, RecipientTypeOK, RewardInv
  <2>2. bound[r] # None => anon'[bound[r]].user = anon[bound[r]].user
    BY <1>0, <1>1, <2>1, IdentityIsKept DEF RewardOK
  <2> QED BY <2>1, <2>2 DEF RewardOK
<1>2. ASSUME NEW q \in Rewards, NEW d \in Devices, BindReward(q, d) PROVE RewardInv'
  <2> SUFFICES ASSUME NEW r \in Rewards PROVE RewardOK(r)'
    BY DEF RewardInv
  <2> DEFINE u == session[d]
  <2>1. /\ u \in Users /\ u # None /\ anon[d].user = u
        /\ owner' = [owner EXCEPT ![q] = u] /\ bound' = [bound EXCEPT ![q] = d]
        /\ bound[q] \in {None, d} /\ d # None
        /\ UNCHANGED <<anon, paid>>
    BY <1>0, <1>2, OwnedIsVerified, IdentityAssumption
       DEF BindReward, IdentityTypeOK, identityVars, BoundTo
  <2> HIDE DEF u
  <2>2. RewardOK(r)
    BY <1>0 DEF RewardInv
  <2>3. CASE r = q
    BY <1>0, <2>1, <2>2, <2>3 DEF RewardOK, RecipientTypeOK
  <2>4. CASE r # q
    BY <1>0, <2>1, <2>2, <2>4 DEF RewardOK, RecipientTypeOK
  <2> QED BY <2>3, <2>4
<1>3. ASSUME NEW q \in Rewards, PayReward(q) PROVE RewardInv'
  BY <1>0, <1>3 DEF PayReward, identityVars, RewardInv, RewardOK, RecipientTypeOK
<1>4. CASE UNCHANGED <<identityVars, owner, bound, paid>>
  BY <1>0, <1>4 DEF identityVars, RewardInv, RewardOK
<1> QED BY <1>1, <1>2, <1>3, <1>4
        DEF RecipientNext, EnqueueAnonymous, EnqueueToss, Dispatch, SetConsent

\* The invariant is kept by every step.
LEMMA InvStep == Inv /\ [RecipientNext]_allVars => Inv'
<1> SUFFICES ASSUME Inv, [RecipientNext]_allVars PROVE Inv'
  OBVIOUS
<1>1. CASE RecipientNext
  <2>1. IdentityTypeOK' /\ AccountInv'
    <3>1. CASE IdentityNext
      BY <3>1, IdentityTypes, AccountStep DEF Inv, TypesOK
    <3>2. CASE UNCHANGED identityVars
      BY <3>2 DEF Inv, TypesOK, identityVars, IdentityTypeOK, AccountInv, ViaOK, SessionOK,
                  TossOK, Canonical, IsActive
    <3> QED BY <1>1, <3>1, <3>2
            DEF RecipientNext, EnqueueAnonymous, EnqueueToss, Dispatch, BindReward, PayReward, SetConsent
  <2> QED BY <1>1, <2>1, RecipientTypes, RewardStep DEF Inv, TypesOK
<1>2. CASE UNCHANGED allVars
  BY <1>2 DEF Inv, TypesOK, allVars, identityVars, recipientVars, IdentityTypeOK, RecipientTypeOK,
              AccountInv, RewardInv, ViaOK, SessionOK, TossOK, RewardOK, Canonical, IsActive
<1> QED BY <1>1, <1>2

-----------------------------------------------------------------------------
\* The invariant holds in every reachable state.
THEOREM Invariance == RecipientSpec => []Inv
BY InvInit, InvStep, PTL DEF RecipientSpec

\* All devices that last logged in with one Toss identity reach the one account
\* it belongs to, whatever accounts and links each had before.
THEOREM OneAccount == RecipientSpec => []OneAccountPerTossUser
<1>1. Inv => OneAccountPerTossUser
  <2> SUFFICES ASSUME Inv, NEW d \in Devices, via[d] # None, NEW t, t = via[d][1],
                      IsActive(t), via[d][2] = unlinks[t]
               PROVE  Canonical(d) = toss[t].user /\ toss[t].user \in account
    BY DEF Inv, TypesOK, OneAccountPerTossUser
  <2>1. ViaOK(d) /\ t \in Tosses
    BY DEF Inv, TypesOK, AccountInv, IdentityTypeOK
  <2> QED BY <2>1 DEF ViaOK, Inv, AccountInv, TossOK
<1> QED BY <1>1, Invariance, PTL

\* Every call of a reward names one and the same identity of its owner.
THEOREM OneRecipient == RecipientSpec => []OneRewardRecipient
<1>1. Inv => OneRewardRecipient
  <2> SUFFICES ASSUME Inv, NEW r \in Rewards
               PROVE  Cardinality(paid[r]) <= 1 /\ \A d \in paid[r] : anon[d].user = owner[r]
    BY DEF Inv, TypesOK, OneRewardRecipient
  <2>1. RewardOK(r)
    BY DEF Inv, RewardInv
  <2>2. paid[r] = {} \/ paid[r] = {bound[r]}
    BY <2>1 DEF RewardOK
  <2>3. Cardinality(paid[r]) <= 1
    <3>1. CASE paid[r] = {}
      <4>1. Cardinality({}) = 0
        BY FS_EmptySet, Zenon
      <4> QED BY <3>1, <4>1
    <3>2. CASE paid[r] = {bound[r]}
      <4>1. Cardinality({bound[r]}) = 1
        BY FS_Singleton, Zenon
      <4> QED BY <3>2, <4>1
    <3> QED BY <2>2, <3>1, <3>2
  <2> QED BY <2>1, <2>3 DEF RewardOK
<1> QED BY <1>1, Invariance, PTL

\* A message is dispatched only to the key it was addressed to, while that key
\* is sealed and its account's, and its account opted in where it must.
THEOREM KeepsTheAddress == RecipientSpec => OnlyTheAddressee
<1> DEFINE Addressed(m) ==
      delivered'[m] # delivered[m] =>
        LET k == delivered'[m]
            u == outbox[m].user
        IN /\ k = outbox[m].key
           /\ k \in Devices => anon[k] = [user |-> u, revoked |-> FALSE]
           /\ k \in Tosses => toss[k].user = u /\ toss[k].sealed # Tombstone
           /\ PurposeOf[m] = "MARKETING" => "marketing" \in consent[u]
<1>1. Inv /\ [RecipientNext]_allVars => [\A m \in Messages : Addressed(m)]_allVars
  <2> SUFFICES ASSUME Inv, RecipientNext, NEW m \in Messages, delivered'[m] # delivered[m]
               PROVE  Addressed(m)
    OBVIOUS
  <2>1. PICK q \in Messages, template \in Templates : Dispatch(q, template)
    BY DEF RecipientNext, recipientVars, EnqueueAnonymous, EnqueueToss, BindReward, PayReward, SetConsent
  <2>2. q = m
    BY <2>1 DEF Dispatch, Inv, TypesOK, RecipientTypeOK
  <2>3. delivered'[m] \in RecipientOf(outbox[m]) /\ outbox[m] # NotQueued
    BY <2>1, <2>2 DEF Dispatch, Inv, TypesOK, RecipientTypeOK
  <2>4. PurposeOf[m] = "MARKETING" => "marketing" \in consent[outbox[m].user]
    BY <2>1, <2>2 DEF Dispatch, DispatchGate, MarketingOptedIn
  <2> QED BY <2>3, <2>4, RecipientIsAddressed DEF Inv, OwnsAnonymous, Tombstone
<1> QED BY <1>1, Invariance, PTL DEF RecipientSpec, OnlyTheAddressee
=============================================================================
