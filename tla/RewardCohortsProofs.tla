------------------------ MODULE RewardCohortsProofs ------------------------
(***************************************************************************)
(* What holds of every instance of PromotionCampaigns and RewardCohorts:   *)
(* budgets are kept, rewards are fixed, the newest running campaign pays,  *)
(* and a person is paid once for overlapping periods, from one welcome     *)
(* span, by eligibilities that are never rewritten.                        *)
(***************************************************************************)
EXTENDS RewardCohorts, SetSumsProofs

-----------------------------------------------------------------------------
(***************************************************************************)
(* Campaigns.  What a campaign has given away on time - all that is        *)
(* charged to it but the rewards that were revived - is within its limits: *)
(* that is inductive, BudgetIsKept is not, for a revived reward leaves the *)
(* one side and joins the other.  A campaign that operators ended is not   *)
(* active until they activate it.                                          *)
(***************************************************************************)
RowsMade == {r \in Requests : reward[r] # NoReward}
OnTime(c) == Charged(c) \ revived

RowsInv == IsFiniteSet(RowsMade) /\ revived \subseteq RowsMade
OnTimeInv == \A c \in Campaigns :
  /\ SumOf(OnTime(c)) <= Budget[c]
  /\ MaxCount[c] # Null => Cardinality(OnTime(c)) <= MaxCount[c]
EndedInv == \A c \in ended : campaign[c] # "ACTIVE"
CampaignInv == CampaignTypeOK /\ RowsInv /\ OnTimeInv /\ EndedInv

(***************************************************************************)
(* Cohorts.  A person's subject row was made by an account that was alive  *)
(* then, so an account that is alive now joined no earlier; the ledger     *)
(* rows of the claims and the claimed eligibilities are in one-to-one      *)
(* correspondence, and no outcome of a row undoes it.                      *)
(***************************************************************************)
AccountsInv ==
  /\ \A u \in Recipients : joined[u] # Null => joined[u] <= now
  /\ deleted \subseteq {u \in Recipients : joined[u] # Null}
  /\ \A u, v \in Recipients : SubjectOf[u] = SubjectOf[v] /\ Live(u) /\ Live(v) => u = v

WindowOf(s, u, p) ==
  /\ SubjectOf[u] = s /\ joined[u] = subject[s].firstSeen
  /\ subject[s].endsAt = WelcomeEnd(p, subject[s].firstSeen)
SubjectsInv == \A s \in Subjects : subject[s] # Unregistered =>
  /\ subject[s].firstSeen <= now
  /\ subject[s].cohort = "WELCOME" => \E u \in Recipients, p \in CohortPolicies : WindowOf(s, u, p)
  /\ \A u \in Recipients : SubjectOf[u] = s /\ Live(u) => subject[s].firstSeen <= joined[u]

EarnedInv == \A s \in Subjects : \A p \in Recorded(s) :
  /\ subject[s] # Unregistered /\ eligibility[s][p].basis = subject[s].cohort
  /\ eligibility[s][p].basis = "WELCOME" =>
       subject[s].firstSeen <= eligibility[s][p].earnedAt /\ eligibility[s][p].earnedAt < subject[s].endsAt

PeriodsInv == \A s \in Subjects :
  /\ IsFiniteSet(Recorded(s)) /\ Cardinality(Recorded(s)) <= MaxPerSubject
  /\ \A p, q \in Recorded(s) : p # q => p[2] < q[1] \/ q[2] < p[1]

ClaimRows == {r \in ClaimRequests : reward[r] # NoReward}
ClaimsInv ==
  /\ \A s \in Subjects : \A p \in Recorded(s) : eligibility[s][p].claim # NoClaim =>
       LET r == eligibility[s][p].claim
       IN reward[r] # NoReward /\ SubjectOf[reward[r].user] = s /\ reward[r].amount = eligibility[s][p].amount
  /\ \A s, t \in Subjects : \A p \in Recorded(s), q \in Recorded(t) :
       eligibility[s][p].claim = eligibility[t][q].claim /\ eligibility[s][p].claim # NoClaim => s = t /\ p = q
  /\ \A r \in ClaimRows : \E p \in Recorded(SubjectOf[reward[r].user]) :
       eligibility[SubjectOf[reward[r].user]][p].claim = r

CohortInv == /\ CohortTypeOK /\ AccountsInv /\ SubjectsInv /\ EarnedInv /\ PeriodsInv /\ ClaimsInv

-----------------------------------------------------------------------------
(***************************************************************************)
(* Campaigns.  The sums of SumOf before and after a step: `old` and `new`  *)
(* are the ledger then and now.                                            *)
(***************************************************************************)
\* Some of the rows, with their amounts, cost no more than all of them.
LEMMA FewerCostLess ==
  ASSUME NEW old, NEW new, NEW S, IsFiniteSet(S), NEW R \in SUBSET S,
         \A r \in S : old[r].amount \in Nat, \A r \in R : new[r].amount = old[r].amount
  PROVE  /\ Total([r \in R |-> new[r].amount], R) \in Nat
         /\ Total([r \in S |-> old[r].amount], S) \in Nat
         /\ Total([r \in R |-> new[r].amount], R) <= Total([r \in S |-> old[r].amount], S)
         /\ Cardinality(R) \in Nat /\ Cardinality(S) \in Nat /\ Cardinality(R) <= Cardinality(S)
<1> DEFINE v == [r \in R |-> new[r].amount]
           w == [r \in S |-> old[r].amount]
<1>1. IsFiniteSet(R) /\ Cardinality(R) \in Nat /\ Cardinality(S) \in Nat /\ Cardinality(R) <= Cardinality(S)
  BY FS_Subset, FS_CardinalityType
<1>2. (\A x \in S : w[x] \in Nat) /\ \A x \in R : v[x] \in Nat /\ v[x] = w[x]
  OBVIOUS
<1> HIDE DEF v, w
<1>3. Total(v, R) = Total(w, R)
  BY <1>1, <1>2, TotalSees
<1>4. Total(w, R) <= Total(w, S)
  BY <1>2, TotalGrows
<1>5. Total(v, R) \in Nat /\ Total(w, S) \in Nat
  BY <1>1, <1>2, TotalIsNat
<1>6. /\ Total(v, R) \in Nat /\ Total(w, S) \in Nat
      /\ Total(v, R) <= Total(w, S)
  BY <1>3, <1>4, <1>5
<1> QED BY <1>1, <1>6 DEF v, w

\* A row that is added costs its amount.
LEMMA OneMoreCosts ==
  ASSUME NEW S, IsFiniteSet(S), NEW r, r \notin S, NEW T, T = S \cup {r},
         NEW v, NEW w, v[r] \in Nat, \A q \in S : w[q] \in Nat /\ v[q] = w[q]
  PROVE  Total(v, T) = Total(w, S) + v[r] /\ Cardinality(T) = Cardinality(S) + 1
<1>1. Cardinality(T) = Cardinality(S) + 1
  BY FS_AddElement
<1>2. (\A x \in S : v[x] \in Int /\ w[x] = v[x] /\ w[x] \in Int) /\ v[r] \in Int
  OBVIOUS
<1>3. Total(v, T) = Total(v, S) + v[r]
  BY <1>2, TotalAdds
<1>4. Total(v, S) = Total(w, S)
  BY <1>2, TotalSees
<1> QED BY <1>1, <1>3, <1>4

\* A campaign that is not refused is active, in its window, and has room.
LEMMA WhoMayPay ==
  ASSUME CampaignTypeOK, NEW c \in Campaigns, NEW usage, usage.amount \in Int, usage.count \in Int,
         NEW t \in Int, NEW a \in Int, UnavailableReason(c, usage, t, a) = "None"
  PROVE  /\ campaign[c] = "ACTIVE" /\ Runs(c, t) /\ usage.amount + a <= Budget[c]
         /\ MaxCount[c] # Null => usage.count + 1 <= MaxCount[c]
<1> USE CampaignAssumption DEF CampaignTypeOK, CampaignStatuses, StatusReason, UnavailableReason, Runs, Null
<1>1. campaign[c] = "ACTIVE"
  OBVIOUS
<1>2. StartsAt[c] \in Int /\ EndsAt[c] \in Int
  OBVIOUS
<1>3. StartsAt[c] <= t /\ t < EndsAt[c]
  BY <1>1, <1>2
<1>4. /\ ~(usage.amount + a > Budget[c])
      /\ ~(MaxCount[c] # Null /\ usage.count + 1 > MaxCount[c])
  BY <1>1, <1>3
<1>5. Budget[c] \in Int /\ MaxCount[c] \in Int
  OBVIOUS
<1> QED BY <1>1, <1>3, <1>4, <1>5

\* What is charged are rows that were made, finitely many, with an amount.
LEMMA ChargedRows ==
  ASSUME CampaignTypeOK, RowsInv
  PROVE  /\ \A c : Charged(c) \subseteq RowsMade /\ IsFiniteSet(Charged(c)) /\ IsFiniteSet(OnTime(c))
         /\ \A C : CommittedTo(C) \subseteq RowsMade /\ IsFiniteSet(CommittedTo(C))
         /\ \A r \in RowsMade : reward[r] \in Rewards /\ reward[r].amount \in Nat
<1>1. \A r \in RowsMade : reward[r] \in Rewards /\ reward[r].amount \in Nat
  BY CampaignAssumption DEF CampaignTypeOK, Rewards, RowsMade
<1>2. \A c : Charged(c) \in SUBSET RowsMade /\ OnTime(c) \in SUBSET RowsMade
  BY DEF Charged, OnTime, RowsMade, NoReward
<1>3. \A C : CommittedTo(C) \in SUBSET RowsMade
  BY DEF CommittedTo, Committed, RowsMade, NoReward
<1>4. IsFiniteSet(RowsMade)
  BY DEF RowsInv
<1> HIDE DEF RowsMade
<1> QED BY <1>1, <1>2, <1>3, <1>4, FS_Subset

\* What a feature has committed is a pair of naturals, and no less than what
\* one of its campaigns has given away on time.
LEMMA UsageIsNat ==
  ASSUME CampaignTypeOK, RowsInv
  PROVE  Usage.amount \in Nat /\ Usage.count \in Nat
<1> DEFINE C == CommittedTo(Stored \cup {EnvCampaign})
<1>1. IsFiniteSet(C) /\ \A r \in C : reward[r].amount \in Nat
  BY ChargedRows
<1>2. Usage.amount = Total([r \in C |-> reward[r].amount], C) /\ Usage.count = Cardinality(C)
  BY DEF Usage, SumOf
<1> HIDE DEF C
<1>3. C \in SUBSET C
  OBVIOUS
<1> QED BY <1>1, <1>2, <1>3, FewerCostLess

LEMMA UsageCounts ==
  ASSUME CampaignTypeOK, RowsInv, NEW c \in Stored
  PROVE  /\ Usage.amount \in Nat /\ Usage.count \in Nat
         /\ SumOf(OnTime(c)) \in Nat /\ SumOf(OnTime(c)) <= Usage.amount
         /\ Cardinality(OnTime(c)) \in Nat /\ Cardinality(OnTime(c)) <= Usage.count
<1> DEFINE C == CommittedTo(Stored \cup {EnvCampaign})
<1>1. OnTime(c) \in SUBSET C
  BY DEF OnTime, Charged, CommittedTo, Committed
<1>2. IsFiniteSet(C) /\ \A r \in C : reward[r].amount \in Nat
  BY ChargedRows
<1>3. Usage.amount = Total([r \in C |-> reward[r].amount], C) /\ Usage.count = Cardinality(C)
  BY DEF Usage, SumOf
<1> HIDE DEF C
<1> QED BY <1>1, <1>2, <1>3, FewerCostLess DEF SumOf

\* A grant that its campaign can pay keeps the limits.
LEMMA GrantKeepsLimits ==
  ASSUME CampaignInv, CampaignTypeOK', NEW r \in Requests, reward[r] = NoReward,
         NEW u \in Recipients, NEW a \in Amounts, NEW c,
         c \in Campaigns => c \in Stored /\ UnavailableReason(c, Usage, now, a) = "None",
         reward' = Inserted(r, NewReward(u, c, a)), revived' = revived
  PROVE  RowsInv' /\ OnTimeInv'
<1> USE DEF CampaignInv
<1>1. reward' = [reward EXCEPT ![r] = NewReward(u, c, a)]
  BY DEF Inserted, CampaignTypeOK
<1>2. /\ reward'[r] = NewReward(u, c, a) /\ \A q \in Requests \ {r} : reward'[q] = reward[q]
      /\ NewReward(u, c, a) # NoReward
  BY <1>1 DEF CampaignTypeOK, NewReward, NoReward
<1>3. RowsMade' = RowsMade \cup {r} /\ r \notin RowsMade
  BY <1>2 DEF RowsMade
<1>4. RowsInv'
  BY <1>3, FS_AddElement DEF RowsInv
<1>5. r \notin revived
  BY <1>3 DEF RowsInv
<1>6. ASSUME NEW d \in Campaigns
      PROVE  /\ SumOf(OnTime(d))' <= Budget[d]
             /\ MaxCount[d] # Null => Cardinality(OnTime(d)') <= MaxCount[d]
  <2>0. /\ SumOf(OnTime(d)) <= Budget[d]
        /\ MaxCount[d] # Null => Cardinality(OnTime(d)) <= MaxCount[d]
    BY DEF OnTimeInv
  <2>1. \A q \in OnTime(d) : q # r /\ q \in Requests /\ reward[q].amount \in Nat /\ reward'[q].amount = reward[q].amount
    BY <1>2, <1>3, ChargedRows DEF OnTime, Charged
  <2>2. IsFiniteSet(OnTime(d))
    BY ChargedRows
  <2>3. CASE d # c
    <3>1. OnTime(d)' = OnTime(d)
      BY <1>2, <1>3, <2>3 DEF OnTime, Charged, NewReward, NoReward
    <3>2. Total([q \in OnTime(d) |-> reward'[q].amount], OnTime(d)) <= Total([q \in OnTime(d) |-> reward[q].amount], OnTime(d))
      BY <2>1, <2>2, FewerCostLess
    <3>3. /\ SumOf(OnTime(d))' = Total([q \in OnTime(d) |-> reward'[q].amount], OnTime(d))
          /\ SumOf(OnTime(d)) = Total([q \in OnTime(d) |-> reward[q].amount], OnTime(d))
      BY <3>1, Zenon DEF SumOf
    <3>4. SumOf(OnTime(d))' <= SumOf(OnTime(d)) /\ SumOf(OnTime(d))' \in Int /\ SumOf(OnTime(d)) \in Int
      BY <2>1, <2>2, <3>2, <3>3, FewerCostLess
    <3> QED BY <2>0, <3>1, <3>4, CampaignAssumption
  <2>4. CASE d = c
    <3>1. OnTime(d)' = OnTime(d) \cup {r}
      BY <1>2, <1>5, <2>4 DEF OnTime, Charged, NewReward
    <3>2. reward'[r].amount = a /\ a \in Nat
      BY <1>2, CampaignAssumption DEF NewReward
    <3>0. /\ SumOf(OnTime(d))' = Total([q \in OnTime(d)' |-> reward'[q].amount], OnTime(d)')
          /\ SumOf(OnTime(d)) = Total([q \in OnTime(d) |-> reward[q].amount], OnTime(d))
      BY DEF SumOf
    <3>3. /\ SumOf(OnTime(d))' = SumOf(OnTime(d)) + a
          /\ Cardinality(OnTime(d)') = Cardinality(OnTime(d)) + 1
      <4> DEFINE S == OnTime(d)
                 T == OnTime(d)'
                 v == [q \in T |-> reward'[q].amount]
                 w == [q \in S |-> reward[q].amount]
      <4>1. /\ IsFiniteSet(S) /\ r \notin S /\ T = S \cup {r}
            /\ \A q \in S : reward[q].amount \in Nat /\ reward'[q].amount = reward[q].amount
        BY <2>1, <2>2, <3>1
      <4> HIDE DEF S, T
      <4>2. v[r] = a /\ v[r] \in Nat /\ \A q \in S : w[q] \in Nat /\ v[q] = w[q]
        BY <3>2, <4>1
      <4> HIDE DEF v, w
      <4>3. Total(v, T) = Total(w, S) + v[r] /\ Cardinality(T) = Cardinality(S) + 1
        BY <4>1, <4>2, OneMoreCosts
      <4> QED BY <3>0, <4>2, <4>3 DEF S, T, v, w
    <3>4. /\ Usage.amount + a <= Budget[c]
          /\ MaxCount[c] # Null => Usage.count + 1 <= MaxCount[c]
      BY <2>4, <3>2, UsageCounts, WhoMayPay DEF CampaignTypeOK, Times
    <3>5. /\ SumOf(OnTime(d)) \in Nat /\ SumOf(OnTime(d)) <= Usage.amount
          /\ Cardinality(OnTime(d)) \in Nat /\ Cardinality(OnTime(d)) <= Usage.count
          /\ Usage.amount \in Nat /\ Usage.count \in Nat
      BY <2>4, UsageCounts
    <3>6. Budget[c] \in Int /\ MaxCount[c] \in Int
      BY <2>4, CampaignAssumption DEF Null
    <3> QED BY <2>4, <3>2, <3>3, <3>4, <3>5, <3>6
  <2> QED BY <2>3, <2>4
<1> QED BY <1>4, <1>6 DEF OnTimeInv

\* A row made of a resolved campaign is a ledger row.
LEMMA InsertKeepsType ==
  ASSUME CampaignTypeOK, NEW r \in Requests, NEW u \in Recipients, NEW a \in Amounts,
         NEW c \in Campaigns \cup {EnvCampaign}, reward' = Inserted(r, NewReward(u, c, a)),
         UNCHANGED <<campaign, revived, ended, now>>
  PROVE  CampaignTypeOK'
<1>1. NewReward(u, c, a) \in Rewards
  BY DEF NewReward, Rewards, Outcomes
<1>2. reward' \in [Requests -> Rewards \cup {NoReward}]
  BY <1>1 DEF CampaignTypeOK, Inserted
<1> QED BY <1>2 DEF CampaignTypeOK

\* A retry of a request that has a row leaves the ledger as it is.
LEMMA RetryKeepsRow ==
  ASSUME CampaignTypeOK, NEW r \in Requests, reward[r] # NoReward, NEW row, reward' = Inserted(r, row)
  PROVE  reward' = reward
BY DEF Inserted, CampaignTypeOK

\* What Resolve may come back with.
LEMMA ResolvedMayPay ==
  ASSUME NEW a, NEW c \in Resolve(a)
  PROVE  /\ c \in Campaigns \cup {EnvCampaign}
         /\ c \in Campaigns => c \in Stored /\ UnavailableReason(c, Usage, now, a) = "None"
BY CampaignAssumption DEF Resolve, EnvResolved, FirstOf, LoadedRows, Stored

\* An outcome changes nothing of a row but its status, and a success stays.
LEMMA SettlingKeepsTerms ==
  ASSUME CampaignTypeOK, NEW r \in Requests, SettleReward(r)
  PROVE  /\ \A q \in Requests \ {r} : reward'[q] = reward[q]
         /\ reward[r] # NoReward /\ reward'[r] # NoReward
         /\ reward'[r].user = reward[r].user /\ reward'[r].campaign = reward[r].campaign
         /\ reward'[r].amount = reward[r].amount
         /\ reward[r].status = "success" => reward'[r].status = "success"
<1>1. PICK s \in Outcomes : reward' = [reward EXCEPT ![r].status = Settled(@, s)]
  BY DEF SettleReward
<1>2. reward[r] # NoReward /\ reward[r] \in Rewards
  BY DEF SettleReward, CampaignTypeOK
<1>3. \A q \in Requests \ {r} : reward'[q] = reward[q]
  BY <1>1 DEF CampaignTypeOK
<1>4. reward'[r] = [reward[r] EXCEPT !.status = Settled(reward[r].status, s)]
  BY <1>1 DEF CampaignTypeOK
<1>5. /\ reward'[r].user = reward[r].user /\ reward'[r].campaign = reward[r].campaign
      /\ reward'[r].amount = reward[r].amount /\ reward'[r].status = Settled(reward[r].status, s)
  BY <1>2, <1>4 DEF Rewards
<1>6. Settled(reward[r].status, s) \in Outcomes
  BY <1>2 DEF Settled, Outcomes, Rewards
<1>7. reward'[r] # NoReward
  BY <1>5, <1>6 DEF NoReward, Outcomes
<1>8. reward[r].status = "success" => reward'[r].status = "success"
  BY <1>5 DEF Settled
<1> QED BY <1>2, <1>3, <1>5, <1>7, <1>8

\* An outcome keeps the limits: it takes its row out of what counts, or leaves
\* it where it is; a failed row that comes back is revived.
LEMMA SettlingKeepsLimits ==
  ASSUME CampaignInv, CampaignTypeOK', NEW r \in Requests, SettleReward(r)
  PROVE  RowsInv' /\ OnTimeInv'
<1> USE DEF CampaignInv
<1>1. PICK s \in Outcomes :
        /\ reward' = [reward EXCEPT ![r].status = Settled(@, s)]
        /\ revived' = IF reward[r].status = "failed" /\ s = "success" THEN revived \cup {r} ELSE revived
  BY DEF SettleReward
<1>2. reward[r] # NoReward /\ reward[r] \in Rewards
  BY DEF SettleReward, CampaignTypeOK
<1>3. reward'[r] = [reward[r] EXCEPT !.status = Settled(reward[r].status, s)]
  BY <1>1 DEF CampaignTypeOK
<1>4. /\ reward'[r].status = Settled(reward[r].status, s) /\ reward'[r].campaign = reward[r].campaign
      /\ reward'[r].amount = reward[r].amount
  BY <1>2, <1>3 DEF Rewards
<1>5. \A q \in Requests \ {r} : reward'[q] = reward[q]
  BY <1>1 DEF CampaignTypeOK
<1>6. Settled(reward[r].status, s) \in Outcomes
  BY <1>2 DEF Settled, Outcomes, Rewards
<1>7. RowsMade' = RowsMade /\ r \in RowsMade
  BY <1>2, <1>4, <1>5, <1>6 DEF RowsMade, NoReward, Outcomes
<1>8. RowsInv'
  BY <1>1, <1>7 DEF RowsInv
<1>9. ASSUME NEW d \in Campaigns
      PROVE  /\ SumOf(OnTime(d))' <= Budget[d]
             /\ MaxCount[d] # Null => Cardinality(OnTime(d)') <= MaxCount[d]
  <2>1. /\ SumOf(OnTime(d)) <= Budget[d]
        /\ MaxCount[d] # Null => Cardinality(OnTime(d)) <= MaxCount[d]
    BY DEF OnTimeInv
  <2>2. \A q \in OnTime(d)' : q \in OnTime(d)
    <3> SUFFICES ASSUME NEW q \in OnTime(d)' PROVE q \in OnTime(d)
      OBVIOUS
    <3>1. q \in Requests /\ reward'[q].status \in {"pending", "success"} /\ reward'[q].campaign = d /\ q \notin revived'
      BY DEF OnTime, Charged
    <3>2. CASE q # r
      BY <1>1, <1>5, <3>1, <3>2 DEF OnTime, Charged
    <3>3. CASE q = r
      <4>1. reward[r].status \in Outcomes
        BY <1>2 DEF Rewards
      <4>2. reward[r].status # "failed"
        BY <1>1, <1>4, <3>1, <3>3 DEF Settled, Outcomes
      <4> QED BY <1>1, <1>4, <3>1, <3>3, <4>1, <4>2 DEF OnTime, Charged, Outcomes
    <3> QED BY <3>2, <3>3
  <2>3. /\ OnTime(d)' \in SUBSET OnTime(d) /\ IsFiniteSet(OnTime(d))
        /\ \A q \in OnTime(d) : reward[q].amount \in Nat
        /\ \A q \in OnTime(d)' : reward'[q].amount = reward[q].amount
    <3>1. \A q \in OnTime(d) : q \in RowsMade /\ q \in Requests
      BY ChargedRows DEF OnTime, Charged
    <3>2. IsFiniteSet(OnTime(d)) /\ \A q \in OnTime(d) : reward[q].amount \in Nat
      BY <3>1, ChargedRows
    <3> QED BY <1>4, <1>5, <2>2, <3>1, <3>2
  <2>4. /\ Total([q \in OnTime(d)' |-> reward'[q].amount], OnTime(d)')
             <= Total([q \in OnTime(d) |-> reward[q].amount], OnTime(d))
        /\ Total([q \in OnTime(d)' |-> reward'[q].amount], OnTime(d)') \in Nat
        /\ Total([q \in OnTime(d) |-> reward[q].amount], OnTime(d)) \in Nat
        /\ Cardinality(OnTime(d)') \in Nat /\ Cardinality(OnTime(d)) \in Nat
        /\ Cardinality(OnTime(d)') <= Cardinality(OnTime(d))
    BY <2>3, FewerCostLess
  <2>5. SumOf(OnTime(d))' \in Nat /\ SumOf(OnTime(d)) \in Nat /\ SumOf(OnTime(d))' <= SumOf(OnTime(d))
    BY <2>4 DEF SumOf
  <2>6. Budget[d] \in Int /\ MaxCount[d] \in Int
    BY CampaignAssumption DEF Null
  <2> QED BY <2>1, <2>4, <2>5, <2>6
<1> QED BY <1>8, <1>9 DEF OnTimeInv

\* A step that leaves the ledger alone keeps the limits.
LEMMA LedgerLeftAlone ==
  ASSUME CampaignInv, CampaignTypeOK', EndedInv', UNCHANGED <<reward, revived>>
  PROVE  CampaignInv'
BY DEF CampaignInv, RowsInv, OnTimeInv, RowsMade, OnTime, Charged, SumOf

LEMMA CampaignInvInit == CampaignInit => CampaignInv
<1> SUFFICES ASSUME CampaignInit PROVE CampaignInv
  OBVIOUS
<1>1. CampaignTypeOK
  BY CampaignAssumption DEF CampaignInit, CampaignTypeOK, Times
<1>2. RowsMade = {}
  BY DEF CampaignInit, RowsMade
<1>3. RowsInv
  BY <1>2, FS_EmptySet DEF CampaignInit, RowsInv
<1>4. \A d : OnTime(d) = {}
  BY <1>1, <1>2, <1>3, ChargedRows DEF OnTime
<1>5. SumOf({}) = 0 /\ Cardinality({}) = 0
  BY TotalOfNone, FS_EmptySet DEF SumOf
<1>6. OnTimeInv
  BY <1>4, <1>5, CampaignAssumption DEF OnTimeInv, Null
<1> QED BY <1>1, <1>3, <1>6 DEF CampaignInv, EndedInv, CampaignInit

LEMMA CampaignInvStep == CampaignInv /\ [CampaignNext]_campaignVars => CampaignInv'
<1> SUFFICES ASSUME CampaignInv, [CampaignNext]_campaignVars PROVE CampaignInv'
  OBVIOUS
<1>0. CampaignTypeOK /\ RowsInv /\ OnTimeInv /\ EndedInv
  BY DEF CampaignInv
<1>7. UNCHANGED <<campaign, ended>> => EndedInv'
  BY <1>0 DEF EndedInv
<1>1. ASSUME NEW c \in Campaigns, SetCampaign(c) PROVE CampaignInv'
  <2>1. CampaignTypeOK'
    BY <1>0, <1>1 DEF SetCampaign, EndedAfter, CampaignTypeOK, CampaignStatuses
  <2>2. EndedInv'
    BY <1>0, <1>1 DEF SetCampaign, EndedAfter, EndedInv, CampaignTypeOK
  <2> QED BY <1>1, <2>1, <2>2, LedgerLeftAlone DEF SetCampaign
<1>2. ASSUME NEW c \in Campaigns, Signal(c) PROVE CampaignInv'
  <2>1. CampaignTypeOK'
    BY <1>0, <1>2 DEF Signal, Signalled, CampaignTypeOK, CampaignStatuses
  <2>2. EndedInv'
    BY <1>0, <1>2 DEF Signal, Signalled, EndedInv, CampaignTypeOK
  <2> QED BY <1>2, <2>1, <2>2, LedgerLeftAlone DEF Signal
<1>3. ASSUME NEW r \in Requests, NEW u \in Recipients, NEW a \in Amounts, GrantReward(r, u, a)
      PROVE  CampaignInv'
  <2>1. PICK c \in Resolve(a) : reward' = Inserted(r, NewReward(u, c, a))
    BY <1>3 DEF GrantReward
  <2>2. /\ c \in Campaigns \cup {EnvCampaign}
        /\ c \in Campaigns => c \in Stored /\ UnavailableReason(c, Usage, now, a) = "None"
    BY ResolvedMayPay
  <2>3. UNCHANGED <<campaign, revived, ended, now>>
    BY <1>3 DEF GrantReward
  <2>4. CampaignTypeOK'
    BY <1>0, <2>1, <2>2, <2>3, InsertKeepsType
  <2>5. CASE reward[r] = NoReward
    BY <1>7, <2>1, <2>2, <2>3, <2>4, <2>5, GrantKeepsLimits DEF CampaignInv
  <2>6. CASE reward[r] # NoReward
    BY <1>0, <1>7, <2>1, <2>3, <2>4, <2>6, RetryKeepsRow, LedgerLeftAlone
  <2> QED BY <2>5, <2>6
<1>4. ASSUME NEW r \in Requests, SettleReward(r) PROVE CampaignInv'
  <2>1. PICK s \in Outcomes : reward' = [reward EXCEPT ![r].status = Settled(@, s)]
    BY <1>4 DEF SettleReward
  <2>2. reward[r] \in Rewards
    BY <1>0, <1>4 DEF SettleReward, CampaignTypeOK
  <2>3. Settled(reward[r].status, s) \in Outcomes
    BY <2>2 DEF Settled, Outcomes, Rewards
  <2>4. [reward[r] EXCEPT !.status = Settled(reward[r].status, s)] \in Rewards
    BY <2>2, <2>3 DEF Rewards
  <2>5. reward' \in [Requests -> Rewards \cup {NoReward}]
    BY <1>0, <2>1, <2>4 DEF CampaignTypeOK
  <2>6. CampaignTypeOK'
    BY <1>0, <1>4, <2>5 DEF CampaignTypeOK, SettleReward
  <2>7. UNCHANGED <<campaign, ended>>
    BY <1>4 DEF SettleReward
  <2> QED BY <1>4, <1>7, <2>6, <2>7, SettlingKeepsLimits DEF CampaignInv
<1>5. ASSUME Pass PROVE CampaignInv'
  <2>1. CampaignTypeOK'
    BY <1>0, <1>5, CampaignAssumption DEF Pass, CampaignTypeOK, Times
  <2> QED BY <1>5, <1>7, <2>1, LedgerLeftAlone DEF Pass
<1>6. ASSUME UNCHANGED campaignVars PROVE CampaignInv'
  <2>1. CampaignTypeOK'
    BY <1>0, <1>6 DEF campaignVars, CampaignTypeOK
  <2> QED BY <1>6, <1>7, <2>1, LedgerLeftAlone DEF campaignVars
<1> QED BY <1>1, <1>2, <1>3, <1>4, <1>5, <1>6 DEF CampaignNext

\* The inductive invariant of the campaigns holds of every reachable state.
THEOREM CampaignInvariance == CampaignSpec => []CampaignInv
BY CampaignInvInit, CampaignInvStep, PTL DEF CampaignSpec

\* The sums of the property split into what was given away on time and what was
\* revived.
LEMMA LimitsAreKept == CampaignInv => BudgetIsKept
<1> SUFFICES ASSUME CampaignInv, NEW c \in Campaigns PROVE WithinBudget(c)
  BY DEF CampaignInv, BudgetIsKept
<1> DEFINE L == Charged(c) \cap revived
           T == OnTime(c)
           w == [r \in Charged(c) |-> reward[r].amount]
<1>1. /\ IsFiniteSet(Charged(c)) /\ \A r \in Charged(c) : reward[r].amount \in Nat
      /\ SumOf(T) <= Budget[c]
      /\ MaxCount[c] # Null => Cardinality(T) <= MaxCount[c]
      /\ Budget[c] \in Int /\ MaxCount[c] \in Int
  BY ChargedRows, CampaignAssumption DEF CampaignInv, OnTimeInv, Null
<1>2. T \in SUBSET Charged(c) /\ L \in SUBSET Charged(c) /\ T \cap L = {} /\ T \cup L = Charged(c)
  BY DEF OnTime
<1>3. IsFiniteSet(T) /\ IsFiniteSet(L) /\ Cardinality(T) \in Nat /\ Cardinality(L) \in Nat
  BY <1>1, <1>2, FS_Subset, FS_CardinalityType
<1>4. Cardinality(Charged(c)) = Cardinality(T) + Cardinality(L)
  <2>1. Cardinality(T \cup L) = Cardinality(T) + Cardinality(L) - Cardinality(T \cap L)
    BY <1>3, FS_Union, Zenon
  <2>2. Cardinality(T \cap L) = 0
    BY <1>2, FS_EmptySet, Zenon
  <2>3. Cardinality(T \cup L) = Cardinality(Charged(c))
    BY <1>2, Zenon
  <2> HIDE DEF T, L
  <2> QED BY <1>3, <2>1, <2>2, <2>3
<1>5. SumOf(Charged(c)) = SumOf(T) + SumOf(L) /\ SumOf(T) \in Int /\ SumOf(L) \in Int
  <2>1. \A r \in Charged(c) : w[r] \in Nat /\ w[r] = reward[r].amount
    BY <1>1
  <2>2. SumOf(Charged(c)) = Total(w, Charged(c))
    BY DEF SumOf
  <2> DEFINE v(R) == [r \in R |-> reward[r].amount]
  <2>3. ASSUME NEW R \in SUBSET Charged(c), IsFiniteSet(R) PROVE SumOf(R) = Total(w, R) /\ SumOf(R) \in Int
    <3>1. \A r \in R : v(R)[r] = w[r] /\ v(R)[r] \in Int
      BY <2>1
    <3>2. SumOf(R) = Total(v(R), R)
      BY DEF SumOf
    <3> HIDE DEF v, w
    <3> QED BY <2>3, <3>1, <3>2, TotalSees, TotalIsInt
  <2>4. Total(w, T \cup L) = Total(w, T) + Total(w, L)
    <3>1. \A r \in T \cup L : w[r] \in Int
      BY <1>2, <2>1
    <3> HIDE DEF w, T, L
    <3> QED BY <1>2, <1>3, <3>1, TotalUnites
  <2>5. Total(w, Charged(c)) = Total(w, T) + Total(w, L)
    BY <1>2, <2>4, Zenon
  <2>6. SumOf(T) = Total(w, T) /\ SumOf(T) \in Int /\ SumOf(L) = Total(w, L) /\ SumOf(L) \in Int
    <3> HIDE DEF w, T, L
    <3> QED BY <1>2, <1>3, <2>3
  <2> HIDE DEF w, T, L
  <2> QED BY <2>2, <2>5, <2>6
<1> HIDE DEF T
<1>6. /\ SumOf(Charged(c)) <= Budget[c] + SumOf(L)
      /\ MaxCount[c] # Null => Cardinality(Charged(c)) <= MaxCount[c] + Cardinality(L)
  <2> HIDE DEF L
  <2> QED BY <1>1, <1>3, <1>4, <1>5
<1> QED BY <1>6 DEF WithinBudget

\* No campaign pays more than its budget or oftener than its count, but for the
\* rewards that are granted after they were recorded as failed.
THEOREM BudgetsAreKept == CampaignSpec => []BudgetIsKept
BY CampaignInvariance, LimitsAreKept, PTL

\* The campaign that pays is the newest that is active and in its window.
LEMMA NewestIsResolved == CampaignInv => NewestRunningPays
<1> SUFFICES ASSUME CampaignInv, Stored # {}, NEW a \in Amounts
             PROVE  LET payers == {c \in NewestRunning : UnavailableReason(c, Usage, now, a) = "None"}
                    IN /\ Resolve(a) \subseteq payers
                       /\ Cardinality({c \in Campaigns : campaign[c] = "ACTIVE"}) <= RowLimit =>
                            Resolve(a) = payers
  BY DEF NewestRunningPays
<1> DEFINE Reason(c) == UnavailableReason(c, Usage, now, a)
           payers == {c \in NewestRunning : Reason(c) = "None"}
           Before(c) == {d \in Stored : Earlier(d, c)}
           Active == {c \in Campaigns : campaign[c] = "ACTIVE"}
           decisive == {c \in LoadedRows : Reason(c) \notin {"NotStarted", "Ended"}}
<1>1. Resolve(a) = {c \in FirstOf(decisive) : Reason(c) = "None"}
  BY DEF Resolve
<1>2. /\ \A c \in Campaigns : StartsAt[c] \in Int /\ EndsAt[c] \in Int /\ CreatedAt[c] \in Int
      /\ now \in Int /\ a \in Int /\ RowLimit \in Nat /\ CampaignTypeOK /\ RowsInv
  BY CampaignAssumption DEF CampaignInv, CampaignTypeOK, Times
<1>3. \A c : IsFiniteSet(Before(c)) /\ Cardinality(Before(c)) \in Nat
  <2>1. \A c : Before(c) \in SUBSET Campaigns
    BY DEF Stored
  <2> HIDE DEF Before
  <2> QED BY <2>1, CampaignAssumption, FS_Subset, FS_CardinalityType
<1>4. ASSUME NEW c \in Stored PROVE
        /\ Reason(c) = "None" => c \in Running
        /\ c \in Running => Reason(c) \notin {"NotStarted", "Ended"}
        /\ campaign[c] = "ACTIVE" /\ c \notin Running => Reason(c) \in {"NotStarted", "Ended"}
  <2>1. c \in Campaigns
    BY DEF Stored
  <2>2. Reason(c) = "None" => c \in Running
    BY <1>2, <2>1, UsageCounts, WhoMayPay DEF Running
  <2>3. c \in Running => Reason(c) \notin {"NotStarted", "Ended"}
    BY <1>2, <2>1 DEF Running, Runs, StatusReason, UnavailableReason
  <2>4. campaign[c] = "ACTIVE" /\ c \notin Running => Reason(c) \in {"NotStarted", "Ended"}
    BY <1>2, <2>1 DEF Running, Runs, StatusReason, UnavailableReason
  <2> QED BY <2>2, <2>3, <2>4
<1> HIDE DEF Reason
<1>5. ASSUME NEW c \in Resolve(a) PROVE c \in payers
  <2>1. c \in LoadedRows /\ c \in Stored /\ Reason(c) = "None" /\ \A d \in decisive : ~Earlier(d, c)
    BY <1>1, <1>5 DEF FirstOf, LoadedRows
  <2>2. c \in Running /\ c \in Campaigns /\ campaign[c] = "ACTIVE"
    BY <1>4, <2>1 DEF Running
  <2>3. ASSUME NEW d \in Running, StartsAt[d] > StartsAt[c] \/ (StartsAt[d] = StartsAt[c] /\ CreatedAt[d] > CreatedAt[c])
        PROVE  FALSE
    <3>1. d \in Campaigns /\ campaign[d] = "ACTIVE" /\ d \in Stored
      BY DEF Running, Stored
    <3>2. Earlier(d, c)
      BY <2>2, <2>3, <3>1 DEF Earlier, Rank
    <3>3. Before(d) \subseteq Before(c)
      <4> SUFFICES ASSUME NEW e \in Stored, Earlier(e, d) PROVE Earlier(e, c)
        OBVIOUS
      <4>1. e \in Campaigns /\ Rank(e) \in 0..2 /\ Rank(d) = 0 /\ Rank(c) = 0
        BY <2>2, <3>1 DEF Stored, Rank
      <4>2. Rank(e) = 0
        BY <4>1 DEF Earlier
      <4> QED BY <1>2, <2>2, <2>3, <3>1, <4>1, <4>2 DEF Earlier
    <3>4. Cardinality(Before(d)) <= Cardinality(Before(c))
      <4> HIDE DEF Before
      <4> QED BY <1>3, <3>3, FS_Subset
    <3>5. Cardinality(Before(c)) < RowLimit
      BY <2>1 DEF LoadedRows
    <3>6. Cardinality(Before(d)) < RowLimit
      <4> HIDE DEF Before
      <4> QED BY <1>2, <1>3, <3>4, <3>5
    <3>7. d \in LoadedRows
      BY <3>1, <3>6 DEF LoadedRows
    <3>8. d \in decisive
      BY <1>4, <2>3, <3>1, <3>7
    <3> QED BY <2>1, <3>2, <3>8
  <2>4. c \in NewestRunning
    <3> SUFFICES ASSUME NEW d \in Running
                 PROVE  StartsAt[d] < StartsAt[c] \/ (StartsAt[d] = StartsAt[c] /\ CreatedAt[d] <= CreatedAt[c])
      BY <2>2 DEF NewestRunning
    <3>1. d \in Campaigns
      BY DEF Running
    <3> QED BY <1>2, <2>2, <2>3, <3>1
  <2> QED BY <2>1, <2>4
<1>6. ASSUME Cardinality(Active) <= RowLimit, NEW c \in payers PROVE c \in Resolve(a)
  <2>1. c \in Campaigns /\ c \in Running /\ campaign[c] = "ACTIVE" /\ c \in Stored /\ Reason(c) = "None" /\ c \in Active
    BY DEF NewestRunning, Running, Stored
  <2>2. Before(c) \in SUBSET (Active \ {c})
    <3> SUFFICES ASSUME NEW d \in Stored, Earlier(d, c) PROVE d \in Campaigns /\ campaign[d] = "ACTIVE" /\ d # c
      OBVIOUS
    <3>1. d \in Campaigns /\ Rank(d) \in 0..2 /\ Rank(c) = 0
      BY <2>1 DEF Stored, Rank
    <3>2. Rank(d) = 0
      BY <3>1 DEF Earlier
    <3> QED BY <1>2, <2>1, <3>1, <3>2 DEF Earlier, Rank
  <2>3. Cardinality(Before(c)) < RowLimit
    <3>1. Active \in SUBSET Campaigns /\ c \in Active
      BY <2>1
    <3> HIDE DEF Active, Before
    <3>2. IsFiniteSet(Active) /\ Cardinality(Active) \in Nat
      BY <3>1, CampaignAssumption, FS_Subset, FS_CardinalityType
    <3>3. IsFiniteSet(Active \ {c}) /\ Cardinality(Active \ {c}) = Cardinality(Active) - 1
      BY <3>1, <3>2, FS_RemoveElement
    <3>4. Cardinality(Before(c)) <= Cardinality(Active \ {c})
      BY <2>2, <3>3, FS_Subset
    <3> QED BY <1>2, <1>3, <1>6, <3>2, <3>3, <3>4
  <2>4. c \in decisive
    BY <2>1, <2>3 DEF LoadedRows
  <2>5. ASSUME NEW d \in decisive, Earlier(d, c) PROVE FALSE
    <3>1. d \in Before(c) /\ d \in Stored /\ Reason(d) \notin {"NotStarted", "Ended"}
      BY <2>5 DEF LoadedRows
    <3>2. d \in Campaigns /\ campaign[d] = "ACTIVE"
      BY <2>2, <3>1
    <3>3. d \in Running
      BY <1>4, <3>1, <3>2
    <3>4. StartsAt[d] < StartsAt[c] \/ (StartsAt[d] = StartsAt[c] /\ CreatedAt[d] <= CreatedAt[c])
      BY <3>3 DEF NewestRunning
    <3> QED BY <1>2, <2>1, <2>5, <3>2, <3>4 DEF Earlier, Rank
  <2> QED BY <1>1, <2>1, <2>4, <2>5 DEF FirstOf
<1> QED BY <1>5, <1>6 DEF Reason

THEOREM NewestRunningAlwaysPays == CampaignSpec => []NewestRunningPays
BY CampaignInvariance, NewestIsResolved, PTL

\* What may happen to the ledger in a step: rows keep their terms, and a new
\* row is no row of an ended campaign.
RowKept(r) ==
  /\ reward'[r].user = reward[r].user /\ reward'[r].campaign = reward[r].campaign
  /\ reward'[r].amount = reward[r].amount
  /\ reward[r].status = "success" => reward'[r].status = "success"
FixedStep == \A r \in Requests :
  IF reward[r] = NoReward THEN reward'[r] # NoReward => reward'[r].campaign \notin ended ELSE RowKept(r)

LEMMA SameLedgerIsFixed == reward' = reward => FixedStep
BY DEF FixedStep, RowKept

\* A new row is made of a campaign that can pay, which is active and not ended.
LEMMA InsertingIsFixed ==
  ASSUME CampaignInv, NEW r \in Requests, NEW u, NEW a \in Amounts, NEW c \in Campaigns \cup {EnvCampaign},
         reward[r] = NoReward /\ c \in Campaigns => UnavailableReason(c, Usage, now, a) = "None",
         reward' = Inserted(r, NewReward(u, c, a))
  PROVE  FixedStep
<1>0. CampaignTypeOK /\ RowsInv /\ EndedInv
  BY DEF CampaignInv
<1>1. \A q \in Requests : q # r \/ reward[q] # NoReward => reward'[q] = reward[q]
  BY <1>0 DEF Inserted, CampaignTypeOK
<1>2. ASSUME reward[r] = NoReward PROVE reward'[r].campaign \notin ended
  <2>1. reward'[r].campaign = c
    BY <1>0, <1>2 DEF Inserted, NewReward, CampaignTypeOK
  <2>2. CASE c \in Campaigns
    <3>1. Usage.amount \in Int /\ Usage.count \in Int /\ now \in Int /\ a \in Int
      BY <1>0, UsageIsNat, CampaignAssumption DEF CampaignTypeOK, Times
    <3>2. campaign[c] = "ACTIVE"
      BY <1>0, <1>2, <2>2, <3>1, WhoMayPay
    <3> QED BY <1>0, <2>1, <3>2 DEF EndedInv
  <2>3. CASE c = EnvCampaign
    BY <1>0, <2>1, <2>3, CampaignAssumption DEF CampaignTypeOK
  <2> QED BY <2>2, <2>3
<1>3. ASSUME NEW q \in Requests, reward[q] = NoReward, reward'[q] # NoReward
      PROVE  reward'[q].campaign \notin ended
  BY <1>1, <1>2, <1>3
<1> QED BY <1>1, <1>3 DEF FixedStep, RowKept

LEMMA GrantingIsFixed ==
  ASSUME CampaignInv, NEW r \in Requests, NEW u, NEW a \in Amounts, GrantReward(r, u, a)
  PROVE  FixedStep
<1>1. PICK c \in Resolve(a) : reward' = Inserted(r, NewReward(u, c, a))
  BY DEF GrantReward
<1>2. /\ c \in Campaigns \cup {EnvCampaign}
      /\ c \in Campaigns => UnavailableReason(c, Usage, now, a) = "None"
  BY ResolvedMayPay
<1> QED BY <1>1, <1>2, InsertingIsFixed

LEMMA CampaignStepIsFixed == CampaignInv /\ [CampaignNext]_campaignVars => FixedStep
<1> SUFFICES ASSUME CampaignInv, [CampaignNext]_campaignVars PROVE FixedStep
  OBVIOUS
<1>1. ASSUME NEW r \in Requests, NEW u \in Recipients, NEW a \in Amounts, GrantReward(r, u, a) PROVE FixedStep
  BY <1>1, GrantingIsFixed
<1>2. ASSUME NEW r \in Requests, SettleReward(r) PROVE FixedStep
  BY <1>2, SettlingKeepsTerms DEF CampaignInv, FixedStep, RowKept
<1>3. ASSUME (\E c \in Campaigns : SetCampaign(c) \/ Signal(c)) \/ Pass \/ UNCHANGED campaignVars PROVE FixedStep
  BY <1>3, SameLedgerIsFixed DEF SetCampaign, Signal, Pass, campaignVars
<1> QED BY <1>1, <1>2, <1>3 DEF CampaignNext

\* Requests keep their user, campaign and amount, grants stay granted, and what
\* operators ended pays nothing new until they activate it, whatever signals
\* make of its status.
THEOREM RewardsStayFixed == CampaignSpec => RewardsAreFixed
<1>1. FixedStep <=> \A r \in Requests :
        IF reward[r] = NoReward
        THEN reward'[r] # NoReward => reward'[r].campaign \notin ended
        ELSE /\ reward'[r].user = reward[r].user /\ reward'[r].campaign = reward[r].campaign
             /\ reward'[r].amount = reward[r].amount
             /\ reward[r].status = "success" => reward'[r].status = "success"
  BY DEF FixedStep, RowKept
<1>2. CampaignInv /\ [CampaignNext]_campaignVars => [FixedStep]_campaignVars
  BY CampaignStepIsFixed
<1> QED BY <1>1, <1>2, CampaignInvariance, PTL DEF CampaignSpec, RewardsAreFixed

-----------------------------------------------------------------------------
(***************************************************************************)
(* Cohorts.                                                                *)
(***************************************************************************)
\* A recorded row is one that an eligibility has, and no such row is Unrecorded.
LEMMA RowIsRecorded == ASSUME NEW row \in Eligibilities PROVE row # Unrecorded
BY DEF Eligibilities, Unrecorded

LEMMA RecordedRows ==
  ASSUME CohortTypeOK, NEW s \in Subjects
  PROVE  /\ Recorded(s) \subseteq Periods
         /\ \A p \in Recorded(s) : eligibility[s][p] \in Eligibilities
         /\ \A p \in Periods : eligibility[s][p] \in Eligibilities => p \in Recorded(s)
BY RowIsRecorded DEF CohortTypeOK, Recorded

\* A step that writes one eligibility leaves the others alone.
LEMMA OneRowWritten ==
  ASSUME CohortTypeOK, NEW s \in Subjects, NEW p \in Periods, NEW row \in Eligibilities,
         eligibility' = [eligibility EXCEPT ![s][p] = row]
  PROVE  /\ eligibility' \in [Subjects -> [Periods -> Eligibilities \cup {Unrecorded}]]
         /\ eligibility'[s][p] = row
         /\ \A t \in Subjects, q \in Periods : t # s \/ q # p => eligibility'[t][q] = eligibility[t][q]
         /\ Recorded(s)' = Recorded(s) \cup {p}
         /\ \A t \in Subjects : t # s => Recorded(t)' = Recorded(t)
<1>1. eligibility' \in [Subjects -> [Periods -> Eligibilities \cup {Unrecorded}]]
  BY DEF CohortTypeOK
<1>2. eligibility'[s][p] = row
  BY DEF CohortTypeOK
<1>3. \A t \in Subjects, q \in Periods : t # s \/ q # p => eligibility'[t][q] = eligibility[t][q]
  BY DEF CohortTypeOK
<1>4. Recorded(s)' = Recorded(s) \cup {p}
  BY <1>2, <1>3, RowIsRecorded DEF Recorded
<1>5. \A t \in Subjects : t # s => Recorded(t)' = Recorded(t)
  BY <1>3 DEF Recorded
<1> QED BY <1>1, <1>2, <1>3, <1>4, <1>5

\* A claim is made by a request, and an unclaimed row names none.
LEMMA ClaimsAreRequests == ClaimRequests \subseteq Requests /\ NoClaim \notin Requests
BY CohortAssumption

\* The account whose subject row it is.
LEMMA SubjectOfAccount == \A u \in Recipients : SubjectOf[u] \in Subjects
BY CohortAssumption

\* Local days are whole numbers, and what comes before a local day's start is
\* on an earlier local day.
LEMMA DaysAreOrdered ==
  ASSUME NEW t \in Int, NEW d \in Int, t < LocalDayStart(d)
  PROVE  LocalDay(t) \in Int /\ LocalDay(t) < d
<1> DEFINE a == t + UtcOffset
           q == a \div DayLength
<1>1. a \in Int /\ DayLength \in Nat /\ DayLength > 0 /\ a < d * DayLength /\ d * DayLength \in Int
  BY CohortAssumption DEF LocalDayStart
<1>2. q \in Int /\ q * DayLength <= a /\ q * DayLength \in Int
  BY <1>1
<1>3. ASSUME q >= d PROVE FALSE
  <2>1. PICK k \in Nat : q = d + k
    BY <1>2, <1>3
  <2>2. q * DayLength = d * DayLength + k * DayLength /\ k * DayLength \in Nat
    BY <1>1, <2>1
  <2> QED BY <1>1, <1>2, <2>2
<1> QED BY <1>2, <1>3 DEF LocalDay

LEMMA CohortInvInit == CohortInit => CampaignInv /\ CohortInv
<1> SUFFICES ASSUME CohortInit PROVE CampaignInv /\ CohortInv
  OBVIOUS
<1>1. CampaignInv
  BY CampaignInvInit DEF CohortInit
<1>2. CohortTypeOK
  BY CohortAssumption DEF CohortInit, CohortTypeOK
<1>3. \A s \in Subjects : Recorded(s) = {} /\ subject[s] = Unregistered
  BY DEF CohortInit, Recorded
<1>4. IsFiniteSet({}) /\ Cardinality({}) = 0
  BY FS_EmptySet
<1>5. AccountsInv
  BY DEF CohortInit, AccountsInv, Live
<1>6. SubjectsInv /\ EarnedInv
  BY <1>3 DEF SubjectsInv, EarnedInv
<1>7. PeriodsInv
  <2>1. 0 <= MaxPerSubject
    BY CohortAssumption
  <2>2. \A s \in Subjects : IsFiniteSet(Recorded(s)) /\ Cardinality(Recorded(s)) <= MaxPerSubject
    BY <1>3, <1>4, <2>1
  <2>3. \A s \in Subjects : \A p, q \in Recorded(s) : FALSE
    BY <1>3
  <2> QED BY <2>2, <2>3 DEF PeriodsInv
<1>8. ClaimsInv
  BY <1>3, ClaimsAreRequests DEF ClaimsInv, CohortInit, CampaignInit, ClaimRows
<1> QED BY <1>1, <1>2, <1>5, <1>6, <1>7, <1>8 DEF CohortInv

\* A step that leaves the claims' rows to the users and amounts they have.
ClaimsKept == \A r \in ClaimRequests :
  /\ reward'[r] # NoReward <=> reward[r] # NoReward
  /\ reward[r] # NoReward => reward'[r].user = reward[r].user /\ reward'[r].amount = reward[r].amount

LEMMA SameLedgerKeepsClaims == reward' = reward => ClaimsKept
BY DEF ClaimsKept

\* Time, prices and policies may move on, and rewards be settled: nothing
\* recorded depends on them.
LEMMA MovingOnKeepsCohorts ==
  ASSUME CohortInv, now \in Int, now' \in Int, now <= now', UNCHANGED <<joined, deleted, subject, eligibility>>,
         ClaimsKept,
         policy' \in CohortPolicies, price' \in [Campaigns -> Amounts]
  PROVE  CohortInv'
<1> USE DEF CohortInv
<1>1. CohortTypeOK'
  BY DEF CohortTypeOK
<1>2. \A s : Recorded(s)' = Recorded(s)
  BY DEF Recorded
<1>3. \A u : Live(u)' <=> Live(u)
  BY DEF Live
<1>4. AccountsInv'
  BY <1>3 DEF AccountsInv, CohortTypeOK, Times
<1>5. SubjectsInv'
  <2> SUFFICES ASSUME NEW s \in Subjects, subject[s] # Unregistered
               PROVE  /\ subject[s].firstSeen <= now'
                      /\ subject[s].cohort = "WELCOME" => \E u \in Recipients, p \in CohortPolicies : WindowOf(s, u, p)'
                      /\ \A u \in Recipients : SubjectOf[u] = s /\ Live(u)' => subject[s].firstSeen <= joined[u]
    BY DEF SubjectsInv
  <2>1. subject[s].firstSeen \in Int
    BY DEF CohortTypeOK, Cohorts, Times
  <2> QED BY <1>3, <2>1 DEF SubjectsInv, WindowOf
<1>6. EarnedInv'
  BY <1>2 DEF EarnedInv
<1>7. PeriodsInv'
  BY <1>2 DEF PeriodsInv
<1>8. ClaimsInv'
  <2>1. ASSUME NEW s \in Subjects, NEW p \in Recorded(s), eligibility[s][p].claim # NoClaim
        PROVE  LET r == eligibility[s][p].claim
               IN reward'[r] # NoReward /\ SubjectOf[reward'[r].user] = s /\ reward'[r].amount = eligibility[s][p].amount
    <3>1. eligibility[s][p].claim \in ClaimRequests
      BY <2>1, RecordedRows DEF Eligibilities
    <3> QED BY <2>1, <3>1 DEF ClaimsInv, ClaimsKept
  <2>2. ClaimRows' = ClaimRows /\ \A r \in ClaimRows : reward'[r].user = reward[r].user
    BY DEF ClaimRows, ClaimsKept
  <2> QED BY <1>2, <2>1, <2>2 DEF ClaimsInv
<1> QED BY <1>1, <1>4, <1>5, <1>6, <1>7, <1>8

\* An account joins when its person has no other.
LEMMA JoiningKeepsCohorts ==
  ASSUME CampaignTypeOK, CohortInv, NEW u \in Recipients, Join(u)
  PROVE  CohortInv'
<1> USE DEF CohortInv
<1>0. now \in Times /\ now \in Int /\ now # Null
  BY DEF CampaignTypeOK, Times, Null
<1>1. /\ joined' = [joined EXCEPT ![u] = now] /\ joined'[u] = now /\ joined[u] = Null
      /\ \A v \in Recipients \ {u} : joined'[v] = joined[v]
      /\ UNCHANGED <<now, reward, policy, deleted, subject, eligibility, price>>
  BY DEF Join, campaignVars, CohortTypeOK
<1>2. CohortTypeOK'
  BY <1>0, <1>1 DEF CohortTypeOK
<1>3. /\ u \notin deleted /\ Live(u)'
      /\ \A v \in Recipients \ {u} : Live(v)' <=> Live(v)
      /\ \A v \in Recipients : SubjectOf[v] = SubjectOf[u] => ~Live(v)
  BY <1>0, <1>1 DEF AccountsInv, Live, Join
<1>4. AccountsInv'
  BY <1>0, <1>1, <1>3 DEF AccountsInv
<1>5. SubjectsInv'
  <2> SUFFICES ASSUME NEW s \in Subjects, subject[s] # Unregistered
               PROVE  /\ subject[s].firstSeen <= now
                      /\ subject[s].cohort = "WELCOME" => \E v \in Recipients, p \in CohortPolicies : WindowOf(s, v, p)'
                      /\ \A v \in Recipients : SubjectOf[v] = s /\ Live(v)' => subject[s].firstSeen <= joined'[v]
    BY <1>1 DEF SubjectsInv
  <2>1. subject[s].firstSeen \in Times /\ subject[s].firstSeen # Null /\ subject[s].firstSeen <= now
    BY DEF CohortTypeOK, Cohorts, Times, Null, SubjectsInv
  <2>2. ASSUME subject[s].cohort = "WELCOME"
        PROVE  \E v \in Recipients, p \in CohortPolicies : WindowOf(s, v, p)'
    <3>1. PICK v \in Recipients, p \in CohortPolicies : WindowOf(s, v, p)
      BY <2>2 DEF SubjectsInv
    <3>2. v # u
      BY <1>1, <2>1, <3>1 DEF WindowOf
    <3>3. WindowOf(s, v, p)'
      BY <1>1, <3>1, <3>2 DEF WindowOf
    <3> QED BY <3>3
  <2>3. ASSUME NEW v \in Recipients, SubjectOf[v] = s, Live(v)' PROVE subject[s].firstSeen <= joined'[v]
    <3>1. CASE v = u
      BY <1>1, <2>1, <3>1
    <3>2. CASE v # u
      BY <1>1, <1>3, <2>3, <3>2 DEF SubjectsInv
    <3> QED BY <3>1, <3>2
  <2> QED BY <2>1, <2>2, <2>3
<1>6. \A s : Recorded(s)' = Recorded(s)
  BY <1>1 DEF Recorded
<1>7. EarnedInv'
  BY <1>1, <1>6 DEF EarnedInv
<1>8. PeriodsInv'
  BY <1>6 DEF PeriodsInv
<1>9. ClaimsInv'
  BY <1>1, <1>6 DEF ClaimsInv, ClaimRows
<1> QED BY <1>2, <1>4, <1>5, <1>7, <1>8, <1>9

\* A deleted account leaves its person's eligibilities without an owner.
LEMMA DeletingKeepsCohorts ==
  ASSUME CampaignTypeOK, CohortInv, NEW u \in Recipients, DeleteAccount(u)
  PROVE  /\ CohortInv'
         /\ \A s \in Subjects : \A p \in Recorded(s) :
              eligibility'[s][p] \in {eligibility[s][p], [eligibility[s][p] EXCEPT !.user = NoOne]}
<1> USE DEF CohortInv
<1>1. UNCHANGED <<now, reward, policy, joined, subject, price>> /\ deleted' = deleted \cup {u} /\ Live(u)
  BY DEF DeleteAccount, campaignVars
<1>2. ASSUME NEW s \in Subjects, NEW p \in Periods
      PROVE  eligibility'[s][p] = IF p \in Recorded(s) /\ eligibility[s][p].user = u
                                  THEN [eligibility[s][p] EXCEPT !.user = NoOne] ELSE eligibility[s][p]
  BY DEF DeleteAccount
<1>3. ASSUME NEW s \in Subjects, NEW p \in Recorded(s)
      PROVE  /\ eligibility'[s][p] \in Eligibilities
             /\ eligibility'[s][p] \in {eligibility[s][p], [eligibility[s][p] EXCEPT !.user = NoOne]}
             /\ eligibility'[s][p].claim = eligibility[s][p].claim
             /\ eligibility'[s][p].amount = eligibility[s][p].amount
             /\ eligibility'[s][p].basis = eligibility[s][p].basis
             /\ eligibility'[s][p].earnedAt = eligibility[s][p].earnedAt
  <2>1. p \in Periods /\ eligibility[s][p] \in Eligibilities
    BY RecordedRows
  <2>2. eligibility'[s][p] \in {eligibility[s][p], [eligibility[s][p] EXCEPT !.user = NoOne]}
    BY <1>2, <2>1
  <2> QED BY <2>1, <2>2 DEF Eligibilities
<1>4. ASSUME NEW s \in Subjects, NEW p \in Periods, p \notin Recorded(s)
      PROVE  eligibility'[s][p] = eligibility[s][p] /\ eligibility[s][p] = Unrecorded
  BY <1>2, <1>4 DEF Recorded
<1>5. eligibility' \in [Subjects -> [Periods -> Eligibilities \cup {Unrecorded}]]
  <2>1. \A s \in Subjects, p \in Periods : eligibility'[s][p] \in Eligibilities \cup {Unrecorded}
    BY <1>3, <1>4
  <2>2. eligibility' = [s \in Subjects |-> [p \in Periods |-> eligibility'[s][p]]]
    BY DEF DeleteAccount
  <2> QED BY <2>1, <2>2
<1>6. ASSUME NEW s \in Subjects PROVE Recorded(s)' = Recorded(s)
  <2>1. \A p \in Periods : eligibility'[s][p] # Unrecorded <=> eligibility[s][p] # Unrecorded
    BY <1>3, <1>4, RowIsRecorded DEF Recorded
  <2> QED BY <2>1 DEF Recorded
<1>7. CohortTypeOK'
  BY <1>1, <1>5 DEF CohortTypeOK
<1>8. \A v : Live(v)' => Live(v)
  BY <1>1 DEF Live
<1>9. AccountsInv'
  BY <1>1, <1>8 DEF AccountsInv, Live
<1>10. SubjectsInv'
  BY <1>1, <1>8 DEF SubjectsInv, WindowOf
<1>11. EarnedInv'
  BY <1>1, <1>3, <1>6 DEF EarnedInv
<1>12. PeriodsInv'
  BY <1>6 DEF PeriodsInv
<1>13. ClaimsInv'
  <2>1. \A s \in Subjects : \A p \in Recorded(s) :
          /\ eligibility'[s][p].claim = eligibility[s][p].claim
          /\ eligibility'[s][p].amount = eligibility[s][p].amount
    BY <1>3
  <2>2. ClaimRows' = ClaimRows /\ reward' = reward /\ \A s \in Subjects : Recorded(s)' = Recorded(s)
    BY <1>1, <1>6 DEF ClaimRows
  <2>3. ASSUME NEW r \in ClaimRows
        PROVE  \E p \in Recorded(SubjectOf[reward[r].user])' :
                 eligibility'[SubjectOf[reward[r].user]][p].claim = r
    <3>1. PICK p \in Recorded(SubjectOf[reward[r].user]) : eligibility[SubjectOf[reward[r].user]][p].claim = r
      BY DEF ClaimsInv
    <3>2. SubjectOf[reward[r].user] \in Subjects
      BY SubjectOfAccount, ClaimsAreRequests DEF CampaignTypeOK, Rewards, ClaimRows
    <3> QED BY <2>1, <2>2, <3>1, <3>2
  <2> QED BY <2>1, <2>2, <2>3 DEF ClaimsInv
<1> QED BY <1>3, <1>7, <1>9, <1>10, <1>11, <1>12, <1>13

\* The first registration of a person fixes the cohort; a later one is ignored.
LEMMA RegisteringKeepsCohorts ==
  ASSUME CampaignTypeOK, CohortInv, NEW u \in Recipients, RegisterSubject(u)
  PROVE  CohortInv'
<1> DEFINE s == SubjectOf[u]
           row == CohortOf(policy, joined[u])
<1> USE DEF CohortInv
<1>0. s \in Subjects /\ Live(u) /\ now \in Times /\ joined[u] \in Times /\ joined[u] <= now /\ policy \in CohortPolicies
  BY SubjectOfAccount DEF RegisterSubject, AccountsInv, Live, CohortTypeOK, CampaignTypeOK, Times
<1>1. UNCHANGED <<now, reward, policy, joined, deleted, eligibility, price>>
  BY DEF RegisterSubject, campaignVars
<1>2. subject' = [subject EXCEPT ![s] = Registered(subject[s], row)]
  BY DEF RegisterSubject, CohortTypeOK
<1>3. CASE subject[s] # Unregistered
  <2>1. subject' = subject
    BY <1>2, <1>3 DEF Registered, CohortTypeOK
  <2> QED BY <1>0, <1>1, <2>1, MovingOnKeepsCohorts, SameLedgerKeepsClaims DEF CohortTypeOK, Times
<1>4. CASE subject[s] = Unregistered
  <2>1. /\ row.firstSeen = joined[u] /\ row # Unregistered
        /\ row.cohort = "WELCOME" => row.endsAt = WelcomeEnd(policy, joined[u])
        /\ row \in Cohorts
    <3>1. policy.cutover \in Nat /\ policy.welcomeDays \in Nat
      BY <1>0, CohortAssumption
    <3>2. LocalDay(joined[u]) \in Int
      BY <1>0, CohortAssumption DEF LocalDay, Times
    <3>3. WelcomeEnd(policy, joined[u]) \in Int
      BY <3>1, <3>2, CohortAssumption DEF WelcomeEnd, LocalDayStart
    <3> QED BY <1>0, <3>1, <3>3 DEF CohortOf, Cohorts, Unregistered
  <2> HIDE DEF row
  <2>2. /\ subject' = [subject EXCEPT ![s] = row] /\ subject'[s] = row
        /\ \A t \in Subjects \ {s} : subject'[t] = subject[t]
    BY <1>0, <1>2, <1>4 DEF Registered, CohortTypeOK
  <2>3. CohortTypeOK'
    BY <1>1, <2>1, <2>2 DEF CohortTypeOK
  <2>4. \A t : Recorded(t)' = Recorded(t)
    BY <1>1 DEF Recorded
  <2>5. AccountsInv'
    BY <1>1 DEF AccountsInv, Live
  <2>6. SubjectsInv'
    <3> SUFFICES ASSUME NEW t \in Subjects, subject'[t] # Unregistered
                 PROVE  /\ subject'[t].firstSeen <= now
                        /\ subject'[t].cohort = "WELCOME" => \E v \in Recipients, p \in CohortPolicies : WindowOf(t, v, p)'
                        /\ \A v \in Recipients : SubjectOf[v] = t /\ Live(v) => subject'[t].firstSeen <= joined[v]
      BY <1>1 DEF SubjectsInv, Live
    <3>1. CASE t = s
      <4>1. subject'[s].cohort = "WELCOME" => WindowOf(s, u, policy)'
        BY <1>1, <2>1, <2>2 DEF WindowOf
      <4>2. \A v \in Recipients : SubjectOf[v] = s /\ Live(v) => v = u
        BY <1>0 DEF AccountsInv
      <4>3. joined[u] <= joined[u]
        BY <1>0 DEF Times
      <4>4. subject'[s].firstSeen <= now
        BY <1>0, <2>1, <2>2
      <4>5. subject'[s].cohort = "WELCOME" => \E v \in Recipients, p \in CohortPolicies : WindowOf(s, v, p)'
        BY <1>0, <1>1, <4>1
      <4>6. \A v \in Recipients : SubjectOf[v] = s /\ Live(v) => subject'[s].firstSeen <= joined[v]
        BY <2>1, <2>2, <4>2, <4>3
      <4> QED BY <3>1, <4>4, <4>5, <4>6
    <3>2. CASE t # s
      BY <1>1, <2>2, <3>2 DEF SubjectsInv, WindowOf
    <3> QED BY <3>1, <3>2
  <2>7. EarnedInv'
    BY <1>1, <1>4, <2>2, <2>4 DEF EarnedInv
  <2>8. PeriodsInv'
    BY <2>4 DEF PeriodsInv
  <2>9. ClaimsInv'
    BY <1>1, <2>4 DEF ClaimsInv, ClaimRows
  <2> QED BY <2>3, <2>5, <2>6, <2>7, <2>8, <2>9
<1> QED BY <1>3, <1>4

\* A new eligibility overlaps none of its person's and starts unclaimed.
LEMMA RecordingKeepsCohorts ==
  ASSUME CampaignTypeOK, CohortInv, NEW u \in Recipients, NEW p \in Periods, NEW c \in Campaigns,
         NEW e \in Times, RecordEligibility(u, p, c, e)
  PROVE  CohortInv' /\ p \notin Recorded(SubjectOf[u])
<1> DEFINE s == SubjectOf[u]
           row == [user |-> u, campaign |-> c, amount |-> price[c], basis |-> subject[s].cohort,
                   earnedAt |-> e, deadline |-> Deadline(p), claim |-> NoClaim]
<1> USE DEF CohortInv
<1>1. UNCHANGED <<now, reward, policy, joined, deleted, subject, price>>
  BY DEF RecordEligibility, campaignVars
<1>2. /\ s \in Subjects /\ Live(u) /\ subject[s] # Unregistered /\ joined[u] <= e
      /\ \A q \in Recorded(s) : ~Overlap(p, q)
      /\ CanEarnAt(subject[s], e) /\ Cardinality(Recorded(s)) < MaxPerSubject
      /\ subject[s] \in Cohorts /\ p[1] \in Int /\ p[2] \in Int /\ p[1] <= p[2]
  BY SubjectOfAccount, CohortAssumption DEF RecordEligibility, CohortTypeOK
<1>3. row \in Eligibilities
  BY <1>2, CohortAssumption DEF Eligibilities, CohortTypeOK, Cohorts, Deadline, LocalDayStart
<1>4. p \notin Recorded(s)
  BY <1>2 DEF Overlap
<1>5. eligibility' = [eligibility EXCEPT ![s][p] = row]
  BY DEF RecordEligibility
<1>6. row.claim = NoClaim /\ row.basis = subject[s].cohort /\ row.earnedAt = e
  OBVIOUS
<1> HIDE DEF row
<1>7. /\ eligibility' \in [Subjects -> [Periods -> Eligibilities \cup {Unrecorded}]]
      /\ eligibility'[s][p] = row
      /\ \A t \in Subjects, q \in Periods : t # s \/ q # p => eligibility'[t][q] = eligibility[t][q]
      /\ Recorded(s)' = Recorded(s) \cup {p}
      /\ \A t \in Subjects : t # s => Recorded(t)' = Recorded(t)
  BY <1>2, <1>3, <1>5, OneRowWritten
<1>8. \A t \in Subjects : Recorded(t) \subseteq Periods /\ Recorded(t)' \subseteq Periods
  BY DEF Recorded
<1>9. ASSUME NEW t \in Subjects, NEW q \in Recorded(t)'
      PROVE  \/ t = s /\ q = p /\ eligibility'[t][q] = row
             \/ q \in Recorded(t) /\ eligibility'[t][q] = eligibility[t][q]
  BY <1>4, <1>7, <1>8, <1>9
<1>10. ASSUME NEW t \in Subjects, NEW q \in Recorded(t)
       PROVE  q \in Recorded(t)' /\ eligibility'[t][q] = eligibility[t][q]
  BY <1>4, <1>7, <1>8, <1>10
<1>11. CohortTypeOK'
  BY <1>1, <1>7 DEF CohortTypeOK
<1>12. AccountsInv'
  BY <1>1 DEF AccountsInv, Live
<1>13. SubjectsInv'
  BY <1>1 DEF SubjectsInv, WindowOf, Live
<1>14. EarnedInv'
  <2>1. subject[s].cohort = "WELCOME" => subject[s].firstSeen <= e /\ e < subject[s].endsAt
    <3>1. subject[s].firstSeen <= joined[u]
      BY <1>2 DEF SubjectsInv
    <3>2. subject[s].firstSeen \in Int /\ joined[u] \in Int /\ e \in Int
      BY <1>2 DEF Cohorts, Times, CohortTypeOK, Null
    <3>3. subject[s].cohort = "WELCOME" => e < subject[s].endsAt
      BY <1>2 DEF CanEarnAt, PointsEnd
    <3> QED BY <1>2, <3>1, <3>2, <3>3
  <2> SUFFICES ASSUME NEW t \in Subjects, NEW q \in Recorded(t)'
               PROVE  /\ subject[t] # Unregistered /\ eligibility'[t][q].basis = subject[t].cohort
                      /\ eligibility'[t][q].basis = "WELCOME" =>
                           /\ subject[t].firstSeen <= eligibility'[t][q].earnedAt
                           /\ eligibility'[t][q].earnedAt < subject[t].endsAt
    BY <1>1 DEF EarnedInv
  <2> QED BY <1>2, <1>6, <1>9, <2>1 DEF EarnedInv
<1>15. PeriodsInv'
  <2>1. IsFiniteSet(Recorded(s) \cup {p}) /\ Cardinality(Recorded(s) \cup {p}) = Cardinality(Recorded(s)) + 1
    BY <1>2, <1>4, FS_AddElement DEF PeriodsInv
  <2>2. IsFiniteSet(Recorded(s)') /\ Cardinality(Recorded(s)') <= MaxPerSubject
    <3>1. Cardinality(Recorded(s)) \in Nat
      BY <1>2, FS_CardinalityType DEF PeriodsInv
    <3> QED BY <1>2, <1>7, <2>1, <3>1, CohortAssumption
  <2>3. ASSUME NEW q \in Recorded(s) PROVE (p[2] < q[1] \/ q[2] < p[1]) /\ (q[2] < p[1] \/ p[2] < q[1])
    <3>1. q[1] \in Int /\ q[2] \in Int
      BY <1>2, <1>8, CohortAssumption
    <3> QED BY <1>2, <3>1 DEF Overlap
  <2> SUFFICES ASSUME NEW t \in Subjects
               PROVE  /\ IsFiniteSet(Recorded(t)') /\ Cardinality(Recorded(t)') <= MaxPerSubject
                      /\ \A q, k \in Recorded(t)' : q # k => q[2] < k[1] \/ k[2] < q[1]
    BY DEF PeriodsInv
  <2>4. CASE t = s
    <3>1. \A q, k \in Recorded(s) \cup {p} : q # k => q[2] < k[1] \/ k[2] < q[1]
      BY <1>2, <2>3 DEF PeriodsInv
    <3> QED BY <1>7, <2>2, <2>4, <3>1
  <2>5. CASE t # s
    BY <1>7, <2>5 DEF PeriodsInv
  <2> QED BY <2>4, <2>5
<1>16. ClaimsInv'
  <2>1. ASSUME NEW t \in Subjects, NEW q \in Recorded(t)', eligibility'[t][q].claim # NoClaim
        PROVE  q \in Recorded(t) /\ eligibility'[t][q] = eligibility[t][q]
    BY <1>6, <1>9, <2>1
  <2>2. ASSUME NEW r \in ClaimRows
        PROVE  \E q \in Recorded(SubjectOf[reward[r].user])' : eligibility'[SubjectOf[reward[r].user]][q].claim = r
    <3>1. PICK q \in Recorded(SubjectOf[reward[r].user]) : eligibility[SubjectOf[reward[r].user]][q].claim = r
      BY DEF ClaimsInv
    <3>2. SubjectOf[reward[r].user] \in Subjects
      BY SubjectOfAccount, ClaimsAreRequests DEF CampaignTypeOK, Rewards, ClaimRows
    <3>3. /\ q \in Recorded(SubjectOf[reward[r].user])'
          /\ eligibility'[SubjectOf[reward[r].user]][q] = eligibility[SubjectOf[reward[r].user]][q]
      BY <1>1, <1>10, <3>1, <3>2
    <3> QED BY <3>1, <3>3
  <2>3. \A t \in Subjects : \A q \in Recorded(t)' : eligibility'[t][q].claim # NoClaim =>
          LET r == eligibility'[t][q].claim
          IN reward[r] # NoReward /\ SubjectOf[reward[r].user] = t /\ reward[r].amount = eligibility'[t][q].amount
    BY <2>1 DEF ClaimsInv
  <2>4. \A t, v \in Subjects : \A q \in Recorded(t)', k \in Recorded(v)' :
          eligibility'[t][q].claim = eligibility'[v][k].claim /\ eligibility'[t][q].claim # NoClaim => t = v /\ q = k
    BY <2>1 DEF ClaimsInv
  <2>5. ClaimRows' = ClaimRows
    BY <1>1 DEF ClaimRows
  <2> QED BY <1>1, <2>2, <2>3, <2>4, <2>5 DEF ClaimsInv
<1> QED BY <1>4, <1>11, <1>12, <1>13, <1>14, <1>15, <1>16

\* A claim links its eligibility to a ledger row that is made with it, or that
\* it made before, and that no other eligibility has.
LEMMA ClaimingKeepsCohorts ==
  ASSUME CampaignInv, CohortInv, NEW u \in Recipients, NEW p \in Periods, NEW r \in ClaimRequests,
         ClaimEligibility(u, p, r)
  PROVE  /\ CampaignInv' /\ CohortInv' /\ FixedStep
         /\ \A s \in Subjects : \A q \in Recorded(s) :
              \/ eligibility'[s][q] = eligibility[s][q]
              \/ /\ eligibility'[s][q] = [eligibility[s][q] EXCEPT !.claim = r]
                 /\ eligibility[s][q].claim = NoClaim /\ now < eligibility[s][q].deadline
<1> DEFINE s == SubjectOf[u]
           old == eligibility[s][p]
           row == [old EXCEPT !.claim = r]
           made == NewReward(u, old.campaign, old.amount)
<1> USE DEF CampaignInv, CohortInv
<1>0. r \in Requests
  BY ClaimsAreRequests
<1>1. UNCHANGED <<now, campaign, revived, ended, policy, joined, deleted, subject, price>> /\ EndedInv'
  BY DEF ClaimEligibility, EndedInv
<1>2. /\ s \in Subjects /\ p \in Recorded(s) /\ old \in Eligibilities /\ old.user = u
      /\ old.campaign \in Campaigns /\ old.amount \in Amounts /\ r # NoClaim
  <2>1. s \in Subjects /\ p \in Recorded(s) /\ old.user = u
    BY SubjectOfAccount DEF ClaimEligibility
  <2>2. old \in Eligibilities
    BY <2>1, RecordedRows
  <2> QED BY <2>1, <2>2, ClaimsAreRequests DEF Eligibilities
<1>3. /\ old.claim = r \/ (old.claim = NoClaim /\ now < old.deadline)
      /\ old.claim # r => reward[r] = NoReward /\ UnavailableReason(old.campaign, Usage, now, old.amount) = "None"
      /\ reward' = Inserted(r, made)
  BY DEF ClaimEligibility, MayClaim
<1>4. eligibility' = [eligibility EXCEPT ![s][p] = row]
  BY DEF ClaimEligibility
<1>5. /\ row \in Eligibilities /\ row.claim = r /\ row.amount = old.amount /\ row.basis = old.basis
      /\ row.earnedAt = old.earnedAt
  BY <1>2 DEF Eligibilities
<1>6. made.user = u /\ made.amount = old.amount /\ made # NoReward
  BY DEF NewReward, NoReward
<1>7. old.claim = r => row = old
  BY <1>2 DEF Eligibilities
<1> HIDE DEF row, made
<1>8. /\ eligibility' \in [Subjects -> [Periods -> Eligibilities \cup {Unrecorded}]]
      /\ eligibility'[s][p] = row
      /\ \A t \in Subjects, q \in Periods : t # s \/ q # p => eligibility'[t][q] = eligibility[t][q]
      /\ Recorded(s)' = Recorded(s) \cup {p}
      /\ \A t \in Subjects : t # s => Recorded(t)' = Recorded(t)
  BY <1>2, <1>4, <1>5, OneRowWritten
<1>9. ASSUME NEW t \in Subjects PROVE Recorded(t)' = Recorded(t)
  BY <1>2, <1>8
<1>10. \A t \in Subjects : Recorded(t) \subseteq Periods
  BY DEF Recorded
<1>11. ASSUME NEW t \in Subjects, NEW q \in Recorded(t)
       PROVE  \/ eligibility'[t][q] = eligibility[t][q]
              \/ t = s /\ q = p /\ eligibility'[t][q] = row /\ old.claim = NoClaim /\ now < old.deadline
  BY <1>3, <1>7, <1>8, <1>10
<1>12. CohortTypeOK'
  BY <1>1, <1>8 DEF CohortTypeOK
<1>13. AccountsInv' /\ SubjectsInv'
  BY <1>1 DEF AccountsInv, SubjectsInv, WindowOf, Live
<1>14. EarnedInv'
  <2> SUFFICES ASSUME NEW t \in Subjects, NEW q \in Recorded(t)
               PROVE  /\ subject[t] # Unregistered /\ eligibility'[t][q].basis = subject[t].cohort
                      /\ eligibility'[t][q].basis = "WELCOME" =>
                           /\ subject[t].firstSeen <= eligibility'[t][q].earnedAt
                           /\ eligibility'[t][q].earnedAt < subject[t].endsAt
    BY <1>1, <1>9 DEF EarnedInv
  <2>1. eligibility'[t][q].basis = eligibility[t][q].basis /\ eligibility'[t][q].earnedAt = eligibility[t][q].earnedAt
    BY <1>5, <1>11
  <2> QED BY <2>1 DEF EarnedInv
<1>15. PeriodsInv'
  BY <1>9 DEF PeriodsInv
<1>16. CASE old.claim = r
  <2>1. reward[r] # NoReward
    BY <1>2, <1>16 DEF ClaimsInv
  <2>2. reward' = reward
    BY <1>0, <1>3, <2>1, RetryKeepsRow
  <2>3. CampaignTypeOK'
    BY <1>1, <2>2 DEF CampaignTypeOK
  <2>4. CampaignInv'
    BY <1>1, <2>2, <2>3, LedgerLeftAlone
  <2>5. \A t \in Subjects : \A q \in Recorded(t) : eligibility'[t][q] = eligibility[t][q]
    BY <1>2, <1>11, <1>16
  <2>6. eligibility' = eligibility
    <3>1. \A t \in Subjects, q \in Periods : eligibility'[t][q] = eligibility[t][q]
      BY <1>2, <1>8, <2>5
    <3> QED BY <1>8, <3>1 DEF CohortTypeOK
  <2>7. ClaimsInv'
    BY <1>9, <2>2, <2>6 DEF ClaimsInv, ClaimRows, Recorded
  <2> QED BY <1>12, <1>13, <1>14, <1>15, <2>2, <2>4, <2>5, <2>7, SameLedgerIsFixed
<1>17. CASE old.claim # r
  <2>1. old.claim = NoClaim /\ now < old.deadline /\ reward[r] = NoReward
    BY <1>3, <1>17
  <2>2. /\ reward' = [reward EXCEPT ![r] = made] /\ reward'[r] = made
        /\ \A q \in Requests \ {r} : reward'[q] = reward[q]
    BY <1>0, <1>3, <2>1 DEF Inserted, CampaignTypeOK
  <2>3. CampaignTypeOK'
    BY <1>0, <1>1, <1>2, <1>3, InsertKeepsType DEF made
  <2>4. old.campaign \in Stored
    <3>0. CampaignTypeOK /\ RowsInv /\ now \in Int /\ old.amount \in Int
      <4>0. \A a \in Amounts : a \in Int
        BY CampaignAssumption
      <4>1. old.amount \in Int
        BY <1>2, <4>0
      <4>2. now \in Int
        BY DEF CampaignTypeOK, Times
      <4> QED BY <4>1, <4>2
    <3>1. Usage.amount \in Int /\ Usage.count \in Int /\ now \in Int /\ old.amount \in Int
      BY <3>0, UsageIsNat
    <3>2. campaign[old.campaign] = "ACTIVE"
      BY <1>2, <1>3, <1>17, <3>1, WhoMayPay
    <3> QED BY <1>2, <3>2 DEF Stored
  <2>5. CampaignInv'
    BY <1>0, <1>1, <1>2, <1>3, <1>17, <2>1, <2>3, <2>4, GrantKeepsLimits DEF made
  <2>6. ClaimRows' = ClaimRows \cup {r}
    BY <1>0, <1>6, <2>2, ClaimsAreRequests DEF ClaimRows
  <2>7. ASSUME NEW t \in Subjects, NEW q \in Recorded(t), eligibility'[t][q].claim # NoClaim
        PROVE  \/ t = s /\ q = p /\ eligibility'[t][q].claim = r /\ eligibility'[t][q].amount = old.amount
               \/ /\ eligibility'[t][q] = eligibility[t][q] /\ eligibility[t][q].claim # r
                  /\ eligibility[t][q].claim \in Requests
                  /\ reward'[eligibility[t][q].claim] = reward[eligibility[t][q].claim]
    <3>1. CASE t = s /\ q = p
      BY <1>5, <1>8, <3>1
    <3>2. CASE eligibility'[t][q] = eligibility[t][q]
      <4>1. eligibility[t][q].claim \in Requests
        BY <2>7, <3>2, RecordedRows, ClaimsAreRequests DEF Eligibilities
      <4>2. reward[eligibility[t][q].claim] # NoReward
        BY <2>7, <3>2 DEF ClaimsInv
      <4> QED BY <2>1, <2>2, <3>2, <4>1, <4>2
    <3> QED BY <1>11, <3>1, <3>2
  <2>8. \A t \in Subjects : \A q \in Recorded(t) : eligibility'[t][q].claim # NoClaim =>
          /\ reward'[eligibility'[t][q].claim] # NoReward
          /\ SubjectOf[reward'[eligibility'[t][q].claim].user] = t
          /\ reward'[eligibility'[t][q].claim].amount = eligibility'[t][q].amount
    BY <1>6, <2>2, <2>7 DEF ClaimsInv
  <2>9. \A t, v \in Subjects : \A q \in Recorded(t), k \in Recorded(v) :
          eligibility'[t][q].claim = eligibility'[v][k].claim /\ eligibility'[t][q].claim # NoClaim => t = v /\ q = k
    BY <2>7 DEF ClaimsInv
  <2>10. ASSUME NEW a \in ClaimRows'
         PROVE  \E q \in Recorded(SubjectOf[reward'[a].user]) : eligibility'[SubjectOf[reward'[a].user]][q].claim = a
    <3>1. CASE a = r
      BY <1>2, <1>5, <1>6, <1>8, <2>2, <3>1
    <3>2. CASE a # r
      <4>1. a \in ClaimRows /\ reward'[a] = reward[a] /\ a \in Requests
        BY <2>2, <2>6, <3>2, ClaimsAreRequests DEF ClaimRows
      <4>2. PICK q \in Recorded(SubjectOf[reward[a].user]) : eligibility[SubjectOf[reward[a].user]][q].claim = a
        BY <4>1 DEF ClaimsInv
      <4>3. SubjectOf[reward[a].user] \in Subjects
        BY <4>1, SubjectOfAccount, ClaimsAreRequests DEF CampaignTypeOK, Rewards, ClaimRows
      <4>4. a # NoClaim
        BY <4>1, CohortAssumption
      <4>5. eligibility'[SubjectOf[reward[a].user]][q] = eligibility[SubjectOf[reward[a].user]][q]
        BY <1>11, <2>1, <4>2, <4>3, <4>4
      <4> QED BY <4>1, <4>2, <4>5
    <3> QED BY <3>1, <3>2
  <2>11. \A a \in ClaimRows' : SubjectOf[reward'[a].user] \in Subjects
    BY <2>3, SubjectOfAccount, ClaimsAreRequests DEF CampaignTypeOK, Rewards, ClaimRows
  <2>12. ClaimsInv'
    <3>1. (\A a \in ClaimRows : \E q \in Recorded(SubjectOf[reward[a].user]) :
             eligibility[SubjectOf[reward[a].user]][q].claim = a)'
      <4> SUFFICES ASSUME NEW a \in ClaimRows'
                   PROVE  (\E q \in Recorded(SubjectOf[reward[a].user]) :
                             eligibility[SubjectOf[reward[a].user]][q].claim = a)'
        OBVIOUS
      <4>1. PICK q \in Recorded(SubjectOf[reward'[a].user]) : eligibility'[SubjectOf[reward'[a].user]][q].claim = a
        BY <2>10
      <4> QED BY <1>9, <2>11, <4>1
    <3>2. \A t \in Subjects : \A q \in Recorded(t)' : eligibility'[t][q].claim # NoClaim =>
            LET a == eligibility'[t][q].claim
            IN reward'[a] # NoReward /\ SubjectOf[reward'[a].user] = t /\ reward'[a].amount = eligibility'[t][q].amount
      BY <1>9, <2>8
    <3>3. \A t, v \in Subjects : \A q \in Recorded(t)', k \in Recorded(v)' :
            eligibility'[t][q].claim = eligibility'[v][k].claim /\ eligibility'[t][q].claim # NoClaim => t = v /\ q = k
      BY <1>9, <2>9
    <3> QED BY <3>1, <3>2, <3>3 DEF ClaimsInv
  <2>13. \A t \in Subjects : \A q \in Recorded(t) :
           \/ eligibility'[t][q] = eligibility[t][q]
           \/ /\ eligibility'[t][q] = [eligibility[t][q] EXCEPT !.claim = r]
              /\ eligibility[t][q].claim = NoClaim /\ now < eligibility[t][q].deadline
    BY <1>11 DEF row
  <2>14. FixedStep
    <3>1. old.campaign \in Campaigns \cup {EnvCampaign}
      BY <1>2
    <3>2. reward' = Inserted(r, NewReward(u, old.campaign, old.amount))
      BY <1>3 DEF made
    <3> QED BY <1>0, <1>2, <1>3, <1>17, <3>1, <3>2, InsertingIsFixed
  <2> QED BY <1>12, <1>13, <1>14, <1>15, <2>5, <2>12, <2>13, <2>14
<1> QED BY <1>16, <1>17

-----------------------------------------------------------------------------
\* Every step keeps the two invariants, and every eligibility what it says.
SnapshotKept(s, p) ==
  /\ \E u \in {eligibility[s][p].user, NoOne}, r \in ClaimRequests \cup {NoClaim} :
       eligibility'[s][p] = [eligibility[s][p] EXCEPT !.user = u, !.claim = r]
  /\ eligibility[s][p].claim # NoClaim => eligibility'[s][p].claim = eligibility[s][p].claim
  /\ eligibility[s][p].claim # eligibility'[s][p].claim => now < eligibility[s][p].deadline
SnapshotStep == \A s \in Subjects : \A p \in Recorded(s) : SnapshotKept(s, p)

\* The ways a step may leave a recorded eligibility.
LEMMA UntouchedIsKept ==
  ASSUME CohortTypeOK, NEW s \in Subjects, NEW p \in Recorded(s),
         eligibility'[s][p] \in {eligibility[s][p], [eligibility[s][p] EXCEPT !.user = NoOne]}
  PROVE  SnapshotKept(s, p)
<1> DEFINE old == eligibility[s][p]
<1>1. old \in Eligibilities
  BY RecordedRows
<1>2. /\ old.claim \in ClaimRequests \cup {NoClaim}
      /\ old = [old EXCEPT !.user = old.user, !.claim = old.claim]
      /\ [old EXCEPT !.user = NoOne] = [old EXCEPT !.user = NoOne, !.claim = old.claim]
      /\ [old EXCEPT !.user = NoOne].claim = old.claim
  BY <1>1 DEF Eligibilities
<1> QED BY <1>2 DEF SnapshotKept

LEMMA ClaimedIsKept ==
  ASSUME CohortTypeOK, NEW s \in Subjects, NEW p \in Recorded(s), NEW r \in ClaimRequests,
         eligibility'[s][p] = [eligibility[s][p] EXCEPT !.claim = r],
         eligibility[s][p].claim = NoClaim, now < eligibility[s][p].deadline
  PROVE  SnapshotKept(s, p)
<1> DEFINE old == eligibility[s][p]
<1>1. old \in Eligibilities
  BY RecordedRows
<1>2. [old EXCEPT !.claim = r] = [old EXCEPT !.user = old.user, !.claim = r]
  BY <1>1 DEF Eligibilities
<1> QED BY <1>2 DEF SnapshotKept

LEMMA CohortStep ==
  CampaignInv /\ CohortInv /\ [CohortNext]_rewardVars => CampaignInv' /\ CohortInv' /\ SnapshotStep /\ FixedStep
<1> SUFFICES ASSUME CampaignInv, CohortInv, [CohortNext]_rewardVars
             PROVE  CampaignInv' /\ CohortInv' /\ SnapshotStep /\ FixedStep
  OBVIOUS
<1>0. CampaignTypeOK /\ CohortTypeOK /\ now \in Int
  BY DEF CampaignInv, CohortInv, CampaignTypeOK, Times
<1>1. ASSUME UNCHANGED eligibility PROVE SnapshotStep
  BY <1>0, <1>1, UntouchedIsKept DEF SnapshotStep
<1>2. ASSUME UNCHANGED campaignVars PROVE CampaignInv' /\ FixedStep /\ ClaimsKept /\ now' = now
  BY <1>2, CampaignInvStep, SameLedgerIsFixed, SameLedgerKeepsClaims DEF campaignVars
<1>3. ASSUME UNCHANGED cohortVars,
             \/ Pass
             \/ \E c \in Campaigns : SetCampaign(c) \/ Signal(c)
             \/ \E r \in Requests : SettleReward(r)
             \/ \E u \in Recipients, r \in Requests \ ClaimRequests, a \in Amounts :
                  Live(u) /\ GrantReward(r, u, a)
      PROVE  CampaignInv' /\ CohortInv' /\ SnapshotStep /\ FixedStep
  <2>0. CampaignNext
    BY <1>3 DEF CampaignNext
  <2>1. CampaignInv' /\ FixedStep
    BY <2>0, CampaignInvStep, CampaignStepIsFixed
  <2>2. now' \in Int /\ now <= now'
    BY <1>0, <1>3 DEF Pass, SetCampaign, Signal, SettleReward, GrantReward
  <2>3. ClaimsKept
    <3>1. ASSUME NEW r \in Requests, SettleReward(r) PROVE ClaimsKept
      BY <1>0, <3>1, SettlingKeepsTerms, ClaimsAreRequests DEF ClaimsKept
    <3>2. ASSUME NEW u \in Recipients, NEW r \in Requests \ ClaimRequests, NEW a \in Amounts, GrantReward(r, u, a)
          PROVE  ClaimsKept
      <4>1. PICK c : reward' = Inserted(r, NewReward(u, c, a))
        BY <3>2 DEF GrantReward
      <4>2. \A q \in ClaimRequests : reward'[q] = reward[q]
        BY <1>0, <3>2, <4>1, ClaimsAreRequests DEF Inserted, CampaignTypeOK
      <4> QED BY <4>2 DEF ClaimsKept
    <3>3. ASSUME Pass \/ \E c \in Campaigns : SetCampaign(c) \/ Signal(c) PROVE ClaimsKept
      BY <3>3, SameLedgerKeepsClaims DEF Pass, SetCampaign, Signal
    <3> QED BY <1>3, <3>1, <3>2, <3>3
  <2>4. CohortInv'
    BY <1>0, <1>3, <2>2, <2>3, MovingOnKeepsCohorts DEF cohortVars, CohortTypeOK
  <2> QED BY <1>1, <1>3, <2>1, <2>4 DEF cohortVars
<1>4. ASSUME NEW u \in Recipients, Join(u) PROVE CampaignInv' /\ CohortInv' /\ SnapshotStep /\ FixedStep
  BY <1>0, <1>1, <1>2, <1>4, JoiningKeepsCohorts DEF Join
<1>5. ASSUME NEW u \in Recipients, DeleteAccount(u) PROVE CampaignInv' /\ CohortInv' /\ SnapshotStep /\ FixedStep
  <2>1. CampaignInv' /\ FixedStep
    BY <1>2, <1>5 DEF DeleteAccount
  <2>2. CohortInv' /\ \A s \in Subjects : \A p \in Recorded(s) :
          eligibility'[s][p] \in {eligibility[s][p], [eligibility[s][p] EXCEPT !.user = NoOne]}
    BY <1>0, <1>5, DeletingKeepsCohorts
  <2> QED BY <1>0, <2>1, <2>2, UntouchedIsKept DEF SnapshotStep
<1>6. ASSUME NEW u \in Recipients, RegisterSubject(u) PROVE CampaignInv' /\ CohortInv' /\ SnapshotStep /\ FixedStep
  BY <1>0, <1>1, <1>2, <1>6, RegisteringKeepsCohorts DEF RegisterSubject
<1>7. ASSUME NEW u \in Recipients, NEW p \in Periods, NEW c \in Campaigns, NEW e \in Times, RecordEligibility(u, p, c, e)
      PROVE  CampaignInv' /\ CohortInv' /\ SnapshotStep /\ FixedStep
  <2>1. CampaignInv' /\ FixedStep
    BY <1>2, <1>7 DEF RecordEligibility
  <2>2. CohortInv' /\ p \notin Recorded(SubjectOf[u])
    BY <1>0, <1>7, RecordingKeepsCohorts
  <2>3. ASSUME NEW s \in Subjects, NEW q \in Recorded(s) PROVE eligibility'[s][q] = eligibility[s][q]
    <3>1. q \in Periods /\ (s # SubjectOf[u] \/ q # p)
      BY <2>2 DEF Recorded
    <3> QED BY <1>0, <1>7, <3>1, SubjectOfAccount DEF RecordEligibility, CohortTypeOK
  <2> QED BY <1>0, <2>1, <2>2, <2>3, UntouchedIsKept DEF SnapshotStep
<1>8. ASSUME NEW u \in Recipients, NEW p \in Periods, NEW r \in ClaimRequests, ClaimEligibility(u, p, r)
      PROVE  CampaignInv' /\ CohortInv' /\ SnapshotStep /\ FixedStep
  <2>1. /\ CampaignInv' /\ CohortInv' /\ FixedStep
        /\ \A s \in Subjects : \A q \in Recorded(s) :
             \/ eligibility'[s][q] = eligibility[s][q]
             \/ /\ eligibility'[s][q] = [eligibility[s][q] EXCEPT !.claim = r]
                /\ eligibility[s][q].claim = NoClaim /\ now < eligibility[s][q].deadline
    BY <1>8, ClaimingKeepsCohorts
  <2>2. ASSUME NEW s \in Subjects, NEW q \in Recorded(s) PROVE SnapshotKept(s, q)
    <3>1. CASE eligibility'[s][q] = eligibility[s][q]
      BY <1>0, <3>1, UntouchedIsKept
    <3>2. CASE /\ eligibility'[s][q] = [eligibility[s][q] EXCEPT !.claim = r]
               /\ eligibility[s][q].claim = NoClaim /\ now < eligibility[s][q].deadline
      BY <1>0, <3>2, ClaimedIsKept
    <3> QED BY <2>1, <3>1, <3>2
  <2> QED BY <2>1, <2>2 DEF SnapshotStep
<1>9. ASSUME SetCohortPolicy PROVE CampaignInv' /\ CohortInv' /\ SnapshotStep /\ FixedStep
  BY <1>0, <1>1, <1>2, <1>9, MovingOnKeepsCohorts DEF SetCohortPolicy, campaignVars, CohortTypeOK
<1>10. ASSUME NEW c \in Campaigns, SetPrice(c) PROVE CampaignInv' /\ CohortInv' /\ SnapshotStep /\ FixedStep
  <2>1. price' \in [Campaigns -> Amounts]
    BY <1>0, <1>10 DEF SetPrice, CohortTypeOK
  <2> QED BY <1>0, <1>1, <1>2, <1>10, <2>1, MovingOnKeepsCohorts DEF SetPrice, campaignVars, CohortTypeOK
<1>11. ASSUME UNCHANGED rewardVars PROVE CampaignInv' /\ CohortInv' /\ SnapshotStep /\ FixedStep
  BY <1>0, <1>1, <1>2, <1>11, MovingOnKeepsCohorts DEF rewardVars, cohortVars, campaignVars, CohortTypeOK
<1> QED BY <1>3, <1>4, <1>5, <1>6, <1>7, <1>8, <1>9, <1>10, <1>11 DEF CohortNext

\* The inductive invariants hold of every reachable state.
THEOREM CohortInvariance == CohortSpec => [](CampaignInv /\ CohortInv)
<1>1. CampaignInv /\ CohortInv /\ [CohortNext]_rewardVars => (CampaignInv /\ CohortInv)'
  BY CohortStep
<1> QED BY <1>1, CohortInvInit, PTL DEF CohortSpec

\* Eligibilities are neither withdrawn nor rewritten, and are claimed once, in
\* time.
THEOREM SnapshotsStay == CohortSpec => SnapshotsAreKept
<1>1. SnapshotStep <=> \A s \in Subjects : \A p \in Recorded(s) :
        LET old == eligibility[s][p]
            new == eligibility'[s][p]
        IN /\ \E u \in {old.user, NoOne}, r \in ClaimRequests \cup {NoClaim} :
                new = [old EXCEPT !.user = u, !.claim = r]
           /\ old.claim # NoClaim => new.claim = old.claim
           /\ old.claim # new.claim => now < old.deadline
  BY DEF SnapshotStep, SnapshotKept
<1>2. CampaignInv /\ CohortInv /\ [CohortNext]_rewardVars => [SnapshotStep]_rewardVars
  BY CohortStep
<1> QED BY <1>1, <1>2, CohortInvariance, PTL DEF CohortSpec, SnapshotsAreKept

\* Claims and direct grants share a campaign's limits, and keep them through
\* every outcome, revival, signal, deleted account and change of price or policy.
THEOREM ClaimsKeepBudgets == CohortSpec => []BudgetIsKept
BY CohortInvariance, LimitsAreKept, PTL

\* An eligibility that promised a reward of a campaign is no way round its end:
\* claims, too, are never paid by a campaign that operators ended.
THEOREM ClaimsStayFixed == CohortSpec => RewardsAreFixed
<1>1. FixedStep <=> \A r \in Requests :
        IF reward[r] = NoReward
        THEN reward'[r] # NoReward => reward'[r].campaign \notin ended
        ELSE /\ reward'[r].user = reward[r].user /\ reward'[r].campaign = reward[r].campaign
             /\ reward'[r].amount = reward[r].amount
             /\ reward[r].status = "success" => reward'[r].status = "success"
  BY DEF FixedStep, RowKept
<1>2. CampaignInv /\ CohortInv /\ [CohortNext]_rewardVars => [FixedStep]_campaignVars
  BY CohortStep
<1> QED BY <1>1, <1>2, CohortInvariance, PTL DEF CohortSpec, RewardsAreFixed

\* The welcome rewards of a person are earned in one span of welcome days.
LEMMA WelcomeSpan == CampaignInv /\ CohortInv => OneWelcomeSpan
<1> SUFFICES ASSUME CampaignInv, CohortInv, NEW s \in Subjects, NEW p \in Recorded(s), NEW q \in Recorded(s),
                    eligibility[s][p].basis = "WELCOME", eligibility[s][q].basis = "WELCOME"
             PROVE  \E u \in Recipients, w \in {x.welcomeDays : x \in CohortPolicies} :
                      /\ SubjectOf[u] = s /\ joined[u] # Null
                      /\ \A t \in {eligibility[s][p].earnedAt, eligibility[s][q].earnedAt} :
                           joined[u] <= t /\ LocalDay(t) < LocalDay(joined[u]) + w
  BY DEF OneWelcomeSpan
<1> USE DEF CohortInv
<1>1. subject[s] \in Cohorts /\ subject[s].cohort = "WELCOME" /\ subject[s] # Unregistered
  BY DEF EarnedInv, CohortTypeOK
<1>2. PICK u \in Recipients, x \in CohortPolicies : WindowOf(s, u, x)
  BY <1>1 DEF SubjectsInv
<1>3. /\ SubjectOf[u] = s /\ joined[u] = subject[s].firstSeen /\ joined[u] \in Int /\ joined[u] # Null
      /\ subject[s].endsAt = LocalDayStart(LocalDay(joined[u]) + x.welcomeDays)
      /\ x.welcomeDays \in Int
  BY <1>1, <1>2, CohortAssumption DEF WindowOf, WelcomeEnd, Cohorts, Times, Null
<1>4. LocalDay(joined[u]) \in Int
  BY <1>3, CohortAssumption DEF LocalDay
<1>5. ASSUME NEW k \in Recorded(s), eligibility[s][k].basis = "WELCOME"
      PROVE  /\ joined[u] <= eligibility[s][k].earnedAt
             /\ LocalDay(eligibility[s][k].earnedAt) < LocalDay(joined[u]) + x.welcomeDays
  <2>1. eligibility[s][k].earnedAt \in Int
    BY RecordedRows DEF Eligibilities, Times
  <2>2. subject[s].firstSeen <= eligibility[s][k].earnedAt /\ eligibility[s][k].earnedAt < subject[s].endsAt
    BY <1>5 DEF EarnedInv
  <2>3. LocalDay(joined[u]) + x.welcomeDays \in Int
    BY <1>3, <1>4
  <2>4. eligibility[s][k].earnedAt < LocalDayStart(LocalDay(joined[u]) + x.welcomeDays)
    BY <1>3, <2>2
  <2>5. LocalDay(eligibility[s][k].earnedAt) < LocalDay(joined[u]) + x.welcomeDays
    BY <2>1, <2>3, <2>4, DaysAreOrdered
  <2> QED BY <1>3, <2>2, <2>5
<1> QED BY <1>2, <1>3, <1>5

THEOREM WelcomeSpanStaysOne == CohortSpec => []OneWelcomeSpan
BY CohortInvariance, WelcomeSpan, PTL

\* Claims and ledger rows pair off.
LEMMA PaidOnce == CampaignInv /\ CohortInv => PaidOncePerPeriod
<1> SUFFICES ASSUME CampaignInv, CohortInv, NEW s \in Subjects
             PROVE  LET paid == {p \in Recorded(s) : eligibility[s][p].claim # NoClaim}
                        rewards == {r \in ClaimRequests : reward[r] # NoReward /\ SubjectOf[reward[r].user] = s}
                    IN /\ \A p, q \in paid : p # q => p[2] < q[1] \/ q[2] < p[1]
                       /\ rewards = {eligibility[s][p].claim : p \in paid}
                       /\ Cardinality(rewards) = Cardinality(paid) /\ Cardinality(rewards) <= MaxPerSubject
                       /\ \A p \in paid : reward[eligibility[s][p].claim].amount = eligibility[s][p].amount
  BY DEF PaidOncePerPeriod, CohortInv
<1> USE DEF CohortInv
<1> DEFINE paid == {p \in Recorded(s) : eligibility[s][p].claim # NoClaim}
           rewards == {r \in ClaimRequests : reward[r] # NoReward /\ SubjectOf[reward[r].user] = s}
           claimOf == [p \in paid |-> eligibility[s][p].claim]
<1>1. \A p, q \in paid : p # q => p[2] < q[1] \/ q[2] < p[1]
  BY DEF PeriodsInv
<1>2. \A p \in paid : /\ claimOf[p] = eligibility[s][p].claim /\ claimOf[p] \in rewards
                      /\ reward[eligibility[s][p].claim].amount = eligibility[s][p].amount
  BY RecordedRows DEF ClaimsInv, Eligibilities
<1>3. \A r \in rewards : \E p \in paid : claimOf[p] = r
  BY ClaimsAreRequests DEF ClaimsInv, ClaimRows
<1>4. \A p, q \in paid : claimOf[p] = claimOf[q] => p = q
  BY DEF ClaimsInv
<1>5. rewards = {eligibility[s][p].claim : p \in paid}
  <2>1. \A r \in rewards : \E p \in paid : r = eligibility[s][p].claim
    BY <1>2, <1>3
  <2>2. \A p \in paid : eligibility[s][p].claim \in rewards
    BY <1>2
  <2> HIDE DEF paid, rewards, claimOf
  <2> QED BY <2>1, <2>2
<1>6. IsFiniteSet(paid) /\ Cardinality(paid) <= MaxPerSubject /\ Cardinality(paid) \in Nat
  <2>1. paid \in SUBSET Recorded(s) /\ IsFiniteSet(Recorded(s)) /\ Cardinality(Recorded(s)) <= MaxPerSubject
    BY DEF PeriodsInv
  <2> HIDE DEF paid
  <2>2. IsFiniteSet(paid) /\ Cardinality(paid) <= Cardinality(Recorded(s))
    BY <2>1, FS_Subset
  <2>3. Cardinality(paid) \in Nat /\ Cardinality(Recorded(s)) \in Nat
    BY <2>1, <2>2, FS_CardinalityType
  <2> QED BY <2>1, <2>2, <2>3, CohortAssumption
<1>7. Cardinality(rewards) = Cardinality(paid)
  <2>1. claimOf \in Bijection(paid, rewards)
    <3>1. claimOf \in [paid -> rewards]
      BY <1>2
    <3> HIDE DEF paid, rewards, claimOf
    <3> QED BY <1>3, <1>4, <3>1 DEF Bijection, Injection, Surjection, IsInjective
  <2> HIDE DEF paid, rewards, claimOf
  <2> QED BY <1>6, <2>1, FS_Bijection DEF ExistsBijection
<1> HIDE DEF claimOf
<1> QED BY <1>1, <1>2, <1>5, <1>6, <1>7

\* A person is paid once for overlapping periods, by one ledger row each, and
\* the amount promised when the condition was met.
THEOREM PaidOnceAlways == CohortSpec => []PaidOncePerPeriod
BY CohortInvariance, PaidOnce, PTL
=============================================================================
