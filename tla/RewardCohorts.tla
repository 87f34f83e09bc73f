---------------------------- MODULE RewardCohorts ----------------------------
(***************************************************************************)
(* Reward cohorts and point eligibilities of                               *)
(* crates/trailbase-guest-common/src/reward_cohorts.rs, with the claims    *)
(* that turn an eligibility into a ledger row of PromotionCampaigns.       *)
(*                                                                         *)
(* A subject is a person, whatever account carries it; accounts are        *)
(* deleted and made again.  The server's cohort policy and the campaigns   *)
(* may change between any two requests.  Everything is about one reward    *)
(* kind: kinds share no row.  A period is a pair of local days, and the    *)
(* ledger ID of a claim is the provider request it is made with.           *)
(***************************************************************************)
EXTENDS PromotionCampaigns

CONSTANTS
  Subjects,
  SubjectOf,       \* SubjectOf[u]: the person behind an account
  NoOne,           \* user_id of a row whose account was deleted
  DayLength,       \* DAY_MS
  UtcOffset,       \* utc_offset_ms
  CohortPolicies,  \* policies the server may be configured with
  Periods,         \* periods the app rewards
  ClaimDays,       \* the app's claim deadline, in days after the period
  MaxPerSubject,   \* max_per_subject of the reward kind
  ClaimRequests,   \* the requests the app makes for claims; others are direct grants
  NoClaim          \* claim_ledger_id IS NULL

ASSUME CohortAssumption ==
  /\ SubjectOf \in [Recipients -> Subjects] /\ NoOne \notin Recipients
  /\ DayLength \in Nat \ {0} /\ UtcOffset \in Int
  /\ CohortPolicies \subseteq [cutover : Nat, legacyEnd : Nat, welcomeDays : Nat \ {0}]
  /\ CohortPolicies # {}
  /\ Periods \subseteq {p \in Int \X Int : p[1] <= p[2]}
  /\ ClaimDays \in Nat /\ MaxPerSubject \in Nat \ {0}
  /\ ClaimRequests \subseteq Requests /\ NoClaim \notin Requests

VARIABLES
  policy,       \* the policy in force
  joined,       \* joined[u]: created_at of the account, Null before
  deleted,      \* accounts that were deleted
  subject,      \* subject[s]: the row of reward_subject_cohorts
  eligibility,  \* eligibility[s][p]: the row of promotion_reward_eligibilities
  price         \* price[c]: reward_amount of the campaign now

cohortVars == <<policy, joined, deleted, subject, eligibility, price>>
rewardVars == <<campaignVars, cohortVars>>

-----------------------------------------------------------------------------
LocalDay(t) == (t + UtcOffset) \div DayLength
LocalDayStart(d) == d * DayLength - UtcOffset

Cohorts == [cohort : {"LEGACY", "WELCOME"}, firstSeen : Times, endsAt : Int \cup {Null}]
Unregistered == [cohort |-> "none"]
Eligibilities == [user : Recipients \cup {NoOne}, campaign : Campaigns, amount : Amounts,
                  basis : {"LEGACY", "WELCOME"}, earnedAt : Times, deadline : Int,
                  claim : ClaimRequests \cup {NoClaim}]
Unrecorded == [user |-> NoOne, claim |-> NoClaim]

\* welcome_points_ends_at: the first-seen day counts.
WelcomeEnd(p, firstSeen) == LocalDayStart(LocalDay(firstSeen) + p.welcomeDays)

CohortOf(p, firstSeen) ==
  IF firstSeen < p.cutover
  THEN [cohort |-> "LEGACY", firstSeen |-> firstSeen, endsAt |-> Null]
  ELSE [cohort |-> "WELCOME", firstSeen |-> firstSeen, endsAt |-> WelcomeEnd(p, firstSeen)]

\* INSERT_SUBJECT ... ON CONFLICT DO NOTHING.  Broken: a new registration moves
\* the window.
Reregistered(old, new) == new
Registered(old, new) == IF old = Unregistered THEN new ELSE old

\* can_earn_points_at: a legacy window follows the policy, a welcome one stays.
PointsEnd(row) == IF row.cohort = "LEGACY" THEN policy.legacyEnd ELSE row.endsAt
CanEarnAt(row, t) == t < PointsEnd(row)

\* The overlap query, over all accounts of the subject.  Broken: exact repeats only.
SamePeriod(p, q) == p = q
Overlap(p, q) == q[1] <= p[2] /\ q[2] >= p[1]
Recorded(s) == {p \in Periods : eligibility[s][p] # Unrecorded}
Linked(r) == \E s \in Subjects : \E p \in Recorded(s) : eligibility[s][p].claim = r

Deadline(p) == LocalDayStart(p[2] + ClaimDays)

\* What a claim of `row` may be linked to: its own ledger again, or a new one
\* before the deadline.  Broken: another ledger takes the claim over.
ClaimTakenOver(row, r) == row.claim = r \/ now < row.deadline
MayClaim(row, r) == row.claim = r \/ (row.claim = NoClaim /\ now < row.deadline)

-----------------------------------------------------------------------------
CohortInit ==
  /\ CampaignInit
  /\ policy \in CohortPolicies
  /\ joined = [u \in Recipients |-> Null]
  /\ deleted = {}
  /\ subject = [s \in Subjects |-> Unregistered]
  /\ eligibility = [s \in Subjects |-> [p \in Periods |-> Unrecorded]]
  /\ price \in [Campaigns -> Amounts]

Live(u) == joined[u] # Null /\ u \notin deleted

\* The app's accounts: a person has one at a time.
Join(u) ==
  /\ joined[u] = Null
  /\ \A v \in Recipients : SubjectOf[v] = SubjectOf[u] => ~Live(v)
  /\ joined' = [joined EXCEPT ![u] = now]
  /\ UNCHANGED <<campaignVars, policy, deleted, subject, eligibility, price>>

\* Deleting the account sets user_id to NULL and leaves the subject alone.
DeleteAccount(u) ==
  /\ Live(u)
  /\ deleted' = deleted \cup {u}
  /\ eligibility' = [s \in Subjects |-> [p \in Periods |->
       IF p \in Recorded(s) /\ eligibility[s][p].user = u
       THEN [eligibility[s][p] EXCEPT !.user = NoOne] ELSE eligibility[s][p]]]
  /\ UNCHANGED <<campaignVars, policy, joined, subject, price>>

\* register_reward_subject_tx with the created_at of the account.
RegisterSubject(u) ==
  /\ Live(u)
  /\ subject' = [subject EXCEPT ![SubjectOf[u]] = Registered(@, CohortOf(policy, joined[u]))]
  /\ UNCHANGED <<campaignVars, policy, joined, deleted, eligibility, price>>

\* record_point_eligibility_tx: overlap, window and cap are checked in this
\* order, and any refusal writes nothing; so does a campaign that is not there.
RecordEligibility(u, p, c, earnedAt) ==
  LET s == SubjectOf[u] IN
  /\ Live(u) /\ subject[s] # Unregistered
  /\ joined[u] <= earnedAt /\ earnedAt <= now /\ earnedAt < Deadline(p)
  /\ \A q \in Recorded(s) : ~Overlap(p, q)
  /\ CanEarnAt(subject[s], earnedAt)
  /\ Cardinality(Recorded(s)) < MaxPerSubject
  /\ c \in Stored
  /\ eligibility' = [eligibility EXCEPT ![s][p] =
       [user |-> u, campaign |-> c, amount |-> price[c], basis |-> subject[s].cohort,
        earnedAt |-> earnedAt, deadline |-> Deadline(p), claim |-> NoClaim]]
  /\ UNCHANGED <<campaignVars, policy, joined, deleted, subject, price>>

\* The app's claim transaction: mark_point_eligibility_claimed_tx, where the
\* ledger ID is unique, and the ledger insert for the stored campaign and
\* amount.  A first claim needs the campaign to be available.
ClaimEligibility(u, p, r) ==
  LET s == SubjectOf[u]
      row == eligibility[s][p]
  IN /\ Live(u) /\ p \in Recorded(s) /\ row.user = u
     /\ MayClaim(row, r)
     /\ row.claim # r => /\ ~Linked(r) /\ reward[r] = NoReward
                         /\ UnavailableReason(row.campaign, Usage, now, row.amount) = "None"
     /\ eligibility' = [eligibility EXCEPT ![s][p].claim = r]
     /\ reward' = Inserted(r, NewReward(u, row.campaign, row.amount))
     /\ UNCHANGED <<campaign, revived, ended, now, policy, joined, deleted, subject, price>>

SetCohortPolicy ==
  /\ policy' \in CohortPolicies \ {policy}
  /\ UNCHANGED <<campaignVars, joined, deleted, subject, eligibility, price>>

SetPrice(c) ==
  /\ \E a \in Amounts \ {price[c]} : price' = [price EXCEPT ![c] = a]
  /\ UNCHANGED <<campaignVars, policy, joined, deleted, subject, eligibility>>

\* Claims share campaigns and ledger with the grants that need no eligibility;
\* the outcomes and the provider's signals are about both.
CohortNext ==
  \/ /\ \/ Pass
        \/ \E c \in Campaigns : SetCampaign(c) \/ Signal(c)
        \/ \E r \in Requests : SettleReward(r)
        \/ \E u \in Recipients, r \in Requests \ ClaimRequests, a \in Amounts :
             Live(u) /\ GrantReward(r, u, a)
     /\ UNCHANGED cohortVars
  \/ \E u \in Recipients : Join(u) \/ DeleteAccount(u) \/ RegisterSubject(u)
  \/ \E u \in Recipients, p \in Periods, c \in Campaigns, t \in Times : RecordEligibility(u, p, c, t)
  \/ \E u \in Recipients, p \in Periods, r \in ClaimRequests : ClaimEligibility(u, p, r)
  \/ SetCohortPolicy
  \/ \E c \in Campaigns : SetPrice(c)

CohortSpec == CohortInit /\ [][CohortNext]_rewardVars

-----------------------------------------------------------------------------
\* Every reachable cohort, eligibility and account is well formed.
CohortTypeOK ==
  /\ policy \in CohortPolicies
  /\ joined \in [Recipients -> Times \cup {Null}]
  /\ deleted \subseteq Recipients
  /\ subject \in [Subjects -> Cohorts \cup {Unregistered}]
  /\ eligibility \in [Subjects -> [Periods -> Eligibilities \cup {Unrecorded}]]
  /\ price \in [Campaigns -> Amounts]

\* Whatever accounts it goes through, a person is paid once for overlapping
\* periods, at most MaxPerSubject times, by one ledger row each, and the amount
\* promised when the condition was met.  A row that fails, is abandoned or is
\* granted after all is never replaced by another.
PaidOncePerPeriod ==
  /\ CohortTypeOK
  /\ \A s \in Subjects :
       LET paid == {p \in Recorded(s) : eligibility[s][p].claim # NoClaim}
           rewards == {r \in ClaimRequests : reward[r] # NoReward /\ SubjectOf[reward[r].user] = s}
       IN /\ \A p, q \in paid : p # q => p[2] < q[1] \/ q[2] < p[1]
          /\ rewards = {eligibility[s][p].claim : p \in paid}
          /\ Cardinality(rewards) = Cardinality(paid) /\ Cardinality(rewards) <= MaxPerSubject
          /\ \A p \in paid : reward[eligibility[s][p].claim].amount = eligibility[s][p].amount

\* All the welcome rewards of a person are earned in one span of welcome days,
\* beginning on a day the person joined: no new account, policy or late
\* registration opens a second window.
OneWelcomeSpan ==
  \A s \in Subjects : \A p, q \in Recorded(s) :
    eligibility[s][p].basis = "WELCOME" /\ eligibility[s][q].basis = "WELCOME" =>
      \E u \in Recipients, w \in {x.welcomeDays : x \in CohortPolicies} :
        /\ SubjectOf[u] = s /\ joined[u] # Null
        /\ \A t \in {eligibility[s][p].earnedAt, eligibility[s][q].earnedAt} :
             joined[u] <= t /\ LocalDay(t) < LocalDay(joined[u]) + w

\* A recorded eligibility is never withdrawn, rewritten or given to another
\* account: it loses its owner with the account, and gets its one claim before
\* the deadline.
SnapshotsAreKept ==
  [][\A s \in Subjects : \A p \in Recorded(s) :
       LET old == eligibility[s][p]
           new == eligibility'[s][p]
       IN /\ \E u \in {old.user, NoOne}, r \in ClaimRequests \cup {NoClaim} :
               new = [old EXCEPT !.user = u, !.claim = r]
          /\ old.claim # NoClaim => new.claim = old.claim
          /\ old.claim # new.claim => now < old.deadline]_rewardVars
=============================================================================
