------------------------- MODULE PromotionCampaigns -------------------------
(***************************************************************************)
(* The campaigns of                                                        *)
(* crates/trailbase-guest-common/src/promotion_campaigns.rs and the budget *)
(* they share with the reward ledger of promotion_rewards.rs.              *)
(*                                                                         *)
(* In one transaction the app reads what a feature has committed, resolves *)
(* the campaign that may pay an amount, and inserts the ledger row.  The   *)
(* outcomes of the row move it in and out of the committed sum; operators  *)
(* and late provider signals change the campaigns meanwhile.               *)
(*                                                                         *)
(* The row is followed by its status only: PromotionLedger has the         *)
(* protocol that produces the outcomes.  The sums are small integers; the  *)
(* checked addition of the code refuses what would overflow.               *)
(***************************************************************************)
EXTENDS Integers, FiniteSets, SetSums

CONSTANTS
  Campaigns,     \* rows of promotion_campaigns for the feature
  EnvCampaign,   \* "env:<feature_key>"
  StartsAt, EndsAt, CreatedAt, Budget, MaxCount,  \* their columns
  RowLimit,      \* LIMIT of the campaign query
  EnvFallback,   \* the env fallback is enabled and has a code
  Recipients,    \* users that may be rewarded
  Requests,      \* provider_request_id values
  Amounts,       \* amounts a reward may have
  MaxTime        \* bound of the clock

Null == -1
Times == 0..MaxTime

ASSUME CampaignAssumption ==
  /\ IsFiniteSet(Campaigns) /\ EnvCampaign \notin Campaigns
  /\ StartsAt \in [Campaigns -> Int] /\ EndsAt \in [Campaigns -> Int]
  /\ CreatedAt \in [Campaigns -> Int]
  /\ Budget \in [Campaigns -> Nat \ {0}]
  /\ MaxCount \in [Campaigns -> Nat \cup {Null}]
  /\ RowLimit \in Nat \ {0} /\ MaxTime \in Nat
  /\ Amounts \subseteq Nat \ {0}

VARIABLES
  campaign,   \* campaign[c]: its status, "none" before the row is inserted
  reward,     \* reward[r]: the ledger row of provider request r
  revived,    \* requests granted after they were recorded as failed
  ended,      \* campaigns operators ended and have not activated since
  now         \* the clock

campaignVars == <<campaign, reward, revived, ended, now>>

-----------------------------------------------------------------------------
CampaignStatuses == {"DRAFT", "ACTIVE", "PAUSED", "ENDED", "EXHAUSTED"}
Outcomes == {"pending", "success", "failed"}
Rewards == [user : Recipients, campaign : Campaigns \cup {EnvCampaign},
            amount : Amounts, status : Outcomes]
NoReward == [status |-> "none"]
NewReward(u, c, amount) == [user |-> u, campaign |-> c, amount |-> amount, status |-> "pending"]

\* committed_statuses, as the tests of the usage query have them.
\* Broken: only what the provider confirmed counts.
GrantedOnly == {"success"}
Committed == {"pending", "success"}

SumOf(R) == Total([r \in R |-> reward[r].amount], R)
CommittedTo(C) == {r \in Requests : reward[r].status \in Committed /\ reward[r].campaign \in C}

\* promotion_reward_usage_for_feature_tx: the feature's campaigns and the env one.
Stored == {c \in Campaigns : campaign[c] # "none"}
Usage == LET R == CommittedTo(Stored \cup {EnvCampaign})
         IN [amount |-> SumOf(R), count |-> Cardinality(R)]

Runs(c, t) == StartsAt[c] <= t /\ t < EndsAt[c]

\* campaign_unavailable_reason_for_amount, "None" when the campaign can pay: the
\* status first, then the window, then the limits.  Broken: a paused campaign,
\* which an ended one becomes by a signal, is not refused.
RefusesUsedUp(c) == IF campaign[c] \in {"EXHAUSTED", "ENDED"} THEN "Exhausted" ELSE "None"
StatusReason(c) ==
  CASE campaign[c] = "ACTIVE" -> "None" [] campaign[c] = "EXHAUSTED" -> "Exhausted" [] OTHER -> "Paused"
UnavailableReason(c, usage, t, amount) ==
  IF StatusReason(c) # "None" THEN StatusReason(c)
  ELSE IF StartsAt[c] > t THEN "NotStarted"
  ELSE IF EndsAt[c] <= t THEN "Ended"
  ELSE IF usage.amount + amount > Budget[c] THEN "BudgetExhausted"
  ELSE IF MaxCount[c] # Null /\ usage.count + 1 > MaxCount[c] THEN "CountExhausted"
  ELSE "None"

\* The ORDER BY of load_campaign_rows_tx.
Rank(c) == CASE campaign[c] = "ACTIVE" -> 0 [] campaign[c] = "PAUSED" -> 1 [] OTHER -> 2
Earlier(c, d) ==
  \/ Rank(c) < Rank(d)
  \/ Rank(c) = Rank(d) /\ StartsAt[c] > StartsAt[d]
  \/ Rank(c) = Rank(d) /\ StartsAt[c] = StartsAt[d] /\ CreatedAt[c] > CreatedAt[d]
LoadedRows == {c \in Stored : Cardinality({d \in Stored : Earlier(d, c)}) < RowLimit}

\* resolve_promotion_campaign_for_amount_tx: the campaigns a call may come back
\* with, more than one only where the ORDER BY leaves a tie.  Rows outside their
\* window are passed over, any other refusal ends the search; the env campaign
\* stands in only for a feature without rows.  Broken: the first row decides.
FirstOf(C) == {c \in C : \A d \in C : ~Earlier(d, c)}
EnvResolved == IF EnvFallback THEN {EnvCampaign} ELSE {}
FirstRowDecides(amount) ==
  IF Stored = {} THEN EnvResolved
  ELSE {c \in FirstOf(LoadedRows) : UnavailableReason(c, Usage, now, amount) = "None"}
Resolve(amount) ==
  LET usage == Usage
      decisive == {c \in LoadedRows :
                    UnavailableReason(c, usage, now, amount) \notin {"NotStarted", "Ended"}}
  IN IF Stored = {} THEN EnvResolved
     ELSE {c \in FirstOf(decisive) : UnavailableReason(c, usage, now, amount) = "None"}

\* insert_promotion_reward_ledger_tx on the unique provider_request_id.  A row
\* of the same context is returned, one of another is a conflict; neither is
\* changed.  Broken: the conflicting row is replaced.
Replaced(r, row) == [reward EXCEPT ![r] = row]
Inserted(r, row) == [reward EXCEPT ![r] = IF @ = NoReward THEN row ELSE @]

\* The outcome UPDATE's sticky-terminal guards.
Settled(old, new) ==
  CASE old = "success" -> "success"
    [] old = "failed" /\ new = "pending" -> "failed"
    [] OTHER -> new

\* What a provider error code says of its campaign, if anything.
Signals == {"Exhausted", "Paused", "Misconfigured"}

\* apply_provider_signal_tx writes over whatever the status is.
Signalled(c, signal) == IF signal = "Exhausted" THEN "EXHAUSTED" ELSE "PAUSED"

-----------------------------------------------------------------------------
CampaignInit ==
  /\ campaign = [c \in Campaigns |-> "none"]
  /\ reward = [r \in Requests |-> NoReward]
  /\ revived = {}
  /\ ended = {}
  /\ now = 0

\* Operators write the rows themselves, and nothing in the schema keeps one
\* from opening a campaign again.
EndedAfter(c, s) == IF s = "ENDED" THEN ended \cup {c} ELSE IF s = "ACTIVE" THEN ended \ {c} ELSE ended
SetCampaign(c) ==
  /\ \E s \in CampaignStatuses \ {campaign[c]} :
       campaign' = [campaign EXCEPT ![c] = s] /\ ended' = EndedAfter(c, s)
  /\ UNCHANGED <<reward, revived, now>>

\* The app's reward transaction.  A retry brings the same request again, when
\* another campaign may have been resolved, or another user's.
GrantReward(r, u, amount) ==
  /\ \E c \in Resolve(amount) : reward' = Inserted(r, NewReward(u, c, amount))
  /\ UNCHANGED <<campaign, revived, ended, now>>

\* apply_promotion_reward_outcome_tx.  A failure may be the provider's word on
\* an execution that it grants after all.
SettleReward(r) ==
  /\ reward[r] # NoReward
  /\ \E s \in Outcomes :
       /\ reward' = [reward EXCEPT ![r].status = Settled(@, s)]
       /\ revived' = IF reward[r].status = "failed" /\ s = "success" THEN revived \cup {r} ELSE revived
  /\ UNCHANGED <<campaign, ended, now>>

\* apply_provider_signal_tx, on an answer about a reward of c, at any time.
Signal(c) ==
  /\ \E r \in Requests : reward[r] # NoReward /\ reward[r].campaign = c
  /\ \E s \in Signals :
       campaign' = [campaign EXCEPT ![c] = Signalled(c, s)]
  /\ UNCHANGED <<reward, revived, ended, now>>

Pass ==
  /\ now < MaxTime
  /\ now' = now + 1
  /\ UNCHANGED <<campaign, reward, revived, ended>>

CampaignNext ==
  \/ \E c \in Campaigns : SetCampaign(c) \/ Signal(c)
  \/ \E r \in Requests, u \in Recipients, a \in Amounts : GrantReward(r, u, a)
  \/ \E r \in Requests : SettleReward(r)
  \/ Pass

CampaignSpec == CampaignInit /\ [][CampaignNext]_campaignVars

-----------------------------------------------------------------------------
\* Every reachable campaign and ledger row is well formed.
CampaignTypeOK ==
  /\ campaign \in [Campaigns -> CampaignStatuses \cup {"none"}]
  /\ reward \in [Requests -> Rewards \cup {NoReward}]
  /\ revived \subseteq Requests
  /\ ended \subseteq Campaigns
  /\ now \in Times

\* No campaign commits more than its budget or its count, whatever else its
\* feature pays, but for the rewards that were granted after they failed: their
\* share was free to be given away meanwhile.
Charged(c) == {r \in Requests : reward[r].status \in {"pending", "success"} /\ reward[r].campaign = c}
WithinBudget(c) ==
  /\ SumOf(Charged(c)) <= Budget[c] + SumOf(Charged(c) \cap revived)
  /\ MaxCount[c] # Null =>
       Cardinality(Charged(c)) <= MaxCount[c] + Cardinality(Charged(c) \cap revived)
BudgetIsKept == CampaignTypeOK /\ \A c \in Campaigns : WithinBudget(c)

\* What pays is the newest campaign that is active and in its window, and
\* nothing older stands in when it is used up; as long as the query's limit has
\* room for the active campaigns, future and past ones never hide it.
Running == {c \in Campaigns : campaign[c] = "ACTIVE" /\ Runs(c, now)}
NewestRunning ==
  {c \in Running : \A d \in Running :
     StartsAt[d] < StartsAt[c] \/ (StartsAt[d] = StartsAt[c] /\ CreatedAt[d] <= CreatedAt[c])}
NewestRunningPays ==
  Stored # {} =>
    \A a \in Amounts :
      LET usage == Usage
          payers == {c \in NewestRunning : UnavailableReason(c, usage, now, a) = "None"}
      IN /\ Resolve(a) \subseteq payers
         /\ Cardinality({c \in Campaigns : campaign[c] = "ACTIVE"}) <= RowLimit => Resolve(a) = payers

\* A request keeps its user, campaign and amount through every retry, and a
\* granted one stays granted.  A campaign that operators ended gives no reward
\* until they activate it, although a late signal may turn ENDED into PAUSED or
\* EXHAUSTED: signals, retries and the env fallback never open it again.
RewardsAreFixed ==
  [][\A r \in Requests :
       IF reward[r] = NoReward
       THEN reward'[r] # NoReward => reward'[r].campaign \notin ended
       ELSE /\ reward'[r].user = reward[r].user /\ reward'[r].campaign = reward[r].campaign
            /\ reward'[r].amount = reward[r].amount
            /\ reward[r].status = "success" => reward'[r].status = "success"]_campaignVars
=============================================================================
