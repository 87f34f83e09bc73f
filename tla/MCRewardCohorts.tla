--------------------------- MODULE MCRewardCohorts ---------------------------
(* Instances of RewardCohorts for TLC. *)
EXTENDS RewardCohorts, TLC

CONSTANTS spring, kim
Starts == [c \in Campaigns |-> 0]
Ends == [c \in Campaigns |-> 4]
Limits == [c \in Campaigns |-> 2]
Counts == [c \in Campaigns |-> Null]
KimsAccounts == [u \in Recipients |-> kim]
\* Instants 0..3 fall on local days 0, 1, 1 and 2; the second policy makes early
\* joiners legacy.
PolicyVersions == {[cutover |-> 0, legacyEnd |-> 1, welcomeDays |-> 1],
                   [cutover |-> 1, legacyEnd |-> 2, welcomeDays |-> 2]}
DayPairs == {<<0, 0>>, <<0, 1>>, <<1, 2>>}
Interchangeable == Permutations(ClaimRequests) \cup Permutations(Recipients)
\* What is explored: no second settled reward, no direct grant of another
\* amount, and of the statuses that pay nothing only PAUSED.  The steps that
\* leave these states are still checked.
Explored ==
  /\ \A c \in Campaigns : campaign[c] \in {"none", "ACTIVE", "PAUSED"}
  /\ Cardinality({r \in Requests : reward[r].status \in {"success", "failed"}}) <= 1
  /\ \A r \in Requests \ ClaimRequests : reward[r] # NoReward => reward[r].amount = 1
=============================================================================
