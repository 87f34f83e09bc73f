----------------------------- MODULE MCAppRewards -----------------------------
(* Instances of AppRewards for TLC. *)
EXTENDS AppRewards, TLC

Symmetric == Permutations(Users) \cup Permutations(Attempts)

ServerOffers == {[version |-> "v1", amount |-> 1, ttl |-> 1], [version |-> "v2", amount |-> 2, ttl |-> 2]}
\* v2 follows v1 and asks for the market value of an exchange.
PolicyHistory == {[version |-> "v1", mode |-> "NONE", from |-> 0, to |-> 1],
                  [version |-> "v2", mode |-> "MARKET_SNAPSHOT", from |-> 1, to |-> Null]}
\* The feature open until time 2, and held from outside.
RunningOpen == [hold |-> FALSE, enabled |-> TRUE,
                policy |-> [feature |-> "AppReward", revision |-> 1, allows |-> {"Entry", "Settlement"},
                            updatedAt |-> 0, expiresAt |-> 2]]
OpenAndHeld == {RunningOpen, [RunningOpen EXCEPT !.hold = TRUE]}
=============================================================================
