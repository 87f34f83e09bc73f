------------------------ MODULE MCPromotionCampaigns ------------------------
(* Instances of PromotionCampaigns for TLC. *)
EXTENDS PromotionCampaigns, TLC

CONSTANTS spring, summer
Starts == [c \in Campaigns |-> IF c = spring THEN 0 ELSE 1]
Ends == [c \in Campaigns |-> IF c = spring THEN 3 ELSE 2]
Ages == [c \in Campaigns |-> IF c = spring THEN 1 ELSE 2]
Limits == [c \in Campaigns |-> IF c = spring THEN 3 ELSE 4]
Counts == [c \in Campaigns |-> IF c = spring THEN Null ELSE 1]
Interchangeable == Permutations(Requests) \cup Permutations(Recipients)
=============================================================================
