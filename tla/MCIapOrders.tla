----------------------------- MODULE MCIapOrders -----------------------------
(* Instances of IapOrders for TLC. *)
EXTENDS IapOrders, TLC

CONSTANTS o1, alice, mallory, coins, gems
PayerOf == [o \in Orders |-> alice]
BoughtSku == [o \in Orders |-> coins]

Policy(phases) == [feature |-> "Iap", revision |-> 1, allows |-> phases,
                   updatedAt |-> 0, expiresAt |-> MaxTime + 1]
OpenOrPaused == {[hold |-> FALSE, enabled |-> TRUE, policy |-> Policy(p)] : p \in {{}, Gated}}
=============================================================================
