-------------------------- MODULE MCIapSubscriptions --------------------------
(* Instances of IapSubscriptions for TLC. *)
EXTENDS IapSubscriptions, TLC

CONSTANTS o1, alice, mallory, monthly, yearly
PayerOf == [o \in Orders |-> alice]
BoughtSku == [o \in Orders |-> monthly]
AlwaysOpen == {[hold |-> FALSE, enabled |-> FALSE, policy |-> NoPolicy]}

Status(id, sku, at, status, granted, expires) ==
  [id |-> id, order |-> o1, sku |-> sku, at |-> at,
   current |-> [status |-> status, accessGranted |-> granted, expiresAt |-> expires]]
Posted ==
  { Status(1, monthly, <<1>>, "ACTIVE", TRUE, <<3>>),
    Status(1, monthly, <<1, 0>>, "ACTIVE", TRUE, <<3>>),
    Status(2, monthly, <<1>>, "PAUSED", FALSE, <<3>>),
    Status(3, monthly, <<1, 5>>, "IN_GRACE_PERIOD", TRUE, NoExpiry),
    Status(4, yearly, <<3>>, "ACTIVE", TRUE, <<4>>),
    Status(5, monthly, <<2, 0, 0>>, "ACTIVE", TRUE, NoExpiry) }
=============================================================================
