(* One message, one claim: the smallest instance in which an answer says ok:true and nothing else. *)
SPECIFICATION Spec
CONSTANTS
  Messages = {m1}
  LegacyMessages = {}
  Delays = {0}
  Lease = 1
  Skew = 0
  Limit = 1
  Policies <- AllOpen
  MaxTime = 2
  MaxAttempts = 1
INVARIANTS
  SentWasDelivered
CHECK_DEADLOCK FALSE
