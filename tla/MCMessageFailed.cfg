(* One message, one claim: the smallest instance in which the proxy stops waiting for a send that arrives. *)
SPECIFICATION Spec
CONSTANTS
  Messages = {m1}
  LegacyMessages = {}
  Delays = {0}
  Lease = 1
  Skew = 0
  Limit = 1
  Policies <- AllOpen
  MaxTime = 2
  MaxAttempts = 1
INVARIANTS
  FailedIsConfirmed
CHECK_DEADLOCK FALSE
