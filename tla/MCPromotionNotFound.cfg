(* One request, one worker: the smallest instance in which a status lookup can overtake the execute call it asks about. *)
SPECIFICATION Spec
CONSTANTS
  Requests = {1}
  LegacyRequests = {}
  Keys = {k1}
  NoKey = NoKey
  Workers = {w1}
  MaxTime = 2
  AbandonAge = 0
  RecoveryAge = 0
  Limit = 1
  Policies <- AllOpen
INVARIANTS
  FailedMeansNoGrant
CHECK_DEADLOCK FALSE
