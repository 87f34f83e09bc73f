(* One new message and one that an older worker had locked; helpers whose clock lags by one; time for an expired claim and a second one; the fairness of the worker loop. *)
SPECIFICATION FairSpec
CONSTANTS
  Messages = {m1, m2}
  LegacyMessages = {m2}
  Delays = {0, 1}
  Lease = 1
  Skew = 1
  Limit = 1
  Policies <- PausedDispatch
  MaxTime = 2
  MaxAttempts = 2
INVARIANTS
  TypeOK
  AtMostOneSend
  RequeueIsSafe
  AttemptsMirrorOutbox
  UnknownIsNotStamped
  SentIsBacked
PROPERTIES
  OutcomesAreFinal
  ImplementsContract
  LeasesEnd
