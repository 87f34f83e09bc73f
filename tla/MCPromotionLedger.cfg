(* One request of the three-step flow and one left by the legacy flow, two workers, two keys to fight over, and an operator who pauses dispatch. *)
SPECIFICATION Spec
CONSTANTS
  Requests = {1, 2}
  LegacyRequests = {2}
  Keys = {k1, k2}
  NoKey = NoKey
  Workers = {w1, w2}
  MaxTime = 2
  AbandonAge = 0
  RecoveryAge = 0
  Limit = 1
  Policies <- PausedDispatch
SYMMETRY Symmetric
INVARIANTS
  TypeOK
  AtMostOneExecution
  HandleIsStored
  AbandonedNeverRuns
  SuccessIsGranted
  StampsMatchStatus
PROPERTIES
  FactsAreWriteOnce
  ImplementsContract
