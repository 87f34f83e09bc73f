(* One person with two accounts in turn, two policies, and periods that overlap or not. *)
SPECIFICATION CohortSpec
CONSTANTS
  spring = spring
  kim = kim
  Campaigns = {spring}
  EnvCampaign = EnvCampaign
  StartsAt <- Starts
  EndsAt <- Ends
  CreatedAt <- Starts
  Budget <- Limits
  MaxCount <- Counts
  RowLimit = 10
  EnvFallback = FALSE
  Recipients = {u1, u2}
  Requests = {d1, r1, r2}
  Amounts = {1, 2}
  MaxTime = 3
  Subjects = {kim}
  SubjectOf <- KimsAccounts
  NoOne = NoOne
  DayLength = 2
  UtcOffset = 1
  CohortPolicies <- PolicyVersions
  Periods <- DayPairs
  ClaimDays = 1
  MaxPerSubject = 2
  ClaimRequests = {r1, r2}
  NoClaim = NoClaim
SYMMETRY Interchangeable
CONSTRAINT Explored
INVARIANTS
  
  
  OneWelcomeSpan
PROPERTIES
  SnapshotsAreKept
