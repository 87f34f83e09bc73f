(* Two campaigns of a feature with overlapping windows, one inside the other, and two rewards that two users ask for. *)
SPECIFICATION CampaignSpec
CONSTANTS
  spring = spring
  summer = summer
  Campaigns = {spring, summer}
  EnvCampaign = EnvCampaign
  StartsAt <- Starts
  EndsAt <- Ends
  CreatedAt <- Ages
  Budget <- Limits
  MaxCount <- Counts
  RowLimit = 2
  EnvFallback = TRUE
  Recipients = {alice, bob}
  Requests = {r1, r2}
  Amounts = {1, 2}
  MaxTime = 2
SYMMETRY Interchangeable
INVARIANTS
  BudgetIsKept
  NewestRunningPays
PROPERTIES
  RewardsAreFixed
