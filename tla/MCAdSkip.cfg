(* Two opportunities, two requests of two attempts each, room for two of them, and three grant periods, two of them disjoint. *)
SPECIFICATION AdSkipSpec
CONSTANTS
  Opportunities = {1, 2}
  RequestIds = {1, 2}
  Periods <- DayPairs
  MaxAttempts = 2
  MaxPending = 2
INVARIANTS
  TicketsAddUp
  ChargesAreKnown
  EffectsRunOnce
