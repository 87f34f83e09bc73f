(* Three attempts and an exchange of two accounts, a quota of two each, a policy change and a hold. *)
SPECIFICATION Spec
CONSTANTS
  Users = {u1, u2}
  Attempts = {a1, a2, a3}
  Exchanges = {x1}
  Offers <- ServerOffers
  CurrencyPolicies <- PolicyHistory
  Quantities = {1, 2}
  Valuations = {7}
  AppControls <- OpenAndHeld
  MaxGrants = 2
  MaxTime = 2
  Null = Null
  NoOne = NoOne
SYMMETRY Symmetric
INVARIANTS
  JournalMirrorsLedger
PROPERTIES
  ReceiptsAreFinal
