(* One monthly order; a pair of events with equal times, one event sent with two
   precisions, one with too many digits and one for another product. *)
SPECIFICATION SubscriptionSpec
CONSTANTS
  o1 = o1
  alice = alice
  mallory = mallory
  monthly = monthly
  yearly = yearly
  Orders = {o1}
  Users = {alice, mallory}
  Skus = {monthly, yearly}
  Payer <- PayerOf
  SkuOf <- BoughtSku
  NoUser = NoUser
  Workers = {w1}
  GrantIds = {g1}
  NoGrant = NoGrant
  MaxTime = 0
  Skew = 0
  Settings <- AlwaysOpen
  Webhooks <- Posted
  FractionDigits = 1
  NoEvent = NoEvent
INVARIANTS
  NewestWins
  AccessIsBacked
PROPERTIES
  EventsAreFolded
