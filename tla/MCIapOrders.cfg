(* One order, its payer and somebody else, a right and a wrong product, two requests in progress. *)
SPECIFICATION FairOrderSpec
CONSTANTS
  o1 = o1
  alice = alice
  mallory = mallory
  coins = coins
  gems = gems
  Orders = {o1}
  Users = {alice, mallory}
  Skus = {coins, gems}
  Payer <- PayerOf
  SkuOf <- BoughtSku
  NoUser = NoUser
  Workers = {w1, w2}
  GrantIds = {g1, g2}
  NoGrant = NoGrant
  MaxTime = 1
  Skew = 1
  Settings <- OpenOrPaused
INVARIANTS
  DeliveryIsRecorded
  OnlyThePayer
PROPERTIES
  OrderFactsAreKept
  PaidIsDelivered
