(* Two devices and two Toss users, a message and a reward, unlinked and linked again. *)
SPECIFICATION RecipientSpec
CONSTANTS
  Devices = {d1, d2}
  Tosses = {t1, t2}
  Times = {0}
  MaxUnlinks = 1
  UnlinkMethods = {"POST"}
  None = None
  Messages = {m1}
  m1 = m1
  Rewards = {r1}
  Templates <- TemplatesSeen
  PurposeOf <- Marketing
  Consents = {"marketing"}
SYMMETRY Symmetric
INVARIANTS
  OneAccountPerTossUser
  OneRewardRecipient
PROPERTIES
  OnlyTheAddressee
