------------------------------ MODULE Identities ------------------------------
(***************************************************************************)
(* Which account a device reaches: anonymous identities, account links and *)
(* Toss identities of crates/trailbase-guest-common/src/                   *)
(* anonymous_identity.rs, trailbase_auth.rs, toss_identity_store.rs and    *)
(* toss_unlink.rs, put together the way docs/en/anonymous-identity.md and  *)
(* docs/en/toss-identity.md tell a consumer to.                            *)
(*                                                                         *)
(* The synthetic _user of a device's hash is named by the device.  Times   *)
(* are what callers pass as `now`, in any order.  linked_at only breaks    *)
(* ties of last_seen_at, so a tie may go either way.  An account that is   *)
(* deleted takes its rows along and is not modelled.                       *)
(***************************************************************************)
EXTENDS Integers, FiniteSets

CONSTANTS
  Devices,     \* verified anonymous hashes
  Tosses,      \* Toss user keys
  Times,       \* values of last_seen_at
  MaxUnlinks,  \* bound: unlink callbacks per Toss user key
  UnlinkMethods,  \* configured for the unlink callback; POST where nothing usable is
  None

ASSUME IdentityAssumption ==
  /\ Devices \cap Tosses = {} /\ None \notin Devices \cup Tosses
  /\ Times \subseteq Nat /\ Times # {} /\ MaxUnlinks \in Nat
  /\ UnlinkMethods \subseteq {"GET", "POST"} /\ UnlinkMethods # {}

Users == Devices

VARIABLES
  account,  \* accounts that exist in _user
  anon,     \* anon[d]: the row of anonymous_identities
  link,     \* link[d]: canonical_user of the row of anonymous_user_links, or None
  toss,     \* toss[t]: the row of toss_identities
  unlinks,  \* unlinks[t]: how often t was revoked
  session,  \* session[d]: the account the device is signed in to
  via       \* via[d]: the Toss login that decides the device's account, and its age

identityVars == <<account, anon, link, toss, unlinks, session, via>>

-----------------------------------------------------------------------------
Unverified == [user |-> None]
Verified == [user : Users, revoked : BOOLEAN]

Unlinked == [status |-> "none"]
Tombstone == "REVOKED"
Linked == [user : Users, status : {"ACTIVE", "REVOKED"}, sealed : {"sealed", Tombstone}, seen : Times]

IsActive(t) == toss[t].status = "ACTIVE"
ActiveOf(u) == {t \in Tosses : IsActive(t) /\ toss[t].user = u}

\* require_active_toss_identity_for_trailbase_user_tx: the one seen last.
FirstActive(u) == {t \in ActiveOf(u) : \A s \in ActiveOf(u) : toss[s].seen <= toss[t].seen}

\* anonymous_user_link_tx, before the account is created or loaded.
Canonical(d) == IF link[d] = None THEN d ELSE link[d]

\* ensure_verified_auth_user_tx: the account that is there, or a new one.
Ensured(u) == account \cup {u}

\* UPSERT_IDENTITY: never to another owner, never over a revocation.
Storable(d, u) == anon[d] = Unverified \/ anon[d] = [user |-> u, revoked |-> FALSE]

\* upsert_toss_identity_for_trailbase_user: an ACTIVE identity keeps its
\* account.  Broken: the older upsert_toss_identity, which takes it along.
TakenAlong(row, u) == u
OwnerAfter(row, u) == IF row.status = "ACTIVE" THEN row.user ELSE u
Upserted(t, u, n) ==
  [user |-> OwnerAfter(toss[t], u), status |-> "ACTIVE", sealed |-> "sealed", seen |-> n]

\* upsert_anonymous_user_link_tx: one canonical account per device.
LinkedTo(d, u) == [link EXCEPT ![d] = u]

\* An unlink callback as the guest reads it: `credential` says that its Basic
\* Auth is the configured one, and None stands for a missing user key.
Callbacks == [method : {"GET", "POST", "PUT"}, credential : BOOLEAN, key : Tosses \cup {None}]
MethodAllowed(c) == c.method \in UnlinkMethods
Authentic(c) == c.credential

\* revoke_toss_identity_by_hmac: ACTIVE rows only, the sealed key is erased.
Revoked(t) == [toss EXCEPT ![t].status = "REVOKED", ![t].sealed = Tombstone]

-----------------------------------------------------------------------------
IdentityInit ==
  /\ account = {}
  /\ anon = [d \in Devices |-> Unverified]
  /\ link = [d \in Devices |-> None]
  /\ toss = [t \in Tosses |-> Unlinked]
  /\ unlinks = [t \in Tosses |-> 0]
  /\ session = [d \in Devices |-> None]
  /\ via = [d \in Devices |-> None]

\* A bootstrap with an exchanged code: resolve the link, ensure the account,
\* store the identity for it, and sign in.  A conflict rolls all of it back.
Bootstrap(d) ==
  LET u == Canonical(d) IN
  /\ Storable(d, u)
  /\ account' = Ensured(u)
  /\ anon' = [anon EXCEPT ![d] = [user |-> u, revoked |-> FALSE]]
  /\ session' = [session EXCEPT ![d] = u]
  /\ UNCHANGED <<link, toss, unlinks, via>>

\* Toss Login in a session of `u`: on a collision the device is linked to the
\* account the identity belongs to, and gets its tokens.
TossLogin(d, t, n) ==
  LET u == session[d]
      c == Upserted(t, u, n).user
  IN /\ u # None
     /\ toss' = [toss EXCEPT ![t] = Upserted(t, u, n)]
     /\ link' = IF c = u THEN link ELSE LinkedTo(d, c)
     /\ session' = [session EXCEPT ![d] = c]
     /\ via' = [via EXCEPT ![d] = <<t, unlinks[t]>>]
     /\ UNCHANGED <<account, anon, unlinks>>

\* The unlink callback: method, credential and key are checked in this order,
\* and a key without an ACTIVE identity changes nothing.
Unlink(c) ==
  /\ MethodAllowed(c) /\ Authentic(c) /\ c.key \in Tosses
  /\ IsActive(c.key) /\ unlinks[c.key] < MaxUnlinks
  /\ toss' = Revoked(c.key)
  /\ unlinks' = [unlinks EXCEPT ![c.key] = @ + 1]
  /\ UNCHANGED <<account, anon, link, session, via>>

\* touch_toss_identity_seen: every ACTIVE identity of the account.
Touch(u, n) ==
  /\ ActiveOf(u) # {}
  /\ toss' = [t \in Tosses |-> IF t \in ActiveOf(u) THEN [toss[t] EXCEPT !.seen = n] ELSE toss[t]]
  /\ UNCHANGED <<account, anon, link, unlinks, session, via>>

\* The app's operators: merge a device into an account and end its session,
\* revoke an anonymous key.
ManualMerge(d, u) ==
  /\ u \in account /\ Canonical(d) # u
  /\ link' = LinkedTo(d, u)
  /\ session' = [session EXCEPT ![d] = None]
  /\ via' = [via EXCEPT ![d] = None]
  /\ UNCHANGED <<account, anon, toss, unlinks>>

RevokeAnonymous(d) ==
  /\ anon[d] # Unverified /\ ~anon[d].revoked
  /\ anon' = [anon EXCEPT ![d].revoked = TRUE]
  /\ UNCHANGED <<account, link, toss, unlinks, session, via>>

IdentityNext ==
  \/ \E d \in Devices : Bootstrap(d) \/ RevokeAnonymous(d)
  \/ \E d \in Devices, t \in Tosses, n \in Times : TossLogin(d, t, n)
  \/ \E c \in Callbacks : Unlink(c)
  \/ \E u \in Users, n \in Times : Touch(u, n)
  \/ \E d \in Devices, u \in Users : ManualMerge(d, u)

-----------------------------------------------------------------------------
\* Every reachable identity, link and session is well formed.
IdentityTypeOK ==
  /\ account \subseteq Users
  /\ anon \in [Devices -> Verified \cup {Unverified}]
  /\ link \in [Devices -> Users \cup {None}]
  /\ toss \in [Tosses -> Linked \cup {Unlinked}]
  /\ unlinks \in [Tosses -> 0 .. MaxUnlinks]
  /\ session \in [Devices -> Users \cup {None}]
  /\ via \in [Devices -> (Tosses \X (0 .. MaxUnlinks)) \cup {None}]

\* All devices that last logged in with the same Toss identity since it was
\* last linked bootstrap into one account, the one the identity belongs to,
\* whichever accounts, links and other identities each of them had before.
OneAccountPerTossUser ==
  /\ IdentityTypeOK
  /\ \A d \in Devices : via[d] # None =>
       LET t == via[d][1] IN
       IsActive(t) /\ via[d][2] = unlinks[t] => Canonical(d) = toss[t].user /\ toss[t].user \in account
=============================================================================
