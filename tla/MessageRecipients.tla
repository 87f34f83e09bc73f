--------------------------- MODULE MessageRecipients ---------------------------
(***************************************************************************)
(* Whose key a queued message or an anonymous reward goes to:              *)
(* message_recipients.rs and the dispatch gate of apps_in_toss_messages.rs *)
(* in crates/trailbase-guest-common/src, over the accounts of Identities,  *)
(* which may be linked, unlinked and revoked between the request and the   *)
(* dispatch.  The outbox row's own life is the module MessageOutbox.       *)
(***************************************************************************)
EXTENDS Identities

CONSTANTS
  Messages,   \* idempotency keys
  Rewards,    \* rows of the promotion ledger
  Templates,  \* what an operator may make of the template, or Unregistered
  PurposeOf,  \* PurposeOf[m]: the purpose a message is queued with
  Consents    \* what accounts may opt in to: "marketing", the template's "agreement"

Unregistered == [status |-> "none"]
Purposes == {"FUNCTIONAL", "MARKETING"}

\* A row of message_templates; `hasCode` says that it names a notification
\* template, as one from before that column does when it requires agreement.
MessageTemplates == [status : {"APPROVED", "DRAFT"}, purpose : Purposes,
                     requiresAgreement : BOOLEAN, hasCode : BOOLEAN]

\* What the notification agreement SDK reports.
AgreementResults == {"newAgreement", "alreadyAgreed", "agreementRejected"}

ASSUME RecipientAssumption ==
  /\ Templates \subseteq MessageTemplates \cup {Unregistered}
  /\ Templates # {}
  /\ Consents \subseteq {"marketing", "agreement"}
  /\ PurposeOf \in [Messages -> Purposes]

VARIABLES
  consent,    \* consent[u]: what the account opted in to
  outbox,     \* outbox[m]: the row's user and recipient
  delivered,  \* delivered[m]: whose key the dispatch of m was given
  owner,      \* owner[r]: user_id of the ledger row
  bound,      \* bound[r]: the row of promotion_reward_recipients
  paid        \* paid[r]: whose keys the reward's calls were given

recipientVars == <<consent, outbox, delivered, owner, bound, paid>>
allVars == <<identityVars, recipientVars>>

-----------------------------------------------------------------------------
NotQueued == [user |-> None]
OutboxRows == [user : Users, kind : {"ANONYMOUS_KEY"}, key : Devices]
              \cup [user : Users, kind : {"TOSS_USER_KEY"}, key : Tosses]

OwnsAnonymous(u, d) == anon[d] = [user |-> u, revoked |-> FALSE]

\* An agreement or consent is in force until it is rejected.
MarketingOptedIn(u) == "marketing" \in consent[u]
TemplateOptedIn(u) == "agreement" \in consent[u]
ConsentAfter(u, c, result) == IF result = "agreementRejected" THEN consent[u] \ {c} ELSE consent[u] \cup {c}

\* message_dispatch_gate_for_trailbase_user_tx, with the registry installed.
DispatchGate(template, u, purpose) ==
  /\ template # Unregistered
  /\ template.purpose = purpose
  /\ template.status = "APPROVED"
  /\ purpose = "MARKETING" => MarketingOptedIn(u)
  /\ purpose = "FUNCTIONAL" /\ template.requiresAgreement => template.hasCode /\ TemplateOptedIn(u)

\* message_recipient_for_dispatch_tx.  Broken: whatever identity of the account
\* is active now.
AnyOfTheAccount(row) ==
  IF row.kind = "ANONYMOUS_KEY" THEN {d \in {row.key} : OwnsAnonymous(row.user, d)}
  ELSE FirstActive(row.user)
RecipientOf(row) ==
  IF row.kind = "ANONYMOUS_KEY" THEN {d \in {row.key} : OwnsAnonymous(row.user, d)}
  ELSE FirstActive(row.user) \cap {row.key}

\* bind_anonymous_promotion_recipient_tx.  Broken: the later identity wins.
Rebound(old, d) == d
BoundTo(old, d) == IF old = None THEN d ELSE old

-----------------------------------------------------------------------------
RecipientInit ==
  /\ IdentityInit
  /\ consent = [u \in Users |-> {}]
  /\ outbox = [m \in Messages |-> NotQueued]
  /\ delivered = [m \in Messages |-> None]
  /\ owner = [r \in Rewards |-> None]
  /\ bound = [r \in Rewards |-> None]
  /\ paid = [r \in Rewards |-> {}]

\* enqueue_anonymous_message_outbox_tx and the insert trigger; a used key
\* returns or refuses the row that is there.
EnqueueAnonymous(m, d) ==
  /\ outbox[m] = NotQueued /\ session[d] # None /\ OwnsAnonymous(session[d], d)
  /\ outbox' = [outbox EXCEPT ![m] = [user |-> session[d], kind |-> "ANONYMOUS_KEY", key |-> d]]
  /\ UNCHANGED <<identityVars, consent, delivered, owner, bound, paid>>

\* enqueue_message_outbox_tx for the account's active Toss identity.
EnqueueToss(m, u) ==
  /\ outbox[m] = NotQueued
  /\ \E t \in FirstActive(u) :
       outbox' = [outbox EXCEPT ![m] = [user |-> u, kind |-> "TOSS_USER_KEY", key |-> t]]
  /\ UNCHANGED <<identityVars, consent, delivered, owner, bound, paid>>

\* The dispatch transaction: gate, recipient, permit.  The template is whatever
\* an operator last made of it.
Dispatch(m, template) ==
  /\ outbox[m] # NotQueued
  /\ DispatchGate(template, outbox[m].user, PurposeOf[m])
  /\ \E k \in RecipientOf(outbox[m]) : delivered' = [delivered EXCEPT ![m] = k]
  /\ UNCHANGED <<identityVars, consent, outbox, owner, bound, paid>>

\* The ledger row and its recipient are written in one transaction; a retry
\* binds the same identity again or is refused.
BindReward(r, d) ==
  LET u == session[d] IN
  /\ u # None /\ owner[r] \in {None, u} /\ OwnsAnonymous(u, d)
  /\ BoundTo(bound[r], d) = d
  /\ owner' = [owner EXCEPT ![r] = u]
  /\ bound' = [bound EXCEPT ![r] = BoundTo(bound[r], d)]
  /\ UNCHANGED <<identityVars, consent, outbox, delivered, paid>>

\* anonymous_promotion_recipient_tx, for a call of the reward.
PayReward(r) ==
  /\ bound[r] # None /\ OwnsAnonymous(owner[r], bound[r])
  /\ paid' = [paid EXCEPT ![r] = @ \cup {bound[r]}]
  /\ UNCHANGED <<identityVars, consent, outbox, delivered, owner, bound>>

\* upsert_notification_template_agreement_tx and the app's marketing consent.
SetConsent(u, c) ==
  /\ \E result \in AgreementResults : consent' = [consent EXCEPT ![u] = ConsentAfter(u, c, result)]
  /\ UNCHANGED <<identityVars, outbox, delivered, owner, bound, paid>>

RecipientNext ==
  \/ IdentityNext /\ UNCHANGED recipientVars
  \/ \E m \in Messages, d \in Devices : EnqueueAnonymous(m, d)
  \/ \E m \in Messages, u \in Users : EnqueueToss(m, u)
  \/ \E m \in Messages, template \in Templates : Dispatch(m, template)
  \/ \E r \in Rewards, d \in Devices : BindReward(r, d)
  \/ \E r \in Rewards : PayReward(r)
  \/ \E u \in Users, c \in Consents : SetConsent(u, c)

RecipientSpec == RecipientInit /\ [][RecipientNext]_allVars

-----------------------------------------------------------------------------
\* Every reachable message and reward is well formed.
RecipientTypeOK ==
  /\ consent \in [Users -> SUBSET Consents]
  /\ outbox \in [Messages -> OutboxRows \cup {NotQueued}]
  /\ delivered \in [Messages -> Devices \cup Tosses \cup {None}]
  /\ owner \in [Rewards -> Users \cup {None}]
  /\ bound \in [Rewards -> Devices \cup {None}]
  /\ paid \in [Rewards -> SUBSET Devices]

\* A message reaches only the key it was addressed to, and that key only while
\* it is sealed and belongs to the account whose consent was asked; no unlink,
\* new link or merge in between redirects it.
OnlyTheAddressee ==
  [][\A m \in Messages : delivered'[m] # delivered[m] =>
       LET k == delivered'[m]
           u == outbox[m].user
       IN /\ k = outbox[m].key
          /\ k \in Devices => anon[k] = [user |-> u, revoked |-> FALSE]
          /\ k \in Tosses => toss[k].user = u /\ toss[k].sealed # Tombstone
          /\ PurposeOf[m] = "MARKETING" => "marketing" \in consent[u]]_allVars

\* Every call of a reward names one and the same identity, which was its
\* owner's, whatever identities the account gains or loses meanwhile.
OneRewardRecipient ==
  /\ RecipientTypeOK
  /\ \A r \in Rewards : Cardinality(paid[r]) <= 1
                        /\ \A d \in paid[r] : anon[d].user = owner[r]
=============================================================================
