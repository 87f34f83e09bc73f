--------------------------- MODULE OperationPolicy ---------------------------
(***************************************************************************)
(* The per-feature controls of                                             *)
(* crates/trailbase-guest-common/src/operation_policy.rs: who may start,   *)
(* dispatch or settle an operation of a feature.  The components that are  *)
(* gated keep the controls in a variable of their own, since an operator   *)
(* may change them between any two transactions; this module says what a   *)
(* helper makes of the controls it reads.                                  *)
(***************************************************************************)
EXTENDS Integers

Features == {"Iap", "Promotion", "SmartMessage", "AppReward"}
Gated == {"Entry", "Dispatch", "Settlement"}
Phases == Gated \cup {"Status"}

\* One row of operation_policies, or none.  `allows` holds the phases whose
\* allow_ column is 1.
NoPolicy == [revision |-> 0]
PolicyRows == [feature : Features, revision : Nat, allows : SUBSET Gated,
               updatedAt : Int, expiresAt : Int]

\* What the server is configured with: KIT_OPERATIONS_HOLD,
\* KIT_OPERATION_POLICIES_ENABLED and the stored policy of the feature.
Controls == [hold : BOOLEAN, enabled : BOOLEAN, policy : PolicyRows \cup {NoPolicy}]

\* A policy is in force from updated_at until expires_at, exclusive; a missing,
\* future or expired one lets only reads through.
OperationAllowed(policy, feature, phase, now) ==
  \/ phase = "Status"
  \/ /\ policy # NoPolicy
     /\ policy.feature = feature
     /\ policy.revision > 0
     /\ 0 <= policy.updatedAt /\ policy.updatedAt <= now /\ now < policy.expiresAt
     /\ phase \in policy.allows

\* require_operation_tx: the external hold overrides every stored policy.
RequireOperation(control, feature, phase, now) ==
  \/ phase = "Status"
  \/ ~control.hold /\ OperationAllowed(control.policy, feature, phase, now)

\* enforce_configured_operation_tx: the wired helpers check only where policies
\* or the hold are configured.
EnforceConfigured(control, feature, phase, now) ==
  control.enabled \/ control.hold => RequireOperation(control, feature, phase, now)
=============================================================================
