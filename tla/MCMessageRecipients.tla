-------------------------- MODULE MCMessageRecipients --------------------------
(* Instances of MessageRecipients for TLC. *)
EXTENDS MessageRecipients, TLC

Symmetric == Permutations(Devices) \cup Permutations(Tosses)

CONSTANTS m1
Approved == [status |-> "APPROVED", purpose |-> "MARKETING", requiresAgreement |-> FALSE, hasCode |-> FALSE]
TemplatesSeen == {Approved, [Approved EXCEPT !.status = "DRAFT"]}
Marketing == [m \in Messages |-> "MARKETING"]
=============================================================================
