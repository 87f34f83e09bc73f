--------------------------- MODULE EffectContract ---------------------------
(***************************************************************************)
(* What the kit's ledgers of external effects promise about one request,   *)
(* whatever workers, crashes and lost answers do: the effect (a payout, a  *)
(* message) is run at most once, only after the intent to run it has been  *)
(* committed, never after the intent was dropped, and the record says      *)
(* "success" only of an effect that ran.                                   *)
(*                                                                         *)
(* PromotionLedger and MessageOutbox implement this specification.         *)
(***************************************************************************)
EXTENDS Naturals

CONSTANTS Requests,     \* what identifies an effect
          Committed     \* requests that may have run before the first state

VARIABLES phase,        \* phase[r]: how far the intent r has gone
          runs,         \* runs[r]: how often r was run
          record        \* record[r]: what the ledger says of r

vars == <<phase, runs, record>>

Init ==
  /\ phase = [r \in Requests |-> IF r \in Committed THEN "committed" ELSE "none"]
  /\ runs \in [Requests -> 0..1]
  /\ \A r \in Requests \ Committed : runs[r] = 0
  /\ record = [r \in Requests |-> IF r \in Committed THEN "pending" ELSE "none"]

\* An effect is asked for.
Open(r) ==
  /\ phase[r] = "none"
  /\ phase' = [phase EXCEPT ![r] = "open"]
  /\ record' = [record EXCEPT ![r] = "pending"]
  /\ UNCHANGED runs

\* The point of no return: from here on the effects in S may run.
Commit(S) ==
  /\ \A r \in S : phase[r] = "open"
  /\ phase' = [r \in Requests |-> IF r \in S THEN "committed" ELSE phase[r]]
  /\ UNCHANGED <<runs, record>>

\* Intents that were never committed are given up.
Drop(S) ==
  /\ \A r \in S : phase[r] = "open"
  /\ phase' = [r \in Requests |-> IF r \in S THEN "dropped" ELSE phase[r]]
  /\ record' = [r \in Requests |-> IF r \in S THEN "failed" ELSE record[r]]
  /\ UNCHANGED runs

\* The one run of a committed effect.
Run(r) ==
  /\ phase[r] = "committed"
  /\ runs[r] = 0
  /\ runs' = [runs EXCEPT ![r] = 1]
  /\ UNCHANGED <<phase, record>>

\* The ledger learns something of S: success is final and needs a run, and a
\* failure is never turned back into an open question.
Learn(S, s) ==
  /\ \A r \in S : /\ phase[r] = "committed"
                  /\ s = "success" => runs[r] = 1
                  /\ record[r] = "success" => s = "success"
                  /\ record[r] = "failed" => s # "pending"
  /\ record' = [r \in Requests |-> IF r \in S THEN s ELSE record[r]]
  /\ UNCHANGED <<phase, runs>>

Next ==
  \/ \E r \in Requests : Open(r) \/ Run(r)
  \/ \E S \in SUBSET Requests : Commit(S) \/ Drop(S)
  \/ \E S \in SUBSET Requests, s \in {"pending", "success", "failed"} : Learn(S, s)

Spec == Init /\ [][Next]_vars
=============================================================================
