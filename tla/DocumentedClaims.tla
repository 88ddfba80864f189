-------------------------- MODULE DocumentedClaims --------------------------
(***************************************************************************)
(* What the README says about background runs, and the code as modelled by *)
(* BackgroundRuns does not keep.  The run of its own that checks the claim *)
(* shows the counterexample.                                               *)
(***************************************************************************)
EXTENDS BackgroundRuns

\* README.md:193: a job that needs clarification waits for input and does not
\* fail.  An agent run that waits for an answer keeps its row from failing.
AwaitingNotFailed ==
  [][\A r \in RunIds :
       /\ status[r] \in Active /\ link[r] # 0
       /\ AgentOf(r) = "awaiting-user-input"
       => status'[r] # "failed"]_vars
=============================================================================
