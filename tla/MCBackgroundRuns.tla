-------------------------- MODULE MCBackgroundRuns --------------------------
(***************************************************************************)
(* BackgroundRuns for TLC.  Jobs are model values; where all of them play  *)
(* the same part (same kind, owner and lane) they may be permuted.         *)
(***************************************************************************)
EXTENDS DocumentedClaims, TLC

JobSymmetry == Permutations(Jobs)
=============================================================================
