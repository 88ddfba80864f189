------------------------- MODULE MCTerminalSessions -------------------------
(***************************************************************************)
(* TerminalSessions for TLC: the ids of sessions and of control            *)
(* connections are interchangeable.                                        *)
(***************************************************************************)
EXTENDS TerminalSessions, TLC

Interchangeable == Permutations(Sessions) \cup Permutations(Clients)
=============================================================================
