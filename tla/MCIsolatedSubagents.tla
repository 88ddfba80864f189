------------------------ MODULE MCIsolatedSubagents ------------------------
(***************************************************************************)
(* IsolatedSubagents for TLC.                                              *)
(***************************************************************************)
EXTENDS IsolatedSubagents

TwoTasks == <<"t1", "t2">>

FourTasks == <<"t1", "t2", "t3", "t4">>

\* The ids are safe already.
MCSegment == [t \in Tasks |-> t]

MCOwned == [t \in Tasks |-> {<<"src">>}]
=============================================================================
