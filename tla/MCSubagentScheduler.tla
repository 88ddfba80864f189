------------------------ MODULE MCSubagentScheduler ------------------------
(***************************************************************************)
(* SubagentScheduler for TLC.  The tasks of SharedPlan cover the relations *)
(* two tasks can have: a scaffold that owns an import root, nested owned   *)
(* paths, disjoint paths, and a task whose paths the planner left open.    *)
(***************************************************************************)
EXTENDS SubagentScheduler

SharedPlan == <<"ui", "api", "scaffold", "widget", "loose">>

MCOwned ==
  [ui       |-> {<<"src", "ui">>},
   widget   |-> {<<"src", "ui", "widget">>, <<"docs">>},
   api      |-> {<<"src", "api">>},
   scaffold |-> {<<"package.json">>, <<"lib">>},
   loose    |-> {Unspecified, <<"notes">>}]

MCRootPaths == {<<"package.json">>, <<"index.html">>}
=============================================================================
