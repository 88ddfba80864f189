---------------------------- MODULE RunLifecycle ----------------------------
(***************************************************************************)
(* What the background-job subsystem promises about one run row, whatever  *)
(* launches, crashes, ticks and user commands do to it: the only moves a   *)
(* row ever makes.  A terminal status is final; the row may only be        *)
(* deleted together with its job.  BackgroundRuns implements this          *)
(* specification.                                                          *)
(***************************************************************************)
CONSTANT RunIds        \* the rows, in the order they are created

VARIABLE status        \* [RunIds -> status], "none" before the row exists

Terminal == {"succeeded", "partial-complete", "failed", "cancelled", "skipped"}

Active == {"queued", "awaiting-approval", "awaiting-user-input", "running"}

Statuses == Active \cup Terminal \cup {"none", "deleted"}

(* Where a row in each active status may go.  Approval comes before the    *)
(* queue, the queue before the first execution, and only a run that has    *)
(* executed can wait for the user.                                         *)
Successors ==
  [none                |-> {"queued", "awaiting-approval"},
   awaiting_approval   |-> {"queued", "cancelled"},
   queued              |-> {"running"} \cup (Terminal \ {"skipped"}),
   running             |-> {"queued", "awaiting-user-input"} \cup Terminal,
   awaiting_user_input |-> {"running"} \cup Terminal]

MayBecome(s, t) ==
  \/ t = s
  \/ s \in Active \cup Terminal /\ t = "deleted"
  \/ s = "none" /\ t \in Successors.none
  \/ s = "awaiting-approval" /\ t \in Successors.awaiting_approval
  \/ s = "queued" /\ t \in Successors.queued
  \/ s = "running" /\ t \in Successors.running
  \/ s = "awaiting-user-input" /\ t \in Successors.awaiting_user_input

Init == status = [r \in RunIds |-> "none"]

Next == /\ status' \in [RunIds -> Statuses]
        /\ \A r \in RunIds : MayBecome(status[r], status'[r])

Spec == Init /\ [][Next]_status
=============================================================================
