----------------------------- MODULE Assistants -----------------------------
(***************************************************************************)
(* One assistant: assistant-manager.ts, the commands of server.ts that     *)
(* drive it and the writes of workspace-repository.ts to its row.  Its     *)
(* turns (bootstrap, reprioritisation) are agent calls that end at any     *)
(* later time; jobs and chats report outcomes meanwhile; the user pauses,  *)
(* resumes, recovers, edits and deletes it, and pauses everything.         *)
(***************************************************************************)
EXTENDS Naturals, Sequences, FiniteSets

CONSTANTS
  Messages,        \* texts of failures
  MaxAttempts,     \* bound: bootstrap attempts
  MaxInputs,       \* bound: ends of jobs and chats, commands, edits
  MaxCrashes       \* bound: crashes of the server

ASSUME AssistantAssumption ==
  /\ MaxAttempts \in Nat /\ MaxInputs \in Nat /\ MaxCrashes \in Nat
  /\ "none" \notin Messages

Threshold == 3     \* failures in a row that trip the breaker

VARIABLES
  row,         \* the assistant in the database
  attempts,    \* sequence of the bootstrap attempts: where each one is
  flight,      \* bootstrapFlights: the attempt that others join; 0: none
  turn,        \* reprioritizeStates: timer, running, dirty; and the turns at work
  copy,        \* an edit on its way: the row as the browser saw it
  paused,      \* the pause of all execution
  inputs,      \* what MaxInputs counts
  crashes

vars == <<row, attempts, flight, turn, copy, paused, inputs, crashes>>

Created ==
  [run |-> "active", deleted |-> FALSE, breaker |-> "closed", streak |-> 0,
   reason |-> "none", boot |-> "pending", attempt |-> 0, due |-> FALSE]

NoEdit == << >>

Idle == [timer |-> FALSE, running |-> FALSE, dirty |-> FALSE, live |-> 0]

Init ==
  /\ row = Created
  /\ attempts = << >> /\ flight = 0 /\ turn = Idle
  /\ copy = NoEdit
  /\ paused = FALSE
  /\ inputs = 0 /\ crashes = 0

Input == inputs < MaxInputs /\ inputs' = inputs + 1

(* The launch gate, the pause of all execution apart.                      *)
Runnable(r) == ~r.deleted /\ r.run = "active" /\ r.breaker = "closed"
-----------------------------------------------------------------------------
(* The failure streak and the circuit breaker.                             *)

KeepReason(r) ==       \* mutant: the reason outlives the streak
  [r EXCEPT !.streak = 0, !.breaker = "closed"]

Succeeded(r) == [r EXCEPT !.streak = 0, !.breaker = "closed", !.reason = "none"]

(* recordFailure; the third failure in a row trips the breaker, and so     *)
(* does one with the message of the one before.  The count is kept up to   *)
(* the threshold.                                                          *)
Trips(r, m) == r.streak + 1 >= Threshold \/ r.reason = m

Failed(r, m) ==
  LET n == IF r.streak < Threshold THEN r.streak + 1 ELSE Threshold IN
  IF Trips(r, m)
  THEN [r EXCEPT !.streak = n, !.reason = m, !.breaker = "tripped", !.run = "paused"]
  ELSE [r EXCEPT !.streak = n, !.reason = m]
-----------------------------------------------------------------------------
(* Reprioritisation.                                                       *)

ScheduleAlways(r, t) == [t EXCEPT !.timer = TRUE]   \* mutant: running is not looked at

(* scheduleReprioritize: a request made during a turn is kept for its end. *)
Schedule(r, t) ==
  IF ~Runnable(r) \/ paused THEN t
  ELSE IF t.running THEN [t EXCEPT !.dirty = TRUE] ELSE [t EXCEPT !.timer = TRUE]

(* During the pause of all execution the row remembers the request.        *)
Due(r) == [r EXCEPT !.due = @ \/ (Runnable(r) /\ paused)]

(* The debounce timer starts a turn, if the gate still lets it.            *)
TimerFires ==
  /\ turn.timer
  /\ turn' = IF Runnable(row) /\ ~paused
             THEN [turn EXCEPT !.timer = FALSE, !.running = TRUE, !.dirty = FALSE, !.live = @ + 1]
             ELSE [turn EXCEPT !.timer = FALSE, !.running = FALSE, !.dirty = FALSE]
  /\ UNCHANGED <<row, attempts, flight, copy, paused, inputs, crashes>>

ForgetDirty(r, t) ==     \* mutant: requests made during the turn are dropped
  [t EXCEPT !.live = @ - 1, !.running = FALSE, !.dirty = FALSE]

(* The finally block of runReprioritize.                                   *)
TurnOver(r, t) ==
  LET over == [t EXCEPT !.live = @ - 1, !.running = FALSE, !.dirty = FALSE] IN
  IF t.dirty THEN Schedule(r, over) ELSE over

(* A turn may ask; it closes the breaker, whatever happened meanwhile.  On *)
(* a deleted assistant both outcomes leave the row alone.                  *)
TurnEnds ==
  /\ turn.live > 0
  /\ \E r \in (IF row.deleted THEN {row}
               ELSE {Succeeded(row)} \cup {Failed(row, m) : m \in Messages}) :
       /\ row' = IF turn.dirty THEN Due(r) ELSE r
       /\ turn' = TurnOver(r, turn)
  /\ UNCHANGED <<attempts, flight, copy, paused, inputs, crashes>>
-----------------------------------------------------------------------------
(* Bootstrap.                                                              *)

(* bootstrapAssistant: joins the attempt in flight unless forced.          *)
Bootstrap(r, forced) ==
  IF (flight # 0 /\ ~forced) \/ ~Runnable(r) \/ paused \/ Len(attempts) = MaxAttempts
  THEN row' = r /\ UNCHANGED <<attempts, flight>>
  ELSE LET n == Len(attempts) + 1 IN
       /\ row' = [r EXCEPT !.boot = "running", !.attempt = n]
       /\ attempts' = Append(attempts, "asking")
       /\ flight' = n

Ended(n) ==
  /\ attempts' = [attempts EXCEPT ![n] = "over"]
  /\ flight' = IF flight = n THEN 0 ELSE flight

Current(n) == ~row.deleted /\ row.attempt = n

(* The proposal arrives; enough learnings are compacted by another call.   *)
ProposalArrives(n) ==
  /\ attempts[n] = "asking" /\ Current(n)
  /\ attempts' = [attempts EXCEPT ![n] = "compacting"]
  /\ UNCHANGED <<row, flight, turn, copy, paused, inputs, crashes>>

(* Nobody looks at the attempt id again.  Todos may bring the question for *)
(* a default stack and a reprioritisation.                                 *)
BootstrapCompletes(n) ==
  LET r == [row EXCEPT !.boot = "completed", !.attempt = n] IN
  /\ attempts[n] = "compacting"
  /\ Ended(n)
  /\ \/ row.deleted /\ UNCHANGED <<row, turn>>
     \/ ~row.deleted /\ row' = r /\ UNCHANGED <<turn>>
     \/ ~row.deleted /\ row' = Due(r) /\ turn' = Schedule(r, turn)
  /\ UNCHANGED <<copy, paused, inputs, crashes>>

BootstrapFails(n) ==
  /\ attempts[n] \in {"asking", "compacting"} /\ Current(n)
  /\ Ended(n)
  /\ \E m \in Messages : row' = [Failed(row, m) EXCEPT !.boot = "failed"]
  /\ UNCHANGED <<turn, copy, paused, inputs, crashes>>

BootstrapIgnored(n) ==
  /\ attempts[n] = "asking" /\ ~Current(n)
  /\ Ended(n)
  /\ UNCHANGED <<row, turn, copy, paused, inputs, crashes>>
-----------------------------------------------------------------------------
(* Outcomes of jobs and chats (handleBackgroundJobRunOutcome,              *)
(* sendAssistantChat).                                                     *)

JobSucceeds ==      \* also in part
  /\ Input /\ ~row.deleted
  /\ row' = Due(Succeeded(row)) /\ turn' = Schedule(Succeeded(row), turn)
  /\ UNCHANGED <<attempts, flight, copy, paused, crashes>>

JobAsks ==
  /\ Input /\ ~row.deleted
  /\ row' = Due(row) /\ turn' = Schedule(row, turn)
  /\ UNCHANGED <<attempts, flight, copy, paused, crashes>>

JobFails(m) ==
  LET r == Failed(row, m) IN
  /\ Input /\ ~row.deleted
  /\ row' = Due(r) /\ turn' = Schedule(r, turn)
  /\ UNCHANGED <<attempts, flight, copy, paused, crashes>>

ChatEnds ==
  /\ Input /\ ~row.deleted
  /\ \/ row' = Due(row) /\ turn' = Schedule(row, turn)
     \/ \E m \in Messages : row' = Failed(row, m) /\ UNCHANGED turn
  /\ UNCHANGED <<attempts, flight, copy, paused, crashes>>
-----------------------------------------------------------------------------
(* Commands.                                                               *)

PauseAssistant ==
  /\ Input /\ ~row.deleted
  /\ row' = [row EXCEPT !.run = "paused"]
  /\ UNCHANGED <<attempts, flight, turn, copy, paused, crashes>>

ResumeAssistant ==
  LET r == [row EXCEPT !.run = "active"] IN
  /\ Input /\ ~row.deleted
  /\ row' = Due(r) /\ turn' = Schedule(r, turn)
  /\ UNCHANGED <<attempts, flight, copy, paused, crashes>>

RecoverAssistant ==
  LET r == [Succeeded(row) EXCEPT !.run = "active"] IN
  /\ Input /\ ~row.deleted /\ ~paused
  /\ IF r.boot \in {"failed", "pending"}
     THEN Bootstrap(r, TRUE) /\ UNCHANGED turn
     ELSE row' = r /\ turn' = Schedule(r, turn) /\ UNCHANGED <<attempts, flight>>
  /\ UNCHANGED <<copy, paused, crashes>>

RetryBootstrap ==
  /\ Input /\ ~paused /\ Runnable(row)
  /\ Bootstrap(row, row.boot # "running")
  /\ UNCHANGED <<turn, copy, paused, crashes>>

CreateAgain ==       \* a create command that finds the assistant, or has made it
  /\ Input
  /\ Bootstrap(row, FALSE)
  /\ UNCHANGED <<turn, copy, paused, crashes>>

DeleteAssistant ==
  /\ Input /\ ~row.deleted
  /\ row' = [row EXCEPT !.deleted = TRUE, !.run = "paused"]
  /\ UNCHANGED <<attempts, flight, turn, copy, paused, crashes>>

AnswerQuestion ==    \* one the assistant asked; questions are left out
  /\ Input /\ ~paused /\ ~row.deleted
  /\ turn' = Schedule(row, turn)
  /\ UNCHANGED <<row, attempts, flight, copy, paused, crashes>>

SubmitEdit ==
  /\ Input /\ ~row.deleted /\ copy' = row
  /\ UNCHANGED <<row, attempts, flight, turn, paused, crashes>>

(* The edit holds the whole row, without the attempt id and without a      *)
(* deletion; the row takes it all, whatever was written meanwhile.         *)
SaveAssistant ==
  /\ copy # NoEdit /\ copy' = NoEdit
  /\ row' = [copy EXCEPT !.attempt = 0, !.deleted = FALSE, !.due = row.due]
  /\ UNCHANGED <<attempts, flight, turn, paused, inputs, crashes>>
-----------------------------------------------------------------------------
(* The pause of all execution.                                             *)

PauseAll ==
  /\ ~paused /\ paused' = TRUE
  /\ UNCHANGED <<row, attempts, flight, turn, copy, inputs, crashes>>

(* The release starts a bootstrap that waits and the reprioritisation that *)
(* was put off; both look at a pause that has ended.                       *)
Released(r) ==
  IF r.due /\ Runnable(r)
  THEN IF turn.running THEN [turn EXCEPT !.dirty = TRUE] ELSE [turn EXCEPT !.timer = TRUE]
  ELSE turn

ResumeAll ==
  LET r == [row EXCEPT !.due = FALSE]
      n == Len(attempts) + 1 IN
  /\ paused /\ paused' = FALSE
  /\ turn' = Released(row)
  /\ IF row.boot = "pending" /\ Runnable(row) /\ flight = 0 /\ n <= MaxAttempts
     THEN /\ row' = [r EXCEPT !.boot = "running", !.attempt = n]
          /\ attempts' = Append(attempts, "asking") /\ flight' = n
     ELSE row' = r /\ UNCHANGED <<attempts, flight>>
  /\ UNCHANGED <<copy, inputs, crashes>>

(* branchfs.cleanup pauses, awaits the prune and restores what it found,   *)
(* which releases nothing: its begin is a PauseAll, this is its end.       *)
CleanupEnds ==
  /\ paused /\ paused' = FALSE
  /\ UNCHANGED <<row, attempts, flight, turn, copy, inputs, crashes>>
-----------------------------------------------------------------------------
(* Crash and restart.  A bootstrap that was running for long is given up,  *)
(* when the server starts and when its development host reloads it.        *)

GaveUp(r) == IF r.boot = "running" /\ ~r.deleted THEN [r EXCEPT !.boot = "failed"] ELSE r

Restart ==
  /\ crashes < MaxCrashes /\ crashes' = crashes + 1
  /\ attempts' = [n \in DOMAIN attempts |-> "over"] /\ flight' = 0
  /\ turn' = Idle
  /\ row' \in {row, GaveUp(row)}
  /\ UNCHANGED <<copy, paused, inputs>>

Reload ==
  /\ row' = GaveUp(row)
  /\ UNCHANGED <<attempts, flight, turn, copy, paused, inputs, crashes>>

Command ==
  \/ PauseAssistant \/ ResumeAssistant \/ RecoverAssistant \/ RetryBootstrap
  \/ CreateAgain \/ DeleteAssistant \/ AnswerQuestion \/ SubmitEdit \/ SaveAssistant

Outcome == JobSucceeds \/ JobAsks \/ ChatEnds \/ \E m \in Messages : JobFails(m)

Attempt(n) ==
  ProposalArrives(n) \/ BootstrapCompletes(n) \/ BootstrapFails(n) \/ BootstrapIgnored(n)

Next ==
  \/ TimerFires \/ TurnEnds
  \/ \E n \in DOMAIN attempts : Attempt(n)
  \/ Outcome \/ Command
  \/ PauseAll \/ ResumeAll \/ CleanupEnds
  \/ Restart \/ Reload

Spec == Init /\ [][Next]_vars

(* Timers fire and agent calls end.                                        *)
LiveSpec == Spec /\ WF_vars(TimerFires) /\ WF_vars(TurnEnds)
-----------------------------------------------------------------------------
(* Properties.                                                             *)

TypeOK ==
  /\ row \in [run : {"active", "paused"}, deleted : BOOLEAN, breaker : {"closed", "tripped"},
              streak : 0 .. Threshold, reason : Messages \cup {"none"},
              boot : {"pending", "running", "completed", "failed"},
              attempt : 0 .. MaxAttempts, due : BOOLEAN]
  /\ attempts \in Seq({"asking", "compacting", "over"}) /\ Len(attempts) <= MaxAttempts
  /\ flight \in 0 .. Len(attempts)
  /\ turn \in [timer : BOOLEAN, running : BOOLEAN, dirty : BOOLEAN, live : 0 .. 1]
  /\ paused \in BOOLEAN

(* A single failure never pauses an assistant: the breaker trips on the    *)
(* second failure in a row at the earliest, over late successes, recovery, *)
(* an edit that writes back an old row, and restarts.                      *)
TripNeedsTwo == row.breaker = "tripped" => row.streak >= 2

(* One reprioritisation turn at a time, and none beside a pending timer:   *)
(* requests during a turn wait for its end (scheduleReprioritize and the   *)
(* finally block of runReprioritize).                                      *)
OneTurn ==
  /\ turn.live = 1 <=> turn.running
  /\ turn.running => ~turn.timer

(* A request to reprioritise is not lost: a turn begins after it, unless   *)
(* the assistant may not run or all execution is paused by then, or the    *)
(* server ends.                                                            *)
RequestServed ==
  (turn.timer \/ turn.dirty) ~>
    \/ turn.running /\ ~turn.dirty
    \/ ~Runnable(row) \/ paused \/ row.due \/ crashes > 0
=============================================================================
