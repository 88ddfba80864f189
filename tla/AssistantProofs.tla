--------------------------- MODULE AssistantProofs ---------------------------
(***************************************************************************)
(* What holds of one assistant for all messages and bounds.  The invariant *)
(* behind it says of the row, and of an edit on its way, that a reason     *)
(* comes with a failure: a failure with that message is then the second.   *)
(***************************************************************************)
EXTENDS Assistants, SequenceTheorems, TLAPS

Rows ==
  [run : {"active", "paused"}, deleted : BOOLEAN, breaker : {"closed", "tripped"},
   streak : 0 .. Threshold, reason : Messages \cup {"none"},
   boot : {"pending", "running", "completed", "failed"},
   attempt : 0 .. MaxAttempts, due : BOOLEAN]

RowOK(r) ==
  /\ r \in Rows
  /\ r.reason # "none" => r.streak >= 1
  /\ r.breaker = "tripped" => r.streak >= 2

TurnOK(t) ==
  /\ t \in [timer : BOOLEAN, running : BOOLEAN, dirty : BOOLEAN, live : 0 .. 1]
  /\ t.live = 1 <=> t.running
  /\ t.running => ~t.timer

AttemptsOK(s, f) ==
  /\ s \in Seq({"asking", "compacting", "over"}) /\ Len(s) <= MaxAttempts
  /\ f \in 0 .. Len(s)

IInv ==
  /\ RowOK(row)
  /\ copy = NoEdit \/ RowOK(copy)
  /\ TurnOK(turn)
  /\ AttemptsOK(attempts, flight)
  /\ paused \in BOOLEAN
-----------------------------------------------------------------------------
LEMMA SucceededOK ==
  ASSUME NEW r, RowOK(r)
  PROVE  RowOK(Succeeded(r))
<1>1. 0 \in 0 .. Threshold
  BY DEF Threshold
<1>2. Succeeded(r) \in Rows
  BY <1>1 DEF RowOK, Rows, Succeeded
<1>3. Succeeded(r).reason = "none" /\ Succeeded(r).breaker = "closed"
  BY DEF RowOK, Rows, Succeeded
<1> QED
  BY <1>2, <1>3 DEF RowOK

(* A failure trips the breaker on a streak of two at least.                *)
LEMMA FailedOK ==
  ASSUME NEW r, NEW m \in Messages, RowOK(r)
  PROVE  RowOK(Failed(r, m))
<1> DEFINE n == IF r.streak < Threshold THEN r.streak + 1 ELSE Threshold
<1>1. n \in 0 .. Threshold /\ n >= 1
  BY DEF RowOK, Rows, Threshold
<1>2. m # "none"
  BY AssistantAssumption
<1>3. CASE Trips(r, m)
  <2>1. n >= 2
    BY <1>2, <1>3 DEF Trips, RowOK, Rows, Threshold
  <2> QED
    BY <1>1, <1>3, <2>1 DEF RowOK, Rows, Failed
<1>4. CASE ~Trips(r, m)
  <2>1. r.breaker = "tripped" => n >= 2
    BY DEF RowOK, Rows, Threshold
  <2> QED
    BY <1>1, <1>4, <2>1 DEF RowOK, Rows, Failed
<1> QED
  BY <1>3, <1>4

LEMMA ScheduleOK ==
  ASSUME NEW r, NEW t, TurnOK(t)
  PROVE  TurnOK(Schedule(r, t))
BY DEF TurnOK, Schedule

LEMMA DueOK ==
  ASSUME NEW r, RowOK(r), paused \in BOOLEAN
  PROVE  RowOK(Due(r))
BY DEF RowOK, Rows, Due, Runnable

LEMMA BootstrapOK ==
  ASSUME NEW r, NEW forced, RowOK(r), AttemptsOK(attempts, flight), Bootstrap(r, forced)
  PROVE  RowOK(row') /\ AttemptsOK(attempts', flight')
<1>1. CASE row' = r /\ UNCHANGED <<attempts, flight>>
  BY <1>1
<1>2. CASE /\ Len(attempts) # MaxAttempts
           /\ row' = [r EXCEPT !.boot = "running", !.attempt = Len(attempts) + 1]
           /\ attempts' = Append(attempts, "asking") /\ flight' = Len(attempts) + 1
  <2>1. Len(attempts) + 1 \in 0 .. MaxAttempts
    BY <1>2, AssistantAssumption DEF AttemptsOK
  <2>2. RowOK(row')
    BY <1>2, <2>1 DEF RowOK, Rows
  <2>3. AttemptsOK(attempts', flight')
    BY <1>2, <2>1 DEF AttemptsOK
  <2> QED
    BY <2>2, <2>3
<1> QED
  BY <1>1, <1>2 DEF Bootstrap

LEMMA EndedOK ==
  ASSUME NEW n \in DOMAIN attempts, AttemptsOK(attempts, flight), Ended(n)
  PROVE  AttemptsOK(attempts', flight')
<1>1. Len([attempts EXCEPT ![n] = "over"]) = Len(attempts)
  BY DEF AttemptsOK
<1> QED
  BY <1>1 DEF AttemptsOK, Ended
-----------------------------------------------------------------------------
LEMMA InitOK == Init => IInv
<1> SUFFICES ASSUME Init PROVE IInv
  OBVIOUS
<1>1. 0 \in 0 .. Threshold /\ 0 \in 0 .. MaxAttempts
  BY AssistantAssumption DEF Threshold
<1>2. RowOK(row)
  BY <1>1 DEF Init, RowOK, Rows, Created
<1>3. TurnOK(turn)
  BY DEF Init, TurnOK, Idle
<1>4. AttemptsOK(attempts, flight)
  BY AssistantAssumption DEF Init, AttemptsOK
<1> QED
  BY <1>2, <1>3, <1>4 DEF Init, IInv

LEMMA StepOK == IInv /\ [Next]_vars => IInv'
<1> SUFFICES ASSUME IInv, [Next]_vars
             PROVE  IInv'
  OBVIOUS
<1> USE DEF IInv
<1>1. CASE TimerFires
  <2>1. turn.timer /\ ~turn.running /\ turn.live = 0
    BY <1>1 DEF TimerFires, TurnOK
  <2>2. TurnOK([turn EXCEPT !.timer = FALSE, !.running = TRUE, !.dirty = FALSE, !.live = @ + 1])
    <3>1. turn.live + 1 = 1 /\ turn.live + 1 \in 0 .. 1
      BY <2>1
    <3> QED
      BY <3>1 DEF TurnOK
  <2>3. TurnOK([turn EXCEPT !.timer = FALSE, !.running = FALSE, !.dirty = FALSE])
    BY <2>1 DEF TurnOK
  <2> QED
    BY <1>1, <2>2, <2>3 DEF TimerFires
<1>2. CASE TurnEnds
  <2>1. PICK r \in (IF row.deleted THEN {row}
                    ELSE {Succeeded(row)} \cup {Failed(row, m) : m \in Messages}) :
          /\ row' = IF turn.dirty THEN Due(r) ELSE r
          /\ turn' = TurnOver(r, turn)
    BY <1>2 DEF TurnEnds
  <2>2. RowOK(r)
    BY SucceededOK, FailedOK
  <2>3. RowOK(row')
    BY <2>1, <2>2, DueOK
  <2> DEFINE over == [turn EXCEPT !.live = @ - 1, !.running = FALSE, !.dirty = FALSE]
  <2>4. TurnOK(over)
    <3>1. turn.running /\ turn.live - 1 = 0 /\ ~turn.timer
      BY <1>2 DEF TurnEnds, TurnOK
    <3>2. over \in [timer : BOOLEAN, running : BOOLEAN, dirty : BOOLEAN, live : 0 .. 1]
      <4>1. 0 \in 0 .. 1
        OBVIOUS
      <4> QED
        BY <3>1, <4>1 DEF TurnOK
    <3>3. over.live = 0 /\ over.running = FALSE
      BY <3>1 DEF TurnOK
    <3> QED
      BY <3>2, <3>3 DEF TurnOK
  <2>5. TurnOK(turn')
    BY <2>1, <2>4, ScheduleOK DEF TurnOver
  <2> QED
    BY <1>2, <2>3, <2>5 DEF TurnEnds
<1>3. ASSUME NEW n \in DOMAIN attempts, Attempt(n)
      PROVE  IInv'
  <2>1. CASE ProposalArrives(n)
    <3>1. Len([attempts EXCEPT ![n] = "compacting"]) = Len(attempts)
      BY DEF AttemptsOK
    <3>2. AttemptsOK(attempts', flight')
      BY <2>1, <3>1 DEF ProposalArrives, AttemptsOK
    <3> QED
      BY <2>1, <3>2 DEF ProposalArrives
  <2>2. CASE BootstrapCompletes(n)
    <3> DEFINE r == [row EXCEPT !.boot = "completed", !.attempt = n]
    <3>1. n \in 0 .. MaxAttempts
      BY AssistantAssumption DEF AttemptsOK
    <3>2. RowOK(r)
      BY <3>1 DEF RowOK, Rows
    <3>3. RowOK(row') /\ TurnOK(turn')
      BY <2>2, <3>2, DueOK, ScheduleOK DEF BootstrapCompletes
    <3>4. AttemptsOK(attempts', flight')
      BY <2>2, EndedOK DEF BootstrapCompletes
    <3> QED
      BY <2>2, <3>3, <3>4 DEF BootstrapCompletes
  <2>3. CASE BootstrapFails(n)
    <3>1. PICK m \in Messages : row' = [Failed(row, m) EXCEPT !.boot = "failed"]
      BY <2>3 DEF BootstrapFails
    <3>2. RowOK(Failed(row, m))
      BY FailedOK
    <3>3. RowOK(row')
      BY <3>1, <3>2 DEF RowOK, Rows
    <3>4. AttemptsOK(attempts', flight')
      BY <2>3, EndedOK DEF BootstrapFails
    <3> QED
      BY <2>3, <3>3, <3>4 DEF BootstrapFails
  <2>4. CASE BootstrapIgnored(n)
    BY <2>4, EndedOK DEF BootstrapIgnored
  <2> QED
    BY <1>3, <2>1, <2>2, <2>3, <2>4 DEF Attempt
<1>4. CASE Outcome
  <2>1. CASE JobSucceeds
    BY <2>1, SucceededOK, DueOK, ScheduleOK DEF JobSucceeds
  <2>2. CASE JobAsks
    BY <2>2, DueOK, ScheduleOK DEF JobAsks
  <2>3. CASE ChatEnds
    BY <2>3, FailedOK, DueOK, ScheduleOK DEF ChatEnds
  <2>4. ASSUME NEW m \in Messages, JobFails(m)
        PROVE  IInv'
    BY <2>4, FailedOK, DueOK, ScheduleOK DEF JobFails
  <2> QED
    BY <1>4, <2>1, <2>2, <2>3, <2>4 DEF Outcome
<1>5. CASE Command
  <2>1. CASE PauseAssistant
    BY <2>1 DEF PauseAssistant, RowOK, Rows
  <2>2. CASE ResumeAssistant
    <3>1. RowOK([row EXCEPT !.run = "active"])
      BY DEF RowOK, Rows
    <3> QED
      BY <2>2, <3>1, DueOK, ScheduleOK DEF ResumeAssistant
  <2>3. CASE RecoverAssistant
    <3>1. RowOK([Succeeded(row) EXCEPT !.run = "active"])
      BY SucceededOK DEF RowOK, Rows
    <3> DEFINE r == [Succeeded(row) EXCEPT !.run = "active"]
    <3> HIDE DEF r
    <3>2. UNCHANGED <<copy, paused>>
      BY <2>3 DEF RecoverAssistant
    <3>3. CASE Bootstrap(r, TRUE) /\ UNCHANGED turn
      <4>1. RowOK(r)
        BY <3>1 DEF r
      <4> QED
        BY <3>2, <3>3, <4>1, BootstrapOK
    <3>4. CASE row' = r /\ turn' = Schedule(r, turn) /\ UNCHANGED <<attempts, flight>>
      <4>1. RowOK(r)
        BY <3>1 DEF r
      <4>2. TurnOK(turn')
        BY <3>4, ScheduleOK
      <4> QED
        BY <3>2, <3>4, <4>1, <4>2
    <3> QED
      BY <2>3, <3>3, <3>4 DEF RecoverAssistant, r
  <2>4. CASE RetryBootstrap
    BY <2>4, BootstrapOK DEF RetryBootstrap
  <2>5. CASE CreateAgain
    BY <2>5, BootstrapOK DEF CreateAgain
  <2>6. CASE DeleteAssistant
    <3>1. RowOK([row EXCEPT !.deleted = TRUE, !.run = "paused"])
      BY DEF RowOK, Rows
    <3> QED
      BY <2>6, <3>1 DEF DeleteAssistant
  <2>7. CASE AnswerQuestion
    BY <2>7, ScheduleOK DEF AnswerQuestion
  <2>8. CASE SubmitEdit
    BY <2>8 DEF SubmitEdit
  <2>9. CASE SaveAssistant
    <3>1. RowOK(copy)
      BY <2>9 DEF SaveAssistant
    <3>2. RowOK(row')
      <4>1. row.due \in BOOLEAN /\ 0 \in 0 .. MaxAttempts
        BY AssistantAssumption DEF RowOK, Rows
      <4>2. RowOK([copy EXCEPT !.attempt = 0, !.deleted = FALSE, !.due = row.due])
        BY <3>1, <4>1 DEF RowOK, Rows
      <4> QED
        BY <2>9, <4>2 DEF SaveAssistant
    <3> QED
      BY <2>9, <3>2 DEF SaveAssistant
  <2> QED
    BY <1>5, <2>1, <2>2, <2>3, <2>4, <2>5, <2>6, <2>7, <2>8, <2>9 DEF Command
<1>6. CASE PauseAll
  BY <1>6 DEF PauseAll
<1>7. CASE ResumeAll
  <2> DEFINE r == [row EXCEPT !.due = FALSE]
  <2>1. RowOK(r)
    BY DEF RowOK, Rows
  <2>2. TurnOK(turn')
    BY <1>7 DEF ResumeAll, Released, TurnOK
  <2>3. CASE row' = r /\ UNCHANGED <<attempts, flight>>
    BY <1>7, <2>1, <2>2, <2>3 DEF ResumeAll
  <2>4. CASE /\ Len(attempts) + 1 <= MaxAttempts
             /\ row' = [r EXCEPT !.boot = "running", !.attempt = Len(attempts) + 1]
             /\ attempts' = Append(attempts, "asking") /\ flight' = Len(attempts) + 1
    <3>1. RowOK(row')
      <4>1. Len(attempts) + 1 \in 0 .. MaxAttempts
        BY <2>4, AssistantAssumption DEF AttemptsOK
      <4> HIDE DEF r
      <4> QED
        BY <2>1, <2>4, <4>1 DEF RowOK, Rows
    <3>2. AttemptsOK(attempts', flight')
      BY <2>4 DEF AttemptsOK
    <3> QED
      BY <1>7, <2>2, <3>1, <3>2 DEF ResumeAll
  <2> QED
    BY <1>7, <2>3, <2>4 DEF ResumeAll
<1>8. CASE CleanupEnds
  BY <1>8 DEF CleanupEnds
<1>9. RowOK(GaveUp(row))
  BY DEF GaveUp, RowOK, Rows
<1>10. CASE Restart
  <2>1. AttemptsOK([n \in DOMAIN attempts |-> "over"], 0)
    <3>1. [n \in DOMAIN attempts |-> "over"] \in Seq({"asking", "compacting", "over"})
      BY DEF AttemptsOK
    <3>2. Len([n \in DOMAIN attempts |-> "over"]) = Len(attempts)
      BY DEF AttemptsOK
    <3> QED
      BY <3>1, <3>2 DEF AttemptsOK
  <2>2. TurnOK(Idle)
    BY DEF TurnOK, Idle
  <2> QED
    BY <1>9, <1>10, <2>1, <2>2 DEF Restart
<1>11. CASE Reload
  BY <1>9, <1>11 DEF Reload
<1>12. CASE UNCHANGED vars
  BY <1>12 DEF vars
<1> QED
  BY <1>1, <1>2, <1>3, <1>4, <1>5, <1>6, <1>7, <1>8, <1>10, <1>11, <1>12 DEF Next
-----------------------------------------------------------------------------
(* The rows, turns and attempts of an assistant agree at every step, over  *)
(* crashes, stale edits and late ends of turns.                            *)
THEOREM InvariantHolds == Spec => []IInv
BY InitOK, StepOK, PTL DEF Spec

(* Every variable keeps its type.                                          *)
THEOREM TypeCorrect == Spec => []TypeOK
<1>1. IInv => TypeOK
  BY DEF IInv, TypeOK, RowOK, Rows, TurnOK, AttemptsOK
<1> QED
  BY <1>1, InvariantHolds, PTL

(* recordFailure: the breaker never trips on a first failure.              *)
THEOREM TripsOnSecond == Spec => []TripNeedsTwo
<1>1. IInv => TripNeedsTwo
  BY DEF IInv, RowOK, TripNeedsTwo
<1> QED
  BY <1>1, InvariantHolds, PTL

(* scheduleReprioritize and runReprioritize: one turn at a time.           *)
THEOREM TurnsDoNotOverlap == Spec => []OneTurn
<1>1. IInv => OneTurn
  BY DEF IInv, TurnOK, OneTurn
<1> QED
  BY <1>1, InvariantHolds, PTL
=============================================================================
