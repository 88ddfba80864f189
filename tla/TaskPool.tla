------------------------------ MODULE TaskPool ------------------------------
(***************************************************************************)
(* What a caller of the subagent scheduler may rely on, without its queue, *)
(* workers and wake-ups: every task is run, at most twice, the second time *)
(* only after a failure; tasks that conflict never run side by side; once  *)
(* one task has thrown, nothing starts any more.                           *)
(***************************************************************************)
EXTENDS Naturals

CONSTANTS Tasks, Conflict(_, _)

VARIABLES
  phase,      \* [Tasks -> waiting | running | completed | failed | abandoned]
  tries,      \* [Tasks -> 0 .. 2], how many results it has come back with
  stopped     \* some task has thrown

vars == <<phase, tries, stopped>>

Init ==
  /\ phase = [t \in Tasks |-> "waiting"]
  /\ tries = [t \in Tasks |-> 0]
  /\ stopped = FALSE

Start(t) ==
  /\ ~stopped /\ phase[t] = "waiting"
  /\ \A u \in Tasks : phase[u] = "running" => ~Conflict(t, u)
  /\ phase' = [phase EXCEPT ![t] = "running"]
  /\ UNCHANGED <<tries, stopped>>

Settle(t) ==
  /\ phase[t] = "running"
  /\ \/ \E p \in {"completed", "failed"} : phase' = [phase EXCEPT ![t] = p]
     \/ tries[t] = 0 /\ phase' = [phase EXCEPT ![t] = "waiting"]
  /\ tries' = [tries EXCEPT ![t] = @ + 1]
  /\ UNCHANGED stopped

Abandon(t) ==
  /\ phase[t] = "running"
  /\ \E p \in {"completed", "failed", "abandoned"} :
        phase' = [phase EXCEPT ![t] = p]
  /\ tries' \in {tries, [tries EXCEPT ![t] = @ + 1]}
  /\ stopped' = TRUE

Next == \E t \in Tasks : Start(t) \/ Settle(t) \/ Abandon(t)

Spec == Init /\ [][Next]_vars
=============================================================================
