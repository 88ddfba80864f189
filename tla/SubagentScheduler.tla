------------------------- MODULE SubagentScheduler -------------------------
(***************************************************************************)
(* scheduleSubagentTasks of pi-subagents.ts and its two users: subagents   *)
(* that share the checkout (executeSameWorktreeSubagents) and subagents in *)
(* mounts of their own (executeSubagents).  Workers take the first task of *)
(* the queue that may start beside the active ones; when none may, they    *)
(* wait for a signal.  Agent turns, and the callbacks on a result, are     *)
(* awaited: everything between two awaits is one step.                     *)
(***************************************************************************)
EXTENDS Naturals, Sequences, FiniteSets, SequencesExt

CONSTANTS
  Plan,            \* the tasks, in the order the plan lists them
  Owned,           \* [task -> set of owned paths, each a sequence of segments]
  RootPaths,       \* index.html, package.json, src/main.*
  MaxConcurrency,
  SameWorktree     \* TRUE: one checkout; FALSE: a mount per task

Tasks == ToSet(Plan)

ASSUME PlanAssumption ==
  /\ Plan \in Seq(Tasks) /\ Len(Plan) = Cardinality(Tasks)
  /\ MaxConcurrency \in Nat \ {0} /\ SameWorktree \in BOOLEAN

Workers == 1 .. (IF Len(Plan) < MaxConcurrency THEN Len(Plan) ELSE MaxConcurrency)

VARIABLES
  queue,       \* entries not started, in the order they are looked at
  worker,      \* [Workers -> [pc, entry]]
  results,     \* partial function: [status, round] of each task's latest result
  fatal,       \* an execution or a callback has thrown
  aborted      \* the run's abort signal

vars == <<queue, worker, results, fatal, aborted>>
-----------------------------------------------------------------------------
(* Path ownership.                                                         *)

Overlap(p, q) == IsPrefix(p, q) \/ IsPrefix(q, p)

TouchesRoot(t) == \E p \in Owned[t] : p \in RootPaths

Unspecified == <<"(planner-unspecified)">>

Exclusive(t) == TouchesRoot(t) \/ Unspecified \in Owned[t] \/ Owned[t] = {}

ConflictOneWay(t, u) ==    \* mutant: only the candidate's exclusiveness counts
  /\ SameWorktree
  /\ \/ Exclusive(t)
     \/ \E p \in Owned[t], q \in Owned[u] : Overlap(p, q)

Conflict(t, u) ==
  /\ SameWorktree
  /\ \/ Exclusive(t) \/ Exclusive(u)
     \/ \E p \in Owned[t], q \in Owned[u] : Overlap(p, q)

Entry(t) == [task |-> t, recovery |-> 0]

Entries == [task : Tasks, recovery : 0 .. 1]

NoEntry == [task |-> "none", recovery |-> 0]

PlanAsListed == Plan       \* mutant: the plan's order is kept

\* The comparison of a stable sort that puts root tasks first.
Before(i, j) ==
  \/ TouchesRoot(Plan[i]) /\ ~TouchesRoot(Plan[j])
  \/ (TouchesRoot(Plan[i]) <=> TouchesRoot(Plan[j])) /\ i < j

Place(i) == Cardinality({j \in DOMAIN Plan : Before(j, i)}) + 1

OrderedPlan ==
  IF SameWorktree
  THEN [k \in DOMAIN Plan |-> Plan[CHOOSE i \in DOMAIN Plan : Place(i) = k]]
  ELSE Plan

InitialQueue == [i \in DOMAIN Plan |-> Entry(OrderedPlan[i])]
-----------------------------------------------------------------------------
Init ==
  /\ queue = InitialQueue
  /\ worker = [w \in Workers |-> [pc |-> "loop", entry |-> NoEntry]]
  /\ results = << >>
  /\ fatal = FALSE /\ aborted = FALSE

Busy(w) == worker[w].pc \in {"executing", "settling"}

Active == {worker[w].entry.task : w \in {v \in Workers : Busy(v)}}

CanStart(t) == \A u \in Active : ~Conflict(t, u)

NextStartable(i) ==
  /\ i \in DOMAIN queue /\ CanStart(queue[i].task)
  /\ \A j \in 1 .. i - 1 : ~CanStart(queue[j].task)

(* The worker loop, from the top of the while to its next await.           *)
Dequeue(w) ==
  /\ worker[w].pc = "loop" /\ ~fatal
  /\ \E i \in DOMAIN queue :
       /\ NextStartable(i)
       /\ queue' = RemoveAt(queue, i)
       /\ worker' = [worker EXCEPT ![w] = [pc |-> "executing", entry |-> queue[i]]]
  /\ UNCHANGED <<results, fatal, aborted>>

NoneQueued == queue = << >>    \* mutant: a worker leaves though others are at work

Drained == Active = {} /\ queue = << >>

Wait(w) ==
  /\ worker[w].pc = "loop" /\ ~fatal /\ ~Drained
  /\ \A i \in DOMAIN queue : ~CanStart(queue[i].task)
  /\ worker' = [worker EXCEPT ![w].pc = "waiting"]
  /\ UNCHANGED <<queue, results, fatal, aborted>>

Leave(w) ==
  /\ worker[w].pc = "loop" /\ (fatal \/ Drained)
  /\ worker' = [worker EXCEPT ![w].pc = "done"]
  /\ UNCHANGED <<queue, results, fatal, aborted>>

(* executeTask comes back with a result, or throws.  Under an abort only a *)
(* completed result is returned.  An execution throws then, in a mount of  *)
(* its own also when its error merely mentions an abort, and in the shared *)
(* checkout when the snapshot of the changed files before the turn fails.  *)
Return(w, status) ==
  /\ worker[w].pc = "executing"
  /\ status = "failed" => ~aborted
  /\ results' = [t \in DOMAIN results \cup {worker[w].entry.task} |->
                   IF t = worker[w].entry.task
                   THEN [status |-> status, round |-> worker[w].entry.recovery + 1]
                   ELSE results[t]]
  /\ worker' = [worker EXCEPT ![w].pc = "settling"]
  /\ UNCHANGED <<queue, fatal, aborted>>

ReleasedOne(w) ==      \* mutant: only one waiter is woken
  LET W == {v \in Workers : worker[v].pc = "waiting"} IN
  [v \in Workers |->
     IF v = w THEN [pc |-> "loop", entry |-> NoEntry]
     ELSE IF v \in W /\ \A u \in W : v <= u THEN [worker[v] EXCEPT !.pc = "loop"]
     ELSE worker[v]]

(* The finally clause: the task is active no longer and every waiter is    *)
(* woken.                                                                  *)
Released(w) ==
  [v \in Workers |->
     IF v = w THEN [pc |-> "loop", entry |-> NoEntry]
     ELSE IF worker[v].pc = "waiting" THEN [worker[v] EXCEPT !.pc = "loop"]
     ELSE worker[v]]

Throw(w) ==
  /\ Busy(w)
  /\ fatal' = TRUE
  /\ worker' = Released(w)
  /\ UNCHANGED <<queue, results, aborted>>

MayRecoverAgain(entry) ==   \* mutant: the recovery count is not looked at
  results[entry.task].status = "failed" /\ ~aborted

NeverRecovers(entry) ==     \* mutant: no recovery at all
  FALSE

MayRecover(entry) ==
  results[entry.task].status = "failed" /\ entry.recovery = 0 /\ ~aborted

Finish(w) ==
  LET entry == worker[w].entry IN
  /\ worker[w].pc = "settling"
  /\ queue' = IF MayRecover(entry)
              THEN Append(queue, [entry EXCEPT !.recovery = @ + 1]) ELSE queue
  /\ worker' = Released(w)
  /\ UNCHANGED <<results, fatal, aborted>>

Abort ==
  /\ ~aborted /\ aborted' = TRUE
  /\ UNCHANGED <<queue, worker, results, fatal>>

AllDone == \A w \in Workers : worker[w].pc = "done"

Over == AllDone /\ UNCHANGED vars

Step(w) ==
  \/ Dequeue(w) \/ Wait(w) \/ Leave(w)
  \/ (\E s \in {"completed", "failed"} : Return(w, s))
  \/ Throw(w) \/ Finish(w)

Next == (\E w \in Workers : Step(w)) \/ Abort \/ Over

Spec == Init /\ [][Next]_vars

(* Adapters end every turn (they carry time limits of their own), and a    *)
(* worker that is runnable is run by the event loop.                       *)
LiveSpec == Spec /\ \A w \in Workers : WF_vars(Step(w))
-----------------------------------------------------------------------------
(* Properties.                                                             *)

TypeOK ==
  /\ queue \in Seq(Entries)
  /\ worker \in [Workers -> [pc : {"loop", "waiting", "executing", "settling", "done"},
                             entry : Entries \cup {NoEntry}]]
  /\ \A w \in Workers : Busy(w) => worker[w].entry \in Entries
  /\ DOMAIN results \subseteq Tasks
  /\ \A t \in DOMAIN results :
       results[t] \in [status : {"completed", "failed"}, round : 1 .. 2]
  /\ fatal \in BOOLEAN /\ aborted \in BOOLEAN

(* Two subagents at work in one checkout never own overlapping paths, and  *)
(* a task that is exclusive (unknown paths, or an import root) works alone *)
(* (canRunSameWorktreeTask under four workers).                            *)
ConflictFree ==
  \A v, w \in Workers :
    Busy(v) /\ Busy(w) /\ v # w => ~Conflict(worker[v].entry.task, worker[w].entry.task)

(* Import roots and scaffolds come first: while a sibling is at work, each *)
(* root task has come back with a result (orderSameWorktreeTasks together  *)
(* with exclusiveness, over every interleaving of the workers).            *)
RootsTriedFirst ==
  SameWorktree =>
    \A w \in Workers : Busy(w) /\ ~TouchesRoot(worker[w].entry.task) =>
      \A t \in Tasks : TouchesRoot(t) => t \in DOMAIN results

(* When the scheduler returns, every task has a result, and one reported   *)
(* failed has been given its recovery run unless the run was aborted.      *)
EveryFailureRecovered ==
  AllDone /\ ~fatal =>
    \A t \in Tasks : /\ t \in DOMAIN results
                     /\ results[t].status = "failed" => results[t].round = 2 \/ aborted

(* No worker sleeps for ever: the scheduler comes to an end.               *)
Settles == <>AllDone

(* The scheduler keeps the promises of TaskPool.                           *)
Queued(t) == \E i \in DOMAIN queue : queue[i].task = t

WorkersOn(t) == {w \in Workers : Busy(w) /\ worker[w].entry.task = t}

PhaseOf(t) ==
  IF Queued(t) THEN "waiting"
  ELSE IF WorkersOn(t) # {} THEN "running"
  ELSE IF t \in DOMAIN results THEN results[t].status ELSE "abandoned"

TriesOf(t) ==
  IF \E e \in ToSet(queue) : e.task = t
  THEN (CHOOSE e \in ToSet(queue) : e.task = t).recovery
  ELSE IF WorkersOn(t) # {}
  THEN worker[CHOOSE w \in WorkersOn(t) : TRUE].entry.recovery
  ELSE IF t \in DOMAIN results THEN results[t].round ELSE 0

Pool == INSTANCE TaskPool WITH
          phase <- [t \in Tasks |-> PhaseOf(t)],
          tries <- [t \in Tasks |-> TriesOf(t)],
          stopped <- fatal

ImplementsTaskPool == Pool!Spec

-----------------------------------------------------------------------------
(* The inductive invariant behind them.                                    *)

\* A task is queued once, or with one worker.
OnePlace ==
  /\ \A i, j \in DOMAIN queue : queue[i].task = queue[j].task => i = j
  /\ \A v, w \in Workers :
       Busy(v) /\ Busy(w) /\ worker[v].entry.task = worker[w].entry.task => v = w
  /\ \A w \in Workers : Busy(w) => ~Queued(worker[w].entry.task)

\* An entry waits or executes before its result: a first run has none yet, a
\* recovery run follows a failed first run.
Untried(e) ==
  IF e.recovery = 0 THEN e.task \notin DOMAIN results
  ELSE /\ e.task \in DOMAIN results
       /\ results[e.task] = [status |-> "failed", round |-> 1]

ResultsFit ==
  /\ \A i \in DOMAIN queue : Untried(queue[i])
  /\ \A w \in Workers :
       /\ worker[w].pc = "executing" => Untried(worker[w].entry)
       /\ worker[w].pc = "settling" =>
            /\ worker[w].entry.task \in DOMAIN results
            /\ results[worker[w].entry.task].round = worker[w].entry.recovery + 1

\* Unless the scheduler has thrown, no task gets lost: it is queued, with a
\* worker, or has a result, and a failed one its second run.
NothingLost ==
  ~fatal => \A t \in Tasks :
    \/ Queued(t) \/ WorkersOn(t) # {}
    \/ t \in DOMAIN results /\ (results[t].status = "failed" => results[t].round = 2 \/ aborted)

\* Nothing that is not an untried root stands before an untried root.
RootsQueuedFirst ==
  SameWorktree => \A i, j \in DOMAIN queue :
    i < j /\ queue[j].recovery = 0 /\ TouchesRoot(queue[j].task) => TouchesRoot(queue[i].task)

\* The first worker leaves when there is nothing left for anybody.
DoneIsDrained == (\E w \in Workers : worker[w].pc = "done") => fatal \/ Drained

IInv ==
  /\ TypeOK /\ OnePlace /\ ResultsFit /\ NothingLost /\ DoneIsDrained
  /\ ConflictFree /\ RootsQueuedFirst /\ RootsTriedFirst
=============================================================================
