# TLA+ models of the AI harness

The harness is a Bun/TypeScript server (`src/harness/cli/src`) that keeps a
SQLite workspace, runs coding agents for chat threads and for scheduled
background jobs, and pushes its state to browsers over websockets. This
directory holds TLA+ modules of the parts whose correctness depends on the
order of events, TLC configurations that check them on small instances, and
TLAPS proofs that hold for every size.

Five parts are modelled: background runs, assistants, subagents (with their
BranchFS mounts), integrated terminals, and live CLI sessions (with the
browser's side of an attachment).

## How to run

    tlc -workers 2 -config ownership.cfg MCBackgroundRuns
    tlc -workers 2 -config shared_checkout.cfg MCSubagentScheduler
    tlc -workers 2 -config isolated.cfg MCIsolatedSubagents
    tlc -workers 2 -config terminals.cfg MCTerminalSessions
    tlc -workers 2 -config live_sessions.cfg CliSessions
    tlc -workers 2 -config assistant.cfg Assistants
    tlapm BackgroundRunsProofs.tla        # and the other modules of theorems

`ownership`, `lanes`, `approval_pause`, `answer_execute` and
`claim_clarification` are instances of `MCBackgroundRuns`, `claim_replay` of
`MCIsolatedSubagents`, `terminal_output` of `MCTerminalSessions`. The
`claim_*.cfg` are expected to end with a counterexample. `PROJECT.json` lists
runs, mutants, the source lines of every definition, hazards and theorems.

## Inventory

Everything runs in one process on one JavaScript thread; concurrency is between
handlers at their `await`s, between promises in flight, timers, user commands,
child processes, and the crash of the process against what SQLite has already
stored.

| Component | State | Operations | Interacts with | Hard part | What makes it correct | Here |
|---|---|---|---|---|---|---|
| Background runs (`server.ts` `launchBackgroundJobRun` and neighbours, `background-job-executor.ts`, `background-run-leases.ts`) | row per run: status, lease, linked agent run, approval, resume counter; the in-memory map `backgroundRunControllers` | launch, execute, renew, repair, resume once, stop, retry, approve, reject, delete | scheduler, agent runs, assistants, pause | late results, two executors, restart, hanging agents | one launch per row, map and lease agree, ended rows stay ended, every running row ends | `BackgroundRuns` |
| Scheduler (`background-job-scheduler.ts`, `background-job-schedule.ts`) | `inFlight` tick, per-job schedule and backoff | start-up tick, interval tick, due computation | launches it starts, repair it calls | work done inside the tick blocks it; state changes between jobs of one tick | no overlap, capacity, exclusive lane | `BackgroundRuns`; due times are an input |
| Global pause (`execution.pause-all`/`resume-all`, `branchfs.cleanup`) | one durable flag; deferred work | pause, resume, release | every launch path | checked before, acted on after an await | nothing starts while paused, everything is released | `BackgroundRuns`, `Assistants` |
| Foreground runs (`planning.answer`, `run.execute`, `continueRunLifecycle`, `executeRunLifecycle`) | abort controller per run, streaming state | start, answer, execute, abort, fail | agent runs; background rows linked to them | preflight between check and use | one executor per plan | `BackgroundRuns`, for agent runs of background rows |
| Agent run records (`workspace-repository.ts`) | status, plan, questions | set status, set ready, append and answer questions | all of the above | late planner output | ended runs stay ended | their statuses, in `BackgroundRuns` |
| Assistant manager (`assistant-manager.ts`) | the assistant's row (breaker, streak, bootstrap), bootstrap flights, reprioritisation states | bootstrap, outcome, breaker, reprioritise, edit, pause, recover, delete | scheduler, launches, browsers | single flight, outcomes out of order, whole-row edits | breaker trips on repeated failures only, one turn at a time, no request lost | `Assistants` |
| Subagents (`pi-subagents.ts`, `pi-orchestrator.ts`) | queue, active set, results, waiters | dequeue, wait, settle, recover, abort | BranchFS, agent adapter | parallel writers, lost wake-ups | no two running tasks own the same path, every failure recovered once, all finish | `SubagentScheduler` |
| BranchFS (`branchfs-manager.ts`, `branchfs-cleanup.ts`, `branchfs-subagent-integration.ts`) | roots on disk, retained snapshots | prepare with prune, fill, discard, replay, verify, flush | subagents | prune racing use, failures halfway | no mount in use is pruned, only verified changes reach the project, all of them do | `IsolatedSubagents` |
| Integrated terminals (`terminal-session-manager.ts`) | session records, attach tokens, pumps, sockets | create, attach, upgrade, detach, heartbeat, output, stop, close, restart, restore | websockets, shell processes | token and close events out of order, exit racing close | output once and in order, attached socket open, status true | `TerminalSessions` |
| Live CLI sessions (`cli-session-manager.ts`, `cli-process-manager.ts`, `harness-websocket.ts`) | sessions by id and by key, attach tokens; a tab's data sockets | start, stop, attach, exit, heartbeat; open, close, reconnect | processes, browsers | overlapping starts, late exits, lost control connections | every live process can be found, output goes to the right open socket | `CliSessions` |
| Delivery (`websocket-event-batcher.ts`, `websocket-send-guard.ts`, `stream-pump.ts`, `bounded-output-buffer.ts`) | queues, timers | enqueue, flush, drop, close | every emitter | back-pressure | order kept, bound kept | not yet; the pump is part of `TerminalSessions` |
| Browser client (`harness-websocket.ts`, `harness-store.ts`) | socket, pending commands, store | connect, send, receive, reconnect | server | events over a reconnect | tab and server agree | attachments, in `CliSessions` |
| Run budget, milestones, tool activity | counters, windows | count, fold | adapters | boundary values | limits hold, folding is stable | not yet |
| Browser approvals and questions (`browser-session-state.ts`) | pending promises | ask, answer, abort | foreground runs | late answers | each settles once | not yet |
| Search, IDE, setup health, memory bank, extractors, launcher, UI, skills, scripts, bundled game | none that outlives a call | | | | pure I/O, formatting, rendering or third-party | left aside |

## Modules

| Module | Content |
|---|---|
| `RunLifecycle` | What the subsystem promises about one background row: the moves between statuses. Abstract specification. |
| `BackgroundRuns` | Rows, launches, controllers map, tick, commands, foreground handlers of linked agent runs, crash and restart; its properties and its inductive invariant. |
| `DocumentedClaims` | A statement of the README about background runs that the code does not keep. |
| `TaskPool` | What a caller of the subagent scheduler relies on. Abstract specification. |
| `SubagentScheduler` | `scheduleSubagentTasks` with its users, the workers and their wake-ups; the refinement mapping to `TaskPool`. |
| `IsolatedSubagents` | Extends it with a mount per task: leases, the retention prune, transient retries, replay, verification and flush. |
| `TerminalSessions` | Integrated terminals: records, tokens, data sockets, output, exits, crash and restore. |
| `CliSessions` | Live CLI sessions on the server and in the browser tabs. |
| `Assistants` | One assistant: breaker, bootstrap, reprioritisation, outcomes, commands, edits, pause, crash, reload. |
| `MC...` | The instances for TLC. `CliSessions` and `Assistants` need no module of their own. |
| `BackgroundRunsProofs`, `BackgroundAgentsProofs` | Theorems of background runs: who owns a row; then which rows are active together and who writes an agent run. |
| `SubagentProofs`, `IsolatedProofs` | Theorems of the scheduler, and of its users in mounts, which inherit them. |
| `TerminalProofs`, `CliProofs`, `AssistantProofs` | Theorems of terminals, live CLI sessions and assistants. |

Definitions marked "mutant" are plausible bugs: with one of them in place of
the definition it varies, the run named in `PROJECT.json` fails.

### `BackgroundRuns`: state

| Variable | In the code |
|---|---|
| `status`, `jobOf`, `trigger`, `approval`, `link`, `attempts` | columns of `background_job_runs` (`link` = `linked_agent_run_id`, `attempts` = `resume_attempt_count`) |
| `lease` | `controller_lease_id`, named by the launch that made it |
| `lapsed` | rows for which `isBackgroundRunPastLeaseGrace` is true |
| `overdue` | rows over the maximum runtime or the no-progress bound |
| `pc`, `runOf`, `agentOf` | each call of `launchBackgroundJobRun`: where it awaits, and what its local variables hold |
| `control` | `backgroundRunControllers` |
| `pending` | rows whose launch was called and has not yet run its synchronous part |
| `agent`, `fg` | agent run statuses; the foreground handler that works on each |
| `tick`, `resumable`, `jobsLeft`, `waiting`, `now` | the tick in flight: its phase, the rows it read, the jobs ahead, the launch it awaits, its time stamp |
| `due`, `jobStatus`, `assistant`, `paused`, `releasing`, `up`, `crashes` | schedule, definitions, assistant, global pause, a resume in progress, the process |

A launch number is also its lease. A row goes to `deleted` where the foreign
key deletes it, so a launch that still holds its id finds nothing to update.

### `BackgroundRuns`: steps

A step is what the thread does between two awaits of the outside world.
`Quiescent` says no such stretch is half done; everything that starts one
requires it. Awaits that only let emitters run (`emit...ToAll`) are not points
of interleaving, as nothing else is ready at them in the cases modelled.

A crash does not require it. SQLite commits each write of its own, and most
handlers write the agent run and the row one after the other without a
transaction. `PlannerPlans` and `ExecutionBegins`, two writes of one stretch,
are two steps. For the others `CrashIn...` is a step that leaves the first
writes and loses the rest: the begin of planning, a question, the end of an
execution and its recovery row, an answer, a failing foreground handler, repair
(in the tick and in run-now, row by row, and the questions it resolves), stop,
job deletion, shutdown. So a failed or stopped agent run may belong to a running
row, a partial row may have no recovery row, and only some of several rows may
be repaired. A handler with one write needs no such step.

- *Tick*: `TickBegin` reads the rows to resume once; `TickResume`, `TickPasses`
  and `TickFails` look again at controller, agent run and row when each turn
  comes, since the tick awaits the execution of each resumed row; `TickRepair`
  is one pass of `repairInterruptedBackgroundJobRuns` with the questions
  `reconcileBackgroundJobRunBlockers` resolves; `TickQueue` and `TickLeaves` go
  over the jobs, with the synchronous part of a launch after each queued one.
- *Launch*: `LaunchSkipped`, `LaunchRefused`, `LaunchBegins`, then the executor
  (`ShellStarts` … `ShellExits`). After an await it asks `Owned`, and leaves
  without a write if not (`LaunchDisowned`), unless its row became partial by
  another hand meanwhile: then it may still queue the recovery run
  (`RecoveryQueued`; that case takes more launches than the runs have, and is
  covered by the proofs). `LaunchThrows` is the catch block, which asks for an
  active row instead; each ends in `EndLaunch`, the finally block.
- *Commands*: run-now (which repairs first), retry, approve, reject, stop, job
  pause and deletion, pause-all, resume-all and the release after it, the
  assistant's changes and deletion, answering a question and executing a plan.
- *Process*: `Crash` at any moment, `CrashIn...` between two writes of a
  handler, `Shutdown` between handlers, `Restart` which stops working agent runs
  and begins with a tick.

### `BackgroundRuns`: what is abstracted

Time is three facts (`lapsed`, `overdue`, `due`), which arise whenever the
code's comparison can become true. A lease lapses only for rows without a
renewing controller: a suspended machine that delays the renew timer for longer
than lease and grace is outside the model. `overdue` is monotone; the
no-progress bound, which a heartbeat resets, is merged with the maximum
runtime. A due job under backoff or congestion is a job that is not due. The
circuit breaker is free: an assistant becomes blocked and active at will. A run
asks one question at a time. A foreground handler that was aborted is off at
once. A launch that awaits its recovery launch has nothing left to write and
counts as ended. `Capacity` is positive (0 means no limit in the code). Not in
this module: chat runs without a background row, `run.resume`, hot reload with
a changed contract, notifications, events, failure categories. The tick first
aborts the controllers of overdue launches (`background-job-scheduler.ts:88`);
what comes of that is their rejection, which `LaunchThrows` allows at any time.
Running out of `MaxRuns` or `MaxLaunches` disables the step that would need one more, or, in
the tick, ends or skips it (`TickFails`, `TickLeaves`).

### `SubagentScheduler` and `IsolatedSubagents`

`queue`, `worker` and `results` are the locals of `scheduleSubagentTasks`;
`worker[w].pc` says at which await worker *w* is: the agent's turn
(`executing`), the callbacks on its result (`settling`), or a signal
(`waiting`). Its task may throw at any of them, aborted or not (`Throw`): the
snapshots of the changed files are taken outside the adapter's `try`. `fatal` is
`fatalError`, `aborted` the run's abort signal. A planner's plan is the sequence
`Plan`; `Owned` are the paths it gives each task, among them `Unspecified` where
it left them open. With `SameWorktree`, `Conflict` is `canRunSameWorktreeTask`
and the queue is ordered by `orderSameWorktreeTasks`; without, no two tasks
conflict. The sort is stated by the place each task gets (`Place` counts the
tasks before it), and `Without`, which drops dead roots from a directory, by the
rank of what is kept: the provers can count, and cannot unfold a recursive sort
or filter.

`IsolatedSubagents` keeps these actions and adds what an execution does:
`lease[w]` walks through `executeSubagentWithRetry` (the prune's scan, its
deletion, making the root, filling it, the agent's work), `roots` is
`.local/branchfs`, `retained` the snapshots kept for the integration, `replay`
where `executeReadyRun` stands after the scheduler returned, `others` the leases
that other runs of the repository prepare. Scan, deletion and making the root
are three steps of every lease, so prunes interleave. Only the number of roots
makes retention delete: its limits of age and size are not reached. A file's
content is whether a task's changes are in it, so a merge conflict is a replay
that may break.

Every removal of a root may fail, and the code swallows that: in the discard
(`branchfs-manager.ts:272`, `pi-subagents.ts:516`, `523`, `552`), after a failed
prepare (`branchfs-manager.ts:193`) and in the prune
(`branchfs-cleanup.ts:110`). `Clear` leaves any part of what it should remove,
`Make` may have to reuse a directory that resists, and `stuck` are the run's
roots this happened to. What such a root shows is open (`Shown`): a part of it
may be gone, and a second use takes leftovers of the first as its base. A root
is named by `Segment`, the task id made safe for a path; it is cut at 80
characters, so two tasks can share it.

### `TerminalSessions`

`rec[s]` is a `SessionRecord` with its status on disk, `conn` the sequence of
attach tokens together with the data socket each of them may open: `token` the
entry of `attachTokens`, `server` and `peer` the two ends of the socket, `late`
a token issued for a client that had gone already. `out` counts the chunks of a
session, `pump` the chunks its stream pump holds, `sent` what a socket was
given, `snapshot` the scrollback its token carried. A command that awaits the
end of a process is in `awaited` until it does. Expiry of a token is an upgrade
that does not happen. A restart may fail after it closed the old session, and
then leaves no new one. `starting` lasts for no await (the spawn is
synchronous), so only a crash could see it, and it is restored as `stopped`,
like `running`. `closedAt` is set at the exit of sessions an agent created; no
caller creates one. Input, resizing, the size limit of the scrollback and
shell discovery only hand data on; the projects' layout and preferences are
independent of the sessions. After a crash browsers come back as new clients.

### `CliSessions`

`cli[i]` is the i-th session started, `listed` while it is in the manager's
table; `current` is `sessionKeyToId`; `waiting` holds the starts that await the
stop of the session they replace, each with a number of its own, and a start
that fails to spawn leaves no record. `tok` is again tokens with sockets, a
token may expire before it is used (`TokenExpires`), and `copy[b]` follows the token through tab *b*: `attach-ready` is broadcast, every
tab opens a socket with it, the first to arrive wins (`winner`) and the others
are refused. `tab[b]` is what `harness-websocket.ts` keeps: the data socket it
has for a session, and whether the store shows the session connected. `held`
are the control connections the server has not yet seen closed, so a tab may
have connected a second time before its first connection is given up. Each tab
loses its connection once.

### `Assistants`

`row` is the assistant in the database, with `streak` and `reason` kept by
`recordFailure`; `attempts` and `flight` are the bootstrap attempts and
`bootstrapFlights`; `turn` is the assistant's `ReprioritizeState` with the
number of turns at work; `copy` is an edit the browser holds and will write
back as a whole row. The streak stops at the threshold. Questions, todos and
learnings are left out; that a bootstrap's todos may start a reprioritisation,
and that an answer starts one, is kept.

## Properties and runs

| Run | Instance | Checks | Shows |
|---|---|---|---|
| `ownership` | 1 job, 2 rows, 3 launches; run-now, stop; agents may hang | `ControlHoldsLease`, `OwnerIsLive`, `NoOverlap`, `TerminalIsFinal`, `RunsSettle` | map, lease and row agree although four places delete controllers; runs of a job do not overlap; late writes change nothing; the maximum runtime ends every running row although its lease is renewed |
| `lanes` | a shell and an agent job in one exclusive lane, 2 rows, 1 crash; pausing and deleting jobs and the assistant | `LaneIsExclusive` | two scheduled runs never share the lane, also when a job is paused during its run; launches that survive a deletion write to nothing |
| `approval_pause` | 1 risky assistant job, 2 rows, 2 launches, 1 crash; retry, approval, pause, assistant | `OneLaunchPerRun`, `NoStartWhilePaused`, `ImplementsLifecycle` | the release, approval, retry, recovery and the tick together never launch a row twice, and never during the pause |
| `answer_execute` | 1 job, 1 row, 2 launches, 1 crash, also between two writes; answer, execute, run-now, stop; work ends | `TypeOK`, `IInv`, `WorkedRunNotFailed`, `NoRevivalByLaunch`, `RunsSettle` | a user's work on a background run and the scheduler's repair keep apart; repair or resume finds every running row that lost its launch, whatever writes a crash cut off |
| `shared_checkout` | 5 tasks of all relations two tasks can have, 3 workers | `TypeOK`, `ConflictFree`, `RootsTriedFirst`, `EveryFailureRecovered`, `IInv`, `Settles`, `ImplementsTaskPool` | owners of overlapping paths never work side by side, roots come first, each failure is recovered once, no wake-up is lost; the scheduler implements `TaskPool` |
| `isolated` | 2 tasks, 2 old roots, 1 lease of another run, 1 root that resists removal, retention 4 | `IsoTypeOK`, `LiveRootsKept`, `CompletedReachProject`, `LeftBehind`, `IsoInv`, `OnlyVerifiedFlushed` | while no more mounts are in use than retention keeps, none in use is pruned, every completed change reaches the project or the run calls itself partial, unless it is in a root that resisted a removal; what stays on disk is such a root, the integration mount of a partial run, or a snapshot the scheduler's throw left |
| `terminals` | 2 sessions (one by restart), 2 clients, 2 tokens, 1 chunk, 1 crash; symmetric | `TypeOK`, `AttachedIsOpen`, `StatusIsTrue`, `TokensDie` | the attached socket is open and watched; the record's status is true; a token opens one socket and dies with its client |
| `terminal_output` | 1 session, 2 clients, 2 tokens, 3 chunks; symmetric | `DeliveredOnce` | output reaches one browser once, in order, and above what its snapshot showed, while a second attachment replaces the first |
| `live_sessions` | 1 key, 3 starts, 1 tab, 2 tokens, 1 lost connection | `CliTypeOK`, `ProcessIsListed`, `KeyNamesNewest`, `CliAttachedIsOpen` | over overlapping starts and late exits every live process can be found and stopped, and output goes to an open socket of its session |
| `assistant` | 2 failure texts, 2 attempts, 3 inputs, 1 crash | `TypeOK`, `TripNeedsTwo`, `OneTurn`, `RequestServed` | the breaker never trips on a first failure, turns never overlap, no request is lost |

Each property has a mutant in `PROJECT.json`, a plausible bug with which the
same run fails.

*The bounds.* Of `BackgroundRuns`: what can go wrong between launches needs two
of them for one row, or a late one and a new one, and one crash between; rows
interact only through their job and their lane, so two rows meet every guard
(the third launch of `ownership` allows a resumed row next to a fresh one). The
commands are spread over the runs by what they can disturb together. Of the
scheduler: three workers let one wait while two conflict; its five tasks are a
scaffold, nested paths, disjoint paths and a task whose paths the planner left
open. Of the mounts: two workers, a lease of another run and a root that resists
removal fill retention exactly, next to old roots a prune may take; one root too
many is what `claim_replay` shows. Of terminals: two attachments are an old and
a new socket of a session, which is what the handlers confuse if anything does.
With three chunks one can be in the snapshot of the second socket while two come
to it in order, or the other way round for the first; a crash and the second
session are left to the theorem (`DeliveredOnceAlways`). Of CLI sessions: a
third start can overtake the exit of the first. Of assistants: two texts
distinguish a repeated failure from a new one; three inputs reach the threshold
with the failures of turns, which are not counted. More crashes repeat the
first: a restart forgets what was in memory. The invariants that are also proved
do not depend on any of this.

*Deadlock* is checked for `BackgroundRuns` (a tick or time can always follow)
and for the subagents (a scheduler that is over stutters by a step of its own).
In the other three the bounds on tokens, starts and inputs let the system stop.

### Fairness

`BackgroundRuns`, `TickFairness`: the interval timer fires, a launch that was
called runs its synchronous part, a write follows the write before it, and a
supervisor starts the process again: weak fairness. Time passes between any two
handlers; `Quiescent` disables that for the length of a handler, so it is
strong. `WorkFairness` adds that planner turns, executions, processes and
handlers end or throw; their promises settle in one of the gaps between other
handlers, so it is strong too. `HangSpec` (`ownership`) has the first only,
`LiveSpec` (`answer_execute`) both. No fairness is assumed of users, of
crashes, or of jobs becoming due.

`SubagentScheduler`, `LiveSpec`: weak fairness of each worker's next step. The
event loop resumes a promise that is settled; that a turn ends is assumed of the
adapters (`cli-agent-adapter.ts` kills its process after 15 minutes).

`Assistants`, `LiveSpec`: weak fairness of the debounce timer and of the end of
a turn, for the same reason. None of bootstraps, outcomes and commands.

## Known disagreements between documents and code

With a run that shows them:

1. `claim_clarification`: the repository README (line 193) says that runs which
   need clarification wait for input instead of failing. The first question of
   a launch does. The second one, asked after an answer, leaves the row running
   without launch or lease, and the next tick fails both row and agent run.
2. `claim_replay`: README line 35 says that isolated results replay in the
   integration mount before the flush. Retention keeps three roots, whoever
   uses them; with four completed subagents the prune of the integration lease
   deletes the oldest snapshot, which then shows no change and is passed over,
   and the run does not call itself partial.

Met while modelling, without a run of their own:

3. `workspace-repository.ts:1907` (`setAgentRunReady`) looks at no status, so a
   foreground planner turn that ends late revives a terminal agent run. The test
   "does not resurrect terminal runs from stale planning questions"
   (`workspace-repository.test.ts:2374`) states the opposite of late answers,
   which is kept; plans that come late have no such guard.
4. `server.ts:10053`: the tick awaits the execution of a *resumed* row, and
   while that hangs nothing is repaired, timed out or queued.
   `background-job-scheduler.test.ts:726` and `:357` state the opposite for
   rows in general. `RunsSettle` excludes this case: in `ownership` nothing
   leaves a plan to resume.
5. `server.ts:6628`: rows queued during the pause stay queued after it if an
   abandoned agent run (a launch that threw leaves one) counts as foreground
   work. README line 38 says the pause only holds launches back until resume.
6. `pi-subagents.ts:161`: the recovery run of an import root goes to the end of
   the queue, behind its siblings; README line 183 says that roots run before
   dependent siblings. `RootsTriedFirst` states what does hold.
7. `branchfs-cleanup.ts:81`: the limit of roots applies to fresh partial roots
   too; `branchfs-cleanup.test.ts:60` says retention keeps them so that
   concurrent leases can finish.
8. `server.ts:3397`: `branchfs.cleanup` restores the pause it found, so a pause
   or a resume that the user commands during the cleanup is undone, and nothing
   is released (`CleanupEnds` in `Assistants`).
9. `assistant-manager.ts:342`: a bootstrap that compacts learnings does not
    look at its attempt id again and completes over a newer attempt;
    `correctness-review.md:76` says that ids prevent stale completions.

Behaviours the models have and no document excludes are in the hazards of
`PROJECT.json`: an execution requested by the user can start beside a resumed
launch of the same plan after its preflight; a retry of a run cancelled before
its approval executes; rows queued when the process crashed wait for a release;
a reprioritisation timer that fires during the pause drops its request; the
late exit of a CLI session deletes the key of a newer one
(`cli-session-manager.ts:400`), after which a further start stops nothing; a tab
whose control connection was lost and made again goes on showing as connected a
session the server has detached, until the user presses Reconnect.

## Proofs

All theorems hold for all sets and bounds, under the named assumptions of the
modules alone (bounds are naturals, reserved names are not elements).

Every safety property the runs check is also proved: each invariant and action
property and both refinements. The two properties of isolated subagents that
the code only keeps while there is room carry that condition (`Roomy`, below).

*Background runs* (`BackgroundRunsProofs`): `CoreInductive`, and from it
`TypeCorrect`, `ControlHoldsLeaseAlways`, `OwnerIsLiveAlways`,
`OneLaunchPerRunAlways`; `Refinement`, each step is a step or a stutter of
`RunLifecycle` for every row; `TerminalStays`; `NothingStartsWhilePaused`.

That the finally block may delete the controller by row id needs
`OneLaunchPerRun`. That needs `OwnerIsLive`: a row that is launched is queued
and not in the map, so no launch in progress can be its owner. But a row goes
back from running to queued when the tick resumes it, and the tick decides that
from rows it read before it awaited an execution. Hence `ResumableIsUnworked`:
a row the tick still means to resume is running with no controller, or has
ended. It is preserved because a running row without a controller never gets
one without being queued first, and while a tick is in flight only that tick
queues it. It holds at the beginning because of `LapsedIsUnworked`, the lease
protocol: a running row whose lease is over is in nobody's hands.
`LaunchHasRun` gives the guards of the executor their row, and
`FreshIsUnlinked` excludes that a row that waits for approval follows an agent
run, which the life cycle needs. `TypeOK` and these conjuncts are `Core`.

*Background runs and agent runs* (`BackgroundAgentsProofs`): `NoOverlapAlways`
and `LaneIsExclusiveAlways` look at rows alone: a step either leaves every row
active only if it was (`KeepsRow`), or adds one row, and then it is a retry or
its guard saw no other active row of the job or the lane (`AddsRow`).
`NothingRevives` and `WorkedRunSpared` need to know who works on the agent run
of a row, `Bonds`: no two rows share an agent run; the agent run of a launch
belongs to its row or, once the launch was disowned, to no row; while the
planner works for the owner of a row, no foreground handler is at work on the
agent run, since a user can answer or execute only what is not being planned;
and the row of a failed agent run has ended, or a crash came between the two
writes (`FailedAgentEndsRow`): then nobody works on that agent run, and a launch
of the row has yet to replace it. The last one is what keeps repair, which fails
rows with their agent runs, from a row somebody works on.
`InductiveInvariant` proves `IInv`, `Core` and `Bonds` together, which
`answer_execute` also checks with TLC.

*Subagents* (`SubagentProofs`): `InductiveInvariant`, `TypeCorrect`,
`ConflictFreeAlways`, `RootsTriedFirstAlways`, `EveryFailureRecoveredAlways`,
and `Refinement`, the scheduler implements `TaskPool`. The invariant gives each
task one place (`OnePlace`): queued once or with one worker. Entries and results
agree on how often a task was tried (`ResultsFit`); unless the scheduler has
thrown, a task is queued, with a worker, or has its last result (`NothingLost`);
the first worker leaves only when there is nothing left for anybody
(`DoneIsDrained`); and nothing else stands before an untried root in the queue
(`RootsQueuedFirst`). That the initial queue has each task once needs that
`Place` is a permutation, which is proved by counting.

*Isolated subagents* (`IsolatedProofs`): `IsolatedUsesScheduler` shows that a
behaviour with leases, prunes, retries and integration is one of the scheduler,
so that its theorems hold here too. `IsoInductiveInvariant`, `IsoTypeCorrect`,
`LeftBehindAlways` and `OnlyVerifiedFlushedAlways` hold of all plans and
limits, for removals that fail, and for tasks that share a root.
`LiveRootsKeptAlways` and `CompletedReachProjectAlways` assume `Roomy`: failed
mounts are not kept for debugging, no two tasks share a root, and retention
keeps at least as many roots as the run has tasks, other runs prepare leases,
and removals leave roots behind (`MaxStuck`). The `isolated` instance meets it
exactly, and with more tasks than that `claim_replay` loses a mount
(disagreement 2), so the theorems are the code's guarantee and its limit. What
`CompletedReachProject` gives up, with room, are the changes of a task with a
root in which a removal has failed. The argument counts: when a prune scans, the
roots of this run, stuck ones included, and of other leases are at most
`MaxRoots`, and they are newer than every old root, so it dooms old ones only
(`PrunesSpare`), however late it deletes them. The module assumes that the roots
of other runs have other names; a root's name begins with the id of its run.

*Terminals* (`TerminalProofs`): `TypeCorrect`, `StatusAlwaysTrue`,
`AttachedAlwaysOpen`, `TokensAlwaysDie`, `DeliveredOnceAlways`. The first
invariant, `IInv`, adds to the properties the types of the records and that an
issued token has opened nothing and its client is there, or left before. The
close handler clears whatever is attached, which is safe for `AttachedIsOpen`
and never what keeps it true; what keeps it true is that a socket stops being
open only in steps that clear every record naming it, and a record names only
sockets of its own session.

`DeliveredOnce` rests on `Delivery`: what a socket was given is above its
snapshot and below what its session still buffers, the buffer is in order and
not above what the session has made, what is buffered for the attached socket is
newer than that socket's snapshot, and no two sockets of a session share a
chunk. The third part is the one that is easily lost: a token made while output
is buffered shows that output already, and its socket must not get it again. It
holds because the upgrade empties the buffer into the socket before, or into
none. All steps but two are instances of one lemma (`DeliveryMoves`): the
buffers of some sessions are emptied, each into the socket it has or into none.

*Live CLI sessions* (`CliProofs`): `TypeCorrect`, `ProcessesAreListed`,
`KeysNameNewest`, `AttachedSocketsAreOpen`. A session leaves the table only
with the end of its process, so a process that lives is listed. A key names
the newest session because a late exit, which may belong to an older session,
only ever deletes the key. The sockets' part follows the terminals', with the
tabs' copies of a token kept out of it (`SameTokens`).

*Assistants* (`AssistantProofs`): `TypeCorrect`, `TripsOnSecond`,
`TurnsDoNotOverlap`. The invariant says that a reason is kept only with a
streak of at least one, of the row and of an edit on its way: a failure whose
message is that reason is then the second. A turn that starts has found no
other because a timer never waits beside a turn.

*Only model-checked:* liveness (`RunsSettle`, `Settles`, `RequestServed`),
since fairness and `ENABLED` are out of the prover's reach. The model's bounds
on counters (`MaxOut` and the like) are guards that have no counterpart in the
code, and no property states them.

## Not modelled

- *Event delivery*: batcher, send guard and bounded buffer. Batches and order
  are sequential code with unit tests; an event that a socket under
  back-pressure drops is the case a model of it should begin with.
- *Run budget, milestones, tool activity, browser approvals*: small sequential
  parts whose state does not outlive a run; planned below.
- *The browser's store and panels*: reducers of events and rendering; the part
  that must agree with the server over reconnections is in `CliSessions`.
- *Adapters, parsers, search, IDE services, probes, launcher, skills, scripts,
  the bundled game*: translation, I/O and third-party programs. They hold no
  state that two actors share.
- *Schedules*: cron and interval arithmetic, backoff and congestion; jobs are
  due at will.

## Plan

1. Proofs of the parts below, as they are modelled; a weaker condition than
   `Roomy` for runs that meet few roots of others.
2. `JobSchedule`: next run times, catch-up, backoff and congestion as
   functions, against a reference definition over bounded inputs.
3. `EventDelivery`: batcher, send guard and pump as an order preserving channel
   with loss; bounded buffer, budget and milestones as functions.
4. `ForegroundRuns`: chat runs, `run.resume` and browser approvals, composed
   with `BackgroundRuns` over the agent runs; `Assistants` in place of its free
   circuit breaker.
