------------------------- MODULE IsolatedSubagents -------------------------
(***************************************************************************)
(* Subagents in BranchFS mounts of their own: executeSubagents and         *)
(* executeSubagentWithRetry (pi-subagents.ts) over the scheduler, the      *)
(* leases of BranchfsManager with the retention prune each lease begins    *)
(* with (branchfs-manager.ts, branchfs-cleanup.ts), and the replay of the  *)
(* finished mounts in an integration mount that is verified and flushed to *)
(* the project (branchfs-subagent-integration.ts, executeReadyRun).        *)
(*                                                                         *)
(* A root is the directory of one lease below .local/branchfs, named by    *)
(* its task and attempt.  The prune lists the roots, then deletes those    *)
(* beyond the newest MaxRoots; other prepares go on in between.  Any       *)
(* removal may fail, and every caller swallows that: the root lingers, as  *)
(* the BranchFS skill says (SKILL.md:106).  The age and size limits of the *)
(* prune (24 h, 10 min for roots without manifest, 20 GB) are not reached  *)
(* here; a file's content is whether its task's changes are in it.         *)
(***************************************************************************)
EXTENDS SubagentScheduler

CONSTANTS
  Segment,         \* toSafeBranchfsSegment of the tasks' ids
  MaxRoots,        \* retention.maxRoots
  OldRoots,        \* roots that earlier runs have left
  OtherLeases,     \* bound: leases other runs of the repository prepare
  MaxStuck,        \* bound: roots of the run whose removal has failed
  DebugEnabled     \* keep the mounts of failures

Segments == {Segment[t] : t \in Tasks}

\* The name of a root begins with the id of its run: no task's root has the
\* name of another run's or of the integration's.  Two tasks may have one
\* segment: it is cut at 80 characters, and what is unsafe becomes a dash.
ASSUME RootsAssumption ==
  /\ MaxRoots \in Nat /\ OldRoots \in Nat /\ OtherLeases \in Nat /\ MaxStuck \in Nat
  /\ DebugEnabled \in BOOLEAN
  /\ {"old", "other", "integration"} \cap Segments = {}

VARIABLES
  roots,       \* the roots on disk, oldest first
  lease,       \* per worker: where executeSubagentWithRetry stands
  retained,    \* retainedSnapshots: the tasks with the attempt that completed
  replay,      \* the integration: [stage, doomed, next, merged]
  partial,     \* partialReason is set
  host,        \* tasks whose changes are in the project
  stuck,       \* roots of the run with a failed removal since they were made anew
  others       \* per lease of another run: [stage, doomed]

diskVars == <<roots, lease, retained, replay, partial, host, stuck, others>>

allVars == <<vars, diskVars>>
-----------------------------------------------------------------------------
Root(t, attempt) == <<Segment[t], attempt>>

Integration == <<"integration", 1>>

Mine(r) == r[1] \in Segments \cup {"integration"}

OwnRoot(w) == Root(worker[w].entry.task, lease[w].attempt)

OnDisk == ToSet(roots)

\* The roots that are not dead, in the order they have.
Without(dead) ==
  LET Kept == {i \in DOMAIN roots : roots[i] \notin dead}
      Rank(i) == Cardinality({j \in Kept : j <= i})
  IN  [k \in 1 .. Cardinality(Kept) |-> roots[CHOOSE i \in Kept : Rank(i) = k]]

(* Removing roots (rm): those that resist stay, whole or in part.          *)
Clear(dead) ==
  \E failed \in SUBSET (dead \cap OnDisk) :
    /\ roots' = Without(dead \ failed)
    /\ stuck' = stuck \cup {r \in failed : Mine(r)}
    /\ Cardinality(stuck') <= MaxStuck

(* prepareExperimentLease clears the place of a root and makes it anew; or *)
(* over what resists, in the old directory and with its old age.           *)
Make(r) ==
  \/ roots' = Append(Without({r}), r) /\ stuck' = stuck \ {r}
  \/ /\ r \in OnDisk /\ roots' = roots
     /\ stuck' = stuck \cup {r} /\ Cardinality(stuck') <= MaxStuck

(* The roots retention gives up: all but the newest MaxRoots, in use or    *)
(* not.                                                                    *)
DoomedTooMany ==           \* mutant: one root too many goes
  {roots[i] : i \in 1 .. Len(roots) - MaxRoots + 1}

Doomed == {roots[i] : i \in 1 .. Len(roots) - MaxRoots}

NoLease == [stage |-> "idle", attempt |-> 0, doomed |-> {}]

Prepare(attempt) == [stage |-> "scan", attempt |-> attempt, doomed |-> {}]

IsoInit ==
  /\ Init
  /\ roots = [k \in 1 .. OldRoots |-> <<"old", k>>]
  /\ lease = [w \in Workers |-> NoLease]
  /\ retained = {}
  /\ replay = [stage |-> "idle", doomed |-> {}, next |-> 1, merged |-> {}]
  /\ partial = FALSE /\ host = {} /\ stuck = {}
  /\ others = [n \in 1 .. OtherLeases |-> [stage |-> "scan", doomed |-> {}]]
-----------------------------------------------------------------------------
(* A worker's task, attempt by attempt.                                    *)

At(w, stage) == worker[w].pc = "executing" /\ lease[w].stage = stage

Take(w) ==
  /\ Dequeue(w)
  /\ lease' = [lease EXCEPT ![w] = Prepare(1)]
  /\ UNCHANGED <<roots, retained, replay, partial, host, stuck, others>>

Idle(w) == (Wait(w) \/ Leave(w)) /\ UNCHANGED diskVars

Scan(w) ==
  /\ At(w, "scan")
  /\ lease' = [lease EXCEPT ![w].stage = "purge", ![w].doomed = Doomed]
  /\ UNCHANGED <<vars, roots, retained, replay, partial, host, stuck, others>>

Purge(w) ==
  /\ At(w, "purge")
  /\ Clear(lease[w].doomed)
  /\ lease' = [lease EXCEPT ![w].stage = "make", ![w].doomed = {}]
  /\ UNCHANGED <<vars, retained, replay, partial, host, others>>

MakeRoot(w) ==
  /\ At(w, "make")
  /\ Make(OwnRoot(w))
  /\ lease' = [lease EXCEPT ![w].stage = "fill"]
  /\ UNCHANGED <<vars, retained, replay, partial, host, others>>

(* Copying the repository, seeding git, and last the manifest, which fails *)
(* when the root has gone.                                                 *)
Fill(w) ==
  /\ At(w, "fill") /\ OwnRoot(w) \in OnDisk
  /\ lease' = [lease EXCEPT ![w].stage = "work"]
  /\ UNCHANGED <<vars, roots, retained, replay, partial, host, stuck, others>>

SnapshotForgotten(w) ==    \* mutant: only a first attempt's snapshot is retained
  IF lease[w].attempt = 1 THEN {<<worker[w].entry.task, 1>>} ELSE {}

SnapshotOf(w) == {<<worker[w].entry.task, lease[w].attempt>>}

(* The attempt ends well: verifyResult only lists changed files.           *)
Complete(w) ==
  /\ At(w, "work")
  /\ Return(w, "completed")
  /\ retained' = {x \in retained : x[1] # worker[w].entry.task} \cup SnapshotOf(w)
  /\ lease' = [lease EXCEPT ![w] = NoLease]
  /\ UNCHANGED <<roots, replay, partial, host, stuck, others>>

MayFail(w) == \E stage \in {"make", "fill", "work"} : At(w, stage)

(* The mount after a failure: a failed prepare cleans up after itself, a   *)
(* failed turn does unless mounts are kept for debugging.                  *)
MountForgotten(w) ==       \* mutant: nobody discards the failed attempt's mount
  UNCHANGED <<roots, stuck>>

DiscardFailed(w) ==
  IF At(w, "work") /\ DebugEnabled THEN UNCHANGED <<roots, stuck>> ELSE Clear({OwnRoot(w)})

Fail(w) ==
  /\ MayFail(w)
  /\ Return(w, "failed")
  /\ DiscardFailed(w)
  /\ retained' = {x \in retained : x[1] # worker[w].entry.task}
  /\ lease' = [lease EXCEPT ![w] = NoLease]
  /\ UNCHANGED <<replay, partial, host, others>>

RetryForever(w) ==         \* mutant: nothing counts the attempts
  /\ MayFail(w) /\ ~aborted
  /\ Clear({OwnRoot(w)})
  /\ lease' = [lease EXCEPT ![w] = Prepare(@.attempt + 1)]
  /\ UNCHANGED <<vars, retained, replay, partial, host, others>>

(* A transient error of the first attempt: the mount is always discarded   *)
(* and a second attempt prepares one of its own.                           *)
RetryTransient(w) ==
  /\ MayFail(w) /\ lease[w].attempt = 1 /\ ~aborted
  /\ Clear({OwnRoot(w)})
  /\ lease' = [lease EXCEPT ![w] = Prepare(@.attempt + 1)]
  /\ UNCHANGED <<vars, retained, replay, partial, host, others>>

Aborted(w) ==
  /\ MayFail(w)
  /\ Throw(w)
  /\ DiscardFailed(w)
  /\ lease' = [lease EXCEPT ![w] = NoLease]
  /\ UNCHANGED <<retained, replay, partial, host, others>>

Settled(w) ==
  /\ worker[w].pc = "settling"
  /\ Finish(w) \/ Throw(w)
  /\ UNCHANGED diskVars
-----------------------------------------------------------------------------
(* executeReadyRun once the scheduler has returned.                        *)

Snapshot(t) == {Root(x[1], x[2]) : x \in {y \in retained : y[1] = t}}

SnapshotRoots == {Root(x[1], x[2]) : x \in retained}

Replaying(stage) == replay.stage = stage /\ UNCHANGED <<vars, lease, others>>

Alone(stage) == Replaying(stage) /\ UNCHANGED <<roots, stuck, retained>>

(* Without a snapshot there is nothing to integrate.                       *)
BeginReplay ==
  /\ AllDone /\ ~fatal /\ Alone("idle")
  /\ replay' = [replay EXCEPT !.stage = IF retained = {} THEN "discard" ELSE "scan"]
  /\ UNCHANGED <<partial, host>>

ReplayScan ==
  /\ Alone("scan")
  /\ replay' = [replay EXCEPT !.stage = "purge", !.doomed = Doomed]
  /\ UNCHANGED <<partial, host>>

ReplayPurge ==
  /\ Replaying("purge")
  /\ Clear(replay.doomed)
  /\ replay' = [replay EXCEPT !.stage = "make", !.doomed = {}]
  /\ UNCHANGED <<retained, partial, host>>

ReplayMake ==
  /\ Replaying("make")
  /\ Make(Integration)
  /\ replay' = [replay EXCEPT !.stage = "merge"]
  /\ UNCHANGED <<retained, partial, host>>

(* What of the changes S a root shows: all while it is as it was made;     *)
(* nothing once it has gone; and any part when a removal has failed in it, *)
(* since then a part may be deleted, and what an earlier attempt left      *)
(* there is in the base too and counts as no change.                       *)
Shown(r, S) ==
  IF r \notin OnDisk THEN {{}} ELSE IF r \in stuck THEN SUBSET S ELSE {S}

(* The snapshots one by one in plan order.  One that shows no changed path *)
(* is passed over; a conflict with what is merged is resolved by an agent. *)
SnapshotShows(t) ==
  IF Snapshot(t) = {} THEN {{}} ELSE UNION {Shown(r, {t}) : r \in Snapshot(t)}

MergeNext ==
  \E S \in SnapshotShows(Plan[replay.next]) :
    replay' = [replay EXCEPT !.next = @ + 1, !.merged = @ \cup S]

ReplayMerge ==
  /\ Alone("merge")
  /\ \/ replay.next > Len(Plan) /\ replay' = [replay EXCEPT !.stage = "verify"]
     \/ replay.next <= Len(Plan) /\ MergeNext
  /\ UNCHANGED <<partial, host>>

ReplayBreaksSilently ==    \* mutant: the run does not call itself partial
  /\ replay.stage \in {"make", "merge"} /\ Alone(replay.stage)
  /\ replay' = [replay EXCEPT !.stage = "discard"]
  /\ UNCHANGED <<partial, host>>

(* An unresolved conflict or another error before the lease is handed out: *)
(* nobody holds the integration mount any more.                            *)
ReplayBreaks ==
  /\ replay.stage \in {"make", "merge"} /\ Alone(replay.stage)
  /\ replay' = [replay EXCEPT !.stage = "discard"]
  /\ partial' = TRUE
  /\ UNCHANGED host

VerifyIgnored(ok) ==       \* mutant: a failed verification goes on to the flush
  replay' = [replay EXCEPT !.stage = "flush"]

Verified(ok) ==
  replay' = [replay EXCEPT !.stage = IF ok THEN "flush" ELSE "discardAll"]

(* The scripts run in the integration mount, after its package.json has    *)
(* been read.                                                              *)
Verify ==
  /\ Alone("verify")
  /\ \E ok \in BOOLEAN :
       (ok => Integration \in OnDisk) /\ Verified(ok) /\ partial' = ~ok
  /\ UNCHANGED host

(* flushExperiment copies path by path and may break off; a mount that has *)
(* gone shows no changed path.                                             *)
Flush ==
  /\ Alone("flush")
  /\ \/ /\ \E S \in Shown(Integration, replay.merged) : host' = host \cup S
        /\ UNCHANGED partial
     \/ /\ \E S \in SUBSET replay.merged : host' = host \cup S
        /\ partial' = TRUE
  /\ replay' = [replay EXCEPT !.stage = "discardAll"]

(* The finally clause: with a failure under debugging nothing is           *)
(* discarded.                                                              *)
Discard ==
  LET dead == SnapshotRoots \cup (IF replay.stage = "discardAll" THEN {Integration} ELSE {})
  IN
  /\ replay.stage \in {"discard", "discardAll"} /\ Replaying(replay.stage)
  /\ IF partial /\ DebugEnabled THEN UNCHANGED <<roots, stuck>> ELSE Clear(dead)
  /\ retained' = {}
  /\ replay' = [replay EXCEPT !.stage = "over"]
  /\ UNCHANGED <<partial, host>>

(* The scheduler threw: the error passes executeReadyRun, and the retained *)
(* snapshots with it.                                                      *)
GiveUp ==
  /\ AllDone /\ fatal /\ Alone("idle")
  /\ replay' = [replay EXCEPT !.stage = "over"]
  /\ UNCHANGED <<partial, host>>

(* Another run of the repository prepares a lease, named by its own id.    *)
OtherAt(n, stage, next) ==
  /\ others[n].stage = stage /\ others' = [others EXCEPT ![n] = next]
  /\ UNCHANGED <<vars, lease, retained, replay, partial, host>>

OtherScan(n) ==
  OtherAt(n, "scan", [stage |-> "purge", doomed |-> Doomed]) /\ UNCHANGED <<roots, stuck>>

OtherPurge(n) ==
  OtherAt(n, "purge", [stage |-> "make", doomed |-> {}]) /\ Clear(others[n].doomed)

OtherMake(n) ==
  /\ OtherAt(n, "make", [stage |-> "over", doomed |-> {}])
  /\ roots' = Append(roots, <<"other", n>>) /\ UNCHANGED stuck

IsoAbort == Abort /\ replay.stage # "over" /\ UNCHANGED diskVars

Finished == replay.stage = "over" /\ UNCHANGED allVars

WorkerStep(w) ==
  \/ Take(w) \/ Idle(w) \/ Scan(w) \/ Purge(w) \/ MakeRoot(w) \/ Fill(w)
  \/ Complete(w) \/ Fail(w) \/ RetryTransient(w) \/ Aborted(w) \/ Settled(w)

ReplayStep ==
  \/ BeginReplay \/ ReplayScan \/ ReplayPurge \/ ReplayMake \/ ReplayMerge
  \/ ReplayBreaks \/ Verify \/ Flush \/ Discard \/ GiveUp

OtherStep(n) == OtherScan(n) \/ OtherPurge(n) \/ OtherMake(n)

IsoNext ==
  \/ \E w \in Workers : WorkerStep(w)
  \/ ReplayStep
  \/ \E n \in 1 .. OtherLeases : OtherStep(n)
  \/ IsoAbort \/ Finished

IsoSpec == IsoInit /\ [][IsoNext]_allVars
-----------------------------------------------------------------------------
(* Properties.                                                             *)

OwnRoots == {r \in OnDisk : Mine(r)}

InUse ==
  {OwnRoot(w) : w \in {v \in Workers : At(v, "fill") \/ At(v, "work")}}
  \cup SnapshotRoots
  \cup (IF replay.stage \in {"merge", "verify", "flush"} THEN {Integration} ELSE {})

RootNames ==
  (Segments \X {1, 2}) \cup {Integration}
    \cup ({"old"} \X (1 .. OldRoots)) \cup ({"other"} \X (1 .. OtherLeases))

IsoTypeOK ==
  /\ OnDisk \subseteq RootNames
  /\ \A i, j \in DOMAIN roots : roots[i] = roots[j] => i = j
  /\ stuck \subseteq (Segments \X {1, 2}) \cup {Integration} /\ Cardinality(stuck) <= MaxStuck
  /\ retained \subseteq Tasks \X {1, 2}
  /\ host \subseteq Tasks /\ replay.merged \subseteq Tasks
  /\ \A w \in Workers : worker[w].pc = "executing" <=> lease[w].stage # "idle"

(* A prune that a new lease begins with takes no root that a subagent is   *)
(* working in, that waits for its integration, or that is the integration  *)
(* mount.  It holds while no more roots are in use or stuck than retention *)
(* keeps, and no two tasks have one segment.                               *)
LiveRootsKept == InUse \subseteq OnDisk

Completed == {t \in Tasks : t \in DOMAIN results /\ results[t].status = "completed"}

\* Tasks that a root belongs to in which a removal has failed.
StuckTasks == {t \in Tasks : {Root(t, 1), Root(t, 2)} \cap stuck # {}}

(* A run that does not call itself partial has brought the changes of      *)
(* every completed subagent to the project, and of no other; all that can  *)
(* be missing are changes hidden in a root that resisted a removal.        *)
CompletedReachProject ==
  replay.stage = "over" /\ ~fatal /\ ~partial =>
    host \subseteq Completed /\ Completed \ host \subseteq StuckTasks

(* Nothing reaches the project from an integration that has failed.        *)
OnlyVerifiedFlushed == [][host' # host => ~partial]_allVars

(* Without debugging, the mounts that outlive a run are accounted for:     *)
(* those that resisted their removal, the integration mount of a run that  *)
(* ended partial, and after a throw those of the subagents that had        *)
(* completed.                                                              *)
LeftBehind ==
  replay.stage = "over" /\ ~DebugEnabled =>
    IF fatal THEN OwnRoots \subseteq SnapshotRoots \cup stuck
    ELSE OwnRoots \subseteq (IF partial THEN {Integration} ELSE {}) \cup stuck

(* README.md:35 says that isolated subagent results replay inside the      *)
(* integration mount before the flush: what a run that reports no gap has  *)
(* flushed contains every completed subagent's changes.                    *)
ResultsReplayed ==
  replay.stage = "over" /\ ~fatal /\ ~partial => Completed \subseteq host
-----------------------------------------------------------------------------
(* The inductive invariant behind them.                                    *)

\* The leases other runs have made.
Made == {n \in 1 .. OtherLeases : others[n].stage = "over"}

\* The leases workers hold, and the roots of other runs.
LeasesFit ==
  /\ roots \in Seq(RootNames)
  /\ lease \in [Workers -> [stage : {"idle", "scan", "purge", "make", "fill", "work"},
                            attempt : 0 .. 2, doomed : SUBSET RootNames]]
  /\ \A w \in Workers : lease[w].stage # "idle" => lease[w].attempt \in 1 .. 2
  /\ others \in [1 .. OtherLeases -> [stage : {"scan", "purge", "make", "over"},
                                      doomed : SUBSET RootNames]]
  /\ \A i \in DOMAIN roots : roots[i][1] = "other" => roots[i][2] \in Made
  /\ \A i, j \in DOMAIN roots : i < j /\ roots[j][1] = "old" => roots[i][1] = "old"

\* The integration begins when the scheduler has returned without a throw.
ReplayFits ==
  /\ replay \in [stage : {"idle", "scan", "purge", "make", "merge", "verify", "flush",
                          "discard", "discardAll", "over"},
                 doomed : SUBSET RootNames, next : Nat \ {0}, merged : SUBSET Tasks]
  /\ partial \in BOOLEAN
  /\ replay.stage # "idle" => AllDone
  /\ replay.stage \notin {"idle", "over"} => ~fatal
  /\ replay.stage \in {"idle", "flush"} => ~partial
  /\ Integration \in OnDisk =>
       ~fatal /\ replay.stage \notin {"idle", "scan", "purge", "make"}

\* One snapshot for each task that has completed.
RetainedFits ==
  /\ \A x \in retained : x[1] \in Completed
  /\ \A x, y \in retained : x[1] = y[1] => x = y

\* Without debugging every root of the run is a snapshot, being worked in, or
\* one that resisted.
RootsAccounted ==
  ~DebugEnabled =>
    /\ \A r \in OnDisk : r[1] \in Segments =>
         \/ r \in SnapshotRoots \cup stuck
         \/ \E w \in Workers : (At(w, "fill") \/ At(w, "work")) /\ OwnRoot(w) = r
    /\ Integration \in OnDisk \ stuck /\ replay.stage \in {"discard", "over"} => partial
    /\ replay.stage = "over" /\ ~fatal => retained = {}

\* Retention keeps room for a root of every task, for those that resist and
\* for the leases of other runs, and no two tasks have one segment.
Roomy ==
  /\ ~DebugEnabled /\ Len(Plan) + OtherLeases + MaxStuck <= MaxRoots
  /\ \A t, u \in Tasks : Segment[t] = Segment[u] => t = u

\* Then no prune has a root of the run on its list.
PrunesSpare ==
  /\ \A w \in Workers : \A r \in lease[w].doomed : ~Mine(r)
  /\ \A r \in replay.doomed : ~Mine(r)
  /\ \A n \in 1 .. OtherLeases : \A r \in others[n].doomed : ~Mine(r)

\* Of the tasks in T, those that completed are in S, but for hidden ones.
Brings(S, T) == S \subseteq Completed \cap T /\ (Completed \cap T) \ S \subseteq StuckTasks

\* How far the integration has brought what was completed.
ReplayCarries ==
  LET stage == replay.stage IN
  /\ stage # "over" => \A t \in Completed : Snapshot(t) # {}
  /\ stage \in {"idle", "scan", "purge", "make"} => replay.next = 1 /\ replay.merged = {}
  /\ stage = "merge" =>
       Brings(replay.merged, {Plan[i] : i \in {j \in DOMAIN Plan : j < replay.next}})
  /\ stage \in {"verify", "flush"} => Brings(replay.merged, Tasks)
  /\ stage \in {"merge", "verify", "flush"} => Integration \notin stuck
  /\ stage \in {"discard", "discardAll", "over"} /\ ~fatal /\ ~partial => Brings(host, Tasks)
  /\ stage \notin {"discard", "discardAll", "over"} => host = {}

IsoInv ==
  /\ IsoTypeOK /\ LeasesFit /\ ReplayFits /\ RetainedFits /\ RootsAccounted
  /\ Roomy => PrunesSpare /\ LiveRootsKept /\ ReplayCarries
=============================================================================
