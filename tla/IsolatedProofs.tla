---------------------------- MODULE IsolatedProofs ----------------------------
(***************************************************************************)
(* What holds of subagents in mounts of their own: they use the scheduler  *)
(* as it is meant to be used, nothing reaches the project unverified, what *)
(* is left on disk is accounted for, and, as long as retention has room    *)
(* for a root of every task and of every other run, no mount in use is     *)
(* pruned and every completed change reaches the project.                  *)
(***************************************************************************)
EXTENDS IsolatedSubagents, SubagentProofs

(* Every step of the isolated subagents is a step of the scheduler, or     *)
(* none (executeSubagents passes executeTask, onSettled and scheduleRetry  *)
(* to scheduleSubagentTasks and leaves its state alone).                   *)
THEOREM IsolatedUsesScheduler == IsoSpec => Spec
<1>1. IsoInit => Init
  BY DEF IsoInit
<1>2. ASSUME [IsoNext]_allVars PROVE [Next]_vars
  <2>1. ASSUME NEW w \in Workers, WorkerStep(w) PROVE [Next]_vars
    <3>1. CASE Take(w) \/ Idle(w) \/ Complete(w) \/ Fail(w) \/ Aborted(w) \/ Settled(w)
      <4>1. Step(w)
        BY <3>1 DEF Take, Idle, Complete, Fail, Aborted, Settled, Step
      <4> QED
        BY <4>1 DEF Next
    <3>2. CASE Scan(w) \/ Purge(w) \/ MakeRoot(w) \/ Fill(w) \/ RetryTransient(w)
      BY <3>2 DEF Scan, Purge, MakeRoot, Fill, RetryTransient
    <3> QED
      BY <2>1, <3>1, <3>2 DEF WorkerStep
  <2>2. CASE ReplayStep
    BY <2>2 DEF ReplayStep, BeginReplay, ReplayScan, ReplayPurge, ReplayMake, ReplayMerge,
       ReplayBreaks, Verify, Flush, Discard, GiveUp, Alone, Replaying
  <2>3. CASE (\E n \in 1 .. OtherLeases : OtherStep(n)) \/ IsoAbort \/ Finished \/ UNCHANGED allVars
    BY <2>3 DEF OtherStep, OtherScan, OtherPurge, OtherMake, OtherAt, IsoAbort, Finished, allVars,
       Next
  <2> QED
    BY <1>2, <2>1, <2>2, <2>3 DEF IsoNext
<1> QED
  BY <1>1, <1>2, PTL DEF IsoSpec, Spec
-----------------------------------------------------------------------------
(* The list of roots.                                                      *)

LEMMA RankFacts ==
  ASSUME NEW n \in Nat, NEW K \in SUBSET (1 .. n)
  PROVE  LET Rank(i) == Cardinality({j \in K : j <= i}) IN
         /\ Cardinality(K) \in Nat
         /\ \A i \in K : Rank(i) \in 1 .. Cardinality(K)
         /\ \A i, j \in K : i < j => Rank(i) < Rank(j)
         /\ \A k \in 1 .. Cardinality(K) : \E i \in K : Rank(i) = k
<1> DEFINE Upto(i) == {j \in K : j <= i}
           Rank(i) == Cardinality(Upto(i))
           m == Cardinality(K)
<1>a. IsFiniteSet(1 .. n)
  BY FS_Interval
<1>b. IsFiniteSet(K)
  BY <1>a, FS_Subset
<1>1. IsFiniteSet(K) /\ m \in Nat
  BY <1>b, FS_CardinalityType
<1>2. \A i \in K : i \in Nat
  OBVIOUS
<1>3. \A i \in K : Upto(i) \in SUBSET K /\ i \in Upto(i)
  BY <1>2
<1>4. ASSUME NEW i \in K, NEW j \in K, i < j
      PROVE  Upto(i) \in SUBSET Upto(j) /\ j \notin Upto(i)
  <2>1. i \in Nat /\ j \in Nat /\ ~(j <= i)
    BY <1>2, <1>4
  <2>2. \A k \in K : k <= i => k <= j
    BY <1>2, <1>4, <2>1
  <2> QED
    BY <2>1, <2>2
<1> HIDE DEF Upto, m
<1>5. ASSUME NEW i \in K
      PROVE  IsFiniteSet(Upto(i)) /\ Rank(i) \in 1 .. m
  <2>1. IsFiniteSet(Upto(i)) /\ Cardinality(Upto(i)) <= m
    BY <1>1, <1>3, FS_Subset DEF m
  <2>2. Cardinality(Upto(i)) \in Nat
    BY <2>1, FS_CardinalityType
  <2>3. Cardinality(Upto(i)) # 0
    BY <1>3, <2>1, FS_EmptySet
  <2> QED
    BY <1>1, <2>1, <2>2, <2>3
<1>6. ASSUME NEW i \in K, NEW j \in K, i < j
      PROVE  Rank(i) < Rank(j)
  <2>1. Upto(i) \in SUBSET Upto(j) /\ Upto(i) # Upto(j)
    BY <1>3, <1>4, <1>6
  <2>2. IsFiniteSet(Upto(j))
    BY <1>5
  <2>3. Rank(i) <= Rank(j) /\ Rank(i) # Rank(j)
    BY <2>1, <2>2, FS_Subset
  <2> QED
    BY <1>1, <1>5, <2>3
<1> DEFINE f == [i \in K |-> Rank(i)]
<1>7. f \in [K -> 1 .. m] /\ \A i \in K : f[i] = Rank(i)
  BY <1>5
<1>8. \A i, j \in K : Rank(i) = Rank(j) => i = j
  <2> HIDE DEF Rank
  <2> TAKE i, j \in K
  <2>1. Rank(i) \in Nat /\ Rank(j) \in Nat
    BY <1>1, <1>5
  <2> QED
    BY <1>2, <1>6, <2>1
<1> HIDE DEF f, Rank
<1>9. f \in Injection(K, 1 .. m)
  BY <1>7, <1>8 DEF Injection, IsInjective
<1>10. IsFiniteSet(1 .. m) /\ Cardinality(1 .. m) = Cardinality(K)
  BY <1>1, FS_Interval DEF m
<1>11. f \in Surjection(K, 1 .. m)
  BY <1>9, <1>10, FS_Injection
<1>12. \A k \in 1 .. m : \E i \in K : Rank(i) = k
  BY <1>7, <1>11 DEF Surjection
<1> QED
  BY <1>1, <1>5, <1>6, <1>12 DEF Rank, Upto, m

(* Positions 1 .. m of Without(dead) are the surviving ones of 1 .. n.      *)
Selects(dead, m, n, pos) ==
  /\ Without(dead) = [k \in 1 .. m |-> roots[pos[k]]]
  /\ \A k, l \in 1 .. m : k < l => pos[k] < pos[l]
  /\ \A k \in 1 .. m : roots[pos[k]] \notin dead
  /\ \A i \in 1 .. n : roots[i] \notin dead => \E k \in 1 .. m : pos[k] = i

LEMMA WithoutFacts ==
  ASSUME NEW n \in Nat, DOMAIN roots = 1 .. n, NEW dead
  PROVE  \E m \in Nat : \E pos \in [1 .. m -> 1 .. n] : Selects(dead, m, n, pos)
<1> DEFINE K == {i \in DOMAIN roots : roots[i] \notin dead}
           Rank(i) == Cardinality({j \in K : j <= i})
           m == Cardinality(K)
           At0(k) == CHOOSE i \in K : Rank(i) = k
           pos == [k \in 1 .. m |-> At0(k)]
<1>1. K \in SUBSET (1 .. n)
  OBVIOUS
<1>2. Without(dead) = [k \in 1 .. m |-> roots[At0(k)]]
  BY DEF Without
<1>3. \A i \in K : i \in 1 .. n /\ roots[i] \notin dead
  OBVIOUS
<1>4. \A i \in 1 .. n : roots[i] \notin dead => i \in K
  OBVIOUS
<1> HIDE DEF K
<1>5. /\ m \in Nat
      /\ \A i \in K : Rank(i) \in 1 .. m
      /\ \A i, j \in K : i < j => Rank(i) < Rank(j)
      /\ \A k \in 1 .. m : \E i \in K : Rank(i) = k
  BY <1>1, RankFacts
<1> HIDE DEF Rank, m
<1>6. \A k \in 1 .. m : At0(k) \in K /\ Rank(At0(k)) = k
  BY <1>5
<1>7. \A i, j \in K : Rank(i) = Rank(j) => i = j
  <2> TAKE i, j \in K
  <2>1. i \in Nat /\ j \in Nat /\ Rank(i) \in Nat /\ Rank(j) \in Nat
    BY <1>3, <1>5
  <2> QED
    BY <1>5, <2>1
<1> HIDE DEF At0
<1>8. \A k, l \in 1 .. m : k < l => At0(k) < At0(l)
  <2> SUFFICES ASSUME NEW k \in 1 .. m, NEW l \in 1 .. m, k < l PROVE At0(k) < At0(l)
    OBVIOUS
  <2>1. At0(k) \in K /\ At0(l) \in K /\ Rank(At0(k)) = k /\ Rank(At0(l)) = l
    BY <1>6
  <2>2. At0(k) \in Nat /\ At0(l) \in Nat /\ k \in Nat /\ l \in Nat
    BY <1>3, <1>5, <2>1
  <2>3. ~(At0(l) < At0(k)) /\ At0(k) # At0(l)
    BY <1>5, <2>1, <2>2
  <2> QED
    BY <2>2, <2>3
<1>9. \A i \in K : Rank(i) \in 1 .. m /\ At0(Rank(i)) = i
  BY <1>5, <1>6, <1>7
<1>10. pos \in [1 .. m -> 1 .. n] /\ \A k \in 1 .. m : pos[k] = At0(k)
  BY <1>3, <1>6
<1> HIDE DEF pos
<1>11. Without(dead) = [k \in 1 .. m |-> roots[pos[k]]]
  BY <1>2, <1>10
<1>12. \A k \in 1 .. m : roots[pos[k]] \notin dead
  BY <1>3, <1>6, <1>10
<1>13. \A i \in 1 .. n : roots[i] \notin dead => \E k \in 1 .. m : pos[k] = i
  BY <1>4, <1>9, <1>10
<1>14. \A k, l \in 1 .. m : k < l => pos[k] < pos[l]
  BY <1>8, <1>10
<1> QED
  BY <1>5, <1>10, <1>11, <1>12, <1>13, <1>14 DEF Selects

(* Roots that differ, those of earlier runs first, and those of the other  *)
(* runs in O.                                                              *)
RootList(s, O) ==
  /\ s \in Seq(RootNames)
  /\ \A i, j \in DOMAIN s : s[i] = s[j] => i = j
  /\ \A i \in DOMAIN s : s[i][1] = "other" => s[i][2] \in O
  /\ \A i, j \in DOMAIN s : i < j /\ s[j][1] = "old" => s[i][1] = "old"

LEMMA WithoutIsList ==
  ASSUME NEW O, RootList(roots, O), NEW dead
  PROVE  RootList(Without(dead), O) /\ ToSet(Without(dead)) = OnDisk \ dead
<1> DEFINE n == Len(roots)
<1>1. n \in Nat /\ DOMAIN roots = 1 .. n /\ \A i \in 1 .. n : roots[i] \in RootNames
  BY LenProperties, ElementOfSeq DEF RootList
<1> HIDE DEF n
<1>a. PICK m \in Nat : \E pos \in [1 .. m -> 1 .. n] : Selects(dead, m, n, pos)
  BY <1>1, WithoutFacts
<1>b. PICK pos \in [1 .. m -> 1 .. n] : Selects(dead, m, n, pos)
  BY <1>a
<1>2. /\ Without(dead) = [k \in 1 .. m |-> roots[pos[k]]]
      /\ \A k, l \in 1 .. m : k < l => pos[k] < pos[l]
      /\ \A k \in 1 .. m : roots[pos[k]] \notin dead
      /\ \A i \in 1 .. n : roots[i] \notin dead => \E k \in 1 .. m : pos[k] = i
  BY <1>b DEF Selects
<1> DEFINE s == Without(dead)
<1> HIDE DEF s
<1>3. /\ DOMAIN s = 1 .. m
      /\ \A k \in 1 .. m : pos[k] \in 1 .. n /\ s[k] = roots[pos[k]]
  BY <1>2 DEF s
<1>4. s \in Seq(RootNames)
  <2>1. s \in [1 .. m -> RootNames]
    BY <1>1, <1>2, <1>3 DEF s
  <2> QED
    BY <2>1, SeqDef
<1>5. \A k, l \in DOMAIN s : s[k] = s[l] => k = l
  <2> TAKE k, l \in DOMAIN s
  <2> HAVE s[k] = s[l]
  <2>1. pos[k] = pos[l]
    BY <1>1, <1>3 DEF RootList
  <2>2. pos[k] \in Nat /\ ~(pos[k] < pos[l]) /\ ~(pos[l] < pos[k])
    BY <1>3, <2>1
  <2> QED
    BY <1>2, <1>3, <2>2
<1>6. \A k \in DOMAIN s : s[k][1] = "other" => s[k][2] \in O
  BY <1>1, <1>3 DEF RootList
<1>7. \A k, l \in DOMAIN s : k < l /\ s[l][1] = "old" => s[k][1] = "old"
  BY <1>1, <1>2, <1>3 DEF RootList
<1>8. ToSet(s) = OnDisk \ dead
  <2>1. ASSUME NEW k \in DOMAIN s PROVE s[k] \in OnDisk \ dead
    BY <1>1, <1>2, <1>3 DEF ToSet, OnDisk
  <2>2. ASSUME NEW i \in DOMAIN roots, roots[i] \notin dead PROVE roots[i] \in ToSet(s)
    <3>1. PICK k \in 1 .. m : pos[k] = i
      BY <1>1, <1>2, <2>2
    <3> QED
      BY <1>3, <3>1 DEF ToSet
  <2> QED
    BY <2>1, <2>2 DEF ToSet, OnDisk
<1> QED
  BY <1>4, <1>5, <1>6, <1>7, <1>8 DEF RootList, s

LEMMA AppendIsList ==
  ASSUME NEW s, NEW O, RootList(s, O), NEW r \in RootNames, r \notin ToSet(s),
         r[1] # "old", r[1] = "other" => r[2] \in O
  PROVE  RootList(Append(s, r), O) /\ ToSet(Append(s, r)) = ToSet(s) \cup {r}
<1> DEFINE n == Len(s)
           a == Append(s, r)
<1>1. n \in Nat /\ DOMAIN s = 1 .. n
  BY LenProperties DEF RootList
<1>2. /\ a \in Seq(RootNames) /\ Len(a) = n + 1 /\ a[n + 1] = r
      /\ \A i \in 1 .. n : a[i] = s[i]
  BY <1>1 DEF RootList
<1> HIDE DEF a, n
<1>3. DOMAIN a = 1 .. n + 1
  BY <1>2, LenProperties
<1>4. \A i \in DOMAIN a : (i \in DOMAIN s /\ a[i] = s[i]) \/ (i = n + 1 /\ a[i] = r)
  <2>1. \A i \in 1 .. n + 1 : i \in 1 .. n \/ i = n + 1
    BY <1>1
  <2> QED
    BY <1>1, <1>2, <1>3, <2>1
<1>5. \A i \in DOMAIN s : s[i] # r
  BY DEF ToSet
<1>6. \A i, j \in DOMAIN a : a[i] = a[j] => i = j
  BY <1>4, <1>5 DEF RootList
<1>7. \A i \in DOMAIN a : a[i][1] = "other" => a[i][2] \in O
  BY <1>4 DEF RootList
<1>8. \A i, j \in DOMAIN a : i < j /\ a[j][1] = "old" => a[i][1] = "old"
  <2> SUFFICES ASSUME NEW i \in DOMAIN a, NEW j \in DOMAIN a, i < j, a[j][1] = "old"
               PROVE  a[i][1] = "old"
    OBVIOUS
  <2>1. j \in DOMAIN s /\ a[j] = s[j]
    BY <1>4
  <2>2. i \in DOMAIN s /\ a[i] = s[i]
    BY <1>1, <1>2, <1>3, <2>1
  <2> QED
    BY <2>1, <2>2 DEF RootList
<1>9. ToSet(a) = ToSet(s) \cup {r}
  BY <1>1, <1>2, <1>3, <1>4 DEF ToSet
<1> QED
  BY <1>2, <1>6, <1>7, <1>8, <1>9 DEF RootList, a
-----------------------------------------------------------------------------
(* Who uses which root.                                                    *)

Executing(w) == worker[w].pc = "executing"

Using(w) == At(w, "fill") \/ At(w, "work")

(* The run's own roots in which a removal has failed.                      *)
OwnNames == (Segments \X {1, 2}) \cup {Integration}

StuckFits == stuck \subseteq OwnNames /\ Cardinality(stuck) <= MaxStuck

Listed == RootList(roots, Made) /\ StuckFits

LEMMA ListedHolds ==
  ASSUME IsoInv
  PROVE  Listed
BY DEF IsoInv, IsoTypeOK, LeasesFit, Listed, RootList, StuckFits, OwnNames

LEMMA OwnNamesFacts ==
  /\ IsFiniteSet(OwnNames) /\ OwnNames \subseteq RootNames
  /\ \A r \in RootNames : Mine(r) <=> r \in OwnNames
<1> DEFINE D == 1 .. Len(Plan)
           Names(a) == {Root(t, a) : t \in Tasks}
           f(a) == [i \in D |-> Root(Plan[i], a)]
<1>1. ASSUME NEW a PROVE IsFiniteSet(Names(a))
  <2>1. f(a) \in [D -> Names(a)] /\ \A i \in D : f(a)[i] = Root(Plan[i], a)
    BY PlanFacts
  <2>2. \A r \in Names(a) : \E i \in D : f(a)[i] = r
    BY <2>1, PlanFacts
  <2>3. f(a) \in Surjection(D, Names(a))
    BY <2>1, <2>2 DEF Surjection
  <2> QED
    BY <2>3, PlanFacts, FS_Surjection
<1>2. OwnNames = Names(1) \cup Names(2) \cup {Integration}
  BY DEF OwnNames, Segments, Root
<1>3. IsFiniteSet({Integration})
  BY FS_Singleton
<1> HIDE DEF Names
<1>4. IsFiniteSet(OwnNames)
  BY <1>1, <1>2, <1>3, FS_Union
<1>5. \A r \in RootNames : Mine(r) <=> r \in OwnNames
  BY RootsAssumption DEF RootNames, OwnNames, Mine, Integration
<1>6. OwnNames \subseteq RootNames
  BY DEF OwnNames, RootNames
<1> QED
  BY <1>4, <1>5, <1>6

LEMMA SameDisk ==
  ASSUME IsoInv, UNCHANGED <<roots, stuck, others>>
  PROVE  Listed' /\ OnDisk' = OnDisk
BY ListedHolds DEF Listed, StuckFits, OnDisk, Made

(* Clearing leaves what is not dead, and of the dead only what is stuck.   *)
LEMMA ClearFacts ==
  ASSUME IsoInv, NEW dead, Clear(dead), Made' = Made
  PROVE  /\ Listed' /\ OnDisk' \subseteq OnDisk /\ OnDisk \ dead \subseteq OnDisk'
         /\ \A r \in OnDisk' : r \in dead /\ Mine(r) => r \in stuck'
         /\ stuck \subseteq stuck'
         /\ \A r \in stuck' : r \in stuck \/ r \in dead
<1>1. PICK failed \in SUBSET (dead \cap OnDisk) :
        /\ roots' = Without(dead \ failed)
        /\ stuck' = stuck \cup {r \in failed : Mine(r)}
        /\ Cardinality(stuck') <= MaxStuck
  BY DEF Clear
<1>2. RootList(roots, Made) /\ stuck \subseteq OwnNames
  BY ListedHolds DEF Listed, StuckFits
<1>3. RootList(roots', Made') /\ OnDisk' = OnDisk \ (dead \ failed)
  BY <1>1, <1>2, WithoutIsList DEF OnDisk
<1>4. OnDisk \subseteq RootNames
  BY DEF IsoInv, IsoTypeOK
<1>5. stuck' \subseteq OwnNames
  BY <1>1, <1>2, <1>4, OwnNamesFacts
<1> QED
  BY <1>1, <1>3, <1>5 DEF Listed, StuckFits

(* A root is made anew, and then stuck no more, or over its old self.      *)
LEMMA MakeFacts ==
  ASSUME IsoInv, NEW r \in OwnNames, Make(r), Made' = Made
  PROVE  /\ Listed' /\ OnDisk' = OnDisk \cup {r}
         /\ \A q : q # r => (q \in stuck' <=> q \in stuck)
         /\ r \notin OnDisk => r \notin stuck'
<1>1. RootList(roots, Made) /\ stuck \subseteq OwnNames /\ Cardinality(stuck) <= MaxStuck
  BY ListedHolds DEF Listed, StuckFits
<1>2. r \in RootNames /\ r[1] # "old" /\ r[1] # "other"
  BY OwnNamesFacts, RootsAssumption DEF OwnNames, Integration
<1>3. CASE roots' = Append(Without({r}), r) /\ stuck' = stuck \ {r}
  <2>1. RootList(Without({r}), Made) /\ ToSet(Without({r})) = OnDisk \ {r}
    BY <1>1, WithoutIsList
  <2>2. RootList(roots', Made) /\ ToSet(roots') = (OnDisk \ {r}) \cup {r}
    BY <1>2, <1>3, <2>1, AppendIsList
  <2>3. IsFiniteSet(stuck)
    BY <1>1, OwnNamesFacts, FS_Subset
  <2>4. Cardinality(stuck') <= Cardinality(stuck) /\ Cardinality(stuck') \in Nat
        /\ Cardinality(stuck) \in Nat
    BY <1>3, <2>3, FS_Subset, FS_CardinalityType
  <2>5. Cardinality(stuck') <= MaxStuck
    BY <1>1, <2>4, RootsAssumption
  <2> QED
    BY <1>1, <1>3, <2>2, <2>5 DEF Listed, StuckFits, OnDisk
<1>4. CASE /\ r \in OnDisk /\ roots' = roots
           /\ stuck' = stuck \cup {r} /\ Cardinality(stuck') <= MaxStuck
  BY <1>1, <1>4 DEF Listed, StuckFits, OnDisk
<1> QED
  BY <1>3, <1>4 DEF Make

LEMMA OwnRootFacts ==
  ASSUME IInv, IsoInv, NEW w \in Workers, Executing(w)
  PROVE  /\ lease[w].stage # "idle" /\ lease[w].attempt \in {1, 2}
         /\ worker[w].entry.task \in Tasks
         /\ OwnRoot(w) = Root(worker[w].entry.task, lease[w].attempt)
         /\ OwnRoot(w) \in OwnNames
         /\ OwnRoot(w)[1] = Segment[worker[w].entry.task] /\ OwnRoot(w)[1] \in Segments
         /\ OwnRoot(w) # Integration
<1>1. lease[w].stage # "idle" /\ lease[w].attempt \in 1 .. 2
  BY DEF Executing, IsoInv, IsoTypeOK, LeasesFit
<1>2. worker[w].entry.task \in Tasks
  BY DEF Executing, IInv, TypeOK, Entries, Busy
<1>3. lease[w].attempt \in {1, 2}
  BY <1>1
<1>4. OwnRoot(w) = Root(worker[w].entry.task, lease[w].attempt)
  BY DEF OwnRoot
<1>5. Segment[worker[w].entry.task] \in Segments
  BY <1>2 DEF Segments
<1> QED
  BY <1>1, <1>2, <1>3, <1>4, <1>5, RootsAssumption DEF OwnNames, Integration, Root

LEMMA ExecutingHasNoSnapshot ==
  ASSUME IInv, IsoInv, NEW w \in Workers, Executing(w), NEW x \in retained
  PROVE  x[1] # worker[w].entry.task
<1>1. Untried(worker[w].entry)
  BY DEF IInv, ResultsFit, Executing
<1>2. x[1] \in Completed
  BY DEF IsoInv, RetainedFits
<1>3. results[x[1]].status = "completed" /\ x[1] \in DOMAIN results
  BY <1>2 DEF Completed
<1> QED
  BY <1>1, <1>3 DEF Untried

LEMMA ExecutingApart ==
  ASSUME IInv, NEW v \in Workers, NEW w \in Workers, Executing(v), Executing(w), v # w
  PROVE  worker[v].entry.task # worker[w].entry.task
BY DEF IInv, OnePlace, Busy, Executing

SegmentsDiffer == \A t, u \in Tasks : Segment[t] = Segment[u] => t = u

(* What each root in use belongs to.                                       *)
Uses(r, t) ==
  /\ t \in Tasks /\ r[1] = Segment[t]
  /\ \/ \E x \in retained : x[1] = t /\ r = Root(x[1], x[2])
     \/ \E w \in Workers : Executing(w) /\ worker[w].entry.task = t /\ OwnRoot(w) = r

LEMMA OneUse ==
  ASSUME IInv, IsoInv, NEW t, NEW r, NEW q, Uses(r, t), Uses(q, t)
  PROVE  r = q
<1>1. ASSUME NEW x \in retained, NEW y \in retained, x[1] = t, y[1] = t PROVE x = y
  BY <1>1 DEF IsoInv, RetainedFits
<1>2. ASSUME NEW x \in retained, NEW w \in Workers, Executing(w), x[1] = t,
             worker[w].entry.task = t
      PROVE  FALSE
  BY <1>2, ExecutingHasNoSnapshot
<1>3. ASSUME NEW v \in Workers, NEW w \in Workers, Executing(v), Executing(w),
             worker[v].entry.task = t, worker[w].entry.task = t
      PROVE  v = w
  BY <1>3, ExecutingApart
<1> QED
  BY <1>1, <1>2, <1>3 DEF Uses

LEMMA RootUsed ==
  ASSUME IInv, IsoInv, ~DebugEnabled, NEW r \in OnDisk \ stuck, r[1] \in Segments
  PROVE  \E t \in Tasks : Uses(r, t)
<1>1. r \in SnapshotRoots \/ \E w \in Workers : Executing(w) /\ OwnRoot(w) = r
  BY DEF IsoInv, RootsAccounted, At, Executing
<1>2. ASSUME NEW x \in retained, r = Root(x[1], x[2]) PROVE \E t \in Tasks : Uses(r, t)
  <2>1. x[1] \in Tasks
    BY DEF IsoInv, RetainedFits, Completed
  <2> QED
    BY <1>2, <2>1 DEF Uses, Root
<1>3. ASSUME NEW w \in Workers, Executing(w), OwnRoot(w) = r PROVE \E t \in Tasks : Uses(r, t)
  BY <1>3, OwnRootFacts DEF Uses
<1> QED
  BY <1>1, <1>2, <1>3 DEF SnapshotRoots

(* Without debugging a segment has one root at a time, but for stuck ones. *)
LEMMA OneRootEach ==
  ASSUME IInv, IsoInv, ~DebugEnabled, SegmentsDiffer,
         NEW r \in OnDisk \ stuck, NEW q \in OnDisk \ stuck,
         r[1] \in Segments, r[1] = q[1]
  PROVE  r = q
<1>1. PICK t \in Tasks : Uses(r, t)
  BY RootUsed
<1>2. PICK u \in Tasks : Uses(q, u)
  BY RootUsed
<1>3. t = u
  BY <1>1, <1>2 DEF Uses, SegmentsDiffer
<1> QED
  BY <1>1, <1>2, <1>3, OneUse

LEMMA DoomedOnDisk == ASSUME Listed PROVE Doomed \subseteq OnDisk /\ Doomed \subseteq RootNames
<1>1. roots \in Seq(RootNames) /\ Len(roots) \in Nat /\ DOMAIN roots = 1 .. Len(roots)
  BY LenProperties DEF Listed, RootList
<1>2. \A i \in 1 .. Len(roots) - MaxRoots : i \in DOMAIN roots
  BY <1>1, RootsAssumption
<1>3. Doomed \subseteq OnDisk
  BY <1>2 DEF Doomed, OnDisk, ToSet
<1>4. OnDisk \subseteq RootNames
  BY <1>1, ElementOfSeq DEF OnDisk, ToSet
<1> QED
  BY <1>3, <1>4

(* With room for a root of every task, for the stuck ones and for every    *)
(* other run, the newest MaxRoots include all roots of this one: behind a  *)
(* doomed root of the run there would have to be more roots than tasks,    *)
(* failed removals, other runs and one integration can have made.          *)
LEMMA RoomSpares ==
  ASSUME IInv, IsoInv, Roomy,
         Integration \notin OnDisk \/ \E m \in 1 .. OtherLeases : m \notin Made,
         NEW r \in Doomed
  PROVE  ~Mine(r)
<1> DEFINE n == Len(roots)
           p == Len(Plan)
<1>1. /\ roots \in Seq(RootNames) /\ n \in Nat /\ DOMAIN roots = 1 .. n
      /\ \A i \in 1 .. n : roots[i] \in RootNames /\ roots[i] \in OnDisk
      /\ \A i, j \in 1 .. n : roots[i] = roots[j] => i = j
  BY ListedHolds, LenProperties, ElementOfSeq DEF Listed, RootList, OnDisk, ToSet
<1>2. /\ MaxRoots \in Nat /\ OtherLeases \in Nat /\ MaxStuck \in Nat /\ p \in Nat
      /\ p + OtherLeases + MaxStuck <= MaxRoots /\ ~DebugEnabled /\ SegmentsDiffer
  BY RootsAssumption, PlanFacts DEF Roomy, SegmentsDiffer
<1>3. PICK i \in 1 .. n - MaxRoots : r = roots[i]
  BY DEF Doomed
<1> SUFFICES ASSUME Mine(roots[i]) PROVE FALSE
  BY <1>3
<1>4. i \in 1 .. n /\ i \in Nat /\ i + MaxRoots <= n
  BY <1>1, <1>2, <1>3
<1>m. PICK m : Integration \in OnDisk => m \in 1 .. OtherLeases /\ m \notin Made
  OBVIOUS
<1> DEFINE D == i .. n
           Fresh == {j \in D : roots[j] \notin stuck}
           Stuck == {j \in D : roots[j] \in stuck}
           Index(s) == CHOOSE k \in DOMAIN Plan : Segment[Plan[k]] = s
           label(x) == IF x[1] \in Segments THEN Index(x[1])
                       ELSE IF x[1] = "other" THEN p + x[2] ELSE p + m
           g == [j \in Fresh |-> label(roots[j])]
           h == [j \in Stuck |-> roots[j]]
           M == p + OtherLeases
<1>5. ASSUME NEW j \in D PROVE j \in 1 .. n /\ roots[j] \in RootNames /\ roots[j][1] # "old"
  <2>1. j \in 1 .. n
    BY <1>1, <1>4
  <2>2. roots[i][1] # "old"
    BY RootsAssumption DEF Mine
  <2>3. roots[j][1] # "old"
    BY <1>1, <1>4, <2>1, <2>2, ListedHolds DEF Listed, RootList
  <2> QED
    BY <1>1, <2>1, <2>3
<1>6. \A s \in Segments : Index(s) \in 1 .. p /\ Segment[Plan[Index(s)]] = s
  <2> SUFFICES ASSUME NEW s \in Segments
               PROVE  Index(s) \in 1 .. p /\ Segment[Plan[Index(s)]] = s
    OBVIOUS
  <2>1. \E k \in DOMAIN Plan : Segment[Plan[k]] = s
    BY PlanFacts DEF Segments
  <2> QED
    BY <2>1, PlanFacts
<1> HIDE DEF n, Index, p
<1>7. ASSUME NEW j \in D
      PROVE  \/ roots[j][1] \in Segments
             \/ /\ roots[j] = <<"other", roots[j][2]>>
                /\ roots[j][2] \in 1 .. OtherLeases /\ roots[j][2] \in Made
                /\ roots[j][1] \notin Segments
             \/ /\ roots[j] = Integration /\ roots[j][1] = "integration"
                /\ m \in 1 .. OtherLeases /\ m \notin Made
                /\ roots[j][1] \notin Segments
  <2>1. \/ roots[j] \in Segments \X {1, 2} \/ roots[j] = Integration
        \/ roots[j] \in {"other"} \X (1 .. OtherLeases)
    BY <1>5 DEF RootNames
  <2>2. CASE roots[j] \in Segments \X {1, 2}
    BY <2>2
  <2>3. CASE roots[j] = Integration
    <3>1. Integration \in OnDisk
      BY <1>1, <1>5, <2>3
    <3> QED
      BY <1>m, <2>3, <3>1, RootsAssumption DEF Integration
  <2>4. CASE roots[j] \in {"other"} \X (1 .. OtherLeases)
    <3>1. roots[j][2] \in Made
      BY <1>1, <1>5, <2>4, ListedHolds DEF Listed, RootList
    <3> QED
      BY <1>2, <2>4, <3>1, RootsAssumption
  <2> QED
    BY <2>1, <2>2, <2>3, <2>4
<1>8. ASSUME NEW j \in D PROVE label(roots[j]) \in 1 .. M
  BY <1>2, <1>6, <1>7
<1>9. ASSUME NEW j \in Fresh, NEW k \in Fresh, label(roots[j]) = label(roots[k])
      PROVE  roots[j] = roots[k]
  <2>0. /\ j \in D /\ k \in D
        /\ roots[j] \in OnDisk \ stuck /\ roots[k] \in OnDisk \ stuck
    BY <1>1, <1>5
  <2>1. CASE roots[j][1] \in Segments /\ roots[k][1] \in Segments
    <3>1. Index(roots[j][1]) = Index(roots[k][1])
      BY <1>9, <2>1
    <3>2. roots[j][1] = roots[k][1]
      BY <1>6, <2>1, <3>1
    <3> QED
      BY <1>2, <2>0, <2>1, <3>2, OneRootEach
  <2>2. CASE roots[j][1] \in Segments /\ roots[k][1] \notin Segments
    BY <1>2, <1>6, <1>7, <1>9, <2>0, <2>2
  <2>3. CASE roots[j][1] \notin Segments /\ roots[k][1] \in Segments
    BY <1>2, <1>6, <1>7, <1>9, <2>0, <2>3
  <2>4. CASE roots[j][1] \notin Segments /\ roots[k][1] \notin Segments
    BY <1>2, <1>7, <1>9, <2>0, <2>4
  <2> QED
    BY <2>1, <2>2, <2>3, <2>4
<1>10. \A j, k \in Fresh : label(roots[j]) = label(roots[k]) => j = k
  BY <1>1, <1>5, <1>9
<1>11. g \in [Fresh -> 1 .. M] /\ \A j \in Fresh : g[j] = label(roots[j])
  BY <1>8
<1> HIDE DEF g, label
<1>12. g \in Injection(Fresh, 1 .. M)
  BY <1>10, <1>11 DEF Injection, IsInjective
<1>13. IsFiniteSet(1 .. M) /\ Cardinality(1 .. M) = M /\ M \in Nat
  <2>1. M \in Nat
    BY <1>2
  <2> HIDE DEF M
  <2>2. IsFiniteSet(1 .. M) /\ Cardinality(1 .. M) = IF 1 > M THEN 0 ELSE M - 1 + 1
    BY <2>1, FS_Interval
  <2> QED
    BY <2>1, <2>2
<1>14. IsFiniteSet(Fresh) /\ Cardinality(Fresh) <= M
  BY <1>12, <1>13, FS_Injection
<1>15. h \in [Stuck -> stuck] /\ \A j, k \in Stuck : h[j] = h[k] => j = k
  BY <1>1, <1>5
<1>16. IsFiniteSet(stuck) /\ Cardinality(stuck) <= MaxStuck /\ Cardinality(stuck) \in Nat
  BY ListedHolds, OwnNamesFacts, FS_Subset, FS_CardinalityType DEF Listed, StuckFits
<1> HIDE DEF h
<1>17. h \in Injection(Stuck, stuck)
  BY <1>15 DEF Injection, IsInjective
<1>18. IsFiniteSet(Stuck) /\ Cardinality(Stuck) <= Cardinality(stuck)
  BY <1>16, <1>17, FS_Injection
<1>19. D = Fresh \cup Stuck /\ Fresh \cap Stuck = {}
  OBVIOUS
<1>20. Cardinality(D) = n - i + 1
  BY <1>1, <1>4, FS_Interval
<1> HIDE DEF D, Fresh, Stuck
<1>21. Cardinality(D) = Cardinality(Fresh) + Cardinality(Stuck) - 0
  BY <1>14, <1>18, <1>19, FS_Union, FS_EmptySet
<1>22. Cardinality(Fresh) \in Nat /\ Cardinality(Stuck) \in Nat
  BY <1>14, <1>18, FS_CardinalityType
<1>23. Cardinality(Stuck) <= MaxStuck
  BY <1>2, <1>16, <1>18, <1>22
<1> QED
  BY <1>1, <1>2, <1>4, <1>14, <1>20, <1>21, <1>22, <1>23
-----------------------------------------------------------------------------
(* What a step of worker w keeps, part by part.                            *)

Leases ==
  [stage : {"idle", "scan", "purge", "make", "fill", "work"}, attempt : 0 .. 2,
   doomed : SUBSET RootNames]

Others(w) == {v \in Workers : v # w}

Moves(w) ==
  /\ worker[w].pc # "done"
  /\ \A v \in Others(w) : /\ lease'[v] = lease[v]
                          /\ Executing(v)' <=> Executing(v)
                          /\ Executing(v) => worker'[v].entry = worker[v].entry
  /\ UNCHANGED <<replay, partial, host, others>>

LeaseFits(w) ==
  /\ lease \in [Workers -> Leases]
  /\ lease[w].stage # "idle" => lease[w].attempt \in 1 .. 2
  /\ Executing(w) <=> lease[w].stage # "idle"

LEMMA OthersUnmoved ==
  ASSUME NEW w, Moves(w), NEW v \in Others(w)
  PROVE  /\ \A stage : At(v, stage)' <=> At(v, stage)
         /\ Using(v)' <=> Using(v)
         /\ Executing(v) => OwnRoot(v)' = OwnRoot(v)
         /\ Using(v) => Executing(v)
BY DEF Moves, Others, At, Using, Executing, OwnRoot, Root

LEMMA ReplayIdle ==
  ASSUME IsoInv, NEW w \in Workers, worker[w].pc # "done"
  PROVE  replay.stage = "idle" /\ Integration \notin OnDisk /\ ~partial
BY DEF IsoInv, ReplayFits, AllDone

LEMMA LeasesKept ==
  ASSUME IsoInv, NEW w \in Workers, Moves(w), LeaseFits(w)', Listed',
         retained' \subseteq Tasks \X {1, 2}
  PROVE  IsoTypeOK' /\ LeasesFit'
<1>1. /\ OnDisk' \subseteq RootNames /\ roots' \in Seq(RootNames)
      /\ \A i, j \in DOMAIN roots' : roots'[i] = roots'[j] => i = j
      /\ \A i \in DOMAIN roots' : roots'[i][1] = "other" => roots'[i][2] \in Made'
      /\ \A i, j \in DOMAIN roots' : i < j /\ roots'[j][1] = "old" => roots'[i][1] = "old"
  <2>1. \A i \in DOMAIN roots' : roots'[i] \in RootNames
    BY LenProperties, ElementOfSeq DEF Listed, RootList
  <2> QED
    BY <2>1 DEF Listed, RootList, OnDisk, ToSet
<1>2. \A v \in Workers : worker'[v].pc = "executing" <=> lease'[v].stage # "idle"
  BY DEF IsoInv, IsoTypeOK, Moves, Others, LeaseFits, Executing
<1>3. \A v \in Workers : lease'[v].stage # "idle" => lease'[v].attempt \in 1 .. 2
  BY DEF IsoInv, LeasesFit, Moves, Others, LeaseFits
<1>4. /\ host' \subseteq Tasks /\ replay'.merged \subseteq Tasks
      /\ others' \in [1 .. OtherLeases -> [stage : {"scan", "purge", "make", "over"},
                                           doomed : SUBSET RootNames]]
  BY DEF IsoInv, IsoTypeOK, LeasesFit, Moves
<1>5. stuck' \subseteq (Segments \X {1, 2}) \cup {Integration} /\ Cardinality(stuck') <= MaxStuck
  BY DEF Listed, StuckFits, OwnNames
<1>6. lease' \in [Workers -> Leases]
  BY DEF LeaseFits
<1>7. IsoTypeOK'
  BY <1>1, <1>2, <1>4, <1>5 DEF IsoTypeOK
<1>8. LeasesFit'
  BY <1>1, <1>3, <1>4, <1>6 DEF LeasesFit, Leases
<1> QED
  BY <1>7, <1>8

LEMMA ReplayKept ==
  ASSUME IsoInv, NEW w \in Workers, Moves(w), Integration \notin OnDisk'
  PROVE  ReplayFits'
BY ReplayIdle DEF IsoInv, ReplayFits, Moves

LEMMA AccountKept ==
  ASSUME IsoInv, NEW w \in Workers, Moves(w), Integration \notin OnDisk',
         \A r \in OnDisk' : r[1] \in Segments /\ ~DebugEnabled =>
           \/ r \in SnapshotRoots' \cup stuck' \/ (Using(w)' /\ OwnRoot(w)' = r)
           \/ \E v \in Others(w) : Using(v) /\ OwnRoot(v) = r
  PROVE  RootsAccounted'
<1>1. replay'.stage = "idle"
  BY ReplayIdle DEF Moves
<1>2. ASSUME NEW r \in OnDisk', r[1] \in Segments, ~DebugEnabled
      PROVE  r \in SnapshotRoots' \cup stuck' \/ \E v \in Workers : Using(v)' /\ OwnRoot(v)' = r
  <2>1. ASSUME NEW v \in Others(w), Using(v), OwnRoot(v) = r
        PROVE  v \in Workers /\ Using(v)' /\ OwnRoot(v)' = r
    BY <2>1, OthersUnmoved DEF Others
  <2> QED
    BY <1>2, <2>1
<1> QED
  BY <1>1, <1>2 DEF RootsAccounted, Using

LEMMA PrunesKept ==
  ASSUME IsoInv, PrunesSpare, NEW w \in Workers, Moves(w), \A r \in lease'[w].doomed : ~Mine(r)
  PROVE  PrunesSpare'
BY DEF PrunesSpare, Moves, Others, Mine

LEMMA LiveKept ==
  ASSUME IsoInv, NEW w \in Workers, Moves(w),
         \A v \in Others(w) : Using(v) => OwnRoot(v) \in OnDisk',
         Using(w)' => OwnRoot(w)' \in OnDisk', SnapshotRoots' \subseteq OnDisk'
  PROVE  LiveRootsKept'
<1>1. replay'.stage = "idle"
  BY ReplayIdle DEF Moves
<1>2. ASSUME NEW v \in Workers, Using(v)' PROVE OwnRoot(v)' \in OnDisk'
  BY <1>2, OthersUnmoved DEF Others
<1> QED
  BY <1>1, <1>2 DEF LiveRootsKept, InUse, Using

LEMMA CarriesKept ==
  ASSUME IsoInv, ReplayCarries, NEW w \in Workers, Moves(w),
         \A t \in Completed' : \E x \in retained' : x[1] = t
  PROVE  ReplayCarries'
<1>1. replay.stage = "idle" /\ UNCHANGED <<replay, host>>
  BY ReplayIdle DEF Moves
<1>2. \A t \in Completed' : Snapshot(t)' # {}
  BY DEF Snapshot
<1> QED
  BY <1>1, <1>2 DEF ReplayCarries

LEMMA LiveSplit ==
  LiveRootsKept <=>
    /\ \A v \in Workers : Using(v) => OwnRoot(v) \in OnDisk
    /\ SnapshotRoots \subseteq OnDisk
    /\ replay.stage \in {"merge", "verify", "flush"} => Integration \in OnDisk
BY DEF LiveRootsKept, InUse, Using
-----------------------------------------------------------------------------
(* The steps of a worker.                                                  *)

Accounted(w) ==
  \A r \in OnDisk' : r[1] \in Segments /\ ~DebugEnabled =>
    \/ r \in SnapshotRoots' \cup stuck' \/ (Using(w)' /\ OwnRoot(w)' = r)
    \/ \E v \in Others(w) : Using(v) /\ OwnRoot(v) = r

Spared(w) == \A r \in lease'[w].doomed : ~Mine(r)

Alive(w) ==
  /\ \A v \in Others(w) : Using(v) => OwnRoot(v) \in OnDisk'
  /\ Using(w)' => OwnRoot(w)' \in OnDisk'
  /\ SnapshotRoots' \subseteq OnDisk'

Carried == \A t \in Completed' : \E x \in retained' : x[1] = t

LEMMA MoveKeepsIsoInv ==
  ASSUME IsoInv, NEW w \in Workers, Moves(w), LeaseFits(w)', Listed', Integration \notin OnDisk',
         retained' \subseteq Tasks \X {1, 2}, RetainedFits', Accounted(w),
         Roomy /\ PrunesSpare => Spared(w), Roomy /\ PrunesSpare /\ LiveRootsKept => Alive(w),
         Roomy /\ ReplayCarries => Carried
  PROVE  IsoInv'
<1>1. IsoTypeOK' /\ LeasesFit'
  BY LeasesKept
<1>2. ReplayFits'
  BY ReplayKept
<1>3. RootsAccounted'
  BY AccountKept DEF Accounted
<1>4. ASSUME Roomy PROVE PrunesSpare' /\ LiveRootsKept' /\ ReplayCarries'
  <2>1. PrunesSpare /\ LiveRootsKept /\ ReplayCarries
    BY <1>4 DEF IsoInv
  <2>2. Spared(w) /\ Alive(w) /\ Carried
    BY <1>4, <2>1
  <2>3. PrunesSpare'
    BY <2>1, <2>2, PrunesKept DEF Spared
  <2>4. LiveRootsKept'
    BY <2>2, LiveKept DEF Alive
  <2>5. ReplayCarries'
    BY <2>1, <2>2, CarriesKept DEF Carried
  <2> QED
    BY <2>3, <2>4, <2>5
<1>5. Roomy' <=> Roomy
  BY DEF Roomy
<1> QED
  BY <1>1, <1>2, <1>3, <1>4, <1>5 DEF IsoInv

LEMMA SnapshotsCarry ==
  ASSUME IsoInv, Roomy, ReplayCarries, replay.stage # "over", NEW t \in Completed
  PROVE  \E x \in retained : x[1] = t
<1>1. Snapshot(t) # {}
  BY DEF ReplayCarries
<1> QED
  BY <1>1 DEF Snapshot

LEMMA SameSnapshots ==
  ASSUME IsoInv, retained' = retained
  PROVE  /\ retained' \subseteq Tasks \X {1, 2} /\ SnapshotRoots' = SnapshotRoots
         /\ \A r \in SnapshotRoots : r[1] \in Segments
<1>1. retained \subseteq Tasks \X {1, 2}
  BY DEF IsoInv, IsoTypeOK
<1>2. SnapshotRoots' = SnapshotRoots
  BY DEF SnapshotRoots, Root
<1>3. ASSUME NEW x \in retained PROVE Root(x[1], x[2])[1] \in Segments
  BY <1>1, <1>3 DEF Root, Segments
<1> QED
  BY <1>1, <1>2, <1>3 DEF SnapshotRoots

(* Steps that leave the disk and the lease alone.                          *)
LEMMA DiskUnchanged ==
  ASSUME IsoInv, NEW w \in Workers, Moves(w), UNCHANGED diskVars, UNCHANGED results,
         ~Executing(w), ~Executing(w)'
  PROVE  IsoInv'
<1> USE DEF diskVars
<1>1. Listed' /\ OnDisk' = OnDisk
  BY SameDisk
<1>2. LeaseFits(w)'
  BY DEF LeaseFits, IsoInv, LeasesFit, IsoTypeOK, Executing, Leases
<1>3. Integration \notin OnDisk' /\ replay.stage = "idle"
  BY <1>1, ReplayIdle DEF Moves
<1>4. /\ retained' \subseteq Tasks \X {1, 2} /\ RetainedFits' /\ Completed' = Completed
      /\ SnapshotRoots' = SnapshotRoots
  BY SameSnapshots DEF IsoInv, RetainedFits, Completed
<1>5. ~Using(w) /\ ~Using(w)'
  BY DEF Using, At, Executing
<1>6. Accounted(w)
  BY <1>1, <1>4, <1>5 DEF Accounted, IsoInv, RootsAccounted, Using, Others
<1>7. Roomy /\ PrunesSpare => Spared(w)
  BY DEF Spared, PrunesSpare
<1>8. LiveRootsKept => Alive(w)
  BY <1>1, <1>4, <1>5, LiveSplit DEF Alive, Others
<1>9. Roomy /\ ReplayCarries => Carried
  BY <1>3, <1>4, SnapshotsCarry DEF Carried
<1> QED
  BY <1>1, <1>2, <1>3, <1>4, <1>6, <1>7, <1>8, <1>9, MoveKeepsIsoInv

LEMMA IdleKeepsIsoInv ==
  ASSUME IInv, IsoInv, NEW w \in Workers, Idle(w)
  PROVE  IsoInv'
<1>1. Wait(w) \/ Leave(w)
  BY DEF Idle
<1>2. /\ worker[w].pc = "loop" /\ UNCHANGED <<diskVars, results>>
      /\ \E p \in {"waiting", "done"} : worker' = [worker EXCEPT ![w].pc = p]
  BY <1>1 DEF Idle, Wait, Leave
<1>3. ~Executing(w) /\ ~Executing(w)' /\ \A v \in Others(w) : worker'[v] = worker[v]
  BY <1>2 DEF Executing, Others, IInv, TypeOK
<1>4. Moves(w)
  BY <1>2, <1>3 DEF Moves, Executing, diskVars, Others
<1> QED
  BY <1>2, <1>3, <1>4, DiskUnchanged

LEMMA ReleasedMoves ==
  ASSUME IInv, NEW w \in Workers, Busy(w), worker' = Released(w)
  PROVE  /\ ~Executing(w)'
         /\ \A v \in Others(w) : /\ Executing(v)' <=> Executing(v)
                                 /\ Executing(v) => worker'[v].entry = worker[v].entry
<1>1. /\ \A v \in Workers : Busy(v)' <=> Busy(v) /\ v # w
      /\ \A v \in Workers : Busy(v)' => worker'[v] = worker[v]
  BY ReleasedFacts DEF IInv
<1>2. \A v \in Workers : (Executing(v) => Busy(v)) /\ (Executing(v)' => Busy(v)')
  BY DEF Executing, Busy
<1> QED
  BY <1>1, <1>2 DEF Executing, Others

LEMMA SettledKeepsIsoInv ==
  ASSUME IInv, IsoInv, NEW w \in Workers, Settled(w)
  PROVE  IsoInv'
<1>1. worker[w].pc = "settling" /\ worker' = Released(w) /\ UNCHANGED <<diskVars, results>>
  BY DEF Settled, Finish, Throw
<1>2. /\ ~Executing(w)'
      /\ \A v \in Others(w) : /\ Executing(v)' <=> Executing(v)
                              /\ Executing(v) => worker'[v].entry = worker[v].entry
  BY <1>1, ReleasedMoves DEF Busy
<1>3. Moves(w) /\ ~Executing(w)
  BY <1>1, <1>2 DEF Moves, diskVars, Others, Executing
<1> QED
  BY <1>1, <1>2, <1>3, DiskUnchanged

(* The lease of a worker before and after its own step.                    *)
LEMMA OwnLease ==
  ASSUME IsoInv, NEW w \in Workers, NEW l,
         l \in Leases,
         lease' = [lease EXCEPT ![w] = l],
         l.stage # "idle" => l.attempt \in 1 .. 2, Executing(w)' <=> l.stage # "idle"
  PROVE  LeaseFits(w)' /\ lease'[w] = l /\ \A v \in Others(w) : lease'[v] = lease[v]
<1>1. lease \in [Workers -> Leases]
  BY DEF IsoInv, LeasesFit, Leases
<1>2. /\ lease' \in [Workers -> Leases]
      /\ lease'[w] = l /\ \A v \in Others(w) : lease'[v] = lease[v]
  BY <1>1 DEF Others
<1> QED
  BY <1>2 DEF LeaseFits

LEMMA PrepareFits ==
  ASSUME NEW a \in 1 .. 2
  PROVE  Prepare(a) \in Leases /\ Prepare(a).stage = "scan" /\ Prepare(a).attempt \in 1 .. 2
BY DEF Prepare, Leases

LEMMA TakeKeepsIsoInv ==
  ASSUME IInv, IsoInv, NEW w \in Workers, Take(w)
  PROVE  IsoInv'
<1>1. /\ Dequeue(w) /\ lease' = [lease EXCEPT ![w] = Prepare(1)]
      /\ UNCHANGED <<roots, retained, replay, partial, host, stuck, others>>
  BY DEF Take
<1>2. PICK i \in DOMAIN queue : Taken(w, i)
  BY <1>1 DEF Dequeue, Taken
<1>3. /\ worker[w].pc = "loop" /\ ~Executing(w) /\ Executing(w)' /\ UNCHANGED results
      /\ \A v \in Others(w) : worker'[v] = worker[v]
  BY <1>2, TakenFacts DEF Taken, Executing, Others, IInv
<1>4. LeaseFits(w)' /\ lease'[w] = Prepare(1) /\ \A v \in Others(w) : lease'[v] = lease[v]
  <2>1. Prepare(1) \in Leases /\ Prepare(1).stage # "idle" /\ Prepare(1).attempt \in 1 .. 2
    BY PrepareFits
  <2> QED
    BY <1>1, <1>3, <2>1, OwnLease
<1>5. Moves(w)
  BY <1>1, <1>3, <1>4 DEF Moves, Executing
<1>6. Listed' /\ OnDisk' = OnDisk
  BY <1>1, SameDisk
<1>7. Integration \notin OnDisk' /\ replay.stage = "idle"
  BY <1>3, <1>6, ReplayIdle
<1>8. /\ retained' \subseteq Tasks \X {1, 2} /\ RetainedFits' /\ Completed' = Completed
      /\ SnapshotRoots' = SnapshotRoots
  BY <1>1, <1>3, SameSnapshots DEF IsoInv, RetainedFits, Completed
<1>9. ~Using(w) /\ ~Using(w)'
  BY <1>3, <1>4 DEF Using, At, Executing, Prepare
<1>10. Accounted(w)
  BY <1>1, <1>6, <1>8, <1>9 DEF Accounted, IsoInv, RootsAccounted, Using, Others
<1>11. Spared(w)
  BY <1>4 DEF Spared, Prepare
<1>12. LiveRootsKept => Alive(w)
  BY <1>1, <1>6, <1>8, <1>9, LiveSplit DEF Alive, Others
<1>13. Roomy /\ ReplayCarries => Carried
  BY <1>1, <1>7, <1>8, SnapshotsCarry DEF Carried
<1> QED
  BY <1>4, <1>5, <1>6, <1>7, <1>8, <1>10, <1>11, <1>12, <1>13, MoveKeepsIsoInv

(* The lease moves on to stage st, with d to be pruned.                    *)
Staged(w, st, d) ==
  \/ lease' = [lease EXCEPT ![w].stage = st, ![w].doomed = d]
  \/ lease' = [lease EXCEPT ![w].stage = st] /\ d = lease[w].doomed

LEMMA StageChanges ==
  ASSUME IsoInv, NEW w \in Workers, Executing(w), Executing(w)',
         NEW st \in {"scan", "purge", "make", "fill", "work"}, NEW d \in SUBSET RootNames,
         Staged(w, st, d)
  PROVE  /\ LeaseFits(w)' /\ \A v \in Others(w) : lease'[v] = lease[v]
         /\ lease'[w] = [stage |-> st, attempt |-> lease[w].attempt, doomed |-> d]
<1> DEFINE l == [stage |-> st, attempt |-> lease[w].attempt, doomed |-> d]
           a == [lease EXCEPT ![w].stage = st]
<1>1. lease \in [Workers -> Leases] /\ lease[w].attempt \in 1 .. 2 /\ lease[w] \in Leases
  BY DEF IsoInv, IsoTypeOK, LeasesFit, Leases, Executing
<1>2. l \in Leases /\ l.stage # "idle" /\ l.attempt \in 1 .. 2
  BY <1>1 DEF Leases
<1>3. lease' = [lease EXCEPT ![w] = l]
  <2>1. a \in [Workers -> Leases] /\ \A v \in Workers : v # w => a[v] = lease[v]
    BY <1>1 DEF Leases
  <2>2. a[w] = [stage |-> st, attempt |-> lease[w].attempt, doomed |-> lease[w].doomed]
    BY <1>1 DEF Leases
  <2>3. CASE lease' = [lease EXCEPT ![w].stage = st, ![w].doomed = d]
    <3>1. lease' = [a EXCEPT ![w].doomed = d]
      BY <2>3
    <3> HIDE DEF a
    <3>2. \A v \in Workers : v # w => lease'[v] = lease[v]
      BY <2>1, <3>1
    <3>3. lease'[w] = l
      BY <2>1, <2>2, <3>1
    <3>4. lease' = [v \in Workers |-> lease'[v]]
      BY <2>1, <3>1
    <3> HIDE DEF l
    <3> QED
      BY <1>1, <3>2, <3>3, <3>4
  <2>4. CASE lease' = [lease EXCEPT ![w].stage = st] /\ d = lease[w].doomed
    <3>1. lease' = a /\ a[w] = l
      BY <2>2, <2>4
    <3> HIDE DEF a, l
    <3> QED
      BY <1>1, <2>1, <3>1
  <2> QED
    BY <2>3, <2>4 DEF Staged
<1> HIDE DEF l, a
<1>4. LeaseFits(w)' /\ lease'[w] = l /\ \A v \in Others(w) : lease'[v] = lease[v]
  BY <1>2, <1>3, OwnLease
<1> QED
  BY <1>4 DEF l

(* Steps of a lease while the scheduler stands still: the roots change by  *)
(* the worker's own one, or by those a prune has doomed.                   *)
LEMMA LeaseStep ==
  ASSUME IInv, IsoInv, NEW w \in Workers, Executing(w),
         UNCHANGED <<vars, retained, replay, partial, host, others>>,
         LeaseFits(w)', \A v \in Others(w) : lease'[v] = lease[v],
         Listed', Integration \notin OnDisk', Accounted(w),
         Roomy /\ PrunesSpare => Spared(w), Roomy /\ PrunesSpare /\ LiveRootsKept => Alive(w)
  PROVE  IsoInv'
<1>1. UNCHANGED worker /\ UNCHANGED results /\ worker[w].pc # "done"
  BY DEF vars, Executing
<1>2. Moves(w)
  BY <1>1 DEF Moves, Executing
<1>3. retained' \subseteq Tasks \X {1, 2} /\ RetainedFits' /\ Completed' = Completed
  BY <1>1, SameSnapshots DEF IsoInv, RetainedFits, Completed
<1>4. Roomy /\ ReplayCarries => Carried
  BY <1>1, <1>3, ReplayIdle, SnapshotsCarry DEF Carried
<1> QED
  BY <1>1, <1>2, <1>3, <1>4, MoveKeepsIsoInv

LEMMA ScanKeepsIsoInv ==
  ASSUME IInv, IsoInv, NEW w \in Workers, Scan(w)
  PROVE  IsoInv'
<1>1. /\ Executing(w) /\ lease[w].stage = "scan" /\ UNCHANGED worker
      /\ UNCHANGED <<vars, roots, retained, replay, partial, host, stuck, others>>
      /\ lease' = [lease EXCEPT ![w].stage = "purge", ![w].doomed = Doomed]
  BY DEF Scan, At, Executing, vars
<1>2. Doomed \in SUBSET RootNames
  BY ListedHolds, DoomedOnDisk
<1>3. /\ LeaseFits(w)' /\ \A v \in Others(w) : lease'[v] = lease[v]
      /\ lease'[w] = [stage |-> "purge", attempt |-> lease[w].attempt, doomed |-> Doomed]
  <2>1. Executing(w) /\ Executing(w)'
    BY <1>1 DEF Executing
  <2>2. Staged(w, "purge", Doomed)
    BY <1>1 DEF Staged
  <2> QED
    BY <1>2, <2>1, <2>2, StageChanges
<1>4. Listed' /\ OnDisk' = OnDisk /\ SnapshotRoots' = SnapshotRoots
  BY <1>1, SameDisk, SameSnapshots
<1>5. Integration \notin OnDisk' /\ Integration \notin OnDisk
  BY <1>1, <1>4, ReplayIdle DEF Executing
<1>6. ~Using(w) /\ ~Using(w)'
  BY <1>1, <1>3 DEF Using, At
<1>7. Accounted(w)
  BY <1>1, <1>4, <1>6 DEF Accounted, IsoInv, RootsAccounted, Using, Others
<1>8. Roomy => Spared(w)
  BY <1>3, <1>5, RoomSpares DEF Spared
<1>9. LiveRootsKept => Alive(w)
  BY <1>1, <1>4, <1>6, LiveSplit DEF Alive, Others
<1> QED
  BY <1>1, <1>3, <1>4, <1>5, <1>7, <1>8, <1>9, LeaseStep

LEMMA PurgeKeepsIsoInv ==
  ASSUME IInv, IsoInv, NEW w \in Workers, Purge(w)
  PROVE  IsoInv'
<1>1. /\ Executing(w) /\ lease[w].stage = "purge" /\ UNCHANGED <<worker, others, retained>>
      /\ UNCHANGED <<vars, retained, replay, partial, host, others>>
      /\ Clear(lease[w].doomed)
      /\ lease' = [lease EXCEPT ![w].stage = "make", ![w].doomed = {}]
  BY DEF Purge, At, Executing, vars
<1>2. /\ LeaseFits(w)' /\ \A v \in Others(w) : lease'[v] = lease[v]
      /\ lease'[w] = [stage |-> "make", attempt |-> lease[w].attempt, doomed |-> {}]
  <2>1. Executing(w)' /\ {} \in SUBSET RootNames
    BY <1>1 DEF Executing
  <2>2. Staged(w, "make", {})
    BY <1>1 DEF Staged
  <2> QED
    BY <1>1, <2>1, <2>2, StageChanges
<1>3. /\ Listed' /\ OnDisk' \subseteq OnDisk /\ OnDisk \ lease[w].doomed \subseteq OnDisk'
      /\ stuck \subseteq stuck'
  BY <1>1, ClearFacts DEF Made
<1>4. Integration \notin OnDisk' /\ SnapshotRoots' = SnapshotRoots
  BY <1>1, <1>3, ReplayIdle, SameSnapshots DEF Executing
<1>5. ~Using(w) /\ ~Using(w)'
  BY <1>1, <1>2 DEF Using, At
<1>6. Accounted(w)
  BY <1>1, <1>3, <1>4, <1>5 DEF Accounted, IsoInv, RootsAccounted, Using, Others
<1>7. Spared(w)
  BY <1>2 DEF Spared
<1>8. ASSUME PrunesSpare, LiveRootsKept PROVE Alive(w)
  <2>1. \A r \in OnDisk : r[1] \in Segments => r \in OnDisk'
    BY <1>3, <1>8 DEF PrunesSpare, Mine
  <2>2. SnapshotRoots' \subseteq OnDisk'
    BY <1>1, <1>4, <1>8, <2>1, SameSnapshots, LiveSplit
  <2>3. ASSUME NEW v \in Others(w), Using(v) PROVE OwnRoot(v) \in OnDisk'
    <3>1. v \in Workers /\ Executing(v)
      BY <2>3 DEF Others, Using, At, Executing
    <3>2. OwnRoot(v) \in OnDisk /\ OwnRoot(v)[1] \in Segments
      BY <1>8, <2>3, <3>1, OwnRootFacts, LiveSplit
    <3> QED
      BY <2>1, <3>2
  <2> QED
    BY <1>5, <2>2, <2>3 DEF Alive
<1> QED
  BY <1>1, <1>2, <1>3, <1>4, <1>6, <1>7, <1>8, LeaseStep

LEMMA OwnApart ==
  ASSUME IInv, IsoInv, Roomy, NEW w \in Workers, Executing(w)
  PROVE  /\ \A v \in Others(w) : Using(v) => OwnRoot(v) # OwnRoot(w)
         /\ \A r \in SnapshotRoots : r # OwnRoot(w)
<1>1. \A t, u \in Tasks : Segment[t] = Segment[u] => t = u
  BY DEF Roomy
<1>2. ASSUME NEW v \in Others(w), Using(v) PROVE OwnRoot(v) # OwnRoot(w)
  <2>1. v \in Workers /\ v # w /\ Executing(v)
    BY <1>2 DEF Others, Using, At, Executing
  <2> QED
    BY <1>1, <2>1, ExecutingApart, OwnRootFacts
<1>3. ASSUME NEW x \in retained PROVE Root(x[1], x[2]) # OwnRoot(w)
  <2>1. x[1] \in Tasks /\ x[1] # worker[w].entry.task
    BY ExecutingHasNoSnapshot DEF IsoInv, RetainedFits, Completed
  <2>2. Root(x[1], x[2])[1] = Segment[x[1]]
    BY DEF Root
  <2> QED
    BY <1>1, <2>1, <2>2, OwnRootFacts
<1> QED
  BY <1>2, <1>3 DEF SnapshotRoots

(* Discarding the worker's own root touches no other one.                  *)
LEMMA DropOwn ==
  ASSUME IInv, IsoInv, NEW w \in Workers, Executing(w), Clear({OwnRoot(w)}),
         UNCHANGED <<retained, others>>
  PROVE  /\ Listed' /\ OnDisk' \subseteq OnDisk /\ SnapshotRoots' = SnapshotRoots
         /\ \A r \in OnDisk' : r = OwnRoot(w) => r \in stuck'
         /\ stuck \subseteq stuck'
         /\ Roomy /\ LiveRootsKept =>
              /\ \A v \in Others(w) : Using(v) => OwnRoot(v) \in OnDisk'
              /\ SnapshotRoots' \subseteq OnDisk'
<1>1. /\ Listed' /\ OnDisk' \subseteq OnDisk /\ OnDisk \ {OwnRoot(w)} \subseteq OnDisk'
      /\ \A r \in OnDisk' : r \in {OwnRoot(w)} /\ Mine(r) => r \in stuck'
      /\ stuck \subseteq stuck'
  BY ClearFacts DEF Made
<1>2. SnapshotRoots' = SnapshotRoots /\ Mine(OwnRoot(w))
  BY SameSnapshots, OwnRootFacts DEF Mine
<1>3. ASSUME Roomy, LiveRootsKept
      PROVE  /\ \A v \in Others(w) : Using(v) => OwnRoot(v) \in OnDisk'
             /\ SnapshotRoots' \subseteq OnDisk'
  BY <1>1, <1>2, <1>3, OwnApart, LiveSplit DEF Others
<1> QED
  BY <1>1, <1>2, <1>3

LEMMA MakeRootKeepsIsoInv ==
  ASSUME IInv, IsoInv, NEW w \in Workers, MakeRoot(w)
  PROVE  IsoInv'
<1>1. /\ Executing(w) /\ lease[w].stage = "make" /\ UNCHANGED <<worker, others, retained>>
      /\ UNCHANGED <<vars, retained, replay, partial, host, others>>
      /\ Make(OwnRoot(w))
      /\ lease' = [lease EXCEPT ![w].stage = "fill"]
  BY DEF MakeRoot, At, Executing, vars
<1>2. /\ LeaseFits(w)' /\ \A v \in Others(w) : lease'[v] = lease[v]
      /\ lease'[w] = [stage |-> "fill", attempt |-> lease[w].attempt,
                      doomed |-> lease[w].doomed]
  <2>1. Executing(w)' /\ lease[w].doomed \in SUBSET RootNames
    BY <1>1 DEF Executing, IsoInv, LeasesFit
  <2>2. Staged(w, "fill", lease[w].doomed)
    BY <1>1 DEF Staged
  <2> QED
    BY <1>1, <2>1, <2>2, StageChanges
<1>3. OwnRoot(w)' = OwnRoot(w) /\ OwnRoot(w) \in OwnNames /\ OwnRoot(w) # Integration
  BY <1>1, <1>2, OwnRootFacts DEF OwnRoot, Root
<1>4. /\ Listed' /\ OnDisk' = OnDisk \cup {OwnRoot(w)}
      /\ \A q : q # OwnRoot(w) => (q \in stuck' <=> q \in stuck)
  BY <1>1, <1>3, MakeFacts DEF Made
<1>5. Integration \notin OnDisk' /\ SnapshotRoots' = SnapshotRoots
  BY <1>1, <1>3, <1>4, ReplayIdle, SameSnapshots DEF Executing
<1>6. Using(w)' /\ ~Using(w)
  BY <1>1, <1>2 DEF Using, At, Executing
<1>7. Accounted(w)
  BY <1>1, <1>3, <1>4, <1>5, <1>6 DEF Accounted, IsoInv, RootsAccounted, Using, Others
<1>8. PrunesSpare => Spared(w)
  BY <1>2 DEF Spared, PrunesSpare
<1>9. LiveRootsKept => Alive(w)
  BY <1>1, <1>3, <1>4, <1>5, LiveSplit DEF Alive, Others
<1> QED
  BY <1>1, <1>2, <1>4, <1>5, <1>7, <1>8, <1>9, LeaseStep

LEMMA FillKeepsIsoInv ==
  ASSUME IInv, IsoInv, NEW w \in Workers, Fill(w)
  PROVE  IsoInv'
<1>1. /\ Executing(w) /\ lease[w].stage = "fill" /\ UNCHANGED <<worker, roots, stuck>>
      /\ UNCHANGED <<vars, retained, replay, partial, host, others>>
      /\ lease' = [lease EXCEPT ![w].stage = "work"]
  BY DEF Fill, At, Executing, vars
<1>2. /\ LeaseFits(w)' /\ \A v \in Others(w) : lease'[v] = lease[v]
      /\ lease'[w] = [stage |-> "work", attempt |-> lease[w].attempt,
                      doomed |-> lease[w].doomed]
  <2>1. Executing(w)' /\ lease[w].doomed \in SUBSET RootNames
    BY <1>1 DEF Executing, IsoInv, LeasesFit
  <2>2. Staged(w, "work", lease[w].doomed)
    BY <1>1 DEF Staged
  <2> QED
    BY <1>1, <2>1, <2>2, StageChanges
<1>3. OwnRoot(w)' = OwnRoot(w)
  BY <1>1, <1>2 DEF OwnRoot, Root
<1>4. Listed' /\ OnDisk' = OnDisk /\ SnapshotRoots' = SnapshotRoots
  BY <1>1, SameDisk, SameSnapshots
<1>5. Integration \notin OnDisk'
  BY <1>1, <1>4, ReplayIdle DEF Executing
<1>6. Using(w)' /\ Using(w)
  BY <1>1, <1>2 DEF Using, At, Executing
<1>7. Accounted(w)
  BY <1>1, <1>3, <1>4, <1>6 DEF Accounted, IsoInv, RootsAccounted, Using, Others
<1>8. PrunesSpare => Spared(w)
  BY <1>2 DEF Spared, PrunesSpare
<1>9. LiveRootsKept => Alive(w)
  BY <1>1, <1>3, <1>4, <1>6, LiveSplit DEF Alive, Others
<1> QED
  BY <1>1, <1>2, <1>4, <1>5, <1>7, <1>8, <1>9, LeaseStep

LEMMA RetryKeepsIsoInv ==
  ASSUME IInv, IsoInv, NEW w \in Workers, RetryTransient(w)
  PROVE  IsoInv'
<1>1. /\ Executing(w) /\ lease[w].attempt = 1 /\ UNCHANGED <<worker, others, retained>>
      /\ UNCHANGED <<vars, retained, replay, partial, host, others>>
      /\ Clear({OwnRoot(w)})
      /\ lease' = [lease EXCEPT ![w] = Prepare(@.attempt + 1)]
  BY DEF RetryTransient, MayFail, At, Executing, vars
<1>2. LeaseFits(w)' /\ lease'[w] = Prepare(2) /\ \A v \in Others(w) : lease'[v] = lease[v]
  <2>1. Prepare(2) \in Leases /\ Prepare(2).stage # "idle" /\ Prepare(2).attempt \in 1 .. 2
    BY PrepareFits
  <2>2. lease' = [lease EXCEPT ![w] = Prepare(2)] /\ Executing(w)'
    BY <1>1 DEF Executing
  <2> QED
    BY <2>1, <2>2, OwnLease
<1>3. /\ Listed' /\ OnDisk' \subseteq OnDisk /\ SnapshotRoots' = SnapshotRoots
      /\ \A r \in OnDisk' : r = OwnRoot(w) => r \in stuck'
      /\ stuck \subseteq stuck'
      /\ Roomy /\ LiveRootsKept =>
           /\ \A v \in Others(w) : Using(v) => OwnRoot(v) \in OnDisk'
           /\ SnapshotRoots' \subseteq OnDisk'
  BY <1>1, DropOwn
<1>4. Integration \notin OnDisk'
  BY <1>1, <1>3, ReplayIdle DEF Executing
<1>5. ~Using(w)'
  BY <1>2 DEF Using, At, Prepare
<1>6. Accounted(w)
  BY <1>1, <1>3 DEF Accounted, IsoInv, RootsAccounted, Using, Others
<1>7. Spared(w)
  BY <1>2 DEF Spared, Prepare
<1>8. Roomy /\ LiveRootsKept => Alive(w)
  BY <1>3, <1>5 DEF Alive
<1> QED
  BY <1>1, <1>2, <1>3, <1>4, <1>6, <1>7, <1>8, LeaseStep

(* The end of an attempt: the lease is given up, the worker executes no    *)
(* more.                                                                   *)
LEMMA LeaseEnds ==
  ASSUME IInv, IsoInv, NEW w \in Workers, Executing(w), ~Executing(w)',
         lease' = [lease EXCEPT ![w] = NoLease]
  PROVE  /\ LeaseFits(w)' /\ \A v \in Others(w) : lease'[v] = lease[v]
         /\ Spared(w) /\ ~Using(w)'
<1>1. NoLease \in Leases /\ NoLease.stage = "idle" /\ NoLease.doomed = {}
  BY DEF NoLease, Leases
<1>2. LeaseFits(w)' /\ lease'[w] = NoLease /\ \A v \in Others(w) : lease'[v] = lease[v]
  BY <1>1, OwnLease
<1> QED
  BY <1>1, <1>2 DEF Spared, Using, At, Executing

LEMMA ReturnFacts ==
  ASSUME IInv, NEW w \in Workers, NEW s \in {"completed", "failed"}, Return(w, s)
  PROVE  /\ Executing(w) /\ ~Executing(w)'
         /\ \A v \in Others(w) : worker'[v] = worker[v]
         /\ s = "completed" => Completed' = Completed \cup {worker[w].entry.task}
         /\ s = "failed" => Completed' = Completed
<1> PICK t : t = worker[w].entry.task
  OBVIOUS
<1> DEFINE x == [status |-> s, round |-> worker[w].entry.recovery + 1]
<1>1. /\ worker[w].pc = "executing"
      /\ worker' = [worker EXCEPT ![w].pc = "settling"]
      /\ results' = [u \in DOMAIN results \cup {t} |-> IF u = t THEN x ELSE results[u]]
  BY DEF Return
<1>2. x.status = s
  OBVIOUS
<1> HIDE DEF x
<1>3. /\ DOMAIN results' = DOMAIN results \cup {t} /\ results'[t] = x
      /\ \A u \in DOMAIN results : u # t => results'[u] = results[u]
  BY <1>1
<1>4. t \in Tasks /\ Untried(worker[w].entry)
  BY <1>1 DEF IInv, TypeOK, Busy, Entries, ResultsFit
<1>5. t \notin Completed
  BY <1>4 DEF Untried, Completed
<1>6. s = "completed" => Completed' = Completed \cup {t}
  BY <1>2, <1>3, <1>4 DEF Completed
<1>7. s = "failed" => Completed' = Completed
  BY <1>2, <1>3, <1>4, <1>5 DEF Completed
<1>8. worker'[w].pc = "settling" /\ \A v \in Others(w) : worker'[v] = worker[v]
  BY <1>1 DEF IInv, TypeOK, Others
<1> QED
  BY <1>1, <1>6, <1>7, <1>8 DEF Executing

LEMMA CompleteKeepsIsoInv ==
  ASSUME IInv, IsoInv, NEW w \in Workers, Complete(w)
  PROVE  IsoInv'
<1> PICK t : t = worker[w].entry.task
  OBVIOUS
<1>1. /\ Return(w, "completed") /\ Using(w)
      /\ retained' = {x \in retained : x[1] # t} \cup {<<t, lease[w].attempt>>}
      /\ lease' = [lease EXCEPT ![w] = NoLease]
      /\ UNCHANGED <<roots, replay, partial, host, stuck, others>>
  BY DEF Complete, SnapshotOf, Using
<1>2. /\ Executing(w) /\ ~Executing(w)' /\ worker[w].pc # "done"
      /\ \A v \in Others(w) : worker'[v] = worker[v]
      /\ Completed' = Completed \cup {t}
  BY <1>1, ReturnFacts DEF Executing
<1>3. /\ LeaseFits(w)' /\ \A v \in Others(w) : lease'[v] = lease[v]
      /\ Spared(w) /\ ~Using(w)'
  BY <1>1, <1>2, LeaseEnds
<1>4. Moves(w)
  BY <1>1, <1>2, <1>3 DEF Moves, Executing
<1>5. Listed' /\ OnDisk' = OnDisk
  BY <1>1, SameDisk
<1>6. Integration \notin OnDisk' /\ replay.stage = "idle"
  BY <1>2, <1>5, ReplayIdle
<1> PICK y : y = <<t, lease[w].attempt>>
  OBVIOUS
<1>7. y \in Tasks \X {1, 2} /\ y[1] = t /\ OwnRoot(w) = Root(y[1], y[2])
  BY <1>2, OwnRootFacts
<1>8. retained' = retained \cup {y} /\ \A x \in retained : x[1] # t
  BY <1>1, <1>2, ExecutingHasNoSnapshot
<1>9. retained' \subseteq Tasks \X {1, 2} /\ SnapshotRoots' = SnapshotRoots \cup {OwnRoot(w)}
  <2>1. SnapshotRoots' = {Root(x[1], x[2]) : x \in retained'}
    BY DEF SnapshotRoots, Root
  <2> QED
    BY <1>7, <1>8, <2>1 DEF IsoInv, IsoTypeOK, SnapshotRoots
<1>10. RetainedFits'
  BY <1>2, <1>7, <1>8 DEF IsoInv, RetainedFits
<1>11. Accounted(w)
  BY <1>1, <1>5, <1>9 DEF Accounted, IsoInv, RootsAccounted, Using, Others
<1>12. LiveRootsKept => Alive(w)
  BY <1>1, <1>3, <1>5, <1>9, LiveSplit DEF Alive, Others
<1>13. ASSUME Roomy, ReplayCarries PROVE Carried
  <2>1. \A u \in Completed : \E x \in retained : x[1] = u
    BY <1>6, <1>13, SnapshotsCarry
  <2> QED
    BY <1>2, <1>7, <1>8, <2>1 DEF Carried
<1> QED
  BY <1>2, <1>3, <1>4, <1>5, <1>6, <1>9, <1>10, <1>11, <1>12, <1>13, MoveKeepsIsoInv

(* A failed or aborted attempt: retained stays as it is, and the root goes *)
(* unless it is kept for debugging.                                        *)
LEMMA AttemptLost ==
  ASSUME IInv, IsoInv, NEW w \in Workers, MayFail(w), Executing(w), ~Executing(w)',
         DiscardFailed(w), retained' = retained, Completed' = Completed,
         lease' = [lease EXCEPT ![w] = NoLease],
         UNCHANGED <<replay, partial, host, others>>,
         \A v \in Others(w) : /\ Executing(v)' <=> Executing(v)
                              /\ Executing(v) => worker'[v].entry = worker[v].entry
  PROVE  IsoInv'
<1>1. /\ LeaseFits(w)' /\ \A v \in Others(w) : lease'[v] = lease[v]
      /\ Spared(w) /\ ~Using(w)'
  BY LeaseEnds
<1>2. Moves(w)
  BY <1>1 DEF Moves, Executing
<1>3. (UNCHANGED <<roots, stuck>> /\ DebugEnabled) \/ Clear({OwnRoot(w)})
  BY DEF DiscardFailed
<1>4. SnapshotRoots' = SnapshotRoots /\ retained' \subseteq Tasks \X {1, 2}
  BY SameSnapshots
<1>5. /\ Listed' /\ OnDisk' \subseteq OnDisk
      /\ ~DebugEnabled => /\ \A r \in OnDisk' : r = OwnRoot(w) => r \in stuck'
                         /\ stuck \subseteq stuck'
      /\ Roomy /\ LiveRootsKept =>
           /\ \A v \in Others(w) : Using(v) => OwnRoot(v) \in OnDisk'
           /\ SnapshotRoots' \subseteq OnDisk'
  <2>1. CASE Clear({OwnRoot(w)})
    BY <2>1, DropOwn
  <2>2. CASE UNCHANGED <<roots, stuck>> /\ DebugEnabled
    BY <2>2, SameDisk DEF Roomy
  <2> QED
    BY <1>3, <2>1, <2>2
<1>6. Integration \notin OnDisk' /\ replay.stage = "idle"
  BY <1>5, ReplayIdle DEF Executing
<1>7. RetainedFits'
  BY DEF IsoInv, RetainedFits
<1>8. Accounted(w)
  BY <1>4, <1>5 DEF Accounted, IsoInv, RootsAccounted, Using, Others
<1>9. Roomy /\ LiveRootsKept => Alive(w)
  BY <1>1, <1>5 DEF Alive
<1>10. Roomy /\ ReplayCarries => Carried
  BY <1>6, SnapshotsCarry DEF Carried
<1> QED
  BY <1>1, <1>2, <1>4, <1>5, <1>6, <1>7, <1>8, <1>9, <1>10, MoveKeepsIsoInv DEF Executing

LEMMA FailKeepsIsoInv ==
  ASSUME IInv, IsoInv, NEW w \in Workers, Fail(w)
  PROVE  IsoInv'
<1> PICK t : t = worker[w].entry.task
  OBVIOUS
<1>1. /\ Return(w, "failed") /\ MayFail(w) /\ DiscardFailed(w)
      /\ retained' = {x \in retained : x[1] # t}
      /\ lease' = [lease EXCEPT ![w] = NoLease]
      /\ UNCHANGED <<replay, partial, host, others>>
  BY DEF Fail
<1>2. /\ Executing(w) /\ ~Executing(w)' /\ Completed' = Completed
      /\ \A v \in Others(w) : worker'[v] = worker[v]
  BY <1>1, ReturnFacts
<1>3. retained' = retained
  BY <1>1, <1>2, ExecutingHasNoSnapshot
<1>4. \A v \in Others(w) : /\ Executing(v)' <=> Executing(v)
                           /\ Executing(v) => worker'[v].entry = worker[v].entry
  BY <1>2 DEF Executing
<1> QED
  BY <1>1, <1>2, <1>3, <1>4, AttemptLost

LEMMA AbortedKeepsIsoInv ==
  ASSUME IInv, IsoInv, NEW w \in Workers, Aborted(w)
  PROVE  IsoInv'
<1>1. /\ Throw(w) /\ MayFail(w) /\ DiscardFailed(w)
      /\ lease' = [lease EXCEPT ![w] = NoLease]
      /\ UNCHANGED <<retained, replay, partial, host, others>>
  BY DEF Aborted
<1>2. Executing(w) /\ Busy(w) /\ worker' = Released(w) /\ UNCHANGED results
  BY <1>1 DEF Throw, MayFail, At, Executing, Busy
<1>3. /\ ~Executing(w)'
      /\ \A v \in Others(w) : /\ Executing(v)' <=> Executing(v)
                              /\ Executing(v) => worker'[v].entry = worker[v].entry
  BY <1>2, ReleasedMoves
<1>4. Completed' = Completed
  BY <1>2 DEF Completed
<1> QED
  BY <1>1, <1>2, <1>3, <1>4, AttemptLost

LEMMA WorkerKeepsIsoInv ==
  ASSUME IInv, IsoInv, NEW w \in Workers, WorkerStep(w)
  PROVE  IsoInv'
BY TakeKeepsIsoInv, IdleKeepsIsoInv, ScanKeepsIsoInv, PurgeKeepsIsoInv, MakeRootKeepsIsoInv,
   FillKeepsIsoInv, CompleteKeepsIsoInv, FailKeepsIsoInv, RetryKeepsIsoInv,
   AbortedKeepsIsoInv, SettledKeepsIsoInv DEF WorkerStep
-----------------------------------------------------------------------------
(* The steps of the integration: the scheduler and the leases stand still. *)

Replays ==
  [stage : {"idle", "scan", "purge", "make", "merge", "verify", "flush", "discard",
            "discardAll", "over"},
   doomed : SUBSET RootNames, next : Nat \ {0}, merged : SUBSET Tasks]

OtherStates == [stage : {"scan", "purge", "make", "over"}, doomed : SUBSET RootNames]

ReplayAccounted ==
  ~DebugEnabled =>
    /\ \A r \in OnDisk : r[1] \in Segments => r \in SnapshotRoots \cup stuck
    /\ Integration \in OnDisk \ stuck /\ replay.stage \in {"discard", "over"} => partial
    /\ replay.stage = "over" /\ ~fatal => retained = {}

ReplayAlive ==
  /\ \A r \in replay.doomed : ~Mine(r)
  /\ SnapshotRoots \subseteq OnDisk
  /\ replay.stage \in {"merge", "verify", "flush"} => Integration \in OnDisk

Still == UNCHANGED <<vars, lease, others>>

LEMMA AllDoneFacts ==
  ASSUME IsoInv, AllDone
  PROVE  /\ \A w \in Workers : ~Executing(w) /\ ~Using(w)
         /\ ReplayAccounted
         /\ Roomy => ReplayAlive /\ ReplayCarries
<1>1. \A w \in Workers : ~Executing(w) /\ ~Using(w)
  BY DEF AllDone, Executing, Using, At
<1>2. ReplayAccounted
  BY <1>1 DEF IsoInv, RootsAccounted, ReplayAccounted, Using
<1>3. Roomy => ReplayAlive /\ ReplayCarries
  BY LiveSplit DEF IsoInv, PrunesSpare, ReplayAlive
<1> QED
  BY <1>1, <1>2, <1>3

LEMMA IntegrationFacts ==
  /\ Integration \in OwnNames /\ Integration[1] = "integration" /\ Mine(Integration)
  /\ Integration[1] \notin Segments
  /\ \A t \in Tasks : \A a : Root(t, a) # Integration
BY RootsAssumption DEF Integration, OwnNames, Mine, Root, Segments

(* What is hidden stays so: only the integration's root is made anew.      *)
LEMMA StuckTasksGrow ==
  ASSUME \A r \in stuck : r \in stuck' \/ r = Integration
  PROVE  StuckTasks \subseteq StuckTasks'
<1>1. ASSUME NEW t \in Tasks, NEW a, Root(t, a) \in stuck PROVE Root(t, a) \in stuck'
  BY <1>1, IntegrationFacts
<1>2. \A t \in Tasks : \A a : Root(t, a)' = Root(t, a)
  BY DEF Root
<1> QED
  BY <1>1, <1>2 DEF StuckTasks

LEMMA RootsKept ==
  ASSUME IsoInv, UNCHANGED <<vars, lease>>, others' \in [1 .. OtherLeases -> OtherStates],
         Listed', retained' \subseteq retained, host' \subseteq Tasks, ReplayFits'
  PROVE  IsoTypeOK' /\ LeasesFit' /\ RetainedFits'
<1>1. UNCHANGED <<worker, results>>
  BY DEF vars
<1>2. /\ OnDisk' \subseteq RootNames /\ roots' \in Seq(RootNames)
      /\ \A i, j \in DOMAIN roots' : roots'[i] = roots'[j] => i = j
      /\ \A i \in DOMAIN roots' : roots'[i][1] = "other" => roots'[i][2] \in Made'
      /\ \A i, j \in DOMAIN roots' : i < j /\ roots'[j][1] = "old" => roots'[i][1] = "old"
  <2>1. \A i \in DOMAIN roots' : roots'[i] \in RootNames
    BY LenProperties, ElementOfSeq DEF Listed, RootList
  <2> QED
    BY <2>1 DEF Listed, RootList, OnDisk, ToSet
<1>3. stuck' \subseteq (Segments \X {1, 2}) \cup {Integration} /\ Cardinality(stuck') <= MaxStuck
  BY DEF Listed, StuckFits, OwnNames
<1>4. IsoTypeOK'
  BY <1>1, <1>2, <1>3 DEF IsoInv, IsoTypeOK, ReplayFits
<1>5. LeasesFit'
  BY <1>2 DEF IsoInv, LeasesFit, OtherStates
<1>6. RetainedFits'
  BY <1>1 DEF IsoInv, RetainedFits, Completed
<1> QED
  BY <1>4, <1>5, <1>6

LEMMA ReplayKeepsIsoInv ==
  ASSUME IsoInv, AllDone, Still, Listed', retained' \subseteq retained,
         host' \subseteq Tasks, ReplayFits', ReplayAccounted',
         Roomy => ReplayAlive' /\ ReplayCarries'
  PROVE  IsoInv'
<1>1. UNCHANGED <<vars, worker, results, fatal, lease, others>>
  BY DEF Still, vars
<1>2. IsoTypeOK' /\ LeasesFit' /\ RetainedFits'
  <2>1. others' \in [1 .. OtherLeases -> OtherStates]
    BY <1>1 DEF IsoInv, LeasesFit, OtherStates
  <2> QED
    BY <1>1, <2>1, RootsKept
<1>3. RootsAccounted'
  BY DEF ReplayAccounted, RootsAccounted
<1>4. \A w \in Workers : ~Using(w)'
  BY <1>1, AllDoneFacts DEF Using, At
<1>5. ASSUME Roomy PROVE PrunesSpare' /\ LiveRootsKept' /\ ReplayCarries'
  <2>1. ReplayAlive' /\ ReplayCarries' /\ PrunesSpare
    BY <1>5 DEF IsoInv
  <2>2. PrunesSpare'
    BY <1>1, <2>1 DEF PrunesSpare, ReplayAlive, Mine
  <2>3. LiveRootsKept'
    BY <1>4, <2>1 DEF LiveRootsKept, InUse, Using, ReplayAlive
  <2> QED
    BY <2>1, <2>2, <2>3
<1>6. Roomy' <=> Roomy
  BY DEF Roomy
<1> QED
  BY <1>2, <1>3, <1>5, <1>6 DEF IsoInv

LEMMA ReplayDoneFacts ==
  ASSUME IsoInv, Still
  PROVE  /\ replay \in Replays /\ host \subseteq Tasks /\ partial \in BOOLEAN
         /\ replay.stage # "idle" => AllDone
         /\ AllDone' <=> AllDone
         /\ fatal' <=> fatal
         /\ Completed' = Completed
         /\ Made' = Made
BY DEF IsoInv, IsoTypeOK, ReplayFits, Replays, Still, vars, AllDone, Completed, Made

(* Neither disk nor snapshots change.                                      *)
LEMMA AloneFacts ==
  ASSUME IsoInv, NEW stage, Alone(stage)
  PROVE  /\ replay.stage = stage /\ Still /\ retained' = retained
         /\ Listed' /\ OnDisk' = OnDisk /\ stuck' = stuck
         /\ SnapshotRoots' = SnapshotRoots /\ StuckTasks' = StuckTasks
         /\ \A t : Snapshot(t)' = Snapshot(t)
         /\ stage # "idle" => AllDone
         /\ AllDone' <=> AllDone
         /\ fatal' <=> fatal
         /\ Completed' = Completed
<1>1. /\ replay.stage = stage /\ Still /\ retained' = retained
      /\ UNCHANGED <<roots, stuck, others>>
  BY DEF Alone, Replaying, Still
<1>2. Listed' /\ OnDisk' = OnDisk
  BY <1>1, SameDisk
<1>3. SnapshotRoots' = SnapshotRoots /\ StuckTasks' = StuckTasks
  BY <1>1, SameSnapshots DEF StuckTasks, Root
<1>4. \A t : Snapshot(t)' = Snapshot(t)
  BY <1>1 DEF Snapshot, Root
<1> QED
  BY <1>1, <1>2, <1>3, <1>4, ReplayDoneFacts

(* The stage changes, and nothing else.                                    *)
LEMMA StageMoves ==
  ASSUME IsoInv, Still, UNCHANGED host,
         NEW st, replay' = [replay EXCEPT !.stage = st],
         st \in {"scan", "verify", "flush", "discard", "discardAll", "over"}
  PROVE  /\ host' \subseteq Tasks
         /\ replay' \in Replays /\ replay'.stage = st /\ replay'.doomed = replay.doomed
         /\ replay'.next = replay.next /\ replay'.merged = replay.merged
BY ReplayDoneFacts DEF Replays

LEMMA BeginReplayKeepsIsoInv ==
  ASSUME IsoInv, BeginReplay
  PROVE  IsoInv'
<1>1. /\ AllDone /\ ~fatal /\ Alone("idle") /\ UNCHANGED <<partial, host>>
      /\ replay' = [replay EXCEPT !.stage = IF retained = {} THEN "discard" ELSE "scan"]
  BY DEF BeginReplay
<1>2. /\ replay.stage = "idle" /\ Still /\ retained' = retained
      /\ Listed' /\ OnDisk' = OnDisk /\ stuck' = stuck
      /\ SnapshotRoots' = SnapshotRoots /\ StuckTasks' = StuckTasks
      /\ \A t : Snapshot(t)' = Snapshot(t)
      /\ AllDone' /\ ~fatal' /\ Completed' = Completed
  BY <1>1, AloneFacts
<1> PICK st \in {"scan", "discard"} : st = IF retained = {} THEN "discard" ELSE "scan"
  OBVIOUS
<1>3. /\ host' \subseteq Tasks
      /\ replay' \in Replays /\ replay'.stage = st /\ replay'.doomed = replay.doomed
      /\ replay'.next = replay.next /\ replay'.merged = replay.merged
  BY <1>1, <1>2, StageMoves
<1>4. ~partial /\ Integration \notin OnDisk
  BY <1>2 DEF IsoInv, ReplayFits
<1>5. ReplayFits'
  BY <1>1, <1>2, <1>3, <1>4 DEF IsoInv, ReplayFits, Replays
<1>6. ReplayAccounted'
  BY <1>1, <1>2, <1>3, <1>4, AllDoneFacts DEF ReplayAccounted
<1>7. ASSUME Roomy PROVE ReplayAlive' /\ ReplayCarries'
  <2>1. ReplayAlive /\ ReplayCarries
    BY <1>1, <1>7, AllDoneFacts
  <2>2. ReplayAlive'
    BY <1>2, <1>3, <2>1 DEF ReplayAlive, Mine
  <2>3. \A t \in Completed : \E x \in retained : x[1] = t
    BY <1>2, <2>1, <1>7, SnapshotsCarry
  <2>4. host' = {} /\ (st = "discard" => Completed = {})
    BY <1>1, <1>2, <2>1, <2>3 DEF ReplayCarries
  <2>5. ReplayCarries'
    BY <1>1, <1>2, <1>3, <2>1, <2>4 DEF ReplayCarries, Brings
  <2> QED
    BY <2>2, <2>5
<1> QED
  BY <1>1, <1>2, <1>3, <1>5, <1>6, <1>7, ReplayKeepsIsoInv

LEMMA ReplayScanKeepsIsoInv ==
  ASSUME IInv, IsoInv, ReplayScan
  PROVE  IsoInv'
<1>1. /\ Alone("scan") /\ UNCHANGED <<partial, host>>
      /\ replay' = [replay EXCEPT !.stage = "purge", !.doomed = Doomed]
  BY DEF ReplayScan
<1>2. /\ replay.stage = "scan" /\ Still /\ retained' = retained
      /\ Listed' /\ OnDisk' = OnDisk /\ stuck' = stuck
      /\ SnapshotRoots' = SnapshotRoots /\ StuckTasks' = StuckTasks
      /\ \A t : Snapshot(t)' = Snapshot(t)
      /\ AllDone /\ AllDone' /\ (fatal' <=> fatal) /\ Completed' = Completed
  BY <1>1, AloneFacts
<1>3. Doomed \in SUBSET RootNames
  BY ListedHolds, DoomedOnDisk
<1>4. /\ replay' \in Replays /\ replay'.stage = "purge" /\ replay'.doomed = Doomed
      /\ replay'.next = replay.next /\ replay'.merged = replay.merged
  BY <1>1, <1>2, <1>3, ReplayDoneFacts DEF Replays
<1>5. host' \subseteq Tasks
  BY <1>1, <1>2, ReplayDoneFacts
<1>6. Integration \notin OnDisk
  BY <1>2 DEF IsoInv, ReplayFits
<1>7. ReplayFits'
  BY <1>1, <1>2, <1>4, <1>6 DEF IsoInv, ReplayFits, Replays
<1>8. ReplayAccounted'
  BY <1>1, <1>2, <1>4, AllDoneFacts DEF ReplayAccounted
<1>9. ASSUME Roomy PROVE ReplayAlive' /\ ReplayCarries'
  <2>1. ReplayAlive /\ ReplayCarries
    BY <1>2, <1>9, AllDoneFacts
  <2>2. \A r \in Doomed : ~Mine(r)
    BY <1>6, <1>9, RoomSpares
  <2>3. ReplayAlive'
    BY <1>2, <1>4, <2>1, <2>2 DEF ReplayAlive, Mine
  <2>4. ReplayCarries'
    BY <1>1, <1>2, <1>4, <2>1 DEF ReplayCarries
  <2> QED
    BY <2>3, <2>4
<1> QED
  BY <1>2, <1>5, <1>7, <1>8, <1>9, ReplayKeepsIsoInv

LEMMA ReplayPurgeKeepsIsoInv ==
  ASSUME IsoInv, ReplayPurge
  PROVE  IsoInv'
<1>1. /\ replay.stage = "purge" /\ Still /\ UNCHANGED <<retained, partial, host, others>>
      /\ Clear(replay.doomed)
      /\ replay' = [replay EXCEPT !.stage = "make", !.doomed = {}]
  BY DEF ReplayPurge, Replaying, Still
<1>2. AllDone /\ AllDone' /\ fatal' = fatal /\ Completed' = Completed /\ host' \subseteq Tasks
  BY <1>1, ReplayDoneFacts DEF Still, vars
<1>3. /\ Listed' /\ OnDisk' \subseteq OnDisk /\ OnDisk \ replay.doomed \subseteq OnDisk'
      /\ stuck \subseteq stuck'
  BY <1>1, ClearFacts, ReplayDoneFacts
<1>4. SnapshotRoots' = SnapshotRoots /\ \A t : Snapshot(t)' = Snapshot(t)
  BY <1>1, SameSnapshots DEF Snapshot, Root
<1>5. /\ replay' \in Replays /\ replay'.stage = "make" /\ replay'.doomed = {}
      /\ replay'.next = replay.next /\ replay'.merged = replay.merged
  BY <1>1, ReplayDoneFacts DEF Replays
<1>6. Integration \notin OnDisk
  BY <1>1 DEF IsoInv, ReplayFits
<1>7. ReplayFits'
  BY <1>1, <1>2, <1>3, <1>5, <1>6 DEF IsoInv, ReplayFits, Replays
<1>8. ReplayAccounted'
  BY <1>1, <1>2, <1>3, <1>4, <1>5, AllDoneFacts DEF ReplayAccounted
<1>9. ASSUME Roomy PROVE ReplayAlive' /\ ReplayCarries'
  <2>1. ReplayAlive /\ ReplayCarries
    BY <1>2, <1>9, AllDoneFacts
  <2>2. \A r \in SnapshotRoots : r \notin replay.doomed
    BY <2>1, SameSnapshots, <1>1 DEF ReplayAlive, Mine
  <2>3. ReplayAlive'
    BY <1>3, <1>4, <1>5, <2>1, <2>2 DEF ReplayAlive
  <2>4. ReplayCarries'
    BY <1>1, <1>2, <1>4, <1>5, <2>1 DEF ReplayCarries
  <2> QED
    BY <2>3, <2>4
<1> QED
  BY <1>1, <1>2, <1>3, <1>7, <1>8, <1>9, ReplayKeepsIsoInv

LEMMA ReplayMakeKeepsIsoInv ==
  ASSUME IsoInv, ReplayMake
  PROVE  IsoInv'
<1>1. /\ replay.stage = "make" /\ Still /\ UNCHANGED <<retained, partial, host, others>>
      /\ Make(Integration)
      /\ replay' = [replay EXCEPT !.stage = "merge"]
  BY DEF ReplayMake, Replaying, Still
<1>2. AllDone /\ AllDone' /\ fatal' = fatal /\ Completed' = Completed /\ host' \subseteq Tasks
  BY <1>1, ReplayDoneFacts DEF Still, vars
<1>3. Integration \notin OnDisk
  BY <1>1 DEF IsoInv, ReplayFits
<1>4. /\ Listed' /\ OnDisk' = OnDisk \cup {Integration} /\ Integration \notin stuck'
      /\ \A q : q # Integration => (q \in stuck' <=> q \in stuck)
  BY <1>1, <1>3, MakeFacts, IntegrationFacts, ReplayDoneFacts
<1>5. SnapshotRoots' = SnapshotRoots /\ \A t : Snapshot(t)' = Snapshot(t)
  BY <1>1, SameSnapshots DEF Snapshot, Root
<1>6. /\ replay' \in Replays /\ replay'.stage = "merge" /\ replay'.doomed = replay.doomed
      /\ replay'.next = replay.next /\ replay'.merged = replay.merged
  BY <1>1, ReplayDoneFacts DEF Replays
<1>7. ReplayFits'
  BY <1>1, <1>2, <1>4, <1>6 DEF IsoInv, ReplayFits, Replays
<1>8. ReplayAccounted'
  BY <1>1, <1>2, <1>4, <1>5, <1>6, AllDoneFacts, IntegrationFacts DEF ReplayAccounted
<1>9. ASSUME Roomy PROVE ReplayAlive' /\ ReplayCarries'
  <2>1. ReplayAlive /\ ReplayCarries
    BY <1>2, <1>9, AllDoneFacts
  <2>2. ReplayAlive'
    BY <1>4, <1>5, <1>6, <2>1 DEF ReplayAlive, Mine
  <2>3. replay.next = 1 /\ replay.merged = {} /\ {j \in DOMAIN Plan : j < 1} = {}
    BY <1>1, <2>1, PlanFacts DEF ReplayCarries
  <2>4. ReplayCarries'
    BY <1>1, <1>2, <1>4, <1>5, <1>6, <2>1, <2>3 DEF ReplayCarries, Brings
  <2> QED
    BY <2>2, <2>4
<1> QED
  BY <1>1, <1>2, <1>4, <1>7, <1>8, <1>9, ReplayKeepsIsoInv

(* A completed task's snapshot shows its changes, unless a removal has     *)
(* failed in its root; there is none of a task that has not completed.     *)
LEMMA ShownFacts ==
  ASSUME IsoInv, ReplayAlive, ReplayCarries, replay.stage # "over", NEW t \in Tasks,
         NEW S \in SnapshotShows(t)
  PROVE  S \subseteq {t} \cap Completed /\ (t \in Completed /\ S = {} => t \in StuckTasks)
<1>1. Snapshot(t) \subseteq OnDisk
  BY DEF Snapshot, SnapshotRoots, ReplayAlive
<1>2. Snapshot(t) # {} <=> t \in Completed
  BY DEF Snapshot, IsoInv, RetainedFits, ReplayCarries
<1>3. \A r \in Snapshot(t) : r \in {Root(t, 1), Root(t, 2)}
  BY DEF Snapshot, IsoInv, IsoTypeOK
<1>4. CASE Snapshot(t) = {}
  BY <1>2, <1>4 DEF SnapshotShows
<1>5. CASE Snapshot(t) # {}
  <2>1. PICK r \in Snapshot(t) : S \in Shown(r, {t})
    BY <1>5 DEF SnapshotShows
  <2>2. S \subseteq {t} /\ (S = {} => r \in stuck)
    BY <1>1, <2>1 DEF Shown
  <2> QED
    BY <1>2, <1>3, <1>5, <2>1, <2>2 DEF StuckTasks
<1> QED
  BY <1>4, <1>5

LEMMA ReplayMergeKeepsIsoInv ==
  ASSUME IsoInv, ReplayMerge
  PROVE  IsoInv'
<1> DEFINE n == replay.next
           Past(k) == {Plan[i] : i \in {j \in DOMAIN Plan : j < k}}
<1>1. Alone("merge") /\ UNCHANGED <<partial, host>>
  BY DEF ReplayMerge
<1>2. /\ replay.stage = "merge" /\ Still /\ retained' = retained
      /\ Listed' /\ OnDisk' = OnDisk /\ stuck' = stuck
      /\ SnapshotRoots' = SnapshotRoots /\ StuckTasks' = StuckTasks
      /\ \A t : Snapshot(t)' = Snapshot(t)
      /\ AllDone /\ AllDone' /\ (fatal' <=> fatal) /\ Completed' = Completed
  BY <1>1, AloneFacts
<1>3. replay \in Replays /\ n \in Nat \ {0} /\ host' \subseteq Tasks
  BY <1>1, <1>2, ReplayDoneFacts DEF Replays
<1>4. CASE n > Len(Plan) /\ replay' = [replay EXCEPT !.stage = "verify"]
  <2>2. /\ replay' \in Replays /\ replay'.stage = "verify" /\ replay'.doomed = replay.doomed
        /\ replay'.next = replay.next /\ replay'.merged = replay.merged
    BY <1>1, <1>2, <1>4, StageMoves
  <2>3. ReplayFits'
    BY <1>1, <1>2, <2>2 DEF IsoInv, ReplayFits, Replays
  <2>4. ReplayAccounted'
    BY <1>1, <1>2, <2>2, AllDoneFacts DEF ReplayAccounted
  <2>5. ASSUME Roomy PROVE ReplayAlive' /\ ReplayCarries'
    <3>1. ReplayAlive /\ ReplayCarries
      BY <1>2, <2>5, AllDoneFacts
    <3>2. ReplayAlive'
      BY <1>2, <2>2, <3>1 DEF ReplayAlive, Mine
    <3>3. Brings(replay.merged, Past(n))
      BY <1>2, <3>1 DEF ReplayCarries
    <3>4. {j \in DOMAIN Plan : j < n} = DOMAIN Plan
      BY <1>3, <1>4, PlanFacts
    <3>5. \A t \in Completed : t \in Tasks /\ \E i \in DOMAIN Plan : Plan[i] = t
      BY PlanFacts DEF Completed
    <3>6. Completed \cap Past(n) = Completed /\ Completed \cap Tasks = Completed
      BY <3>4, <3>5
    <3>7. Brings(replay.merged, Tasks)
      BY <3>3, <3>6 DEF Brings
    <3>8. ReplayCarries'
      BY <1>1, <1>2, <2>2, <3>1, <3>7 DEF ReplayCarries, Brings
    <3> QED
      BY <3>2, <3>8
  <2> QED
    BY <1>2, <1>3, <2>3, <2>4, <2>5, ReplayKeepsIsoInv
<1>5. CASE n <= Len(Plan) /\ MergeNext
  <2>1. n \in DOMAIN Plan /\ Plan[n] \in Tasks
    BY <1>3, <1>5, PlanFacts
  <2>2. PICK S \in SnapshotShows(Plan[n]) :
          replay' = [replay EXCEPT !.next = @ + 1, !.merged = @ \cup S]
    BY <1>5 DEF MergeNext
  <2>3. S \in SUBSET Tasks
    BY <2>1, <2>2 DEF SnapshotShows, Shown
  <2>4. n + 1 \in Nat \ {0} /\ replay.merged \cup S \in SUBSET Tasks
    BY <1>3, <2>3 DEF Replays
  <2>5. /\ replay' \in Replays /\ replay'.stage = "merge" /\ replay'.doomed = replay.doomed
        /\ replay'.next = n + 1 /\ replay'.merged = replay.merged \cup S
    BY <1>2, <1>3, <2>2, <2>4 DEF Replays
  <2>6. ReplayFits'
    BY <1>1, <1>2, <2>5 DEF IsoInv, ReplayFits, Replays
  <2>7. ReplayAccounted'
    BY <1>1, <1>2, <2>5, AllDoneFacts DEF ReplayAccounted
  <2>8. ASSUME Roomy PROVE ReplayAlive' /\ ReplayCarries'
    <3>1. ReplayAlive /\ ReplayCarries
      BY <1>2, <2>8, AllDoneFacts
    <3>2. ReplayAlive'
      BY <1>2, <2>5, <3>1 DEF ReplayAlive, Mine
    <3>3. /\ S \subseteq {Plan[n]} \cap Completed
          /\ Plan[n] \in Completed /\ S = {} => Plan[n] \in StuckTasks
      BY <1>2, <2>1, <3>1, ShownFacts
    <3>4. {j \in DOMAIN Plan : j < n + 1} = {j \in DOMAIN Plan : j < n} \cup {n}
      BY <1>3, <2>1, PlanFacts
    <3>5. Past(n + 1) = Past(n) \cup {Plan[n]}
      BY <3>4
    <3>6. Brings(replay.merged, Past(n))
      BY <1>2, <3>1 DEF ReplayCarries
    <3> HIDE DEF Past
    <3>7. Brings(replay.merged \cup S, Past(n + 1))
      BY <3>3, <3>5, <3>6 DEF Brings
    <3>8. (\A t \in Completed : Snapshot(t) # {}) /\ Integration \notin stuck /\ host = {}
      BY <1>2, <3>1 DEF ReplayCarries
    <3> QED
      BY <1>1, <1>2, <2>5, <3>2, <3>7, <3>8 DEF ReplayCarries, Brings, Past
  <2> QED
    BY <1>2, <1>3, <2>6, <2>7, <2>8, ReplayKeepsIsoInv
<1> QED
  BY <1>4, <1>5 DEF ReplayMerge

LEMMA ReplayBreaksKeepsIsoInv ==
  ASSUME IsoInv, ReplayBreaks
  PROVE  IsoInv'
<1> PICK stage \in {"make", "merge"} : stage = replay.stage
  BY DEF ReplayBreaks
<1>1. /\ Alone(stage) /\ UNCHANGED host
      /\ replay' = [replay EXCEPT !.stage = "discard"] /\ partial' = TRUE
  BY DEF ReplayBreaks
<1>2. /\ replay.stage = stage /\ Still /\ retained' = retained
      /\ Listed' /\ OnDisk' = OnDisk /\ stuck' = stuck
      /\ SnapshotRoots' = SnapshotRoots /\ StuckTasks' = StuckTasks
      /\ \A t : Snapshot(t)' = Snapshot(t)
      /\ AllDone /\ AllDone' /\ (fatal' <=> fatal) /\ Completed' = Completed
  BY <1>1, AloneFacts
<1>3. /\ host' \subseteq Tasks
      /\ replay' \in Replays /\ replay'.stage = "discard" /\ replay'.doomed = replay.doomed
      /\ replay'.next = replay.next /\ replay'.merged = replay.merged
  BY <1>1, <1>2, StageMoves
<1>4. ReplayFits'
  BY <1>1, <1>2, <1>3 DEF IsoInv, ReplayFits, Replays
<1>5. ReplayAccounted'
  BY <1>1, <1>2, <1>3, AllDoneFacts DEF ReplayAccounted
<1>6. ASSUME Roomy PROVE ReplayAlive' /\ ReplayCarries'
  <2>1. ReplayAlive /\ ReplayCarries
    BY <1>2, <1>6, AllDoneFacts
  <2>2. ReplayAlive'
    BY <1>2, <1>3, <2>1 DEF ReplayAlive, Mine
  <2>3. ReplayCarries'
    BY <1>1, <1>2, <1>3, <2>1 DEF ReplayCarries
  <2> QED
    BY <2>2, <2>3
<1> QED
  BY <1>2, <1>3, <1>4, <1>5, <1>6, ReplayKeepsIsoInv

LEMMA VerifyKeepsIsoInv ==
  ASSUME IsoInv, Verify
  PROVE  IsoInv'
<1>1. Alone("verify") /\ UNCHANGED host /\ \E ok \in BOOLEAN : Verified(ok) /\ partial' = ~ok
  BY DEF Verify
<1>2. /\ replay.stage = "verify" /\ Still /\ retained' = retained
      /\ Listed' /\ OnDisk' = OnDisk /\ stuck' = stuck
      /\ SnapshotRoots' = SnapshotRoots /\ StuckTasks' = StuckTasks
      /\ \A t : Snapshot(t)' = Snapshot(t)
      /\ AllDone /\ AllDone' /\ (fatal' <=> fatal) /\ Completed' = Completed
  BY <1>1, AloneFacts
<1>3. PICK ok \in BOOLEAN : Verified(ok) /\ partial' = ~ok
  BY <1>1
<1> PICK st \in {"flush", "discardAll"} : st = IF ok THEN "flush" ELSE "discardAll"
  OBVIOUS
<1>4. replay' = [replay EXCEPT !.stage = st]
  BY <1>3 DEF Verified
<1>5. /\ host' \subseteq Tasks
      /\ replay' \in Replays /\ replay'.stage = st /\ replay'.doomed = replay.doomed
      /\ replay'.next = replay.next /\ replay'.merged = replay.merged
  BY <1>1, <1>2, <1>4, StageMoves
<1>6. ReplayFits'
  BY <1>2, <1>3, <1>5 DEF IsoInv, ReplayFits, Replays
<1>7. ReplayAccounted'
  BY <1>2, <1>3, <1>5, AllDoneFacts DEF ReplayAccounted
<1>8. ASSUME Roomy PROVE ReplayAlive' /\ ReplayCarries'
  <2>1. ReplayAlive /\ ReplayCarries
    BY <1>2, <1>8, AllDoneFacts
  <2>2. ReplayAlive'
    BY <1>2, <1>5, <2>1 DEF ReplayAlive, Mine
  <2>3. st = "discardAll" => partial'
    BY <1>3
  <2>4. ReplayCarries'
    BY <1>1, <1>2, <1>5, <2>1, <2>3 DEF ReplayCarries, Brings
  <2> QED
    BY <2>2, <2>4
<1> QED
  BY <1>2, <1>5, <1>6, <1>7, <1>8, ReplayKeepsIsoInv

LEMMA FlushKeepsIsoInv ==
  ASSUME IsoInv, Flush
  PROVE  IsoInv'
<1> DEFINE Whole == (\E S \in Shown(Integration, replay.merged) : host' = host \cup S)
                    /\ UNCHANGED partial
           Partly == (\E S \in SUBSET replay.merged : host' = host \cup S)
                     /\ partial' = TRUE
<1>1. /\ Alone("flush") /\ (Whole \/ Partly)
      /\ replay' = [replay EXCEPT !.stage = "discardAll"]
  BY DEF Flush
<1>2. /\ replay.stage = "flush" /\ Still /\ retained' = retained
      /\ Listed' /\ OnDisk' = OnDisk /\ stuck' = stuck
      /\ SnapshotRoots' = SnapshotRoots /\ StuckTasks' = StuckTasks
      /\ \A t : Snapshot(t)' = Snapshot(t)
      /\ AllDone /\ AllDone' /\ (fatal' <=> fatal) /\ Completed' = Completed
  BY <1>1, AloneFacts
<1>3. replay \in Replays /\ host \subseteq Tasks /\ ~partial
  BY <1>2, ReplayDoneFacts DEF IsoInv, ReplayFits
<1>4. host' \subseteq Tasks /\ partial' \in BOOLEAN
  <2>1. replay.merged \subseteq Tasks
    BY <1>3 DEF Replays
  <2>2. \A S \in Shown(Integration, replay.merged) : S \subseteq replay.merged
    BY DEF Shown
  <2>3. PICK S \in SUBSET replay.merged : host' = host \cup S
    BY <1>1, <2>2
  <2>4. partial' \in BOOLEAN
    BY <1>1, <1>2, ReplayDoneFacts
  <2> QED
    BY <1>3, <2>1, <2>3, <2>4
<1>5. /\ replay' \in Replays /\ replay'.stage = "discardAll" /\ replay'.doomed = replay.doomed
      /\ replay'.next = replay.next /\ replay'.merged = replay.merged
  BY <1>1, <1>3 DEF Replays
<1>6. ReplayFits'
  BY <1>2, <1>4, <1>5 DEF IsoInv, ReplayFits, Replays
<1>7. ReplayAccounted'
  BY <1>2, <1>5, AllDoneFacts DEF ReplayAccounted
<1>8. ASSUME Roomy PROVE ReplayAlive' /\ ReplayCarries'
  <2>1. ReplayAlive /\ ReplayCarries
    BY <1>2, <1>8, AllDoneFacts
  <2>2. ReplayAlive'
    BY <1>2, <1>5, <2>1 DEF ReplayAlive, Mine
  <2>3. Integration \in OnDisk /\ Integration \notin stuck /\ host = {}
        /\ Brings(replay.merged, Tasks)
    BY <1>2, <2>1 DEF ReplayAlive, ReplayCarries
  <2>4. ~partial' => host' = replay.merged
    BY <1>1, <2>3 DEF Shown
  <2>5. ~partial' => Brings(host, Tasks)'
    BY <1>2, <2>3, <2>4 DEF Brings
  <2>6. ReplayCarries'
    BY <1>2, <1>5, <2>1, <2>5 DEF ReplayCarries
  <2> QED
    BY <2>2, <2>6
<1> QED
  BY <1>2, <1>4, <1>6, <1>7, <1>8, ReplayKeepsIsoInv

LEMMA DiscardKeepsIsoInv ==
  ASSUME IsoInv, Discard
  PROVE  IsoInv'
<1> DEFINE dead == SnapshotRoots
                     \cup (IF replay.stage = "discardAll" THEN {Integration} ELSE {})
<1>1. /\ replay.stage \in {"discard", "discardAll"} /\ Still
      /\ IF partial /\ DebugEnabled THEN UNCHANGED <<roots, stuck>> ELSE Clear(dead)
      /\ retained' = {} /\ UNCHANGED <<partial, host, others>>
      /\ replay' = [replay EXCEPT !.stage = "over"]
  BY DEF Discard, Replaying, Still
<1>2. /\ replay \in Replays /\ host' \subseteq Tasks
      /\ AllDone /\ AllDone' /\ fatal' = fatal /\ Completed' = Completed
  BY <1>1, ReplayDoneFacts DEF Still, vars
<1>3. /\ replay' \in Replays /\ replay'.stage = "over" /\ replay'.doomed = replay.doomed
      /\ replay'.next = replay.next /\ replay'.merged = replay.merged
  BY <1>1, <1>2 DEF Replays
<1>4. SnapshotRoots \subseteq dead /\ (replay.stage = "discardAll" => Integration \in dead)
  OBVIOUS
<1> HIDE DEF dead
<1>5. /\ Listed' /\ OnDisk' \subseteq OnDisk /\ stuck \subseteq stuck'
      /\ ~DebugEnabled => \A r \in OnDisk' : r \in dead /\ Mine(r) => r \in stuck'
  <2>1. CASE partial /\ DebugEnabled
    BY <1>1, <2>1, SameDisk
  <2>2. CASE ~(partial /\ DebugEnabled)
    BY <1>1, <2>2, ClearFacts, ReplayDoneFacts
  <2> QED
    BY <2>1, <2>2
<1>6. StuckTasks \subseteq StuckTasks' /\ SnapshotRoots' = {}
  BY <1>1, <1>5, StuckTasksGrow DEF SnapshotRoots
<1>7. ReplayFits'
  BY <1>1, <1>2, <1>3, <1>5 DEF IsoInv, ReplayFits, Replays
<1>8. ReplayAccounted'
  <2> SUFFICES ASSUME ~DebugEnabled
               PROVE  /\ \A r \in OnDisk' : r[1] \in Segments => r \in stuck'
                      /\ Integration \in OnDisk' \ stuck' => partial
    BY <1>1 DEF ReplayAccounted
  <2>1. ReplayAccounted
    BY <1>2, AllDoneFacts
  <2>2. ASSUME NEW r \in OnDisk', r[1] \in Segments PROVE r \in stuck'
    BY <1>4, <1>5, <2>1, <2>2 DEF ReplayAccounted, Mine
  <2>3. Integration \in OnDisk' \ stuck' => partial
    BY <1>1, <1>4, <1>5, <2>1, IntegrationFacts DEF ReplayAccounted
  <2> QED
    BY <2>2, <2>3
<1>9. ASSUME Roomy PROVE ReplayAlive' /\ ReplayCarries'
  <2>1. ReplayAlive /\ ReplayCarries
    BY <1>2, <1>9, AllDoneFacts
  <2>2. ReplayAlive'
    BY <1>3, <1>6, <2>1 DEF ReplayAlive, Mine
  <2>3. ReplayCarries'
    BY <1>1, <1>2, <1>3, <1>6, <2>1 DEF ReplayCarries, Brings
  <2> QED
    BY <2>2, <2>3
<1> QED
  BY <1>1, <1>2, <1>5, <1>7, <1>8, <1>9, ReplayKeepsIsoInv

LEMMA GiveUpKeepsIsoInv ==
  ASSUME IsoInv, GiveUp
  PROVE  IsoInv'
<1>1. /\ AllDone /\ fatal /\ Alone("idle") /\ UNCHANGED <<partial, host>>
      /\ replay' = [replay EXCEPT !.stage = "over"]
  BY DEF GiveUp
<1>2. /\ replay.stage = "idle" /\ Still /\ retained' = retained
      /\ Listed' /\ OnDisk' = OnDisk /\ stuck' = stuck
      /\ SnapshotRoots' = SnapshotRoots
      /\ AllDone' /\ fatal' /\ Completed' = Completed
  BY <1>1, AloneFacts
<1>3. /\ host' \subseteq Tasks
      /\ replay' \in Replays /\ replay'.stage = "over" /\ replay'.doomed = replay.doomed
      /\ replay'.next = replay.next /\ replay'.merged = replay.merged
  BY <1>1, <1>2, StageMoves
<1>4. Integration \notin OnDisk
  BY <1>2 DEF IsoInv, ReplayFits
<1>5. ReplayFits'
  BY <1>1, <1>2, <1>3, <1>4 DEF IsoInv, ReplayFits, Replays
<1>6. ReplayAccounted'
  BY <1>1, <1>2, <1>3, <1>4, AllDoneFacts DEF ReplayAccounted
<1>7. ASSUME Roomy PROVE ReplayAlive' /\ ReplayCarries'
  <2>1. ReplayAlive /\ ReplayCarries
    BY <1>1, <1>7, AllDoneFacts
  <2>2. ReplayAlive'
    BY <1>2, <1>3, <2>1 DEF ReplayAlive, Mine
  <2>3. ReplayCarries'
    BY <1>2, <1>3 DEF ReplayCarries
  <2> QED
    BY <2>2, <2>3
<1> QED
  BY <1>1, <1>2, <1>3, <1>5, <1>6, <1>7, ReplayKeepsIsoInv

LEMMA ReplayStepKeepsIsoInv ==
  ASSUME IInv, IsoInv, ReplayStep
  PROVE  IsoInv'
BY BeginReplayKeepsIsoInv, ReplayScanKeepsIsoInv, ReplayPurgeKeepsIsoInv,
   ReplayMakeKeepsIsoInv, ReplayMergeKeepsIsoInv, ReplayBreaksKeepsIsoInv, VerifyKeepsIsoInv,
   FlushKeepsIsoInv, DiscardKeepsIsoInv, GiveUpKeepsIsoInv DEF ReplayStep
-----------------------------------------------------------------------------
(* The steps of the surroundings.                                          *)

OtherMoves == UNCHANGED <<vars, lease, retained, replay, partial, host>>

(* Another run's step takes none of this run's roots, when its prune       *)
(* spares them.                                                            *)
Harmless ==
  /\ \A r \in OnDisk : Mine(r) => r \in OnDisk'
  /\ \A n \in 1 .. OtherLeases : \A r \in others'[n].doomed : ~Mine(r)
  /\ \A r \in stuck' : r \in stuck

LEMMA OtherKeepsIsoInv ==
  ASSUME IInv, IsoInv, OtherMoves, others' \in [1 .. OtherLeases -> OtherStates],
         Listed', stuck \subseteq stuck', \A r \in OnDisk' : r \in OnDisk \/ r[1] = "other",
         Roomy /\ PrunesSpare => Harmless
  PROVE  IsoInv'
<1>1. UNCHANGED <<vars, worker, results, fatal, lease, retained, replay, partial, host>>
  BY DEF OtherMoves, vars
<1>2. \A v \in Workers : (Using(v)' <=> Using(v)) /\ OwnRoot(v)' = OwnRoot(v)
  BY <1>1 DEF Using, At, OwnRoot, Root
<1>3. Completed' = Completed /\ (AllDone' <=> AllDone)
  BY <1>1 DEF Completed, AllDone
<1>4. SnapshotRoots' = SnapshotRoots /\ \A t : Snapshot(t)' = Snapshot(t)
  BY <1>1, SameSnapshots DEF Snapshot, Root
<1>5. \A r \in OnDisk' : r[1] \in Segments \/ r = Integration => r \in OnDisk
  BY RootsAssumption, IntegrationFacts
<1>6. ReplayFits'
  BY <1>1, <1>3, <1>5 DEF IsoInv, ReplayFits
<1>7. IsoTypeOK' /\ LeasesFit' /\ RetainedFits'
  <2>1. host' \subseteq Tasks
    BY <1>1 DEF IsoInv, IsoTypeOK
  <2> QED
    BY <1>1, <1>6, <2>1, RootsKept
<1>8. RootsAccounted'
  <2> SUFFICES ASSUME ~DebugEnabled
               PROVE  /\ \A r \in OnDisk' : r[1] \in Segments =>
                           \/ r \in SnapshotRoots' \cup stuck'
                           \/ \E w \in Workers : Using(w)' /\ OwnRoot(w)' = r
                      /\ Integration \in OnDisk' \ stuck' /\ replay'.stage \in {"discard", "over"}
                           => partial'
                      /\ replay'.stage = "over" /\ ~fatal' => retained' = {}
    BY DEF RootsAccounted, Using
  <2>1. /\ \A r \in OnDisk : r[1] \in Segments =>
             \/ r \in SnapshotRoots \cup stuck
             \/ \E w \in Workers : Using(w) /\ OwnRoot(w) = r
        /\ Integration \in OnDisk \ stuck /\ replay.stage \in {"discard", "over"} => partial
        /\ replay.stage = "over" /\ ~fatal => retained = {}
    BY DEF IsoInv, RootsAccounted, Using
  <2> QED
    BY <1>1, <1>2, <1>4, <1>5, <2>1
<1>9. ASSUME Roomy PROVE PrunesSpare' /\ LiveRootsKept' /\ ReplayCarries'
  <2>1. PrunesSpare /\ LiveRootsKept /\ ReplayCarries
    BY <1>9 DEF IsoInv
  <2>2. Harmless
    BY <1>9, <2>1
  <2>3. PrunesSpare'
    BY <1>1, <2>1, <2>2 DEF PrunesSpare, Harmless, Mine
  <2>4. ASSUME NEW v \in Workers, Using(v)' PROVE OwnRoot(v)' \in OnDisk'
    <3>1. Using(v) /\ Executing(v)
      BY <1>2, <2>4 DEF Using, At, Executing
    <3>2. OwnRoot(v) \in OnDisk /\ Mine(OwnRoot(v))
      BY <2>1, <3>1, OwnRootFacts, LiveSplit DEF Mine
    <3> QED
      BY <1>2, <2>2, <3>2 DEF Harmless
  <2>5. SnapshotRoots' \subseteq OnDisk'
    BY <1>1, <1>4, <2>1, <2>2, SameSnapshots, LiveSplit DEF Harmless, Mine
  <2>6. replay'.stage \in {"merge", "verify", "flush"} => Integration \in OnDisk'
    BY <1>1, <2>1, <2>2, IntegrationFacts, LiveSplit DEF Harmless
  <2>7. LiveRootsKept'
    BY <2>4, <2>5, <2>6 DEF LiveRootsKept, InUse, Using
  <2>8. StuckTasks \subseteq StuckTasks'
    BY StuckTasksGrow
  <2>9. ReplayCarries'
    <3>1. stuck' = stuck
      BY <2>2 DEF Harmless
    <3>2. StuckTasks' = StuckTasks
      BY <3>1 DEF StuckTasks, Root
    <3> QED
      BY <1>1, <1>3, <1>4, <2>1, <3>1, <3>2 DEF ReplayCarries, Brings
  <2> QED
    BY <2>3, <2>7, <2>9
<1>10. Roomy' <=> Roomy
  BY DEF Roomy
<1> QED
  BY <1>6, <1>7, <1>8, <1>9, <1>10 DEF IsoInv

LEMMA OtherAtFacts ==
  ASSUME IsoInv, NEW n \in 1 .. OtherLeases, NEW stage, NEW next \in OtherStates,
         OtherAt(n, stage, next)
  PROVE  /\ OtherMoves /\ others[n].stage = stage
         /\ others' \in [1 .. OtherLeases -> OtherStates] /\ others'[n] = next
         /\ \A m \in 1 .. OtherLeases : m # n => others'[m] = others[m]
<1>1. others \in [1 .. OtherLeases -> OtherStates]
  BY DEF IsoInv, LeasesFit, OtherStates
<1> QED
  BY <1>1 DEF OtherAt, OtherMoves

LEMMA OtherScanKeepsIsoInv ==
  ASSUME IInv, IsoInv, NEW n \in 1 .. OtherLeases, OtherScan(n)
  PROVE  IsoInv'
<1> DEFINE next == [stage |-> "purge", doomed |-> Doomed]
<1>1. OtherAt(n, "scan", next) /\ UNCHANGED <<roots, stuck>>
  BY DEF OtherScan
<1>2. next \in OtherStates /\ next.stage # "over" /\ next.doomed = Doomed
  BY ListedHolds, DoomedOnDisk DEF OtherStates
<1> HIDE DEF next
<1>3. /\ OtherMoves /\ others[n].stage = "scan"
      /\ others' \in [1 .. OtherLeases -> OtherStates] /\ others'[n] = next
      /\ \A m \in 1 .. OtherLeases : m # n => others'[m] = others[m]
  BY <1>1, <1>2, OtherAtFacts
<1>4. Made' = Made /\ n \notin Made
  BY <1>2, <1>3 DEF Made
<1>5. Listed' /\ OnDisk' = OnDisk
  BY <1>1, <1>4, ListedHolds DEF Listed, StuckFits, OnDisk
<1>6. Roomy => \A r \in Doomed : ~Mine(r)
  BY <1>4, RoomSpares
<1>7. Roomy /\ PrunesSpare => Harmless
  BY <1>1, <1>2, <1>3, <1>5, <1>6 DEF PrunesSpare, Harmless
<1> QED
  BY <1>1, <1>3, <1>5, <1>7, OtherKeepsIsoInv

LEMMA OtherPurgeKeepsIsoInv ==
  ASSUME IInv, IsoInv, NEW n \in 1 .. OtherLeases, OtherPurge(n)
  PROVE  IsoInv'
<1> DEFINE next == [stage |-> "make", doomed |-> {}]
           dead == others[n].doomed
<1>1. OtherAt(n, "purge", next) /\ Clear(dead)
  BY DEF OtherPurge
<1>2. next \in OtherStates /\ next.stage # "over" /\ next.doomed = {}
  BY DEF OtherStates
<1> HIDE DEF next
<1>3. /\ OtherMoves /\ others[n].stage = "purge"
      /\ others' \in [1 .. OtherLeases -> OtherStates] /\ others'[n] = next
      /\ \A m \in 1 .. OtherLeases : m # n => others'[m] = others[m]
  BY <1>1, <1>2, OtherAtFacts
<1>4. Made' = Made
  BY <1>2, <1>3 DEF Made
<1>5. PrunesSpare => \A r \in dead : ~Mine(r)
  BY DEF PrunesSpare
<1> HIDE DEF dead
<1>6. /\ Listed' /\ OnDisk' \subseteq OnDisk /\ OnDisk \ dead \subseteq OnDisk'
      /\ stuck \subseteq stuck' /\ \A r \in stuck' : r \in stuck \/ r \in dead
  BY <1>1, <1>4, ClearFacts
<1>7. \A r \in stuck' : Mine(r)
  BY <1>6, OwnNamesFacts DEF Listed, StuckFits, Mine, OwnNames
<1>8. Roomy /\ PrunesSpare => Harmless
  BY <1>2, <1>3, <1>5, <1>6, <1>7 DEF PrunesSpare, Harmless
<1> QED
  BY <1>3, <1>6, <1>8, OtherKeepsIsoInv

LEMMA OtherMakeKeepsIsoInv ==
  ASSUME IInv, IsoInv, NEW n \in 1 .. OtherLeases, OtherMake(n)
  PROVE  IsoInv'
<1> DEFINE next == [stage |-> "over", doomed |-> {}]
           r == <<"other", n>>
<1>1. OtherAt(n, "make", next) /\ roots' = Append(roots, r) /\ UNCHANGED stuck
  BY DEF OtherMake
<1>2. next \in OtherStates /\ next.stage = "over" /\ next.doomed = {}
  BY DEF OtherStates
<1> HIDE DEF next
<1>3. /\ OtherMoves /\ others[n].stage = "make"
      /\ others' \in [1 .. OtherLeases -> OtherStates] /\ others'[n] = next
      /\ \A m \in 1 .. OtherLeases : m # n => others'[m] = others[m]
  BY <1>1, <1>2, OtherAtFacts
<1>4. Made' = Made \cup {n} /\ n \notin Made
  BY <1>2, <1>3 DEF Made
<1>5. /\ r \in RootNames /\ r[1] = "other" /\ r[2] = n /\ r[1] # "old"
  BY DEF RootNames
<1> HIDE DEF r
<1>6. RootList(roots, Made) /\ StuckFits
  BY ListedHolds DEF Listed
<1>7. RootList(roots, Made')
  BY <1>4, <1>6 DEF RootList
<1>8. r \notin OnDisk
  BY <1>4, <1>5, <1>6 DEF RootList, OnDisk, ToSet
<1>9. RootList(roots', Made') /\ OnDisk' = OnDisk \cup {r}
  BY <1>1, <1>4, <1>5, <1>7, <1>8, AppendIsList DEF OnDisk
<1>10. Listed'
  BY <1>1, <1>6, <1>9 DEF Listed, StuckFits
<1>11. Roomy /\ PrunesSpare => Harmless
  BY <1>1, <1>2, <1>3, <1>9 DEF PrunesSpare, Harmless
<1> QED
  BY <1>1, <1>3, <1>5, <1>9, <1>10, <1>11, OtherKeepsIsoInv

(* Steps that leave disk and scheduler alone, but for the abort flag.      *)
LEMMA QuietKeepsIsoInv ==
  ASSUME IsoInv, UNCHANGED <<worker, results, fatal, diskVars>>
  PROVE  IsoInv'
<1>1. /\ UNCHANGED <<roots, lease, retained, replay, partial, host, stuck, others>>
      /\ OnDisk' = OnDisk /\ Completed' = Completed /\ (AllDone' <=> AllDone)
      /\ Made' = Made /\ StuckTasks' = StuckTasks /\ SnapshotRoots' = SnapshotRoots
      /\ \A v \in Workers : OwnRoot(v)' = OwnRoot(v)
      /\ \A v \in Workers, st \in {"fill", "work"} : At(v, st)' <=> At(v, st)
      /\ \A t : Snapshot(t)' = Snapshot(t)
  BY DEF diskVars, OnDisk, Completed, AllDone, OwnRoot, Root, At, Made, StuckTasks, SnapshotRoots,
     Snapshot
<1>2. IsoTypeOK' /\ LeasesFit' /\ ReplayFits' /\ RetainedFits'
  BY <1>1 DEF IsoInv, IsoTypeOK, LeasesFit, ReplayFits, RetainedFits
<1>3. RootsAccounted'
  BY <1>1 DEF IsoInv, RootsAccounted
<1>4. PrunesSpare' <=> PrunesSpare
  BY <1>1 DEF PrunesSpare, Mine
<1>5. LiveRootsKept' <=> LiveRootsKept
  BY <1>1 DEF LiveRootsKept, InUse
<1>6. ReplayCarries' <=> ReplayCarries
  BY <1>1 DEF ReplayCarries, Brings
<1>7. Roomy' <=> Roomy
  BY DEF Roomy
<1> QED
  BY <1>2, <1>3, <1>4, <1>5, <1>6, <1>7 DEF IsoInv

LEMMA InitIsoInv == ASSUME IsoInit PROVE IsoInv
<1>1. /\ roots = [k \in 1 .. OldRoots |-> <<"old", k>>] /\ OldRoots \in Nat
      /\ lease = [w \in Workers |-> NoLease] /\ retained = {}
      /\ replay = [stage |-> "idle", doomed |-> {}, next |-> 1, merged |-> {}]
      /\ partial = FALSE /\ host = {} /\ stuck = {} /\ MaxStuck \in Nat
      /\ others = [n \in 1 .. OtherLeases |-> [stage |-> "scan", doomed |-> {}]]
  BY RootsAssumption DEF IsoInit
<1>2. /\ ~fatal /\ DOMAIN results = {} /\ Completed = {}
      /\ \A w \in Workers : worker[w].pc = "loop"
  BY DEF IsoInit, Init, Completed
<1>3. /\ DOMAIN roots = 1 .. OldRoots
      /\ \A k \in 1 .. OldRoots : roots[k] = <<"old", k>> /\ roots[k] \in RootNames
  BY <1>1 DEF RootNames
<1>4. roots \in Seq(RootNames)
  <2>1. roots \in [1 .. OldRoots -> RootNames]
    BY <1>1, <1>3
  <2> QED
    BY <1>1, <2>1, SeqDef
<1>5. OnDisk \subseteq RootNames /\ \A r \in OnDisk : r[1] = "old"
  BY <1>3 DEF OnDisk, ToSet
<1>6. \A i, j \in DOMAIN roots : roots[i] = roots[j] => i = j
  BY <1>3
<1>7. IsoTypeOK
  <2>1. Cardinality(stuck) <= MaxStuck
    BY <1>1, FS_EmptySet
  <2> QED
    BY <1>1, <1>2, <1>5, <1>6, <2>1 DEF IsoTypeOK, NoLease
<1>8. LeasesFit
  <2>1. lease \in [Workers -> [stage : {"idle", "scan", "purge", "make", "fill", "work"},
                               attempt : 0 .. 2, doomed : SUBSET RootNames]]
    BY <1>1 DEF NoLease
  <2>2. \A w \in Workers : lease[w].stage = "idle"
    BY <1>1 DEF NoLease
  <2>3. others \in [1 .. OtherLeases -> [stage : {"scan", "purge", "make", "over"},
                                         doomed : SUBSET RootNames]]
    BY <1>1
  <2>4. \A i \in DOMAIN roots : roots[i][1] = "old"
    BY <1>3
  <2> QED
    BY <1>4, <2>1, <2>2, <2>3, <2>4 DEF LeasesFit
<1>9. ReplayFits
  <2>1. Integration \notin OnDisk
    BY <1>5, IntegrationFacts
  <2>2. replay \in Replays
    BY <1>1 DEF Replays
  <2>3. partial \in BOOLEAN
    BY <1>1
  <2>4. replay.stage = "idle" /\ ~partial
    BY <1>1
  <2> QED
    BY <2>1, <2>2, <2>3, <2>4 DEF ReplayFits, Replays
<1>10. RetainedFits
  BY <1>1 DEF RetainedFits
<1>11. RootsAccounted
  BY <1>1, <1>5, RootsAssumption DEF RootsAccounted
<1>12. PrunesSpare
  BY <1>1 DEF PrunesSpare, NoLease
<1>13. LiveRootsKept
  BY <1>1, <1>2 DEF LiveRootsKept, InUse, At, SnapshotRoots
<1>14. ReplayCarries
  BY <1>1, <1>2 DEF ReplayCarries
<1> QED
  BY <1>7, <1>8, <1>9, <1>10, <1>11, <1>12, <1>13, <1>14 DEF IsoInv

LEMMA IsoNextKeepsIsoInv ==
  ASSUME IInv, IsoInv, [IsoNext]_allVars
  PROVE  IsoInv'
<1>1. CASE IsoAbort
  BY <1>1, QuietKeepsIsoInv DEF IsoAbort, Abort
<1>2. CASE Finished \/ UNCHANGED allVars
  BY <1>2, QuietKeepsIsoInv DEF Finished, allVars, vars
<1>3. ASSUME NEW n \in 1 .. OtherLeases, OtherStep(n) PROVE IsoInv'
  BY <1>3, OtherScanKeepsIsoInv, OtherPurgeKeepsIsoInv, OtherMakeKeepsIsoInv DEF OtherStep
<1> QED
  BY <1>1, <1>2, <1>3, WorkerKeepsIsoInv, ReplayStepKeepsIsoInv DEF IsoNext
-----------------------------------------------------------------------------
(* The theorems.                                                           *)

(* The inductive invariant of the mounts, relative to the scheduler's.     *)
(* Any removal may fail in it, and leaves the root where it is             *)
(* (pruneBranchfsRoots, unmountExperiment, prepareExperimentLease).        *)
THEOREM IsoInductiveInvariant == IsoSpec => []IsoInv
<1>1. IsoInit => IsoInv
  BY InitIsoInv
<1>2. IInv /\ IsoInv /\ [IsoNext]_allVars => IsoInv'
  BY IsoNextKeepsIsoInv
<1>3. IsoSpec => []IInv
  BY IsolatedUsesScheduler, InductiveInvariant, PTL
<1> QED
  BY <1>1, <1>2, <1>3, PTL DEF IsoSpec

(* Roots, snapshots and leases have their types, no root is listed twice,  *)
(* and a worker executes just as long as it holds a lease.                 *)
THEOREM IsoTypeCorrect == IsoSpec => []IsoTypeOK
<1>1. IsoInv => IsoTypeOK
  BY DEF IsoInv
<1> QED
  BY <1>1, IsoInductiveInvariant, PTL

(* What a run leaves below .local/branchfs when it is over is accounted    *)
(* for: the roots that resisted a removal, after a throw the snapshots     *)
(* that completed, else at most the integration mount of a partial run     *)
(* (executeReadyRun's finally clause, unmountExperiment).                  *)
THEOREM LeftBehindAlways == IsoSpec => []LeftBehind
<1>1. ASSUME IsoInv PROVE LeftBehind
  <2> SUFFICES ASSUME replay.stage = "over", ~DebugEnabled
               PROVE  IF fatal THEN OwnRoots \subseteq SnapshotRoots \cup stuck
                      ELSE OwnRoots \subseteq (IF partial THEN {Integration} ELSE {}) \cup stuck
    BY DEF LeftBehind
  <2>1. AllDone
    BY <1>1 DEF IsoInv, ReplayFits
  <2>2. ReplayAccounted
    BY <1>1, <2>1, AllDoneFacts
  <2>3. fatal => Integration \notin OnDisk
    BY <1>1 DEF IsoInv, ReplayFits
  <2>4. \A r \in OwnRoots : r \in OnDisk /\ (r[1] \in Segments \/ r = Integration)
    BY <1>1, OwnNamesFacts DEF OwnRoots, IsoInv, IsoTypeOK, OwnNames
  <2>5. ~fatal => SnapshotRoots = {}
    BY <2>2 DEF ReplayAccounted, SnapshotRoots
  <2> QED
    BY <2>2, <2>3, <2>4, <2>5 DEF ReplayAccounted
<1> QED
  BY <1>1, IsoInductiveInvariant, PTL

(* Nothing is copied to the project once an integration has failed         *)
(* (verifyIntegration before flushExperiment in executeReadyRun).          *)
THEOREM OnlyVerifiedFlushedAlways == IsoSpec => OnlyVerifiedFlushed
<1>1. ASSUME IsoInv, [IsoNext]_allVars, host' # host PROVE ~partial
  <2>1. \A w \in Workers : WorkerStep(w) => UNCHANGED host
    BY DEF WorkerStep, Take, Idle, Scan, Purge, MakeRoot, Fill, Complete, Fail,
       RetryTransient, Aborted, Settled, diskVars
  <2>2. ReplayStep => Flush
    BY <1>1 DEF ReplayStep, BeginReplay, ReplayScan, ReplayPurge, ReplayMake, ReplayMerge,
       ReplayBreaks, Verify, Discard, GiveUp
  <2>3. (\E n \in 1 .. OtherLeases : OtherStep(n)) => UNCHANGED host
    BY DEF OtherStep, OtherScan, OtherPurge, OtherMake, OtherAt
  <2>4. IsoAbort \/ Finished \/ UNCHANGED allVars => UNCHANGED host
    BY DEF IsoAbort, Finished, allVars, diskVars
  <2>5. Flush
    BY <1>1, <2>1, <2>2, <2>3, <2>4 DEF IsoNext
  <2> QED
    BY <1>1, <2>5 DEF Flush, Alone, Replaying, IsoInv, ReplayFits
<1>2. IsoInv /\ [IsoNext]_allVars => [host' # host => ~partial]_allVars
  BY <1>1
<1> QED
  BY <1>2, IsoInductiveInvariant, PTL DEF IsoSpec, OnlyVerifiedFlushed

(* With room for a root of every task of the run, for those that resist a  *)
(* removal and for every lease other runs prepare meanwhile, and no        *)
(* segment for two tasks, pruneBranchfsRoots never deletes a mount that is *)
(* worked in, waits for its integration or is the integration itself.      *)
THEOREM LiveRootsKeptAlways == ASSUME Roomy PROVE IsoSpec => []LiveRootsKept
<1>1. IsoInv => LiveRootsKept
  BY DEF IsoInv
<1> QED
  BY <1>1, IsoInductiveInvariant, PTL

(* Under the same condition a run that reports no gap has brought the      *)
(* changes of every completed subagent to the project, but for those       *)
(* hidden in a root that resisted a removal, and of no other task.         *)
THEOREM CompletedReachProjectAlways ==
  ASSUME Roomy PROVE IsoSpec => []CompletedReachProject
<1>1. Completed \cap Tasks = Completed
  BY DEF Completed
<1>2. IsoInv => CompletedReachProject
  BY <1>1 DEF IsoInv, ReplayCarries, CompletedReachProject, Brings
<1> QED
  BY <1>2, IsoInductiveInvariant, PTL
=============================================================================
