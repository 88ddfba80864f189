---------------------------- MODULE SubagentProofs ----------------------------
(***************************************************************************)
(* What holds of the subagent scheduler for every plan, every ownership    *)
(* and every number of workers: its inductive invariant, the properties    *)
(* that follow from it, and that it implements the task pool.              *)
(***************************************************************************)
EXTENDS SubagentScheduler, FiniteSetTheorems, SequenceTheorems, TLAPS

(* The order of the queue.                                                 *)

LEMMA PlanFacts ==
  /\ Len(Plan) \in Nat /\ DOMAIN Plan = 1 .. Len(Plan)
  /\ Plan \in [1 .. Len(Plan) -> Tasks]
  /\ \A t \in Tasks : \E i \in 1 .. Len(Plan) : Plan[i] = t
  /\ \A i, j \in 1 .. Len(Plan) : Plan[i] = Plan[j] => i = j
  /\ IsFiniteSet(1 .. Len(Plan)) /\ Cardinality(1 .. Len(Plan)) = Len(Plan)
<1> DEFINE D == 1 .. Len(Plan)
<1>1. Len(Plan) \in Nat /\ DOMAIN Plan = D /\ Plan \in [D -> Tasks]
  BY PlanAssumption, LenProperties
<1>2. \A t \in Tasks : \E i \in D : Plan[i] = t
  BY <1>1 DEF Tasks, ToSet
<1>3. Plan \in Surjection(D, Tasks)
  BY <1>1, <1>2 DEF Surjection
<1>4. IsFiniteSet(D) /\ Cardinality(D) = Len(Plan)
  BY <1>1, FS_Interval
<1>5. Plan \in Injection(D, Tasks)
  <2>1. Cardinality(D) = Cardinality(Tasks)
    BY <1>4, PlanAssumption
  <2> QED
    BY <1>3, <1>4, <2>1, FS_SurjSameCardinalityImpliesInj
<1>6. \A i, j \in D : Plan[i] = Plan[j] => i = j
  BY <1>5 DEF Injection, IsInjective
<1> QED
  BY <1>1, <1>2, <1>4, <1>6

LEMMA BeforeIsAnOrder ==
  /\ \A i \in DOMAIN Plan : ~Before(i, i)
  /\ \A i, j \in DOMAIN Plan : i # j => Before(i, j) \/ Before(j, i)
  /\ \A i, j, k \in DOMAIN Plan : Before(i, j) /\ Before(j, k) => Before(i, k)
<1> USE PlanFacts
<1> DEFINE Root(i) == TouchesRoot(Plan[i])
<1>1. \A i, j : Before(i, j) <=> (Root(i) /\ ~Root(j)) \/ ((Root(i) <=> Root(j)) /\ i < j)
  BY DEF Before
<1>2. \A i \in DOMAIN Plan : i \in Nat
  OBVIOUS
<1> HIDE DEF Root
<1> QED
  BY <1>1, <1>2

LEMMA PlaceIsMonotone ==
  /\ \A i \in DOMAIN Plan : Place(i) \in 1 .. Len(Plan)
  /\ \A i, j \in DOMAIN Plan : Before(i, j) => Place(i) < Place(j)
<1> DEFINE D == 1 .. Len(Plan)
           Below(i) == {j \in D : Before(j, i)}
<1>1. Len(Plan) \in Nat /\ DOMAIN Plan = D
  BY PlanFacts
<1>2. IsFiniteSet(D) /\ Cardinality(D) = Len(Plan)
  BY PlanFacts
<1>3. \A i : Place(i) = Cardinality(Below(i)) + 1
  BY <1>1 DEF Place
<1>4. ASSUME NEW i \in D
      PROVE  Cardinality(Below(i)) \in Nat /\ Cardinality(Below(i)) < Len(Plan)
  <2>1. Below(i) \in SUBSET D /\ Below(i) # D
    BY <1>1, BeforeIsAnOrder
  <2> HIDE DEF Below
  <2>2. /\ IsFiniteSet(Below(i))
        /\ Cardinality(Below(i)) <= Len(Plan) /\ Cardinality(Below(i)) # Len(Plan)
    BY <1>2, <2>1, FS_Subset
  <2>3. Cardinality(Below(i)) \in Nat
    BY <2>2, FS_CardinalityType
  <2> QED
    BY <1>1, <2>2, <2>3
<1>5. ASSUME NEW i \in D, NEW j \in D, Before(i, j)
      PROVE  Cardinality(Below(i)) < Cardinality(Below(j))
  <2>1. Below(i) \in SUBSET Below(j) /\ i \in Below(j) /\ i \notin Below(i)
    BY <1>1, <1>5, BeforeIsAnOrder
  <2>2. Below(j) \in SUBSET D
    OBVIOUS
  <2> HIDE DEF Below
  <2>3. IsFiniteSet(Below(j))
    BY <1>2, <2>2, FS_Subset
  <2>4. /\ Cardinality(Below(i)) <= Cardinality(Below(j))
        /\ Cardinality(Below(j)) # Cardinality(Below(i))
    BY <2>1, <2>3, FS_Subset
  <2> QED
    BY <1>4, <2>4
<1> HIDE DEF Below
<1> QED
  BY <1>1, <1>3, <1>4, <1>5

LEMMA PlaceIsOntoAndUnique ==
  /\ \A i, j \in DOMAIN Plan : Place(i) = Place(j) => i = j
  /\ \A k \in DOMAIN Plan : \E i \in DOMAIN Plan : Place(i) = k
<1> DEFINE D == 1 .. Len(Plan)
           f == [i \in D |-> Place(i)]
<1>1. Len(Plan) \in Nat /\ DOMAIN Plan = D
  BY PlanFacts
<1>2. \A i \in D : Place(i) \in D
  BY <1>1, PlaceIsMonotone
<1>3. ASSUME NEW i \in D, NEW j \in D, Place(i) = Place(j)
      PROVE  i = j
  <2>1. ~(Place(i) < Place(j)) /\ ~(Place(j) < Place(i))
    BY <1>1, <1>2, <1>3
  <2> QED
    BY <1>1, <2>1, PlaceIsMonotone, BeforeIsAnOrder
<1>4. f \in [D -> D] /\ \A i \in D : f[i] = Place(i)
  BY <1>2
<1> HIDE DEF f
<1>5. f \in Injection(D, D)
  BY <1>3, <1>4 DEF Injection, IsInjective
<1>6. IsFiniteSet(D)
  BY PlanFacts
<1>7. f \in Surjection(D, D)
  BY <1>5, <1>6, FS_Injection
<1>8. \A k \in D : \E i \in D : Place(i) = k
  BY <1>4, <1>7 DEF Surjection
<1> QED
  BY <1>1, <1>3, <1>8

(* The order the scheduler starts with is a permutation of the plan; in a  *)
(* shared checkout no task stands before a root that it is not one of      *)
(* (orderSameWorktreeTasks).                                               *)
LEMMA OrderedPlanFacts ==
  /\ OrderedPlan \in [DOMAIN Plan -> Tasks]
  /\ \A i, j \in DOMAIN Plan : OrderedPlan[i] = OrderedPlan[j] => i = j
  /\ \A t \in Tasks : \E i \in DOMAIN Plan : OrderedPlan[i] = t
  /\ SameWorktree => \A i, j \in DOMAIN Plan :
       i < j /\ TouchesRoot(OrderedPlan[j]) => TouchesRoot(OrderedPlan[i])
<1>1. CASE ~SameWorktree
  BY <1>1, PlanFacts DEF OrderedPlan
<1>2. CASE SameWorktree
  <2> DEFINE At(k) == CHOOSE i \in DOMAIN Plan : Place(i) = k
  <2>1. \A k \in DOMAIN Plan : At(k) \in DOMAIN Plan /\ Place(At(k)) = k
    BY PlaceIsOntoAndUnique
  <2>2. \A i \in DOMAIN Plan : Place(i) \in DOMAIN Plan /\ At(Place(i)) = i
    BY <2>1, PlaceIsOntoAndUnique, PlaceIsMonotone, PlanFacts
  <2>3. OrderedPlan = [k \in DOMAIN Plan |-> Plan[At(k)]]
    BY <1>2 DEF OrderedPlan
  <2> HIDE DEF At
  <2>4. \A i, j \in DOMAIN Plan : OrderedPlan[i] = OrderedPlan[j] => i = j
    BY <2>1, <2>3, PlanFacts
  <2>5. \A t \in Tasks : \E i \in DOMAIN Plan : OrderedPlan[i] = t
    <3> TAKE t \in Tasks
    <3>1. PICK i \in DOMAIN Plan : Plan[i] = t
      BY PlanFacts
    <3>2. Place(i) \in DOMAIN Plan /\ OrderedPlan[Place(i)] = t
      BY <2>2, <2>3, <3>1
    <3> QED
      BY <3>2
  <2>6. ASSUME NEW i \in DOMAIN Plan, NEW j \in DOMAIN Plan, i < j,
               TouchesRoot(OrderedPlan[j]), ~TouchesRoot(OrderedPlan[i])
        PROVE  FALSE
    <3>1. Before(At(j), At(i))
      BY <2>3, <2>6 DEF Before
    <3>2. j < i
      BY <2>1, <3>1, PlaceIsMonotone
    <3> QED
      BY <2>6, <3>2, PlanFacts
  <2>7. OrderedPlan \in [DOMAIN Plan -> Tasks]
    BY <2>1, <2>3, PlanFacts
  <2> QED
    BY <2>4, <2>5, <2>6, <2>7
<1> QED
  BY <1>1, <1>2

(* What taking the entry at position i off the queue leaves.               *)
LEMMA RemoveAtFacts ==
  ASSUME NEW S, NEW s \in Seq(S), NEW i \in 1 .. Len(s)
  PROVE  /\ RemoveAt(s, i) \in Seq(S)
         /\ Len(RemoveAt(s, i)) = Len(s) - 1
         /\ \A k \in 1 .. Len(s) - 1 :
              RemoveAt(s, i)[k] = IF k < i THEN s[k] ELSE s[k + 1]
<1> DEFINE a == SubSeq(s, 1, i - 1)
           b == SubSeq(s, i + 1, Len(s))
<1>1. Len(s) \in Nat /\ i \in Nat /\ i >= 1 /\ i <= Len(s)
  BY LenProperties
<1>2. \A k \in 1 .. Len(s) : s[k] \in S
  BY ElementOfSeq
<1>3. /\ a \in Seq(S) /\ Len(a) = i - 1
      /\ \A k \in 1 .. i - 1 : a[k] = s[k]
  <2>1. \A k \in 1 .. i - 1 : s[k] \in S
    BY <1>1, <1>2
  <2>2. /\ a \in Seq(S)
        /\ Len(a) = IF 1 <= i - 1 THEN i - 1 - 1 + 1 ELSE 0
        /\ \A k \in 1 .. i - 1 - 1 + 1 : a[k] = s[1 + k - 1]
    BY <1>1, <2>1, SubSeqProperties
  <2> HIDE DEF a
  <2>3. \A k \in 1 .. i - 1 : a[k] = s[k]
    BY <1>1, <2>2
  <2> QED
    BY <1>1, <2>2, <2>3
<1>4. /\ b \in Seq(S) /\ Len(b) = Len(s) - i
      /\ \A k \in 1 .. Len(s) - i : b[k] = s[i + k]
  <2>1. \A k \in i + 1 .. Len(s) : s[k] \in S
    BY <1>1, <1>2
  <2>2. /\ b \in Seq(S)
        /\ Len(b) = IF i + 1 <= Len(s) THEN Len(s) - (i + 1) + 1 ELSE 0
        /\ \A k \in 1 .. Len(s) - (i + 1) + 1 : b[k] = s[i + 1 + k - 1]
    BY <1>1, <2>1, SubSeqProperties
  <2> HIDE DEF b
  <2>3. \A k \in 1 .. Len(s) - i : b[k] = s[i + k]
    BY <1>1, <2>2
  <2> QED
    BY <1>1, <2>2, <2>3
<1> HIDE DEF a, b
<1>5. RemoveAt(s, i) = a \o b
  BY DEF RemoveAt, a, b
<1>6. /\ a \o b \in Seq(S) /\ Len(a \o b) = Len(a) + Len(b)
      /\ \A k \in 1 .. Len(a) + Len(b) :
           (a \o b)[k] = IF k <= Len(a) THEN a[k] ELSE b[k - Len(a)]
  BY <1>3, <1>4, ConcatProperties
<1> DEFINE c == a \o b
<1>7. ASSUME NEW k \in 1 .. Len(s) - 1
      PROVE  c[k] = IF k < i THEN s[k] ELSE s[k + 1]
  <2> HIDE DEF c
  <2>1. c[k] = IF k <= i - 1 THEN a[k] ELSE b[k - (i - 1)]
    BY <1>1, <1>3, <1>4, <1>6 DEF c
  <2>2. CASE k < i
    BY <1>1, <1>3, <2>1, <2>2
  <2>3. CASE ~(k < i)
    <3>1. k - (i - 1) \in 1 .. Len(s) - i /\ i + (k - (i - 1)) = k + 1
      BY <1>1, <2>3
    <3>2. b[k - (i - 1)] = s[k + 1]
      BY <1>4, <3>1
    <3> QED
      BY <1>1, <2>1, <2>3, <3>2
  <2> QED
    BY <2>2, <2>3
<1> QED
  BY <1>1, <1>3, <1>4, <1>5, <1>6, <1>7
-----------------------------------------------------------------------------
(* The initial state.                                                      *)

LEMMA InitIInv == Init => IInv
<1> SUFFICES ASSUME Init PROVE IInv
  OBVIOUS
<1> USE DEF Init
<1>1. Len(Plan) \in Nat /\ DOMAIN Plan = 1 .. Len(Plan)
  BY PlanFacts
<1>2. /\ queue = [i \in 1 .. Len(Plan) |-> Entry(OrderedPlan[i])]
      /\ \A i \in 1 .. Len(Plan) : Entry(OrderedPlan[i]) \in Entries
  BY <1>1, OrderedPlanFacts DEF InitialQueue, Entry, Entries
<1>3. queue \in Seq(Entries) /\ DOMAIN queue = 1 .. Len(Plan)
  BY <1>1, <1>2, SeqDef
<1>4. \A i \in DOMAIN queue : queue[i].task = OrderedPlan[i] /\ queue[i].recovery = 0
  BY <1>2, <1>3 DEF Entry
<1>5. \A w \in Workers : worker[w].pc = "loop" /\ ~Busy(w)
  BY DEF Busy
<1>6. DOMAIN results = {}
  OBVIOUS
<1>7. TypeOK
  BY <1>3, <1>5, <1>6 DEF TypeOK
<1>8. OnePlace
  BY <1>1, <1>3, <1>4, <1>5, OrderedPlanFacts DEF OnePlace
<1>9. ResultsFit
  BY <1>4, <1>5, <1>6 DEF ResultsFit, Untried
<1>10. NothingLost
  <2>1. \A t \in Tasks : Queued(t)
    BY <1>1, <1>3, <1>4, OrderedPlanFacts DEF Queued
  <2> QED
    BY <2>1 DEF NothingLost
<1>11. DoneIsDrained /\ ConflictFree /\ RootsTriedFirst
  BY <1>5 DEF DoneIsDrained, ConflictFree, RootsTriedFirst
<1>12. RootsQueuedFirst
  BY <1>1, <1>3, <1>4, OrderedPlanFacts DEF RootsQueuedFirst
<1> QED
  BY <1>7, <1>8, <1>9, <1>10, <1>11, <1>12 DEF IInv
-----------------------------------------------------------------------------
(* Steps that leave the tasks at work and the queue alone: a worker that   *)
(* waits, one that leaves, and the abort.                                  *)

LEMMA ConflictIsSymmetric == \A t, u : Conflict(t, u) <=> Conflict(u, t)
BY DEF Conflict, Overlap

LEMMA IdleKeepsIInv ==
  ASSUME IInv, UNCHANGED <<queue, results, fatal>>, aborted' \in BOOLEAN, aborted => aborted',
         worker' \in [Workers -> [pc : {"loop", "waiting", "executing", "settling", "done"},
                                  entry : Entries \cup {NoEntry}]],
         \A v \in Workers : worker'[v].entry = worker[v].entry,
         \A v \in Workers : worker'[v].pc = worker[v].pc \/ (~Busy(v) /\ ~Busy(v)'),
         DoneIsDrained'
  PROVE  IInv'
<1> USE DEF IInv
<1>1. \A v \in Workers :
        /\ Busy(v)' <=> Busy(v)
        /\ worker'[v].pc \in {"executing", "settling"} => worker'[v].pc = worker[v].pc
  BY DEF Busy
<1>2. TypeOK'
  BY <1>1 DEF TypeOK
<1>3. \A t : Queued(t)' <=> Queued(t)
  BY DEF Queued
<1>4. \A t : WorkersOn(t)' = WorkersOn(t)
  BY <1>1 DEF WorkersOn
<1>5. OnePlace'
  BY <1>1, <1>3 DEF OnePlace
<1>6. ResultsFit'
  BY <1>1 DEF ResultsFit, Untried, Busy
<1>7. NothingLost'
  BY <1>3, <1>4 DEF NothingLost
<1>8. ConflictFree'
  BY <1>1 DEF ConflictFree
<1>9. RootsQueuedFirst'
  BY DEF RootsQueuedFirst
<1>10. RootsTriedFirst'
  BY <1>1 DEF RootsTriedFirst
<1> QED
  BY <1>2, <1>5, <1>6, <1>7, <1>8, <1>9, <1>10

LEMMA WaitKeepsIInv ==
  ASSUME IInv, NEW w \in Workers, Wait(w)
  PROVE  IInv'
<1> USE DEF IInv, Wait
<1>1. worker' = [worker EXCEPT ![w].pc = "waiting"] /\ worker[w].pc = "loop"
  OBVIOUS
<1>2. /\ worker' \in [Workers -> [pc : {"loop", "waiting", "executing", "settling", "done"},
                                  entry : Entries \cup {NoEntry}]]
      /\ \A v \in Workers : worker'[v].entry = worker[v].entry
      /\ \A v \in Workers : v # w => worker'[v] = worker[v]
      /\ worker'[w].pc = "waiting"
  BY <1>1 DEF TypeOK
<1>3. \A v \in Workers : worker'[v].pc = worker[v].pc \/ (~Busy(v) /\ ~Busy(v)')
  BY <1>1, <1>2 DEF Busy
<1>4. DoneIsDrained'
  <2>1. ~\E v \in Workers : worker[v].pc = "done"
    BY DEF DoneIsDrained
  <2> QED
    BY <1>2, <2>1 DEF DoneIsDrained
<1>5. aborted' \in BOOLEAN /\ (aborted => aborted') /\ UNCHANGED <<queue, results, fatal>>
  BY DEF TypeOK
<1> QED
  BY <1>2, <1>3, <1>4, <1>5, IdleKeepsIInv

LEMMA LeaveKeepsIInv ==
  ASSUME IInv, NEW w \in Workers, Leave(w)
  PROVE  IInv'
<1> USE DEF IInv, Leave
<1>1. worker' = [worker EXCEPT ![w].pc = "done"] /\ worker[w].pc = "loop"
  OBVIOUS
<1>2. /\ worker' \in [Workers -> [pc : {"loop", "waiting", "executing", "settling", "done"},
                                  entry : Entries \cup {NoEntry}]]
      /\ \A v \in Workers : worker'[v].entry = worker[v].entry
      /\ \A v \in Workers : v # w => worker'[v] = worker[v]
      /\ worker'[w].pc = "done"
  BY <1>1 DEF TypeOK
<1>3. \A v \in Workers : worker'[v].pc = worker[v].pc \/ (~Busy(v) /\ ~Busy(v)')
  BY <1>1, <1>2 DEF Busy
<1>4. DoneIsDrained'
  <2>1. \A v \in Workers : Busy(v)' => Busy(v)
    BY <1>2, <1>3 DEF Busy
  <2>2. Active = {} => Active' = {}
    BY <2>1 DEF Active
  <2> QED
    BY <2>2 DEF DoneIsDrained, Drained
<1>5. aborted' \in BOOLEAN /\ (aborted => aborted') /\ UNCHANGED <<queue, results, fatal>>
  BY DEF TypeOK
<1> QED
  BY <1>2, <1>3, <1>4, <1>5, IdleKeepsIInv

LEMMA AbortKeepsIInv ==
  ASSUME IInv, Abort
  PROVE  IInv'
<1>1. UNCHANGED <<queue, worker, results, fatal>> /\ aborted' \in BOOLEAN /\ (aborted => aborted')
  BY DEF Abort
<1>2. worker \in [Workers -> [pc : {"loop", "waiting", "executing", "settling", "done"},
                              entry : Entries \cup {NoEntry}]]
  BY DEF IInv, TypeOK
<1>3. DoneIsDrained'
  BY <1>1 DEF IInv, DoneIsDrained, Drained, Active, Busy
<1> QED
  BY <1>1, <1>2, <1>3, IdleKeepsIInv
-----------------------------------------------------------------------------
(* A worker takes the first entry that may start.                          *)

Position(i, k) == IF k < i THEN k ELSE k + 1

Taken(w, i) ==
  /\ worker[w].pc = "loop" /\ ~fatal /\ i \in DOMAIN queue /\ NextStartable(i)
  /\ queue' = RemoveAt(queue, i)
  /\ worker' = [worker EXCEPT ![w] = [pc |-> "executing", entry |-> queue[i]]]
  /\ UNCHANGED <<results, fatal, aborted>>

LEMMA TakenFacts ==
  ASSUME TypeOK, NEW w \in Workers, NEW i, Taken(w, i)
  PROVE  /\ queue[i] \in Entries /\ i \in Nat
         /\ queue' \in Seq(Entries)
         /\ worker' \in [Workers -> [pc : {"loop", "waiting", "executing", "settling", "done"},
                                     entry : Entries \cup {NoEntry}]]
         /\ \A k \in DOMAIN queue' : /\ k \in Nat /\ Position(i, k) \in DOMAIN queue \ {i}
                                     /\ queue'[k] = queue[Position(i, k)]
         /\ \A j \in DOMAIN queue : j # i => \E k \in DOMAIN queue' : queue'[k] = queue[j]
         /\ ~Busy(w) /\ Busy(w)'
         /\ worker'[w].pc = "executing" /\ worker'[w].entry = queue[i]
         /\ \A v \in Workers : v # w => worker'[v] = worker[v] /\ (Busy(v)' <=> Busy(v))
<1> USE DEF Taken, TypeOK
<1>1. Len(queue) \in Nat /\ DOMAIN queue = 1 .. Len(queue)
  BY LenProperties
<1>2. queue[i] \in Entries /\ i \in Nat
  BY <1>1, ElementOfSeq
<1>3. /\ queue' \in Seq(Entries) /\ Len(queue') = Len(queue) - 1
      /\ \A k \in 1 .. Len(queue) - 1 : queue'[k] = queue[Position(i, k)]
  <2>1. queue' = RemoveAt(queue, i) /\ queue \in Seq(Entries) /\ i \in 1 .. Len(queue)
    BY <1>1
  <2>2. /\ RemoveAt(queue, i) \in Seq(Entries)
        /\ Len(RemoveAt(queue, i)) = Len(queue) - 1
        /\ \A k \in 1 .. Len(queue) - 1 :
             RemoveAt(queue, i)[k] = IF k < i THEN queue[k] ELSE queue[k + 1]
    BY <2>1, RemoveAtFacts
  <2> QED
    BY <2>1, <2>2 DEF Position
<1>4. DOMAIN queue' = 1 .. Len(queue) - 1
  BY <1>3, LenProperties
<1>5. \A k \in DOMAIN queue' : /\ k \in Nat /\ Position(i, k) \in DOMAIN queue \ {i}
                               /\ queue'[k] = queue[Position(i, k)]
  BY <1>1, <1>2, <1>3, <1>4 DEF Position
<1>6. ASSUME NEW j \in DOMAIN queue, j # i
      PROVE  \E k \in DOMAIN queue' : queue'[k] = queue[j]
  <2>1. CASE j < i
    <3>1. j \in DOMAIN queue' /\ Position(i, j) = j
      BY <1>1, <1>2, <1>4, <2>1 DEF Position
    <3> QED
      BY <1>5, <3>1
  <2>2. CASE ~(j < i)
    <3>1. j - 1 \in DOMAIN queue' /\ Position(i, j - 1) = j
      BY <1>1, <1>2, <1>4, <1>6, <2>2 DEF Position
    <3> QED
      BY <1>5, <3>1
  <2> QED
    BY <2>1, <2>2
<1>7. [pc |-> "executing", entry |-> queue[i]] \in
        [pc : {"loop", "waiting", "executing", "settling", "done"}, entry : Entries \cup {NoEntry}]
  BY <1>2
<1>8. /\ worker' \in [Workers -> [pc : {"loop", "waiting", "executing", "settling", "done"},
                                  entry : Entries \cup {NoEntry}]]
      /\ worker'[w] = [pc |-> "executing", entry |-> queue[i]]
      /\ \A v \in Workers : v # w => worker'[v] = worker[v]
  BY <1>7
<1>9. /\ ~Busy(w) /\ Busy(w)'
      /\ \A v \in Workers : v # w => (Busy(v)' <=> Busy(v))
  BY <1>8 DEF Busy
<1> QED
  BY <1>2, <1>3, <1>5, <1>6, <1>8, <1>9

(* The step RootsTriedFirst rests on: when a task that is no root starts,  *)
(* either a task that is no root is at work already, or nobody is and the  *)
(* queue is taken from the front, where no untried root can be.            *)
LEMMA RootsBeforeTaken ==
  ASSUME IInv, NEW w \in Workers, NEW i, Taken(w, i), SameWorktree,
         ~TouchesRoot(queue[i].task), NEW t \in Tasks, TouchesRoot(t)
  PROVE  t \in DOMAIN results
<1> USE DEF IInv
<1>1. /\ queue[i] \in Entries /\ i \in Nat /\ i \in DOMAIN queue
      /\ Len(queue) \in Nat /\ DOMAIN queue = 1 .. Len(queue)
  BY TakenFacts, LenProperties DEF Taken, TypeOK
<1>2. CASE Active # {}
  <2>1. PICK u \in Workers : Busy(u) /\ worker[u].entry.task \in Active
    BY <1>2 DEF Active
  <2>2. ~Conflict(queue[i].task, worker[u].entry.task)
    BY <2>1 DEF Taken, NextStartable, CanStart
  <2>3. ~TouchesRoot(worker[u].entry.task)
    BY <2>2 DEF Conflict, Exclusive
  <2> QED
    BY <2>1, <2>3 DEF RootsTriedFirst
<1>3. CASE Active = {}
  <2>1. \A v \in Workers : ~Busy(v)
    BY <1>3 DEF Active
  <2>2. i = 1
    <3>1. 1 \in DOMAIN queue /\ CanStart(queue[1].task)
      BY <1>1, <1>3 DEF CanStart
    <3>2. ~(1 \in 1 .. i - 1)
      BY <3>1 DEF Taken, NextStartable
    <3> QED
      BY <1>1, <3>2
  <2>3. Queued(t) \/ t \in DOMAIN results
    BY <2>1 DEF NothingLost, WorkersOn, Taken
  <2>4. ASSUME NEW j \in DOMAIN queue, queue[j].task = t
        PROVE  t \in DOMAIN results
    <3>1. queue[j] \in Entries /\ 1 < j
      BY <1>1, <2>2, <2>4, ElementOfSeq DEF TypeOK
    <3>2. queue[j].recovery # 0
      BY <1>1, <2>2, <2>4, <3>1 DEF RootsQueuedFirst
    <3> QED
      BY <2>4, <3>2 DEF ResultsFit, Untried
  <2> QED
    BY <2>3, <2>4 DEF Queued
<1> QED
  BY <1>2, <1>3

LEMMA DequeueKeepsIInv ==
  ASSUME IInv, NEW w \in Workers, Dequeue(w)
  PROVE  IInv'
<1> USE DEF IInv
<1>1. PICK i \in DOMAIN queue : Taken(w, i)
  BY DEF Dequeue, Taken
<1> DEFINE e == queue[i]
           Other(v) == v \in Workers /\ v # w
<1>2. TypeOK
  OBVIOUS
<1>3. /\ e \in Entries /\ i \in Nat /\ queue' \in Seq(Entries)
      /\ worker' \in [Workers -> [pc : {"loop", "waiting", "executing", "settling", "done"},
                                  entry : Entries \cup {NoEntry}]]
  BY <1>1, <1>2, TakenFacts
<1>4. \A k \in DOMAIN queue' : /\ k \in Nat /\ Position(i, k) \in DOMAIN queue \ {i}
                               /\ queue'[k] = queue[Position(i, k)]
  BY <1>1, <1>2, TakenFacts
<1>5. \A j \in DOMAIN queue : j # i => \E k \in DOMAIN queue' : queue'[k] = queue[j]
  BY <1>1, <1>2, TakenFacts
<1>6. /\ ~Busy(w) /\ Busy(w)' /\ worker'[w].pc = "executing" /\ worker'[w].entry = e
      /\ \A v \in Workers : v # w => worker'[v] = worker[v] /\ (Busy(v)' <=> Busy(v))
  BY <1>1, <1>2, TakenFacts
<1>7. /\ UNCHANGED <<results, fatal, aborted>> /\ ~fatal
      /\ worker[w].pc = "loop" /\ CanStart(e.task)
  BY <1>1 DEF Taken, NextStartable
<1> HIDE DEF e
<1>8. TypeOK'
  BY <1>3, <1>6, <1>7 DEF TypeOK
<1>9. OnePlace'
  <2>1. ASSUME NEW k \in DOMAIN queue', NEW l \in DOMAIN queue', queue'[k].task = queue'[l].task
        PROVE  k = l
    <3>1. Position(i, k) = Position(i, l)
      BY <1>4, <2>1 DEF OnePlace
    <3> QED
      BY <1>3, <1>4, <3>1 DEF Position
  <2>2. \A k \in DOMAIN queue' : queue'[k].task # e.task
    BY <1>4 DEF OnePlace, e
  <2>3. \A v \in Workers : Busy(v) => worker[v].entry.task # e.task
    BY DEF OnePlace, Queued, e
  <2>4. \A v, u \in Workers :
          Busy(v)' /\ Busy(u)' /\ worker'[v].entry.task = worker'[u].entry.task => v = u
    BY <1>6, <2>3 DEF OnePlace
  <2>5. \A v \in Workers : Busy(v)' => ~Queued(worker[v].entry.task)'
    <3>1. \A t : Queued(t)' => Queued(t)
      BY <1>4 DEF Queued
    <3>2. ~Queued(worker[w].entry.task)'
      BY <1>6, <2>2 DEF Queued
    <3>3. \A v \in Workers : v # w /\ Busy(v)' => ~Queued(worker[v].entry.task)'
      <4> SUFFICES ASSUME NEW v \in Workers, v # w, Busy(v)'
                   PROVE  \A k \in DOMAIN queue' : queue'[k].task # worker'[v].entry.task
        BY DEF Queued
      <4>1. Busy(v) /\ worker'[v] = worker[v]
        BY <1>6
      <4>2. \A j \in DOMAIN queue : queue[j].task # worker[v].entry.task
        BY <4>1 DEF OnePlace, Queued
      <4> QED
        BY <1>4, <4>1, <4>2
    <3> QED
      BY <3>2, <3>3
  <2> QED
    BY <2>1, <2>4, <2>5 DEF OnePlace
<1>10. ResultsFit'
  <2>1. \A f : Untried(f)' <=> Untried(f)
    BY <1>7 DEF Untried
  <2>2. \A k \in DOMAIN queue' : Untried(queue'[k])
    BY <1>4 DEF ResultsFit
  <2>3. Untried(worker'[w].entry)
    BY <1>6 DEF ResultsFit, e
  <2>4. \A v \in Workers : worker'[v].pc = "executing" => Untried(worker'[v].entry)
    BY <1>6, <2>3 DEF ResultsFit
  <2>5. \A v \in Workers : worker'[v].pc = "settling" =>
            /\ worker'[v].entry.task \in DOMAIN results
            /\ results[worker'[v].entry.task].round = worker'[v].entry.recovery + 1
    BY <1>6 DEF ResultsFit
  <2>6. \A k \in DOMAIN queue' : Untried(queue[k])'
    BY <2>1, <2>2 DEF Untried
  <2>7. \A v \in Workers : worker'[v].pc = "executing" => Untried(worker[v].entry)'
    BY <1>7, <2>4 DEF Untried
  <2> QED
    BY <1>7, <2>5, <2>6, <2>7 DEF ResultsFit
<1>11. NothingLost'
  <2> SUFFICES ASSUME NEW t \in Tasks
               PROVE  \/ Queued(t)' \/ WorkersOn(t)' # {}
                      \/ t \in DOMAIN results
                         /\ (results[t].status = "failed" => results[t].round = 2 \/ aborted)
    BY <1>7 DEF NothingLost
  <2>1. ASSUME NEW j \in DOMAIN queue, queue[j].task = t
        PROVE  Queued(t)' \/ WorkersOn(t)' # {}
    <3>1. CASE j = i
      <4>1. w \in WorkersOn(t)'
        BY <1>6, <2>1, <3>1 DEF WorkersOn, e
      <4> QED
        BY <4>1
    <3>2. CASE j # i
      BY <1>5, <2>1, <3>2 DEF Queued
    <3> QED
      BY <3>1, <3>2
  <2>2. ASSUME NEW v \in WorkersOn(t)
        PROVE  WorkersOn(t)' # {}
    <3>1. v \in WorkersOn(t)'
      BY <1>6 DEF WorkersOn
    <3> QED
      BY <3>1
  <2>3. \/ Queued(t) \/ WorkersOn(t) # {}
        \/ t \in DOMAIN results
           /\ (results[t].status = "failed" => results[t].round = 2 \/ aborted)
    BY <1>7 DEF NothingLost
  <2> QED
    BY <2>1, <2>2, <2>3 DEF Queued
<1>12. DoneIsDrained'
  <2>1. ~Drained
    BY <1>3 DEF Drained
  <2>2. ~\E v \in Workers : worker[v].pc = "done"
    BY <1>7, <2>1 DEF DoneIsDrained
  <2>3. ~\E v \in Workers : worker'[v].pc = "done"
    BY <1>6, <2>2
  <2> QED
    BY <2>3 DEF DoneIsDrained
<1>13. ConflictFree'
  <2>1. \A v \in Workers : Busy(v) => ~Conflict(e.task, worker[v].entry.task)
    BY <1>7 DEF CanStart, Active
  <2>2. \A v \in Workers : Busy(v) => ~Conflict(worker[v].entry.task, e.task)
    BY <2>1, ConflictIsSymmetric
  <2> QED
    BY <1>6, <2>1, <2>2 DEF ConflictFree
<1>14. RootsQueuedFirst'
  <2> SUFFICES ASSUME SameWorktree, NEW k \in DOMAIN queue', NEW l \in DOMAIN queue',
                      k < l, queue'[l].recovery = 0, TouchesRoot(queue'[l].task)
               PROVE  TouchesRoot(queue'[k].task)
    BY DEF RootsQueuedFirst
  <2>1. Position(i, k) < Position(i, l)
    BY <1>3, <1>4 DEF Position
  <2> QED
    BY <1>4, <2>1 DEF RootsQueuedFirst
<1>15. RootsTriedFirst'
  <2>1. ASSUME SameWorktree, ~TouchesRoot(e.task), NEW t \in Tasks, TouchesRoot(t)
        PROVE  t \in DOMAIN results
    BY <1>1, <2>1, RootsBeforeTaken DEF e
  <2> QED
    BY <1>6, <1>7, <2>1 DEF RootsTriedFirst
<1> QED
  BY <1>8, <1>9, <1>10, <1>11, <1>12, <1>13, <1>14, <1>15
-----------------------------------------------------------------------------
(* A result comes back.                                                    *)

LEMMA ReturnKeepsIInv ==
  ASSUME IInv, NEW w \in Workers, NEW s \in {"completed", "failed"}, Return(w, s)
  PROVE  IInv'
<1> USE DEF IInv
<1> DEFINE e == worker[w].entry
           r == [status |-> s, round |-> e.recovery + 1]
<1>1. /\ worker[w].pc = "executing" /\ Busy(w) /\ e \in Entries
      /\ UNCHANGED <<queue, fatal, aborted>>
      /\ worker' = [worker EXCEPT ![w].pc = "settling"]
      /\ results' = [t \in DOMAIN results \cup {e.task} |-> IF t = e.task THEN r ELSE results[t]]
  BY DEF Return, Busy, TypeOK
<1>2. /\ worker' \in [Workers -> [pc : {"loop", "waiting", "executing", "settling", "done"},
                                  entry : Entries \cup {NoEntry}]]
      /\ worker'[w].pc = "settling" /\ worker'[w].entry = e
      /\ \A v \in Workers : v # w => worker'[v] = worker[v]
  BY <1>1 DEF TypeOK
<1>3. /\ \A v \in Workers : /\ worker'[v].entry = worker[v].entry
                            /\ Busy(v)' <=> Busy(v)
  BY <1>1, <1>2 DEF Busy
<1>4. /\ r \in [status : {"completed", "failed"}, round : 1 .. 2]
      /\ e.task \in Tasks /\ r.round = e.recovery + 1
  BY <1>1 DEF Entries
<1> HIDE DEF r, e
<1>5. /\ DOMAIN results' = DOMAIN results \cup {e.task}
      /\ results'[e.task] = r
      /\ \A t \in DOMAIN results : t # e.task => results'[t] = results[t]
  BY <1>1
<1>6. TypeOK'
  BY <1>1, <1>2, <1>3, <1>4, <1>5 DEF TypeOK
<1>7. \A t : (Queued(t)' <=> Queued(t)) /\ WorkersOn(t)' = WorkersOn(t)
  BY <1>1, <1>3 DEF Queued, WorkersOn
<1>8. OnePlace'
  BY <1>1, <1>3, <1>7 DEF OnePlace
<1>9. ASSUME NEW f, f.task # e.task, Untried(f)
      PROVE  Untried(f)'
  BY <1>5, <1>9 DEF Untried
<1>10. ResultsFit'
  <2>1. ASSUME NEW k \in DOMAIN queue
        PROVE  Untried(queue[k])'
    <3>1. queue[k].task # e.task
      BY <1>1 DEF OnePlace, Queued, e
    <3>2. Untried(queue[k])
      BY DEF ResultsFit
    <3> QED
      BY <1>1, <1>5, <3>1, <3>2 DEF Untried
  <2>2. ASSUME NEW v \in Workers, v # w, Busy(v)
        PROVE  worker[v].entry.task # e.task
    BY <1>1, <2>2 DEF OnePlace, e
  <2>3. ASSUME NEW v \in Workers, worker'[v].pc = "executing"
        PROVE  Untried(worker[v].entry)'
    <3>1. v # w /\ worker'[v] = worker[v] /\ Busy(v)
      BY <1>2, <2>3 DEF Busy
    <3>2. worker[v].entry.task # e.task /\ Untried(worker[v].entry)
      BY <2>2, <2>3, <3>1 DEF ResultsFit
    <3> QED
      BY <1>3, <1>5, <3>2 DEF Untried
  <2>4. ASSUME NEW v \in Workers, worker'[v].pc = "settling"
        PROVE  /\ worker'[v].entry.task \in DOMAIN results'
               /\ results'[worker'[v].entry.task].round = worker'[v].entry.recovery + 1
    <3>1. CASE v = w
      BY <1>2, <1>4, <1>5, <3>1
    <3>2. CASE v # w
      <4>1. worker'[v] = worker[v] /\ Busy(v) /\ worker[v].entry.task # e.task
        BY <1>2, <2>2, <2>4, <3>2 DEF Busy
      <4> QED
        BY <1>5, <2>4, <4>1 DEF ResultsFit
    <3> QED
      BY <3>1, <3>2
  <2> QED
    BY <1>1, <2>1, <2>3, <2>4 DEF ResultsFit
<1>11. NothingLost'
  <2>1. w \in WorkersOn(e.task)
    BY <1>1 DEF WorkersOn, e
  <2>2. \A t \in Tasks : t # e.task /\ t \in DOMAIN results =>
          t \in DOMAIN results' /\ results'[t] = results[t]
    BY <1>5
  <2> QED
    BY <1>1, <1>7, <2>1, <2>2 DEF NothingLost
<1>12. DoneIsDrained'
  <2>1. ~\E v \in Workers : worker[v].pc = "done" /\ ~fatal
    BY <1>1 DEF DoneIsDrained, Drained, Active
  <2> QED
    BY <1>1, <1>2, <2>1 DEF DoneIsDrained
<1>13. ConflictFree' /\ RootsQueuedFirst' /\ RootsTriedFirst'
  BY <1>1, <1>3, <1>5 DEF ConflictFree, RootsQueuedFirst, RootsTriedFirst
<1> QED
  BY <1>6, <1>8, <1>10, <1>11, <1>12, <1>13
-----------------------------------------------------------------------------
(* A task is active no longer and the waiters are woken: by a throw, or    *)
(* after its result has been seen to.                                      *)

LEMMA ReleasedFacts ==
  ASSUME TypeOK, NEW w \in Workers, Busy(w), worker' = Released(w)
  PROVE  /\ worker' \in [Workers -> [pc : {"loop", "waiting", "executing", "settling", "done"},
                                     entry : Entries \cup {NoEntry}]]
         /\ \A v \in Workers : Busy(v)' <=> Busy(v) /\ v # w
         /\ \A v \in Workers : Busy(v)' => worker'[v] = worker[v]
         /\ \A v \in Workers : worker'[v].pc = "done" => worker[v].pc = "done"
<1>1. \A v \in Workers :
        worker'[v] = IF v = w THEN [pc |-> "loop", entry |-> NoEntry]
                     ELSE IF worker[v].pc = "waiting" THEN [worker[v] EXCEPT !.pc = "loop"]
                     ELSE worker[v]
  BY DEF Released
<1>2. \A v \in Workers :
        worker[v] \in [pc : {"loop", "waiting", "executing", "settling", "done"},
                       entry : Entries \cup {NoEntry}]
  BY DEF TypeOK
<1>3. ASSUME NEW v \in Workers
      PROVE  /\ worker'[v] \in [pc : {"loop", "waiting", "executing", "settling", "done"},
                                entry : Entries \cup {NoEntry}]
             /\ Busy(v)' <=> Busy(v) /\ v # w
             /\ Busy(v)' => worker'[v] = worker[v]
             /\ worker'[v].pc = "done" => worker[v].pc = "done"
  <2>1. CASE v = w
    <3>1. worker'[v] = [pc |-> "loop", entry |-> NoEntry]
      BY <1>1, <2>1
    <3> QED
      BY <2>1, <3>1 DEF Busy
  <2>2. CASE v # w /\ worker[v].pc = "waiting"
    <3>1. worker'[v] = [worker[v] EXCEPT !.pc = "loop"]
      BY <1>1, <2>2
    <3> QED
      BY <1>2, <2>2, <3>1 DEF Busy
  <2>3. CASE v # w /\ worker[v].pc # "waiting"
    BY <1>1, <1>2, <2>3 DEF Busy
  <2> QED
    BY <2>1, <2>2, <2>3
<1>4. worker' = [v \in Workers |-> worker'[v]]
  BY DEF Released
<1> QED
  BY <1>3, <1>4

LEMMA ThrowKeepsIInv ==
  ASSUME IInv, NEW w \in Workers, Throw(w)
  PROVE  IInv'
<1> USE DEF IInv
<1>1. Busy(w) /\ TypeOK /\ worker' = Released(w) /\ fatal' /\ fatal' \in BOOLEAN
      /\ UNCHANGED <<queue, results, aborted>>
  BY DEF Throw, Busy
<1>2. /\ worker' \in [Workers -> [pc : {"loop", "waiting", "executing", "settling", "done"},
                                  entry : Entries \cup {NoEntry}]]
      /\ \A v \in Workers : Busy(v)' => Busy(v)
      /\ \A v \in Workers : Busy(v)' => worker'[v] = worker[v]
  BY <1>1, ReleasedFacts
<1>3. TypeOK'
  BY <1>1, <1>2 DEF TypeOK
<1>4. \A t : Queued(t)' <=> Queued(t)
  BY <1>1 DEF Queued
<1>5. OnePlace'
  BY <1>1, <1>2, <1>4 DEF OnePlace
<1>6. ResultsFit'
  <2>1. \A v \in Workers : worker'[v].pc \in {"executing", "settling"} => worker'[v] = worker[v]
    BY <1>2 DEF Busy
  <2> QED
    BY <1>1, <2>1 DEF ResultsFit, Untried
<1>7. NothingLost' /\ DoneIsDrained'
  BY <1>1 DEF NothingLost, DoneIsDrained
<1>8. ConflictFree' /\ RootsQueuedFirst' /\ RootsTriedFirst'
  BY <1>1, <1>2 DEF ConflictFree, RootsQueuedFirst, RootsTriedFirst
<1> QED
  BY <1>3, <1>5, <1>6, <1>7, <1>8

(* What the end of a turn leaves in the queue: the entries it had and, for *)
(* a first failure, the recovery run.                                      *)
LEMMA RequeuedFacts ==
  ASSUME TypeOK, NEW e \in Entries,
         queue' = IF MayRecover(e) THEN Append(queue, [e EXCEPT !.recovery = @ + 1]) ELSE queue
  PROVE  /\ queue' \in Seq(Entries)
         /\ \A k \in DOMAIN queue : k \in DOMAIN queue' /\ queue'[k] = queue[k]
         /\ \A k \in DOMAIN queue' \ DOMAIN queue :
              /\ MayRecover(e) /\ queue'[k] = [task |-> e.task, recovery |-> 1]
              /\ \A j \in DOMAIN queue : j < k
              /\ \A j \in DOMAIN queue' : j \notin DOMAIN queue => j = k
         /\ MayRecover(e) =>
              \E k \in DOMAIN queue' : queue'[k] = [task |-> e.task, recovery |-> 1]
<1>1. queue \in Seq(Entries) /\ Len(queue) \in Nat /\ DOMAIN queue = 1 .. Len(queue)
  BY LenProperties DEF TypeOK
<1>2. CASE ~MayRecover(e)
  BY <1>1, <1>2
<1>3. CASE MayRecover(e)
  <2> DEFINE f == [task |-> e.task, recovery |-> 1]
  <2>1. e.recovery = 0 /\ f \in Entries /\ e = [task |-> e.task, recovery |-> e.recovery]
    BY <1>3 DEF MayRecover, Entries
  <2>2. [e EXCEPT !.recovery = @ + 1] = f
    BY <2>1
  <2> HIDE DEF f
  <2>3. queue' = Append(queue, f)
    BY <1>3, <2>2
  <2>4. /\ queue' \in Seq(Entries) /\ Len(queue') = Len(queue) + 1
        /\ queue'[Len(queue) + 1] = f
        /\ \A k \in 1 .. Len(queue) : queue'[k] = queue[k]
    BY <1>1, <2>1, <2>3
  <2>5. DOMAIN queue' = 1 .. Len(queue) + 1
    BY <1>1, <2>4, LenProperties
  <2>6. \A k \in DOMAIN queue' \ DOMAIN queue : k = Len(queue) + 1
    BY <1>1, <2>5
  <2> QED
    BY <1>1, <1>3, <2>4, <2>5, <2>6 DEF f
<1> QED
  BY <1>2, <1>3

LEMMA FinishKeepsIInv ==
  ASSUME IInv, NEW w \in Workers, Finish(w)
  PROVE  IInv'
<1> USE DEF IInv
<1> DEFINE e == worker[w].entry
           f == [task |-> e.task, recovery |-> 1]
<1>1. /\ Busy(w) /\ worker[w].pc = "settling" /\ worker' = Released(w)
      /\ UNCHANGED <<results, fatal, aborted>> /\ TypeOK /\ e \in Entries
      /\ queue' = IF MayRecover(e)
                  THEN Append(queue, [e EXCEPT !.recovery = @ + 1]) ELSE queue
  BY DEF Finish, Busy, TypeOK
<1>2. /\ worker' \in [Workers -> [pc : {"loop", "waiting", "executing", "settling", "done"},
                                  entry : Entries \cup {NoEntry}]]
      /\ \A v \in Workers : Busy(v)' <=> Busy(v) /\ v # w
      /\ \A v \in Workers : Busy(v)' => worker'[v] = worker[v]
      /\ \A v \in Workers : worker'[v].pc = "done" => worker[v].pc = "done"
  BY <1>1, ReleasedFacts
<1> HIDE DEF e
<1>3. /\ queue' \in Seq(Entries)
      /\ \A k \in DOMAIN queue : k \in DOMAIN queue' /\ queue'[k] = queue[k]
      /\ \A k \in DOMAIN queue' \ DOMAIN queue :
           /\ MayRecover(e) /\ queue'[k] = f
           /\ \A j \in DOMAIN queue : j < k
           /\ \A j \in DOMAIN queue' : j \notin DOMAIN queue => j = k
      /\ MayRecover(e) => \E k \in DOMAIN queue' : queue'[k] = f
  BY <1>1, RequeuedFacts
<1>4. f.task = e.task /\ f.recovery = 1
  OBVIOUS
<1>5. ~Queued(e.task) /\ \A v \in Workers : Busy(v) /\ v # w => worker[v].entry.task # e.task
  BY <1>1 DEF OnePlace, e
<1>6. e.task \in DOMAIN results /\ results[e.task].round = e.recovery + 1
  BY <1>1 DEF ResultsFit, e
<1> HIDE DEF f
<1>7. TypeOK'
  BY <1>1, <1>2, <1>3 DEF TypeOK
<1>8. OnePlace'
  <2>1. \A k \in DOMAIN queue : queue[k].task # e.task
    BY <1>5 DEF Queued
  <2>2. ASSUME NEW k \in DOMAIN queue', NEW l \in DOMAIN queue', queue'[k].task = queue'[l].task
        PROVE  k = l
    <3>1. CASE k \in DOMAIN queue /\ l \in DOMAIN queue
      BY <1>3, <2>2, <3>1 DEF OnePlace
    <3>2. CASE k \notin DOMAIN queue /\ l \notin DOMAIN queue
      BY <1>3, <3>2
    <3>3. CASE k \in DOMAIN queue /\ l \notin DOMAIN queue
      BY <1>3, <1>4, <2>1, <2>2, <3>3
    <3>4. CASE k \notin DOMAIN queue /\ l \in DOMAIN queue
      BY <1>3, <1>4, <2>1, <2>2, <3>4
    <3> QED
      BY <3>1, <3>2, <3>3, <3>4
  <2>3. ASSUME NEW v \in Workers, Busy(v)'
        PROVE  ~Queued(worker[v].entry.task)'
    <3>1. Busy(v) /\ v # w /\ worker'[v] = worker[v] /\ worker[v].entry.task # e.task
      BY <1>2, <1>5, <2>3
    <3>2. \A k \in DOMAIN queue : queue[k].task # worker[v].entry.task
      BY <3>1 DEF OnePlace, Queued
    <3>3. \A k \in DOMAIN queue' : queue'[k].task # worker[v].entry.task
      BY <1>3, <1>4, <3>1, <3>2
    <3> QED
      BY <3>1, <3>3 DEF Queued
  <2>4. \A v, u \in Workers :
          Busy(v)' /\ Busy(u)' /\ worker'[v].entry.task = worker'[u].entry.task => v = u
    BY <1>2 DEF OnePlace
  <2> QED
    BY <2>2, <2>3, <2>4 DEF OnePlace
<1>9. ResultsFit'
  <2>1. MayRecover(e) => Untried(f)
    <3> SUFFICES ASSUME MayRecover(e) PROVE Untried(f)
      OBVIOUS
    <3>1. /\ results[e.task] \in [status : {"completed", "failed"}, round : 1 .. 2]
          /\ results[e.task].status = "failed" /\ results[e.task].round = 1
      BY <1>1, <1>6 DEF MayRecover, TypeOK
    <3>2. results[e.task] = [status |-> "failed", round |-> 1]
      BY <3>1
    <3> QED
      BY <1>4, <1>6, <3>2 DEF Untried
  <2>2. \A k \in DOMAIN queue' : Untried(queue'[k])
    BY <1>3, <2>1 DEF ResultsFit
  <2>3. \A v \in Workers : worker'[v].pc \in {"executing", "settling"} => worker'[v] = worker[v]
    BY <1>2 DEF Busy
  <2>4. \A v \in Workers : worker'[v].pc = "executing" => Untried(worker'[v].entry)
    BY <2>3 DEF ResultsFit
  <2>5. \A k \in DOMAIN queue' : Untried(queue[k])'
    BY <1>1, <2>2 DEF Untried
  <2>6. \A v \in Workers : worker'[v].pc = "executing" => Untried(worker[v].entry)'
    BY <1>1, <2>4 DEF Untried
  <2> QED
    BY <1>1, <2>3, <2>5, <2>6 DEF ResultsFit
<1>10. NothingLost'
  <2> SUFFICES ASSUME ~fatal, NEW t \in Tasks
               PROVE  \/ Queued(t)' \/ WorkersOn(t)' # {}
                      \/ t \in DOMAIN results
                         /\ (results[t].status = "failed" => results[t].round = 2 \/ aborted)
    BY <1>1 DEF NothingLost
  <2>1. CASE t = e.task
    <3>1. CASE MayRecover(e)
      BY <1>3, <1>4, <2>1, <3>1 DEF Queued
    <3>2. CASE ~MayRecover(e)
      <4>1. results[t].status = "failed" => e.recovery # 0 \/ aborted
        BY <2>1, <3>2 DEF MayRecover
      <4>2. e.recovery \in {0, 1}
        BY <1>1 DEF Entries
      <4> QED
        BY <1>6, <2>1, <4>1, <4>2
    <3> QED
      BY <3>1, <3>2
  <2>2. CASE t # e.task
    <3>1. Queued(t) => Queued(t)'
      BY <1>3 DEF Queued
    <3>2. ASSUME NEW v \in WorkersOn(t) PROVE WorkersOn(t)' # {}
      <4>1. v \in Workers /\ v # w /\ Busy(v) /\ worker[v].entry.task = t
        BY <2>2, <3>2 DEF WorkersOn, e
      <4>2. v \in WorkersOn(t)'
        BY <1>2, <4>1 DEF WorkersOn
      <4> QED
        BY <4>2
    <3> QED
      BY <3>1, <3>2 DEF NothingLost
  <2> QED
    BY <2>1, <2>2
<1>11. DoneIsDrained'
  <2>1. ~Drained
    BY <1>1 DEF Drained, Active
  <2> QED
    BY <1>1, <1>2, <2>1 DEF DoneIsDrained
<1>12. RootsQueuedFirst'
  <2> SUFFICES ASSUME SameWorktree, NEW k \in DOMAIN queue', NEW l \in DOMAIN queue',
                      k < l, queue'[l].recovery = 0, TouchesRoot(queue'[l].task)
               PROVE  TouchesRoot(queue'[k].task)
    BY DEF RootsQueuedFirst
  <2>1. l \in DOMAIN queue
    BY <1>3, <1>4
  <2>2. k \in DOMAIN queue
    <3>1. k \in Nat /\ l \in Nat
      BY <1>3, LenProperties
    <3> QED
      BY <1>3, <2>1, <3>1
  <2> QED
    BY <1>3, <2>1, <2>2 DEF RootsQueuedFirst
<1>13. ConflictFree' /\ RootsTriedFirst'
  BY <1>1, <1>2 DEF ConflictFree, RootsTriedFirst
<1> QED
  BY <1>7, <1>8, <1>9, <1>10, <1>11, <1>12, <1>13
-----------------------------------------------------------------------------
(* IInv holds in every state of the scheduler.                             *)

LEMMA StepKeepsIInv ==
  ASSUME IInv, [Next]_vars
  PROVE  IInv'
<1>1. ASSUME NEW w \in Workers, Step(w) PROVE IInv'
  <2>1. ASSUME NEW s \in {"completed", "failed"}, Return(w, s) PROVE IInv'
    BY <2>1, ReturnKeepsIInv
  <2> QED
    BY <1>1, <2>1, DequeueKeepsIInv, WaitKeepsIInv, LeaveKeepsIInv, ThrowKeepsIInv,
       FinishKeepsIInv DEF Step
<1>2. CASE Abort
  BY <1>2, AbortKeepsIInv
<1>3. CASE UNCHANGED vars
  <2>1. UNCHANGED <<queue, worker, results, fatal, aborted>>
    BY <1>3 DEF vars
  <2>2. DoneIsDrained'
    BY <2>1 DEF IInv, DoneIsDrained, Drained, Active, Busy
  <2> QED
    BY <2>1, <2>2, IdleKeepsIInv DEF IInv, TypeOK
<1> QED
  BY <1>1, <1>2, <1>3 DEF Next, Over

(* The inductive invariant: a task has one place, results fit the runs     *)
(* still to come, nothing is lost short of a throw, and untried roots      *)
(* stand in front.                                                         *)
THEOREM InductiveInvariant == Spec => []IInv
<1>1. Init => IInv
  BY InitIInv
<1>2. IInv /\ [Next]_vars => IInv'
  BY StepKeepsIInv
<1> QED
  BY <1>1, <1>2, PTL DEF Spec

(* The types of queue, workers and results.                                *)
THEOREM TypeCorrect == Spec => []TypeOK
<1>1. IInv => TypeOK
  BY DEF IInv
<1> QED
  BY <1>1, InductiveInvariant, PTL

(* Subagents at work in one checkout never conflict, however many workers  *)
(* there are and whatever the tasks own (canRunSameWorktreeTask).          *)
THEOREM ConflictFreeAlways == Spec => []ConflictFree
<1>1. IInv => ConflictFree
  BY DEF IInv
<1> QED
  BY <1>1, InductiveInvariant, PTL

(* No task that is not a root is at work in a shared checkout before every *)
(* root has come back with a result (orderSameWorktreeTasks).              *)
THEOREM RootsTriedFirstAlways == Spec => []RootsTriedFirst
<1>1. IInv => RootsTriedFirst
  BY DEF IInv
<1> QED
  BY <1>1, InductiveInvariant, PTL

(* When the scheduler returns, every task has a result and every failure   *)
(* its recovery run, unless the run was aborted.                           *)
THEOREM EveryFailureRecoveredAlways == Spec => []EveryFailureRecovered
<1>1. ASSUME IInv, AllDone, ~fatal, NEW t \in Tasks
      PROVE  /\ t \in DOMAIN results
             /\ results[t].status = "failed" => results[t].round = 2 \/ aborted
  <2>1. 1 \in Workers
    <3>1. Len(Plan) \in Nat /\ Len(Plan) # 0
      BY PlanFacts
    <3> QED
      BY <3>1, PlanAssumption DEF Workers
  <2>2. Drained
    BY <1>1, <2>1 DEF IInv, DoneIsDrained, AllDone
  <2>3. ~Queued(t) /\ WorkersOn(t) = {}
    <3>1. queue = << >> /\ \A v \in Workers : ~Busy(v)
      BY <2>2 DEF Drained, Active
    <3> QED
      BY <3>1, EmptySeq DEF Queued, WorkersOn
  <2> QED
    BY <1>1, <2>3 DEF IInv, NothingLost
<1>2. IInv => EveryFailureRecovered
  BY <1>1 DEF EveryFailureRecovered
<1> QED
  BY <1>2, InductiveInvariant, PTL
-----------------------------------------------------------------------------
(* The scheduler implements the task pool.                                 *)

(* Phase and tries of a task, read off the place it has.                   *)
Placed ==
  \A t \in Tasks :
    /\ \A i \in DOMAIN queue : queue[i].task = t =>
         PhaseOf(t) = "waiting" /\ TriesOf(t) = queue[i].recovery
    /\ \A w \in Workers : Busy(w) /\ worker[w].entry.task = t =>
         PhaseOf(t) = "running" /\ TriesOf(t) = worker[w].entry.recovery
    /\ ~Queued(t) /\ WorkersOn(t) = {} =>
         /\ PhaseOf(t) = IF t \in DOMAIN results THEN results[t].status ELSE "abandoned"
         /\ TriesOf(t) = IF t \in DOMAIN results THEN results[t].round ELSE 0

LEMMA PlacedHolds == IInv => Placed
<1> SUFFICES ASSUME IInv, NEW t \in Tasks
             PROVE
    /\ \A i \in DOMAIN queue : queue[i].task = t =>
         PhaseOf(t) = "waiting" /\ TriesOf(t) = queue[i].recovery
    /\ \A w \in Workers : Busy(w) /\ worker[w].entry.task = t =>
         PhaseOf(t) = "running" /\ TriesOf(t) = worker[w].entry.recovery
    /\ ~Queued(t) /\ WorkersOn(t) = {} =>
         /\ PhaseOf(t) = IF t \in DOMAIN results THEN results[t].status ELSE "abandoned"
         /\ TriesOf(t) = IF t \in DOMAIN results THEN results[t].round ELSE 0
  BY DEF Placed
<1> USE DEF IInv
<1>1. (\E f \in ToSet(queue) : f.task = t) <=> Queued(t)
  BY DEF ToSet, Queued
<1>2. ASSUME NEW i \in DOMAIN queue, queue[i].task = t
      PROVE  PhaseOf(t) = "waiting" /\ TriesOf(t) = queue[i].recovery
  <2> DEFINE f == CHOOSE f \in ToSet(queue) : f.task = t
  <2>1. Queued(t)
    BY <1>2 DEF Queued
  <2>2. f \in ToSet(queue) /\ f.task = t
    BY <1>1, <2>1
  <2>3. PICK j \in DOMAIN queue : queue[j] = f
    BY <2>2 DEF ToSet
  <2>4. j = i
    BY <1>2, <2>2, <2>3 DEF OnePlace
  <2> QED
    BY <1>1, <2>1, <2>3, <2>4 DEF PhaseOf, TriesOf
<1>3. ASSUME NEW w \in Workers, Busy(w), worker[w].entry.task = t
      PROVE  PhaseOf(t) = "running" /\ TriesOf(t) = worker[w].entry.recovery
  <2>1. ~Queued(t)
    BY <1>3 DEF OnePlace
  <2>2. WorkersOn(t) = {w}
    BY <1>3 DEF WorkersOn, OnePlace
  <2>3. (CHOOSE v \in WorkersOn(t) : TRUE) = w
    BY <2>2
  <2> QED
    BY <1>1, <2>1, <2>2, <2>3 DEF PhaseOf, TriesOf
<1>4. ASSUME ~Queued(t), WorkersOn(t) = {}
      PROVE  /\ PhaseOf(t) = IF t \in DOMAIN results THEN results[t].status ELSE "abandoned"
             /\ TriesOf(t) = IF t \in DOMAIN results THEN results[t].round ELSE 0
  BY <1>1, <1>4 DEF PhaseOf, TriesOf
<1> QED
  BY <1>2, <1>3, <1>4

(* A step that leaves task t where it is.                                  *)
Stays(t) ==
  /\ \A i \in DOMAIN queue : queue[i].task = t =>
       \E k \in DOMAIN queue' : queue'[k] = queue[i]
  /\ \A w \in Workers : Busy(w) /\ worker[w].entry.task = t =>
       Busy(w)' /\ worker'[w].entry = worker[w].entry
  /\ ~Queued(t) /\ WorkersOn(t) = {} =>
       /\ ~Queued(t)' /\ WorkersOn(t)' = {}
       /\ t \in DOMAIN results' <=> t \in DOMAIN results
       /\ t \in DOMAIN results => results'[t] = results[t]

LEMMA StayingIsStutter ==
  ASSUME Placed, Placed', NEW t \in Tasks, Stays(t)
  PROVE  PhaseOf(t)' = PhaseOf(t) /\ TriesOf(t)' = TriesOf(t)
<1>1. ASSUME NEW i \in DOMAIN queue, queue[i].task = t
      PROVE  PhaseOf(t)' = PhaseOf(t) /\ TriesOf(t)' = TriesOf(t)
  <2>1. PICK k \in DOMAIN queue' : queue'[k] = queue[i]
    BY <1>1 DEF Stays
  <2>2. PhaseOf(t)' = "waiting" /\ TriesOf(t)' = queue'[k].recovery
    BY <1>1, <2>1 DEF Placed
  <2>3. PhaseOf(t) = "waiting" /\ TriesOf(t) = queue[i].recovery
    BY <1>1 DEF Placed
  <2> QED
    BY <2>1, <2>2, <2>3
<1>2. ASSUME NEW w \in Workers, Busy(w), worker[w].entry.task = t
      PROVE  PhaseOf(t)' = PhaseOf(t) /\ TriesOf(t)' = TriesOf(t)
  <2>1. Busy(w)' /\ worker'[w].entry = worker[w].entry
    BY <1>2 DEF Stays
  <2>2. PhaseOf(t)' = "running" /\ TriesOf(t)' = worker'[w].entry.recovery
    BY <1>2, <2>1 DEF Placed
  <2>3. PhaseOf(t) = "running" /\ TriesOf(t) = worker[w].entry.recovery
    BY <1>2 DEF Placed
  <2> QED
    BY <2>1, <2>2, <2>3
<1>3. ASSUME ~Queued(t), WorkersOn(t) = {}
      PROVE  PhaseOf(t)' = PhaseOf(t) /\ TriesOf(t)' = TriesOf(t)
  BY <1>3 DEF Placed, Stays
<1> QED
  BY <1>1, <1>2, <1>3 DEF Queued, WorkersOn

(* A step that moves one task maps to a change of its phase and tries.     *)
LEMMA OneMoves ==
  ASSUME Placed, Placed', NEW x \in Tasks,
         \A t \in Tasks : t # x => Stays(t)
  PROVE  /\ [t \in Tasks |-> PhaseOf(t)]' =
              [[t \in Tasks |-> PhaseOf(t)] EXCEPT ![x] = PhaseOf(x)']
         /\ [t \in Tasks |-> TriesOf(t)]' =
              [[t \in Tasks |-> TriesOf(t)] EXCEPT ![x] = TriesOf(x)']
<1>1. \A t \in Tasks : t # x => PhaseOf(t)' = PhaseOf(t) /\ TriesOf(t)' = TriesOf(t)
  BY StayingIsStutter
<1> QED
  BY <1>1

LEMMA NoneMoves ==
  ASSUME Placed, Placed', fatal' = fatal, \A t \in Tasks : Stays(t)
  PROVE  UNCHANGED Pool!vars
<1>1. \A t \in Tasks : PhaseOf(t)' = PhaseOf(t) /\ TriesOf(t)' = TriesOf(t)
  BY StayingIsStutter
<1> QED
  BY <1>1 DEF Pool!vars

LEMMA DequeueStarts ==
  ASSUME IInv, Placed, Placed', NEW w \in Workers, Dequeue(w)
  PROVE  \E t \in Tasks : Pool!Start(t)
<1>1. TypeOK /\ OnePlace
  BY DEF IInv
<1>2. PICK i \in DOMAIN queue : Taken(w, i)
  BY DEF Dequeue, Taken
<1> PICK e : e = queue[i]
  OBVIOUS
<1> DEFINE x == e.task
<1>3. /\ e \in Entries /\ ~Busy(w) /\ Busy(w)' /\ worker'[w].entry = e
      /\ \A j \in DOMAIN queue : j # i => \E k \in DOMAIN queue' : queue'[k] = queue[j]
      /\ \A k \in DOMAIN queue' : /\ Position(i, k) \in DOMAIN queue \ {i}
                                  /\ queue'[k] = queue[Position(i, k)]
      /\ \A v \in Workers : v # w => worker'[v] = worker[v] /\ (Busy(v)' <=> Busy(v))
  BY <1>1, <1>2, TakenFacts
<1>4. ~fatal /\ CanStart(x) /\ UNCHANGED <<results, fatal>>
  BY <1>2 DEF Taken, NextStartable
<1>5. x \in Tasks
  BY <1>3 DEF Entries
<1>6. PhaseOf(x) = "waiting" /\ TriesOf(x) = e.recovery
  BY <1>5 DEF Placed
<1>7. PhaseOf(x)' = "running" /\ TriesOf(x)' = e.recovery
  BY <1>3, <1>5 DEF Placed
<1>8. ASSUME NEW t \in Tasks, t # x PROVE Stays(t)
  <2>1. \A j \in DOMAIN queue : queue[j].task = t =>
          \E k \in DOMAIN queue' : queue'[k] = queue[j]
    BY <1>3, <1>8
  <2>2. \A v \in Workers : Busy(v) /\ worker[v].entry.task = t =>
          Busy(v)' /\ worker'[v].entry = worker[v].entry
    BY <1>3
  <2>3. ASSUME ~Queued(t), WorkersOn(t) = {}
        PROVE  ~Queued(t)' /\ WorkersOn(t)' = {}
    BY <1>3, <1>8, <2>3 DEF Queued, WorkersOn
  <2> QED
    BY <1>4, <2>1, <2>2, <2>3 DEF Stays
<1>9. ASSUME NEW u \in Tasks, PhaseOf(u) = "running" PROVE ~Conflict(x, u)
  <2>1. ~Queued(u)
    BY <1>9 DEF Placed, Queued
  <2>2. WorkersOn(u) # {}
    <3>1. SUFFICES ASSUME WorkersOn(u) = {} PROVE FALSE
      OBVIOUS
    <3>2. u \in DOMAIN results => results[u].status \in {"completed", "failed"}
      BY <1>1 DEF TypeOK
    <3> QED
      BY <1>9, <2>1, <3>1, <3>2 DEF Placed
  <2>3. u \in Active
    BY <2>2 DEF WorkersOn, Active
  <2> QED
    BY <1>4, <2>3 DEF CanStart
<1> DEFINE P == [t \in Tasks |-> PhaseOf(t)]
           T == [t \in Tasks |-> TriesOf(t)]
<1>10. P' = [P EXCEPT ![x] = "running"] /\ T' = [T EXCEPT ![x] = TriesOf(x)]
  <2>1. P' = [P EXCEPT ![x] = PhaseOf(x)'] /\ T' = [T EXCEPT ![x] = TriesOf(x)']
    BY <1>5, <1>8, OneMoves
  <2> QED
    BY <1>6, <1>7, <2>1
<1>11. T' = T
  BY <1>5, <1>10
<1>12. P[x] = "waiting" /\ \A u \in Tasks : P[u] = "running" => ~Conflict(x, u)
  BY <1>5, <1>6, <1>9
<1>13. Pool!Start(x)
  BY <1>4, <1>10, <1>11, <1>12 DEF Pool!Start
<1> QED
  BY <1>5, <1>13

LEMMA IdleIsStutter ==
  ASSUME IInv, Placed, Placed', UNCHANGED <<queue, results, fatal>>,
         \A v \in Workers : worker'[v].entry = worker[v].entry /\ (Busy(v)' <=> Busy(v))
  PROVE  UNCHANGED Pool!vars
<1>1. \A t \in Tasks : Stays(t)
  BY DEF Stays, Queued, WorkersOn
<1> QED
  BY <1>1, NoneMoves

LEMMA ReturnIsStutter ==
  ASSUME IInv, Placed, Placed', NEW w \in Workers, NEW s \in {"completed", "failed"}, Return(w, s)
  PROVE  UNCHANGED Pool!vars
<1> DEFINE x == worker[w].entry.task
<1>1. TypeOK
  BY DEF IInv
<1>2. /\ worker[w].pc = "executing" /\ Busy(w)
      /\ UNCHANGED <<queue, fatal>>
      /\ worker' = [worker EXCEPT ![w].pc = "settling"]
      /\ DOMAIN results' = DOMAIN results \cup {x}
      /\ \A t \in DOMAIN results : t # x => results'[t] = results[t]
  BY DEF Return, Busy
<1>3. \A v \in Workers : worker'[v].entry = worker[v].entry /\ (Busy(v)' <=> Busy(v))
  BY <1>1, <1>2 DEF Busy, TypeOK
<1>4. ASSUME NEW t \in Tasks PROVE Stays(t)
  <2>1. WorkersOn(x) # {}
    BY <1>2 DEF WorkersOn
  <2> QED
    BY <1>2, <1>3, <2>1 DEF Stays, Queued, WorkersOn
<1> QED
  BY <1>2, <1>4, NoneMoves

(* A turn that ends takes the task from running to its status, or back to  *)
(* waiting for its recovery run.                                           *)
LEMMA ReleaseMovesOne ==
  ASSUME IInv, IInv', Placed, Placed', NEW w \in Workers, NEW x, x = worker[w].entry.task,
         Busy(w), worker' = Released(w), UNCHANGED results,
         \A k \in DOMAIN queue : \E l \in DOMAIN queue' : queue'[l] = queue[k],
         \A k \in DOMAIN queue' : \/ queue'[k].task = x
                                  \/ \E l \in DOMAIN queue : queue'[k] = queue[l]
  PROVE  /\ x \in Tasks /\ PhaseOf(x) = "running" /\ TriesOf(x) = worker[w].entry.recovery
         /\ WorkersOn(x)' = {}
         /\ \A t \in Tasks : t # x => Stays(t)
<1>1. TypeOK /\ OnePlace
  BY DEF IInv
<1>2. x \in Tasks
  BY <1>1 DEF TypeOK, Entries
<1>3. /\ \A v \in Workers : Busy(v)' <=> Busy(v) /\ v # w
      /\ \A v \in Workers : Busy(v)' => worker'[v] = worker[v]
  BY <1>1, ReleasedFacts
<1>4. WorkersOn(x)' = {}
  BY <1>1, <1>3 DEF WorkersOn, OnePlace
<1>5. ASSUME NEW t \in Tasks, t # x PROVE Stays(t)
  <2>1. \A v \in Workers : Busy(v) /\ worker[v].entry.task = t =>
          Busy(v)' /\ worker'[v].entry = worker[v].entry
    BY <1>3, <1>5
  <2>2. ASSUME ~Queued(t), WorkersOn(t) = {}
        PROVE  ~Queued(t)' /\ WorkersOn(t)' = {}
    BY <1>3, <1>5, <2>2 DEF Queued, WorkersOn
  <2> QED
    BY <2>1, <2>2 DEF Stays
<1> QED
  BY <1>2, <1>4, <1>5 DEF Placed

LEMMA ThrowAbandons ==
  ASSUME IInv, IInv', Placed, Placed', NEW w \in Workers, Throw(w)
  PROVE  \E t \in Tasks : Pool!Abandon(t)
<1> PICK e : e = worker[w].entry
  OBVIOUS
<1> DEFINE x == e.task
<1>1. TypeOK /\ OnePlace /\ ResultsFit
  BY DEF IInv
<1>2. /\ Busy(w) /\ worker' = Released(w) /\ fatal' = TRUE /\ UNCHANGED <<queue, results>>
  BY DEF Throw, Busy
<1>3. e \in Entries /\ e.recovery \in 0 .. 1
  BY <1>1, <1>2 DEF TypeOK, Entries
<1>4. /\ x \in Tasks /\ PhaseOf(x) = "running" /\ TriesOf(x) = e.recovery
      /\ WorkersOn(x)' = {}
      /\ \A t \in Tasks : t # x => Stays(t)
  BY <1>2, ReleaseMovesOne
<1>5. ~Queued(x)'
  BY <1>1, <1>2 DEF OnePlace, Queued
<1>6. /\ PhaseOf(x)' = IF x \in DOMAIN results THEN results[x].status ELSE "abandoned"
      /\ TriesOf(x)' = IF x \in DOMAIN results THEN results[x].round ELSE 0
  BY <1>2, <1>4, <1>5 DEF Placed
<1>7. PhaseOf(x)' \in {"completed", "failed", "abandoned"}
  BY <1>1, <1>6 DEF TypeOK
<1>8. TriesOf(x)' \in {e.recovery, e.recovery + 1}
  <2>1. CASE worker[w].pc = "executing"
    <3>1. Untried(e)
      BY <1>1, <2>1 DEF ResultsFit
    <3>2. CASE e.recovery = 0
      BY <1>6, <3>1, <3>2 DEF Untried
    <3>3. CASE e.recovery = 1
      BY <1>6, <3>1, <3>3 DEF Untried
    <3> QED
      BY <1>3, <3>2, <3>3
  <2>2. CASE worker[w].pc = "settling"
    BY <1>1, <1>6, <2>2 DEF ResultsFit
  <2> QED
    BY <1>2, <2>1, <2>2 DEF Busy
<1> DEFINE P == [t \in Tasks |-> PhaseOf(t)]
           T == [t \in Tasks |-> TriesOf(t)]
<1>9. P' = [P EXCEPT ![x] = PhaseOf(x)'] /\ T' = [T EXCEPT ![x] = TriesOf(x)']
  BY <1>4, OneMoves
<1>10. T[x] = e.recovery /\ P[x] = "running"
  BY <1>4
<1>11. T = [T EXCEPT ![x] = e.recovery]
  BY <1>10
<1>12. T' \in {T, [T EXCEPT ![x] = @ + 1]}
  BY <1>4, <1>8, <1>9, <1>10, <1>11
<1>13. Pool!Abandon(x)
  BY <1>2, <1>7, <1>9, <1>10, <1>12 DEF Pool!Abandon
<1> QED
  BY <1>4, <1>13

LEMMA FinishSettles ==
  ASSUME IInv, IInv', Placed, Placed', NEW w \in Workers, Finish(w)
  PROVE  \E t \in Tasks : Pool!Settle(t)
<1> PICK e : e = worker[w].entry
  OBVIOUS
<1> DEFINE x == e.task
<1>1. TypeOK /\ OnePlace /\ ResultsFit
  BY DEF IInv
<1>2. /\ Busy(w) /\ worker[w].pc = "settling" /\ worker' = Released(w)
      /\ UNCHANGED <<results, fatal>>
      /\ queue' = IF MayRecover(e)
                  THEN Append(queue, [e EXCEPT !.recovery = @ + 1]) ELSE queue
  BY DEF Finish, Busy
<1>3. e \in Entries /\ e.recovery \in 0 .. 1
  BY <1>1, <1>2 DEF TypeOK, Entries
<1>4. /\ \A k \in DOMAIN queue : k \in DOMAIN queue' /\ queue'[k] = queue[k]
      /\ \A k \in DOMAIN queue' \ DOMAIN queue :
           MayRecover(e) /\ queue'[k] = [task |-> e.task, recovery |-> 1]
      /\ MayRecover(e) =>
           \E k \in DOMAIN queue' : queue'[k] = [task |-> e.task, recovery |-> 1]
  BY <1>1, <1>2, <1>3, RequeuedFacts
<1>5. \A k \in DOMAIN queue' \ DOMAIN queue : queue'[k].task = x
  BY <1>4
<1>6. /\ x \in Tasks /\ PhaseOf(x) = "running" /\ TriesOf(x) = e.recovery
      /\ WorkersOn(x)' = {}
      /\ \A t \in Tasks : t # x => Stays(t)
  <2>1. \A k \in DOMAIN queue : \E l \in DOMAIN queue' : queue'[l] = queue[k]
    BY <1>4
  <2>2. \A k \in DOMAIN queue' : \/ queue'[k].task = x
                                 \/ \E l \in DOMAIN queue : queue'[k] = queue[l]
    BY <1>4, <1>5
  <2>3. x = worker[w].entry.task /\ worker[w].entry.recovery = e.recovery
    OBVIOUS
  <2>4. Busy(w) /\ worker' = Released(w) /\ UNCHANGED results
    BY <1>2
  <2> HIDE DEF x
  <2>5. /\ x \in Tasks /\ PhaseOf(x) = "running" /\ TriesOf(x) = worker[w].entry.recovery
        /\ WorkersOn(x)' = {}
        /\ \A t \in Tasks : t # x => Stays(t)
    BY <2>1, <2>2, <2>3, <2>4, ReleaseMovesOne
  <2> QED
    BY <2>3, <2>5
<1>7. x \in DOMAIN results /\ results[x].round = e.recovery + 1
  BY <1>1, <1>2 DEF ResultsFit
<1>8. TriesOf(x)' = e.recovery + 1 /\
        \/ PhaseOf(x)' \in {"completed", "failed"}
        \/ e.recovery = 0 /\ PhaseOf(x)' = "waiting"
  <2>1. CASE MayRecover(e)
    <3>1. e.recovery = 0
      BY <2>1 DEF MayRecover
    <3>2. PICK k \in DOMAIN queue' : queue'[k].task = x /\ queue'[k].recovery = 1
      BY <1>4, <2>1
    <3>3. PhaseOf(x)' = "waiting" /\ TriesOf(x)' = 1
      BY <1>6, <3>2 DEF Placed
    <3> QED
      BY <3>1, <3>3
  <2>2. CASE ~MayRecover(e)
    <3>1. ~Queued(x)'
      BY <1>1, <1>2, <2>2 DEF OnePlace, Queued
    <3>2. PhaseOf(x)' = results[x].status /\ TriesOf(x)' = results[x].round
      BY <1>2, <1>6, <1>7, <3>1 DEF Placed
    <3> QED
      BY <1>1, <1>7, <3>2 DEF TypeOK
  <2> QED
    BY <2>1, <2>2
<1> DEFINE P == [t \in Tasks |-> PhaseOf(t)]
           T == [t \in Tasks |-> TriesOf(t)]
<1>9. P' = [P EXCEPT ![x] = PhaseOf(x)'] /\ T' = [T EXCEPT ![x] = TriesOf(x)']
  BY <1>6, OneMoves
<1>10. T[x] = e.recovery /\ P[x] = "running"
  BY <1>6
<1>11. T' = [T EXCEPT ![x] = @ + 1]
  BY <1>6, <1>8, <1>9, <1>10
<1>12. \/ \E p \in {"completed", "failed"} : P' = [P EXCEPT ![x] = p]
       \/ T[x] = 0 /\ P' = [P EXCEPT ![x] = "waiting"]
  BY <1>8, <1>9, <1>10
<1>13. Pool!Settle(x)
  BY <1>2, <1>10, <1>11, <1>12 DEF Pool!Settle
<1> QED
  BY <1>6, <1>13

LEMMA PoolInit == Init /\ Placed => Pool!Init
<1> SUFFICES ASSUME Init, Placed PROVE Pool!Init
  OBVIOUS
<1>1. DOMAIN Plan = 1 .. Len(Plan) /\ Len(Plan) \in Nat
  BY PlanFacts
<1>2. ASSUME NEW t \in Tasks PROVE PhaseOf(t) = "waiting" /\ TriesOf(t) = 0
  <2>1. PICK i \in DOMAIN Plan : OrderedPlan[i] = t
    BY OrderedPlanFacts
  <2>2. i \in DOMAIN queue /\ queue[i] = Entry(t)
    BY <2>1 DEF Init, InitialQueue
  <2> QED
    BY <2>2 DEF Placed, Entry
<1> QED
  BY <1>2 DEF Pool!Init, Init

LEMMA PoolStep ==
  ASSUME IInv, IInv', Placed, Placed', [Next]_vars
  PROVE  [Pool!Next]_(Pool!vars)
<1>1. ASSUME NEW w \in Workers, Step(w) PROVE [Pool!Next]_(Pool!vars)
  <2>1. TypeOK
    BY DEF IInv
  <2>2. CASE Wait(w) \/ Leave(w)
    <3>1. \A v \in Workers : worker'[v].entry = worker[v].entry /\ (Busy(v)' <=> Busy(v))
      BY <2>1, <2>2 DEF Wait, Leave, TypeOK, Busy
    <3> QED
      BY <2>2, <3>1, IdleIsStutter DEF Wait, Leave
  <2>3. CASE Dequeue(w)
    BY <2>3, DequeueStarts DEF Pool!Next
  <2>4. CASE \E s \in {"completed", "failed"} : Return(w, s)
    BY <2>4, ReturnIsStutter
  <2>5. CASE Throw(w)
    BY <2>5, ThrowAbandons DEF Pool!Next
  <2>6. CASE Finish(w)
    BY <2>6, FinishSettles DEF Pool!Next
  <2> QED
    BY <1>1, <2>2, <2>3, <2>4, <2>5, <2>6 DEF Step
<1>2. CASE Abort
  BY <1>2, IdleIsStutter DEF Abort, Busy
<1>3. CASE UNCHANGED vars
  BY <1>3, IdleIsStutter DEF vars, Busy
<1> QED
  BY <1>1, <1>2, <1>3 DEF Next, Over

(* The scheduler keeps the promises of TaskPool: every step of the workers *)
(* starts, settles or abandons one task there, or changes nothing there    *)
(* (scheduleSubagentTasks).                                                *)
THEOREM Refinement == Spec => ImplementsTaskPool
<1>1. Init /\ Placed => Pool!Init
  BY PoolInit
<1>2. IInv => Placed
  BY PlacedHolds
<1>3. IInv /\ IInv' /\ Placed /\ Placed' /\ [Next]_vars => [Pool!Next]_(Pool!vars)
  BY PoolStep
<1> QED
  BY <1>1, <1>2, <1>3, InductiveInvariant, PTL DEF Spec, ImplementsTaskPool, Pool!Spec
=============================================================================
