------------------------ MODULE CapacityLanesProof ------------------------
EXTENDS LaneHistory, TLAPS, Integers, FiniteSetTheorems, FunctionTheorems,
        SequenceTheorems, WellFoundedInduction

(* Proofs about the capacity lanes, for every set of tasks and lanes, every *)
(* route, every plan and every bound, whoever is cancelled.  The first part *)
(* is about who runs under a permit (module LaneHistory), the second about  *)
(* who waits and in which order they are served (module CapacityLanes).     *)

\* Every set of naturals that is not empty has a least element.
LEMMA LeastElement ==
  ASSUME NEW T \in SUBSET Nat, T # {}
  PROVE  \E m \in T : \A k \in T : m <= k
<1> DEFINE U == {1..k : k \in T}
<1>1. IsWellFoundedOn(StrictSubsetOrdering(Nat), FiniteSubsetsOf(Nat))
  BY FS_StrictSubsetOrderingWellFounded
<1>2. \A k \in T : k \in Nat /\ IsFiniteSet(1..k)
  BY FS_Interval
<1>3. U \subseteq FiniteSubsetsOf(Nat) /\ U # {}
  <2>1. \A k \in T : 1..k \in FiniteSubsetsOf(Nat)
    <3>1. \A k \in Nat : 1..k \in SUBSET Nat
      OBVIOUS
    <3>2. QED  BY <1>2, <3>1 DEF FiniteSubsetsOf
  <2>2. QED  BY <2>1
<1>4. PICK x \in U : \A y \in U : <<y, x>> \notin StrictSubsetOrdering(Nat)
  BY <1>1, <1>3, WFMin, Zenon
<1>5. PICK m \in T : x = 1..m
  BY <1>4
<1>6. ASSUME NEW k \in T, k < m PROVE FALSE
  <2>1. 1..k \in SUBSET Nat /\ 1..m \in SUBSET Nat /\ 1..k \subseteq 1..m /\ m \in 1..m /\ m \notin 1..k
    BY <1>6
  <2>2. <<1..k, 1..m>> \in StrictSubsetOrdering(Nat)
    BY <2>1 DEF StrictSubsetOrdering
  <2>3. QED  BY <1>4, <1>5, <1>6, <2>2
<1>7. QED  BY <1>6

\* The interval 1..n has n elements.
LEMMA IntervalCardinality ==
  ASSUME NEW n \in Nat
  PROVE  IsFiniteSet(1..n) /\ Cardinality(1..n) = n
<1>1. IsFiniteSet(1..n) /\ Cardinality(1..n) = IF 1 > n THEN 0 ELSE n - 1 + 1
  BY FS_Interval
<1>2. QED  BY <1>1

\* A set of positions that is closed downwards is an initial segment.
LEMMA InitialSegment ==
  ASSUME NEW n \in Nat, NEW A \in SUBSET (1..n),
         \A i \in A : \A j \in 1..n : j < i => j \in A
  PROVE  /\ IsFiniteSet(A) /\ Cardinality(A) \in 0..n
         /\ A = 1..Cardinality(A)
<1>1. CASE A = 1..n
  BY <1>1, IntervalCardinality
<1>2. CASE A # 1..n
  <2>1. PICK m \in (1..n) \ A : \A k \in (1..n) \ A : m <= k
    <3>1. \E k \in 1..n : k \notin A
      <4>1. \A k \in A : k \in 1..n
        OBVIOUS
      <4>2. QED  BY <1>2, <4>1, Zenon
    <3>2. (1..n) \ A \in SUBSET Nat
      OBVIOUS
    <3>3. QED  BY <3>1, <3>2, LeastElement
  <2>2. m \in 1..n /\ m \notin A /\ m - 1 \in 0..n
    BY <2>1
  <2>3. \A k \in 1..(m - 1) : k \in A
    BY <2>1
  <2>4. \A k \in A : k \in 1..(m - 1)
    BY <2>2
  <2>5. A = 1..(m - 1)
    BY <2>3, <2>4
  <2>6. QED  BY <2>2, <2>5, IntervalCardinality
<1>3. QED  BY <1>1, <1>2

\* The live entries before a position are finitely many, and more before a later one.
LEMMA LiveBeforeGrows ==
  ASSUME NEW q, NEW i \in Nat, NEW j \in Nat, i <= j
  PROVE  /\ IsFiniteSet(LiveBefore(q, i))
         /\ Cardinality(LiveBefore(q, i)) \in Nat
         /\ Cardinality(LiveBefore(q, i)) <= Cardinality(LiveBefore(q, j))
<1>1. /\ IsFiniteSet(1..(i - 1)) /\ IsFiniteSet(1..(j - 1))
      /\ LiveBefore(q, i) \in SUBSET (1..(i - 1)) /\ LiveBefore(q, j) \in SUBSET (1..(j - 1))
  BY FS_Interval DEF LiveBefore
<1>2. IsFiniteSet(LiveBefore(q, i)) /\ IsFiniteSet(LiveBefore(q, j))
  BY <1>1, FS_Subset
<1>3. LiveBefore(q, i) \in SUBSET LiveBefore(q, j)
  BY DEF LiveBefore
<1>4. QED  BY <1>2, <1>3, FS_Subset, FS_CardinalityType

\* A deque with one more entry at its end.
Longer(a, o, e) ==
  /\ a \in Seq(Entry) /\ DOMAIN a = 1..(Len(o) + 1)
  /\ DOMAIN o = 1..Len(o) /\ Len(o) \in Nat /\ a[Len(o) + 1] = e
  /\ \A j \in 1..Len(o) : a[j] = o[j] /\ j \in DOMAIN a

LEMMA AppendEntries ==
  ASSUME NEW o \in Seq(Entry), NEW e \in Entry
  PROVE  Longer(Append(o, e), o, e)
<1>1. Len(o) \in Nat /\ DOMAIN o = 1..Len(o)
  OBVIOUS
<1>2. Append(o, e) \in Seq(Entry) /\ Len(Append(o, e)) = Len(o) + 1
  OBVIOUS
<1>3. DOMAIN Append(o, e) = 1..(Len(o) + 1)
  BY <1>2
<1>4. Append(o, e)[Len(o) + 1] = e /\ \A j \in 1..Len(o) : Append(o, e)[j] = o[j]
  BY <1>1
<1>5. \A j \in 1..Len(o) : j \in 1..(Len(o) + 1)
  BY <1>1
<1>6. QED  BY <1>1, <1>2, <1>3, <1>4, <1>5 DEF Longer

\* What the loop of _wake pops is a prefix of the deque.
LEMMA PoppedPrefix ==
  ASSUME NEW q \in Seq(Entry), NEW n \in Nat
  PROVE  /\ IsFiniteSet(Popped(q, n))
         /\ Cardinality(Popped(q, n)) \in 0..Len(q)
         /\ Popped(q, n) = 1..Cardinality(Popped(q, n))
<1>1. Popped(q, n) \in SUBSET (1..Len(q))
  BY DEF Popped
<1>2. ASSUME NEW i \in Popped(q, n), NEW j \in 1..Len(q), j < i
      PROVE  j \in Popped(q, n)
  BY <1>1, <1>2, LiveBeforeGrows DEF Popped
<1>3. QED  BY <1>1, <1>2, InitialSegment

-----------------------------------------------------------------------------
FutureState == {"none", "pending", "granted", "cancelled"}

ControllerState ==
  [capacity : [Lanes -> Nat \ {0}], active : [Lanes -> Nat],
   waiters : [Lanes -> [Priorities -> Seq(Entry)]], foregroundWaiting : Nat,
   fut : [Tasks -> FutureState], degraded : BOOLEAN]

\* The budget is a natural number and fits into what the lane has free.
LEMMA BudgetType ==
  ASSUME NEW s \in ControllerState, NEW l \in Lanes, NEW p \in Priorities
  PROVE  /\ Budget(s, l, p) \in Nat
         /\ Budget(s, l, p) > 0 => s.active[l] + Budget(s, l, p) <= s.capacity[l]
<1>1. s.capacity[l] \in Nat /\ s.active[l] \in Nat /\ Reserve \in Nat
  BY LanesAssumption DEF ControllerState
<1>2. Free(s, l) \in Nat /\ (Free(s, l) > 0 => s.active[l] + Free(s, l) <= s.capacity[l])
  BY <1>1 DEF Free
<1>3. Budget(s, l, p) \in Nat /\ Budget(s, l, p) <= Free(s, l)
  BY <1>1, <1>2 DEF Budget
<1>4. QED  BY <1>1, <1>2, <1>3

\* Who is served are finitely many tasks.
LEMMA ServedFinite ==
  ASSUME NEW q \in Seq(Entry), NEW n \in Nat
  PROVE  /\ Served(q, n) \in SUBSET Tasks
         /\ IsFiniteSet(Served(q, n)) /\ Cardinality(Served(q, n)) \in Nat
<1>1. ASSUME NEW i \in Popped(q, n) PROVE q[i].task \in Tasks
  <2>1. i \in DOMAIN q
    BY DEF Popped
  <2>2. q[i] \in Entry
    BY <2>1
  <2>3. QED  BY <2>2 DEF Entry
<1>2. Served(q, n) \in SUBSET Tasks
  BY <1>1 DEF Served
<1>3. QED  BY <1>2, LanesAssumption, FS_Subset, FS_CardinalityType

\* What is left of a deque are its entries behind the popped prefix.
LEMMA RestProperties ==
  ASSUME NEW q \in Seq(Entry), NEW n \in Nat
  PROVE  /\ Rest(q, n) \in Seq(Entry)
         /\ \A i \in DOMAIN Rest(q, n) :
              /\ i + Cardinality(Popped(q, n)) \in DOMAIN q
              /\ i + Cardinality(Popped(q, n)) \notin Popped(q, n)
              /\ Rest(q, n)[i] = q[i + Cardinality(Popped(q, n))]
<1> DEFINE k == Cardinality(Popped(q, n))
<1>1. k \in 0..Len(q) /\ Popped(q, n) = 1..k /\ Len(q) \in Nat
  BY PoppedPrefix
<1>2. Rest(q, n) = SubSeq(q, k + 1, Len(q))
  BY DEF Rest
<1>3. \A i \in (k + 1)..Len(q) : q[i] \in Entry
  BY <1>1
<1>4. /\ Rest(q, n) \in Seq(Entry)
      /\ Len(Rest(q, n)) = Len(q) - k
      /\ \A i \in 1..(Len(q) - k) : Rest(q, n)[i] = q[i + k]
  BY <1>1, <1>2, <1>3
<1>5. QED  BY <1>1, <1>4

\* The fields that serving a class changes, one by one.
LEMMA ServeFields ==
  ASSUME NEW s \in ControllerState, NEW l \in Lanes, NEW p \in Priorities
  PROVE  LET q == s.waiters[l][p]
             n == Budget(s, l, p)
             r == Serve(s, l, p)
         IN  /\ q \in Seq(Entry) /\ n \in Nat
             /\ r.capacity = s.capacity /\ r.degraded = s.degraded
             /\ r.foregroundWaiting = s.foregroundWaiting
             /\ r.active = [s.active EXCEPT ![l] = @ + Cardinality(Served(q, n))]
             /\ r.waiters = [s.waiters EXCEPT ![l][p] = Rest(q, n)]
             /\ r.fut = [t \in Tasks |-> IF t \in Served(q, n) THEN "granted" ELSE s.fut[t]]
<1>1. Budget(s, l, p) \in Nat
  BY BudgetType
<1>2. s.waiters[l][p] \in Seq(Entry)
  BY DEF ControllerState
<1>3. QED  BY <1>1, <1>2 DEF Serve, ControllerState

\* Serving a class keeps the controller's type.
LEMMA ServeType ==
  ASSUME NEW s \in ControllerState, NEW l \in Lanes, NEW p \in Priorities
  PROVE  Serve(s, l, p) \in ControllerState
<1> DEFINE q == s.waiters[l][p]
           n == Budget(s, l, p)
           r == Serve(s, l, p)
<1>1. /\ q \in Seq(Entry) /\ n \in Nat
  BY ServeFields
<1>2. Cardinality(Served(q, n)) \in Nat /\ Rest(q, n) \in Seq(Entry)
  BY <1>1, ServedFinite, RestProperties
<1>3. /\ r.capacity = s.capacity /\ r.degraded = s.degraded
      /\ r.foregroundWaiting = s.foregroundWaiting
      /\ r.active = [s.active EXCEPT ![l] = @ + Cardinality(Served(q, n))]
      /\ r.waiters = [s.waiters EXCEPT ![l][p] = Rest(q, n)]
      /\ r.fut = [t \in Tasks |-> IF t \in Served(q, n) THEN "granted" ELSE s.fut[t]]
  BY ServeFields
<1>4. r = [s EXCEPT !.active = r.active, !.waiters = r.waiters, !.fut = r.fut]
  BY DEF Serve, ControllerState
<1> HIDE DEF q, n, r
<1>5. r.active \in [Lanes -> Nat]
  BY <1>2, <1>3 DEF ControllerState
<1>6. r.waiters \in [Lanes -> [Priorities -> Seq(Entry)]]
  BY <1>2, <1>3 DEF ControllerState
<1>7. r.fut \in [Tasks -> FutureState]
  BY <1>3 DEF ControllerState, FutureState
<1>8. r \in ControllerState
  BY <1>4, <1>5, <1>6, <1>7 DEF ControllerState
<1>9. QED  BY <1>8 DEF r

\* No more are served than the budget allows.
LEMMA ServedBounded ==
  ASSUME NEW q \in Seq(Entry), NEW n \in Nat
  PROVE  Cardinality(Served(q, n)) <= n
<1> DEFINE k == Cardinality(Popped(q, n))
           live == LiveBefore(q, k + 1)
           f == [j \in live |-> q[j].task]
<1>1. k \in 0..Len(q) /\ Popped(q, n) = 1..k /\ Len(q) \in Nat
  BY PoppedPrefix
<1>2. live = {j \in Popped(q, n) : ~q[j].cancelled}
  BY <1>1 DEF LiveBefore
<1>3. f \in Surjection(live, Served(q, n))
  <2>1. f \in [live -> Served(q, n)]
    BY <1>2 DEF Served
  <2>2. \A t \in Served(q, n) : \E j \in live : f[j] = t
    BY <1>2 DEF Served
  <2>3. QED  BY <2>1, <2>2, Fun_IsSurj
<1>4. IsFiniteSet(live) /\ Cardinality(live) \in Nat
  BY <1>1, LiveBeforeGrows
<1>5. Cardinality(live) <= n
  <2>1. CASE k = 0
    <3>1. live = {}
      <4>1. ASSUME NEW j \in live PROVE FALSE
        <5>1. j \in Popped(q, n)
          BY <1>2
        <5>2. IsFiniteSet(Popped(q, n))
          BY PoppedPrefix
        <5>3. Popped(q, n) = {}
          BY <2>1, <5>2, FS_EmptySet
        <5>4. QED  BY <5>1, <5>3
      <4>2. QED  BY <4>1
    <3>2. Cardinality(live) = 0
      BY <1>4, <3>1, FS_EmptySet, Zenon
    <3> HIDE DEF live
    <3>3. QED  BY <3>2
  <2>2. CASE k # 0
    <3>1. k \in Popped(q, n) /\ k \in Nat
      BY <1>1, <2>2
    <3>2. Cardinality(LiveBefore(q, k)) < n
      BY <3>1 DEF Popped
    <3>3. IsFiniteSet(LiveBefore(q, k)) /\ Cardinality(LiveBefore(q, k)) \in Nat
      BY <3>1, LiveBeforeGrows
    <3>4. live \in SUBSET (LiveBefore(q, k) \cup {k})
      BY <3>1 DEF LiveBefore
    <3>5. /\ IsFiniteSet(LiveBefore(q, k) \cup {k})
          /\ Cardinality(LiveBefore(q, k) \cup {k}) <= Cardinality(LiveBefore(q, k)) + 1
      <4> DEFINE b == LiveBefore(q, k)
      <4> HIDE DEF b, k
      <4>1. IsFiniteSet(b) /\ Cardinality(b) \in Nat
        BY <3>3 DEF b
      <4>2. /\ IsFiniteSet(b \cup {k})
            /\ Cardinality(b \cup {k}) = IF k \in b THEN Cardinality(b) ELSE Cardinality(b) + 1
        BY <4>1, FS_AddElement
      <4>3. QED  BY <4>1, <4>2 DEF b
    <3>6. Cardinality(live) <= Cardinality(LiveBefore(q, k) \cup {k})
      BY <3>4, <3>5, FS_Subset
    <3>7. Cardinality(LiveBefore(q, k) \cup {k}) \in Nat
      BY <3>5, FS_CardinalityType
    <3>8. QED  BY <1>4, <3>2, <3>3, <3>5, <3>6, <3>7
  <2>3. QED  BY <2>1, <2>2
<1>6. IsFiniteSet(Served(q, n)) /\ Cardinality(Served(q, n)) <= Cardinality(live)
  BY <1>3, <1>4, FS_Surjection
<1>7. Cardinality(Served(q, n)) \in Nat
  BY <1>6, FS_CardinalityType
<1>8. QED  BY <1>4, <1>5, <1>6, <1>7

-----------------------------------------------------------------------------
(* The inductive invariant, over a controller state s, the waiter records w  *)
(* and the permits p, so that it can be followed through the calls a handler *)
(* makes.                                                                    *)
UserOf(f, w, p, l) ==
  {t \in Tasks : p[t][l] = "dynamic" \/ (f[t] = "granted" /\ w[t].lane = l)}

\* Who uses a permit of the lane, or will when it resumes: a cancelled waiter too.
ClaimOf(f, w, p, l) ==
  {t \in Tasks : p[t][l] = "dynamic" \/ (f[t] \in {"granted", "cancelled"} /\ w[t].lane = l)}

Awaited(s, w, l, r, e) ==
  ~e.cancelled => s.fut[e.task] = "pending" /\ w[e.task].lane = l /\ w[e.task].priority = r

SameWaiter(d, e) == ~d.cancelled /\ ~e.cancelled /\ d.task = e.task

QueueOK(s, w) ==
  \A l \in Lanes, r \in Priorities :
    /\ \A i \in DOMAIN s.waiters[l][r] : Awaited(s, w, l, r, s.waiters[l][r][i])
    /\ \A i, j \in DOMAIN s.waiters[l][r] :
         SameWaiter(s.waiters[l][r][i], s.waiters[l][r][j]) => i = j

WaitOK(s, w, p) ==
  \A t \in Tasks : s.fut[t] # "none" => w[t].lane \in Lanes /\ p[t][w[t].lane] = "none"

\* n permits in use, and d strays, for the users and claimants of lane l.
Accounted(n, d, f, w, p, l) ==
  /\ d \in Nat /\ n <= Cardinality(UserOf(f, w, p, l))
  /\ Cardinality(ClaimOf(f, w, p, l)) <= n + d

CountOK(s, w, p) ==
  \A l \in Lanes : Accounted(s.active[l], strays[l], s.fut, w, p, l)

LimitOK(s) ==
  \A l \in Lanes : s.active[l] <= Ceiling[l] /\ s.capacity[l] <= Ceiling[l]

StateOK(s, w, p) ==
  /\ s \in ControllerState
  /\ QueueOK(s, w) /\ WaitOK(s, w, p) /\ CountOK(s, w, p) /\ LimitOK(s)

\* What serving lane l leaves alone.
OnlyLane(s, r, w, l) ==
  /\ r.capacity = s.capacity /\ r.degraded = s.degraded
  /\ r.foregroundWaiting = s.foregroundWaiting
  /\ \A k \in Lanes : k # l => r.active[k] = s.active[k] /\ r.waiters[k] = s.waiters[k]
  /\ \A t \in Tasks : r.fut[t] # s.fut[t] =>
       s.fut[t] = "pending" /\ r.fut[t] = "granted" /\ w[t].lane = l

\* Who is served waited, in the deque that is served.
LEMMA ServedWaited ==
  ASSUME NEW s \in ControllerState, NEW w, NEW l \in Lanes, NEW r \in Priorities,
         QueueOK(s, w), NEW n \in Nat
  PROVE  \A t \in Served(s.waiters[l][r], n) :
           /\ t \in Tasks /\ s.fut[t] = "pending" /\ w[t].lane = l /\ w[t].priority = r
           /\ \E i \in Popped(s.waiters[l][r], n) :
                ~s.waiters[l][r][i].cancelled /\ s.waiters[l][r][i].task = t
<1> DEFINE q == s.waiters[l][r]
<1> SUFFICES ASSUME NEW t \in Served(q, n)
             PROVE  /\ t \in Tasks /\ s.fut[t] = "pending" /\ w[t].lane = l /\ w[t].priority = r
                    /\ \E i \in Popped(q, n) : ~q[i].cancelled /\ q[i].task = t
  OBVIOUS
<1>1. q \in Seq(Entry)
  BY DEF ControllerState
<1>2. PICK i \in Popped(q, n) : ~q[i].cancelled /\ q[i].task = t
  BY DEF Served
<1>3. i \in DOMAIN q
  BY DEF Popped
<1>4. t \in Tasks
  BY <1>1, ServedFinite
<1>5. s.fut[t] = "pending" /\ w[t].lane = l /\ w[t].priority = r
  BY <1>2, <1>3 DEF QueueOK, Awaited
<1>6. QED  BY <1>2, <1>4, <1>5

\* Serving a lane leaves the other lanes alone.
LEMMA ServeFrame ==
  ASSUME NEW s \in ControllerState, NEW w, NEW l \in Lanes, NEW r \in Priorities,
         QueueOK(s, w)
  PROVE  OnlyLane(s, Serve(s, l, r), w, l)
<1>1. \A t \in Served(s.waiters[l][r], Budget(s, l, r)) : s.fut[t] = "pending" /\ w[t].lane = l
  BY BudgetType, ServedWaited
<1> DEFINE q == s.waiters[l][r]
           n == Budget(s, l, r)
           z == Serve(s, l, r)
<1>2. /\ z.capacity = s.capacity /\ z.degraded = s.degraded
      /\ z.foregroundWaiting = s.foregroundWaiting
      /\ z.active = [s.active EXCEPT ![l] = @ + Cardinality(Served(q, n))]
      /\ z.waiters = [s.waiters EXCEPT ![l][r] = Rest(q, n)]
      /\ z.fut = [t \in Tasks |-> IF t \in Served(q, n) THEN "granted" ELSE s.fut[t]]
  BY ServeFields
<1>3. \A t \in Served(q, n) : s.fut[t] = "pending" /\ w[t].lane = l
  BY <1>1
<1> HIDE DEF q, n, z
<1>4. \A k \in Lanes : k # l => z.active[k] = s.active[k] /\ z.waiters[k] = s.waiters[k]
  BY <1>2 DEF ControllerState
<1>5. \A t \in Tasks : z.fut[t] # s.fut[t] =>
        s.fut[t] = "pending" /\ z.fut[t] = "granted" /\ w[t].lane = l
  BY <1>2, <1>3
<1>6. OnlyLane(s, z, w, l)
  BY <1>2, <1>4, <1>5 DEF OnlyLane
<1>7. QED  BY <1>6 DEF z

-----------------------------------------------------------------------------
\* An entry of a deque is a future of a task.
LEMMA EntryTask ==
  ASSUME NEW s \in ControllerState, NEW k \in Lanes, NEW u \in Priorities,
         NEW i \in DOMAIN s.waiters[k][u]
  PROVE  /\ s.waiters[k][u][i] \in Entry
         /\ s.waiters[k][u][i].task \in Tasks
<1>1. s.waiters[k][u] \in Seq(Entry)
  BY DEF ControllerState
<1>2. s.waiters[k][u][i] \in Entry
  BY <1>1
<1>3. QED  BY <1>2 DEF Entry

\* The deques are well formed, whatever else of the controller changes.
LEMMA QueueSame ==
  ASSUME NEW s, NEW z, NEW w, QueueOK(s, w), z.waiters = s.waiters, z.fut = s.fut
  PROVE  QueueOK(z, w)
<1>1. ASSUME NEW l \in Lanes, NEW r \in Priorities, NEW i \in DOMAIN s.waiters[l][r]
      PROVE  Awaited(z, w, l, r, s.waiters[l][r][i])
  <2>1. Awaited(s, w, l, r, s.waiters[l][r][i])
    BY DEF QueueOK
  <2>2. QED  BY <2>1 DEF Awaited
<1>2. \A l \in Lanes, r \in Priorities : \A i, j \in DOMAIN s.waiters[l][r] :
        SameWaiter(s.waiters[l][r][i], s.waiters[l][r][j]) => i = j
  BY DEF QueueOK
<1>3. QED  BY <1>1, <1>2 DEF QueueOK

\* What the invariant says of a live entry.
LEMMA LiveEntry ==
  ASSUME NEW s, NEW w, QueueOK(s, w), NEW l \in Lanes, NEW r \in Priorities,
         NEW i \in DOMAIN s.waiters[l][r], ~s.waiters[l][r][i].cancelled
  PROVE  /\ s.fut[s.waiters[l][r][i].task] = "pending"
         /\ w[s.waiters[l][r][i].task].lane = l /\ w[s.waiters[l][r][i].task].priority = r
<1>1. Awaited(s, w, l, r, s.waiters[l][r][i])
  BY DEF QueueOK
<1>2. QED  BY <1>1 DEF Awaited

\* Serving a class keeps the queues well formed: the tasks handed a permit
\* leave the deque, and nobody else does.
LEMMA QueueStep ==
  ASSUME NEW s \in ControllerState, NEW z, NEW w, NEW l \in Lanes, NEW r \in Priorities,
         NEW q \in Seq(Entry), NEW n \in Nat, QueueOK(s, w), q = s.waiters[l][r],
         z.waiters = [s.waiters EXCEPT ![l][r] = Rest(q, n)],
         z.fut = [t \in Tasks |-> IF t \in Served(q, n) THEN "granted" ELSE s.fut[t]]
  PROVE  QueueOK(z, w)
<1>1. PICK g \in Nat : g = Cardinality(Popped(q, n))
  BY PoppedPrefix
<1>2. \A i \in DOMAIN Rest(q, n) : /\ i \in Nat /\ i + g \in DOMAIN q
                                  /\ i + g \notin Popped(q, n)
                                  /\ Rest(q, n)[i] = q[i + g]
  <2>1. Rest(q, n) \in Seq(Entry)
    BY RestProperties
  <2>2. \A i \in DOMAIN Rest(q, n) : i \in Nat
    BY <2>1
  <2>3. \A i \in DOMAIN Rest(q, n) :
          /\ i + Cardinality(Popped(q, n)) \in DOMAIN q
          /\ i + Cardinality(Popped(q, n)) \notin Popped(q, n)
          /\ Rest(q, n)[i] = q[i + Cardinality(Popped(q, n))]
    BY RestProperties
  <2>4. QED  BY <1>1, <2>2, <2>3
<1>3. \A t \in Served(q, n) :
        /\ w[t].lane = l /\ w[t].priority = r /\ s.fut[t] = "pending"
        /\ \E i \in Popped(q, n) : ~q[i].cancelled /\ q[i].task = t
  <2>1. \A t \in Served(s.waiters[l][r], n) :
           /\ t \in Tasks /\ s.fut[t] = "pending" /\ w[t].lane = l /\ w[t].priority = r
           /\ \E i \in Popped(s.waiters[l][r], n) :
                ~s.waiters[l][r][i].cancelled /\ s.waiters[l][r][i].task = t
    BY ServedWaited
  <2>2. QED  BY <2>1, Zenon
<1>4. z.waiters[l][r] = Rest(q, n)
  BY DEF ControllerState
<1>5. \A k \in Lanes, u \in Priorities : (k # l \/ u # r) => z.waiters[k][u] = s.waiters[k][u]
  BY DEF ControllerState
<1>6. \A k \in Lanes, u \in Priorities : \A i \in DOMAIN s.waiters[k][u] :
        s.waiters[k][u][i].task \in Tasks
  BY EntryTask
<1>7. \A i, j \in DOMAIN q : ~q[i].cancelled /\ ~q[j].cancelled /\ q[i].task = q[j].task => i = j
  BY DEF QueueOK, SameWaiter
<1>8. \A i \in DOMAIN q : ~q[i].cancelled =>
        s.fut[q[i].task] = "pending" /\ w[q[i].task].lane = l /\ w[q[i].task].priority = r
  <2>1. \A i \in DOMAIN q : Awaited(s, w, l, r, q[i])
    BY DEF QueueOK
  <2>2. QED  BY <2>1, Zenon DEF Awaited
<1>9. \A i \in DOMAIN q : i \notin Popped(q, n) /\ ~q[i].cancelled => q[i].task \notin Served(q, n)
  <2>1. \A i \in Popped(q, n) : i \in DOMAIN q
    BY DEF Popped
  <2>2. QED  BY <1>3, <1>7, <2>1
<1>10. ASSUME NEW k \in Lanes, NEW u \in Priorities
       PROVE  /\ \A i \in DOMAIN z.waiters[k][u] :
                   Awaited(z, w, k, u, z.waiters[k][u][i])
              /\ \A i, j \in DOMAIN z.waiters[k][u] :
                   SameWaiter(z.waiters[k][u][i], z.waiters[k][u][j]) => i = j
  <2>1. CASE k # l \/ u # r
    <3>1. z.waiters[k][u] = s.waiters[k][u]
      BY <1>5, <2>1
    <3>2. ASSUME NEW i \in DOMAIN s.waiters[k][u], ~s.waiters[k][u][i].cancelled
          PROVE  z.fut[s.waiters[k][u][i].task] = s.fut[s.waiters[k][u][i].task]
      <4>1. PICK t \in Tasks : t = s.waiters[k][u][i].task
        BY <1>6
      <4>2. w[t].lane = k /\ w[t].priority = u
        <5>1. Awaited(s, w, k, u, s.waiters[k][u][i])
          BY <3>2 DEF QueueOK
        <5>2. QED  BY <3>2, <4>1, <5>1, Zenon DEF Awaited
      <4>3. t \notin Served(q, n)
        BY <1>3, <2>1, <4>2
      <4>4. QED  BY <4>1, <4>3
    <3>3. \A i \in DOMAIN s.waiters[k][u] :
            Awaited(z, w, k, u, s.waiters[k][u][i])
      <4>1. \A i \in DOMAIN s.waiters[k][u] : Awaited(s, w, k, u, s.waiters[k][u][i])
        BY DEF QueueOK
      <4>2. \A i \in DOMAIN s.waiters[k][u] : ~s.waiters[k][u][i].cancelled =>
              z.fut[s.waiters[k][u][i].task] = s.fut[s.waiters[k][u][i].task]
        BY <3>2
      <4>3. QED  BY <4>1, <4>2 DEF Awaited
    <3>4. \A i, j \in DOMAIN s.waiters[k][u] :
            SameWaiter(s.waiters[k][u][i], s.waiters[k][u][j]) => i = j
      BY DEF QueueOK
    <3>5. QED  BY <3>1, <3>3, <3>4, Zenon
  <2>2. CASE k = l /\ u = r
    <3>1. ASSUME NEW i \in DOMAIN Rest(q, n), ~Rest(q, n)[i].cancelled
          PROVE  Awaited(z, w, l, r, Rest(q, n)[i])
      <4>1. PICK m \in DOMAIN q : m \notin Popped(q, n) /\ Rest(q, n)[i] = q[m]
        BY <1>2
      <4>2. q[m].task \notin Served(q, n) /\ q[m].task \in Tasks
        BY <1>6, <1>9, <3>1, <4>1
      <4>3. s.fut[q[m].task] = "pending" /\ w[q[m].task].lane = l /\ w[q[m].task].priority = r
        BY <1>8, <3>1, <4>1
      <4>4. QED  BY <4>1, <4>2, <4>3 DEF Awaited
    <3>2. ASSUME NEW i \in DOMAIN Rest(q, n), NEW j \in DOMAIN Rest(q, n),
                 ~Rest(q, n)[i].cancelled, ~Rest(q, n)[j].cancelled,
                 Rest(q, n)[i].task = Rest(q, n)[j].task
          PROVE  i = j
      <4>1. PICK a \in DOMAIN q : a = i + g /\ Rest(q, n)[i] = q[a]
        BY <1>2
      <4>a. PICK b \in DOMAIN q : b = j + g /\ Rest(q, n)[j] = q[b]
        BY <1>2
      <4>b. a = b
        BY <1>7, <3>2, <4>1, <4>a
      <4>c. i \in Nat /\ j \in Nat
        BY <1>2
      <4>2. QED  BY <4>1, <4>a, <4>b, <4>c
    <3>3. z.waiters[k][u] = Rest(q, n)
      BY <1>4, <2>2
    <3>4. \A i \in DOMAIN Rest(q, n) : Awaited(z, w, l, r, Rest(q, n)[i])
      BY <3>1 DEF Awaited
    <3>5. \A i, j \in DOMAIN Rest(q, n) : SameWaiter(Rest(q, n)[i], Rest(q, n)[j]) => i = j
      BY <3>2 DEF SameWaiter
    <3>6. QED  BY <2>2, <3>3, <3>4, <3>5, Zenon
  <2>3. QED  BY <2>1, <2>2
<1>11. QED  BY <1>10 DEF QueueOK

\* Users and claimants are tasks, so they can be counted.
LEMMA CanCount ==
  ASSUME NEW m \in SUBSET Tasks
  PROVE  IsFiniteSet(m) /\ Cardinality(m) \in Nat
BY LanesAssumption, FS_Subset, FS_CardinalityType

\* Two sets of tasks that have none in common.
LEMMA CountBoth ==
  ASSUME NEW m \in SUBSET Tasks, NEW g \in SUBSET Tasks, m \cap g = {}
  PROVE  Cardinality(m \cup g) = Cardinality(m) + Cardinality(g)
<1>1. IsFiniteSet(m) /\ IsFiniteSet(g) /\ Cardinality(m) \in Nat /\ Cardinality(g) \in Nat
  BY CanCount
<1>2. Cardinality(m \cup g) = Cardinality(m) + Cardinality(g) - Cardinality(m \cap g)
  BY <1>1, FS_Union
<1>3. Cardinality(m \cap g) = 0
  BY FS_EmptySet
<1> QED BY <1>1, <1>2, <1>3

\* Who was neither user nor claimant has become both, and a permit more is in use.
LEMMA MoreAccount ==
  ASSUME NEW n \in Nat, NEW d, NEW f, NEW w, NEW p, NEW h, NEW v, NEW q, NEW l,
         NEW g \in SUBSET Tasks, Accounted(n, d, f, w, p, l),
         g \cap ClaimOf(f, w, p, l) = {},
         UserOf(h, v, q, l) = UserOf(f, w, p, l) \cup g,
         ClaimOf(h, v, q, l) = ClaimOf(f, w, p, l) \cup g
  PROVE  Accounted(n + Cardinality(g), d, h, v, q, l)
<1> DEFINE a == UserOf(f, w, p, l)
           b == ClaimOf(f, w, p, l)
<1>1. a \in SUBSET Tasks /\ b \in SUBSET Tasks /\ a \cap g = {} /\ b \cap g = {}
  BY DEF UserOf, ClaimOf
<1>2. d \in Nat /\ n <= Cardinality(a) /\ Cardinality(b) <= n + d
  BY DEF Accounted
<1>3. UserOf(h, v, q, l) = a \cup g /\ ClaimOf(h, v, q, l) = b \cup g
  OBVIOUS
<1> HIDE DEF a, b
<1>4. Cardinality(a \cup g) = Cardinality(a) + Cardinality(g)
  BY <1>1, CountBoth
<1>5. Cardinality(b \cup g) = Cardinality(b) + Cardinality(g)
  BY <1>1, CountBoth
<1>6. Cardinality(a) \in Nat /\ Cardinality(b) \in Nat /\ Cardinality(g) \in Nat
  BY <1>1, CanCount
<1> QED BY <1>2, <1>3, <1>4, <1>5, <1>6 DEF Accounted

\* Whoever is handed a permit becomes a user of the lane, once.
LEMMA CountStep ==
  ASSUME NEW s \in ControllerState, NEW z, NEW w, NEW p, NEW l \in Lanes,
         NEW g \in SUBSET Tasks, CountOK(s, w, p), WaitOK(s, w, p),
         \A t \in g : s.fut[t] = "pending" /\ w[t].lane = l,
         z.active = [s.active EXCEPT ![l] = @ + Cardinality(g)],
         z.fut = [t \in Tasks |-> IF t \in g THEN "granted" ELSE s.fut[t]]
  PROVE  CountOK(z, w, p)
<1>1. ASSUME NEW k \in Lanes
      PROVE  Accounted(z.active[k], strays[k], z.fut, w, p, k)
  <2>1. Accounted(s.active[k], strays[k], s.fut, w, p, k) /\ s.active[k] \in Nat
    BY DEF CountOK, ControllerState
  <2>2. CASE k # l
    <3>1. z.active[k] = s.active[k]
      BY <2>2 DEF ControllerState
    <3>2. UserOf(z.fut, w, p, k) = UserOf(s.fut, w, p, k) /\ ClaimOf(z.fut, w, p, k) = ClaimOf(s.fut, w, p, k)
      BY <2>2 DEF UserOf, ClaimOf
    <3> QED BY <2>1, <3>1, <3>2 DEF Accounted
  <2>3. CASE k = l
    <3>1. g \cap ClaimOf(s.fut, w, p, l) = {}
      BY DEF ClaimOf, WaitOK
    <3>2. UserOf(z.fut, w, p, l) = UserOf(s.fut, w, p, l) \cup g
      BY DEF UserOf
    <3>3. ClaimOf(z.fut, w, p, l) = ClaimOf(s.fut, w, p, l) \cup g
      BY DEF ClaimOf
    <3>4. Accounted(s.active[l] + Cardinality(g), strays[l], z.fut, w, p, l)
      BY <2>1, <2>3, <3>1, <3>2, <3>3, MoreAccount
    <3>5. z.active[l] = s.active[l] + Cardinality(g)
      BY DEF ControllerState
    <3> QED BY <2>3, <3>4, <3>5
  <2> QED BY <2>2, <2>3
<1> QED BY <1>1 DEF CountOK

\* Serving a class keeps the deques well formed.
LEMMA ServeQueue ==
  ASSUME NEW s \in ControllerState, NEW w, NEW l \in Lanes, NEW r \in Priorities, QueueOK(s, w)
  PROVE  QueueOK(Serve(s, l, r), w)
<1>1. PICK q \in Seq(Entry) : q = s.waiters[l][r]
  BY ServeFields
<1>2. PICK n \in Nat : n = Budget(s, l, r)
  BY BudgetType
<1>3. PICK z : z = Serve(s, l, r)
  OBVIOUS
<1> DEFINE v == Serve(s, l, r)
           x == s.waiters[l][r]
           m == Budget(s, l, r)
<1>0. s \in ControllerState
  OBVIOUS
<1>4. /\ v.capacity = s.capacity
      /\ v.active = [s.active EXCEPT ![l] = @ + Cardinality(Served(x, m))]
      /\ v.waiters = [s.waiters EXCEPT ![l][r] = Rest(x, m)]
      /\ v.fut = [t \in Tasks |-> IF t \in Served(x, m) THEN "granted" ELSE s.fut[t]]
  BY <1>0, ServeFields
<1>a. x = q /\ m = n /\ v = z
  BY <1>1, <1>2, <1>3
<1> HIDE DEF v, x, m
<1>5. /\ z.waiters = [s.waiters EXCEPT ![l][r] = Rest(q, n)]
      /\ z.fut = [t \in Tasks |-> IF t \in Served(q, n) THEN "granted" ELSE s.fut[t]]
  BY <1>4, <1>a, Zenon
<1>6. QueueOK(z, w)
  BY <1>1, <1>5, QueueStep
<1>7. QED  BY <1>3, <1>6

\* Serving a class keeps the state invariant.
LEMMA ServeKeeps ==
  ASSUME NEW s, NEW w, NEW p, NEW l \in Lanes, NEW r \in Priorities, StateOK(s, w, p)
  PROVE  StateOK(Serve(s, l, r), w, p) /\ OnlyLane(s, Serve(s, l, r), w, l)
<1>1. s \in ControllerState /\ QueueOK(s, w) /\ WaitOK(s, w, p) /\ CountOK(s, w, p) /\ LimitOK(s)
  BY DEF StateOK
<1>2. PICK q \in Seq(Entry) : q = s.waiters[l][r]
  BY <1>1, ServeFields
<1>3. PICK n \in Nat : n = Budget(s, l, r)
  BY <1>1, BudgetType
<1>4. PICK z \in ControllerState : z = Serve(s, l, r)
  BY <1>1, ServeType
<1> DEFINE v == Serve(s, l, r)
           x == s.waiters[l][r]
           m == Budget(s, l, r)
<1>a. /\ v.capacity = s.capacity
      /\ v.active = [s.active EXCEPT ![l] = @ + Cardinality(Served(x, m))]
      /\ v.waiters = [s.waiters EXCEPT ![l][r] = Rest(x, m)]
      /\ v.fut = [t \in Tasks |-> IF t \in Served(x, m) THEN "granted" ELSE s.fut[t]]
  BY <1>1, ServeFields
<1>b. x = q /\ m = n /\ v = z
  BY <1>2, <1>3, <1>4
<1> HIDE DEF v, x, m
<1>5. /\ z.capacity = s.capacity
      /\ z.active = [s.active EXCEPT ![l] = @ + Cardinality(Served(q, n))]
      /\ z.waiters = [s.waiters EXCEPT ![l][r] = Rest(q, n)]
      /\ z.fut = [t \in Tasks |-> IF t \in Served(q, n) THEN "granted" ELSE s.fut[t]]
  BY <1>a, <1>b, Zenon
<1>6. \A t \in Served(q, n) : t \in Tasks /\ s.fut[t] = "pending" /\ w[t].lane = l
  <2>1. \A t \in Served(s.waiters[l][r], n) : t \in Tasks /\ s.fut[t] = "pending" /\ w[t].lane = l
    BY <1>1, ServedWaited
  <2>2. QED  BY <1>2, <2>1, Zenon
<1>7. QueueOK(z, w)
  BY <1>1, <1>4, ServeQueue
<1>8. CountOK(z, w, p)
  <2>1. Served(q, n) \in SUBSET Tasks
    BY <1>6
  <2>2. QED  BY <1>1, <1>5, <1>6, <2>1, CountStep
<1>9. WaitOK(z, w, p)
  BY <1>1, <1>5, <1>6 DEF WaitOK
<1>10. LimitOK(z)
  <2>1. Cardinality(Served(q, n)) <= n /\ Cardinality(Served(q, n)) \in Nat
    BY ServedBounded, ServedFinite
  <2>2. n > 0 => s.active[l] + n <= s.capacity[l]
    BY <1>1, <1>3, BudgetType
  <2>3. /\ s.active[l] \in Nat /\ s.capacity[l] \in Nat /\ Ceiling[l] \in Nat
        /\ s.active[l] <= Ceiling[l] /\ s.capacity[l] <= Ceiling[l]
    BY <1>1, LanesAssumption DEF LimitOK, ControllerState
  <2>4. s.active[l] + Cardinality(Served(q, n)) <= Ceiling[l]
    BY <2>1, <2>2, <2>3
  <2>5. z.active[l] = s.active[l] + Cardinality(Served(q, n))
    BY <1>1, <1>5 DEF ControllerState
  <2>6. \A k \in Lanes : k # l => z.active[k] = s.active[k]
    BY <1>1, <1>5 DEF ControllerState
  <2>7. QED  BY <1>1, <1>5, <2>4, <2>5, <2>6 DEF LimitOK
<1>11. OnlyLane(s, z, w, l)
  BY <1>1, <1>4, ServeFrame
<1>12. QED  BY <1>4, <1>7, <1>8, <1>9, <1>10, <1>11 DEF StateOK

\* _wake keeps the deques well formed, and leaves the other lanes alone.
LEMMA WakeQueue ==
  ASSUME NEW s \in ControllerState, NEW w, NEW l \in Lanes, QueueOK(s, w)
  PROVE  /\ Wake(s, l) \in ControllerState /\ QueueOK(Wake(s, l), w) /\ OnlyLane(s, Wake(s, l), w, l)
<1> DEFINE a == Serve(s, l, FOREGROUND)
           b == Serve(a, l, BACKGROUND)
<1>1. FOREGROUND \in Priorities /\ BACKGROUND \in Priorities
  BY DEF Priorities
<1>2. a \in ControllerState /\ QueueOK(a, w) /\ OnlyLane(s, a, w, l)
  BY <1>1, ServeType, ServeQueue, ServeFrame
<1> HIDE DEF a
<1>3. b \in ControllerState /\ QueueOK(b, w) /\ OnlyLane(a, b, w, l)
  BY <1>1, <1>2, ServeType, ServeQueue, ServeFrame
<1>4. Wake(s, l) = b
  BY DEF Wake, a
<1> HIDE DEF b
<1>5. OnlyLane(s, b, w, l)
  BY <1>2, <1>3 DEF OnlyLane
<1>6. QED  BY <1>3, <1>4, <1>5

\* _wake keeps the state invariant.
LEMMA WakeKeeps ==
  ASSUME NEW s, NEW w, NEW p, NEW l \in Lanes, StateOK(s, w, p)
  PROVE  StateOK(Wake(s, l), w, p) /\ OnlyLane(s, Wake(s, l), w, l)
<1> DEFINE a == Serve(s, l, FOREGROUND)
           b == Serve(a, l, BACKGROUND)
<1>1. FOREGROUND \in Priorities /\ BACKGROUND \in Priorities
  BY DEF Priorities
<1>2. StateOK(a, w, p) /\ OnlyLane(s, a, w, l)
  BY <1>1, ServeKeeps
<1> HIDE DEF a
<1>3. StateOK(b, w, p) /\ OnlyLane(a, b, w, l)
  BY <1>1, <1>2, ServeKeeps
<1>4. Wake(s, l) = b
  BY DEF Wake, a
<1> HIDE DEF b
<1>5. OnlyLane(s, b, w, l)
  BY <1>2, <1>3 DEF OnlyLane
<1>6. QED  BY <1>3, <1>4, <1>5

\* z is s after its lanes L were woken, where the waiters' records are w.
Woken(s, z, w, L) ==
  /\ z \in ControllerState /\ QueueOK(z, w)
  /\ z.capacity = s.capacity /\ z.degraded = s.degraded
  /\ z.foregroundWaiting = s.foregroundWaiting
  /\ \A l \in L : /\ z.active[l] = Wake(s, l).active[l] /\ z.waiters[l] = Wake(s, l).waiters[l]
                  /\ \A t \in Tasks : w[t].lane = l => z.fut[t] = Wake(s, l).fut[t]
  /\ \A l \in Lanes \ L : z.active[l] = s.active[l] /\ z.waiters[l] = s.waiters[l]
  /\ \A t \in Tasks : w[t].lane \notin L => z.fut[t] = s.fut[t]
  /\ \A t \in Tasks : z.fut[t] # s.fut[t] => s.fut[t] = "pending" /\ z.fut[t] = "granted"

\* Waking several lanes at once is waking each of them, because a wake changes
\* only its own lane and the futures of that lane's waiters.
LEMMA WakeLanesQueue ==
  ASSUME NEW s \in ControllerState, NEW w, NEW L \in SUBSET Lanes, QueueOK(s, w)
  PROVE  Woken(s, WakeLanes(s, L), w, L)
<1> DEFINE z == WakeLanes(s, L)
<1>1. s \in ControllerState
  OBVIOUS
<1>2. ASSUME NEW l \in L
      PROVE  /\ QueueOK(Wake(s, l), w) /\ OnlyLane(s, Wake(s, l), w, l)
             /\ Wake(s, l) \in ControllerState
  BY WakeQueue
<1>3. /\ z.capacity = s.capacity /\ z.degraded = s.degraded
      /\ z.foregroundWaiting = s.foregroundWaiting
      /\ z.active = [l \in Lanes |-> IF l \in L THEN Wake(s, l).active[l] ELSE s.active[l]]
      /\ z.waiters = [l \in Lanes |-> IF l \in L THEN Wake(s, l).waiters[l] ELSE s.waiters[l]]
      /\ z.fut = [t \in Tasks |-> IF \E l \in L : Wake(s, l).fut[t] # s.fut[t]
                                  THEN "granted" ELSE s.fut[t]]
  BY <1>1 DEF WakeLanes, ControllerState
<1>4. z = [s EXCEPT !.active = z.active, !.waiters = z.waiters, !.fut = z.fut]
  BY <1>1 DEF WakeLanes, ControllerState
<1> HIDE DEF z
<1>5. \A t \in Tasks : z.fut[t] = IF \E l \in L : Wake(s, l).fut[t] # s.fut[t]
                                  THEN "granted" ELSE s.fut[t]
  BY <1>3
<1>6. \A l \in L : z.active[l] = Wake(s, l).active[l] /\ z.waiters[l] = Wake(s, l).waiters[l]
  <2>1. ASSUME NEW l \in L
        PROVE  z.active[l] = Wake(s, l).active[l] /\ z.waiters[l] = Wake(s, l).waiters[l]
    <3>1. z.active[l] = Wake(s, l).active[l]
      BY <1>3
    <3>2. z.waiters[l] = Wake(s, l).waiters[l]
      BY <1>3
    <3>3. QED  BY <3>1, <3>2
  <2>2. QED  BY <2>1
<1>7. \A l \in Lanes \ L : z.active[l] = s.active[l] /\ z.waiters[l] = s.waiters[l]
  BY <1>3
<1>8. z \in ControllerState
  <2>1. z.active \in [Lanes -> Nat]
    BY <1>1, <1>2, <1>3 DEF ControllerState
  <2>2. z.waiters \in [Lanes -> [Priorities -> Seq(Entry)]]
    BY <1>1, <1>2, <1>3 DEF ControllerState
  <2>3. z.fut \in [Tasks -> FutureState]
    BY <1>1, <1>3 DEF ControllerState, FutureState
  <2>4. QED  BY <1>1, <1>4, <2>1, <2>2, <2>3 DEF ControllerState
<1>9. ASSUME NEW l \in L, NEW t \in Tasks, w[t].lane = l
      PROVE  z.fut[t] = Wake(s, l).fut[t]
  <2>1. \A k \in L : Wake(s, k).fut[t] # s.fut[t] => k = l /\ Wake(s, k).fut[t] = "granted"
    BY <1>2, <1>9 DEF OnlyLane
  <2>2. QED  BY <1>5, <2>1
<1>10. ASSUME NEW t \in Tasks, w[t].lane \notin L
      PROVE  z.fut[t] = s.fut[t]
  <2>1. \A k \in L : Wake(s, k).fut[t] = s.fut[t]
    BY <1>2, <1>10 DEF OnlyLane
  <2>2. QED  BY <1>5, <2>1
<1>11. ASSUME NEW t \in Tasks, z.fut[t] # s.fut[t]
      PROVE  s.fut[t] = "pending" /\ z.fut[t] = "granted"
  <2>1. PICK l \in L : Wake(s, l).fut[t] # s.fut[t] /\ z.fut[t] = "granted"
    BY <1>11, <1>5, Zenon
  <2>2. OnlyLane(s, Wake(s, l), w, l)
    BY <1>2
  <2>3. QED  BY <2>1, <2>2 DEF OnlyLane
<1>12. QueueOK(z, w)
  <2>1. ASSUME NEW l \in Lanes, NEW r \in Priorities
        PROVE  /\ \A i \in DOMAIN z.waiters[l][r] : Awaited(z, w, l, r, z.waiters[l][r][i])
               /\ \A i, j \in DOMAIN z.waiters[l][r] :
                    SameWaiter(z.waiters[l][r][i], z.waiters[l][r][j]) => i = j
    <3>1. PICK x \in ControllerState :
            /\ QueueOK(x, w) /\ z.waiters[l] = x.waiters[l]
            /\ \A t \in Tasks : w[t].lane = l => z.fut[t] = x.fut[t]
      <4>1. CASE l \in L
        BY <1>2, <1>6, <1>9, <4>1
      <4>2. CASE l \notin L
        BY <1>1, <1>7, <1>10, <4>2
      <4>3. QED  BY <4>1, <4>2
    <3>2. \A i \in DOMAIN x.waiters[l][r] :
            /\ Awaited(x, w, l, r, x.waiters[l][r][i])
            /\ x.waiters[l][r][i].task \in Tasks
      BY <3>1, EntryTask DEF QueueOK
    <3>3. \A i \in DOMAIN x.waiters[l][r] : Awaited(z, w, l, r, x.waiters[l][r][i])
      BY <3>1, <3>2 DEF Awaited
    <3>4. \A i, j \in DOMAIN x.waiters[l][r] :
            SameWaiter(x.waiters[l][r][i], x.waiters[l][r][j]) => i = j
      BY <3>1 DEF QueueOK
    <3>5. QED  BY <3>1, <3>3, <3>4
  <2>2. QED  BY <2>1 DEF QueueOK
<1>13. Woken(s, z, w, L)
  BY <1>3, <1>6, <1>7, <1>8, <1>9, <1>10, <1>11, <1>12 DEF Woken
<1>14. QED  BY <1>13 DEF z

\* Waking several lanes keeps the state invariant.
LEMMA WakeLanesKeeps ==
  ASSUME NEW s, NEW w, NEW p, NEW L \in SUBSET Lanes, StateOK(s, w, p)
  PROVE  /\ StateOK(WakeLanes(s, L), w, p)
         /\ \A t \in Tasks : s.fut[t] # "pending" => WakeLanes(s, L).fut[t] = s.fut[t]
<1>1. s \in ControllerState /\ QueueOK(s, w)
  BY DEF StateOK
<1>2. ASSUME NEW l \in L
      PROVE  /\ StateOK(Wake(s, l), w, p) /\ OnlyLane(s, Wake(s, l), w, l)
             /\ Wake(s, l) \in ControllerState
  BY WakeKeeps DEF StateOK
<1> DEFINE z == WakeLanes(s, L)
<1>4. /\ z \in ControllerState /\ QueueOK(z, w) /\ z.capacity = s.capacity
      /\ \A l \in L : /\ z.active[l] = Wake(s, l).active[l]
                      /\ \A t \in Tasks : w[t].lane = l => z.fut[t] = Wake(s, l).fut[t]
      /\ \A l \in Lanes \ L : z.active[l] = s.active[l]
      /\ \A t \in Tasks : w[t].lane \notin L => z.fut[t] = s.fut[t]
      /\ \A t \in Tasks : z.fut[t] # s.fut[t] => s.fut[t] = "pending" /\ z.fut[t] = "granted"
  <2>1. Woken(s, z, w, L)
    BY <1>1, WakeLanesQueue
  <2> HIDE DEF z
  <2> QED BY <2>1 DEF Woken
<1> HIDE DEF z
<1>5. WaitOK(z, w, p)
  <2>1. WaitOK(s, w, p)
    BY DEF StateOK
  <2>2. QED  BY <1>4, <2>1 DEF WaitOK
<1>6. CountOK(z, w, p)
  <2>1. ASSUME NEW l \in Lanes
        PROVE  Accounted(z.active[l], strays[l], z.fut, w, p, l)
    <3>1. PICK x \in ControllerState :
            /\ CountOK(x, w, p) /\ z.active[l] = x.active[l]
            /\ \A t \in Tasks : w[t].lane = l => z.fut[t] = x.fut[t]
      <4>1. CASE l \in L
        BY <1>2, <1>4, <4>1 DEF StateOK
      <4>2. CASE l \notin L
        BY <1>1, <1>4, <4>2 DEF StateOK
      <4>3. QED  BY <4>1, <4>2
    <3>2. UserOf(z.fut, w, p, l) = UserOf(x.fut, w, p, l) /\ ClaimOf(z.fut, w, p, l) = ClaimOf(x.fut, w, p, l)
      BY <3>1 DEF UserOf, ClaimOf
    <3>3. QED  BY <3>1, <3>2 DEF CountOK, Accounted
  <2>2. QED  BY <2>1 DEF CountOK
<1>7. LimitOK(z)
  BY <1>2, <1>4 DEF StateOK, LimitOK, OnlyLane
<1>8. QED  BY <1>4, <1>5, <1>6, <1>7 DEF StateOK, z

\* A change of plan moves capacities only, so it keeps the state invariant.
LEMMA ReplanKeeps ==
  ASSUME NEW s, NEW w, NEW p, StateOK(s, w, p),
         NEW c \in [Lanes -> Nat \ {0}], \A l \in Lanes : c[l] <= Ceiling[l], NEW d \in BOOLEAN
  PROVE  StateOK([s EXCEPT !.capacity = c, !.degraded = d], w, p)
<1> DEFINE z == [s EXCEPT !.capacity = c, !.degraded = d]
<1>1. s \in ControllerState
  BY DEF StateOK
<1>2. /\ z \in ControllerState
      /\ z.capacity = c /\ z.active = s.active /\ z.waiters = s.waiters /\ z.fut = s.fut
  BY <1>1 DEF ControllerState
<1> HIDE DEF z
<1>3. QueueOK(z, w)
  BY <1>2, QueueSame DEF StateOK
<1>4. WaitOK(z, w, p) /\ CountOK(z, w, p) /\ LimitOK(z)
  BY <1>2 DEF StateOK, WaitOK, CountOK, LimitOK
<1>5. QED  BY <1>2, <1>3, <1>4 DEF StateOK, z

\* recompute keeps the state invariant, whichever plan it makes.
LEMMA RecomputeKeeps ==
  ASSUME NEW s, NEW w, NEW p, NEW force \in BOOLEAN, StateOK(s, w, p), NEW x \in Recompute(s, force)
  PROVE  /\ StateOK(x, w, p)
         /\ \A t \in Tasks : s.fut[t] # "pending" => x.fut[t] = s.fut[t]
<1>1. s \in ControllerState
  BY DEF StateOK
<1>2. ASSUME NEW c \in Plans, x = WakeAll([s EXCEPT !.capacity = c])
      PROVE  /\ StateOK(x, w, p)
             /\ \A t \in Tasks : s.fut[t] # "pending" => x.fut[t] = s.fut[t]
  <2>1. c \in [Lanes -> Nat \ {0}] /\ \A l \in Lanes : c[l] <= Ceiling[l]
    <3>1. DOMAIN c = Lanes /\ c = [l \in Lanes |-> c[l]] /\ \A l \in Lanes : c[l] \in Floor[l]..Ceiling[l]
      BY DEF Plans
    <3>2. \A l \in Lanes : Floor[l] \in Nat \ {0} /\ Ceiling[l] \in Nat
      BY LanesAssumption
    <3>3. \A l \in Lanes : c[l] \in Nat \ {0} /\ c[l] <= Ceiling[l]
      BY <3>1, <3>2
    <3>4. QED  BY <3>1, <3>3
  <2>2. PICK y : y = [s EXCEPT !.capacity = c]
    OBVIOUS
  <2>3. s.degraded \in BOOLEAN /\ y = [s EXCEPT !.capacity = c, !.degraded = s.degraded] /\ y.fut = s.fut
    BY <1>1, <2>2 DEF ControllerState
  <2>4. StateOK([s EXCEPT !.capacity = c, !.degraded = s.degraded], w, p)
    BY <2>1, <2>3, ReplanKeeps
  <2>5. StateOK(y, w, p)
    BY <2>3, <2>4
  <2>6. x = WakeLanes(y, Lanes)
    BY <1>2, <2>2 DEF WakeAll
  <2>7. /\ StateOK(WakeLanes(y, Lanes), w, p)
        /\ \A t \in Tasks : y.fut[t] # "pending" => WakeLanes(y, Lanes).fut[t] = y.fut[t]
    <3>1. Lanes \in SUBSET Lanes
      OBVIOUS
    <3>2. QED  BY <2>5, <3>1, WakeLanesKeeps
  <2>8. QED  BY <2>3, <2>6, <2>7
<1>3. ASSUME x = Degraded(s)
      PROVE  /\ StateOK(x, w, p)
             /\ \A t \in Tasks : s.fut[t] # "pending" => x.fut[t] = s.fut[t]
  <2>1. Fixed \in [Lanes -> Nat \ {0}] /\ \A l \in Lanes : Fixed[l] <= Ceiling[l]
    BY LanesAssumption
  <2>2. x = [s EXCEPT !.capacity = Fixed, !.degraded = TRUE] /\ x.fut = s.fut
    BY <1>1, <1>3 DEF Degraded, ControllerState
  <2>3. StateOK([s EXCEPT !.capacity = Fixed, !.degraded = TRUE], w, p)
    BY <2>1, ReplanKeeps
  <2>4. QED  BY <2>2, <2>3
<1>4. x = s \/ x = Degraded(s) \/ \E c \in Plans : x = WakeAll([s EXCEPT !.capacity = c])
  BY DEF Recompute, Replan
<1>5. QED  BY <1>2, <1>3, <1>4

-----------------------------------------------------------------------------
Permits == [Tasks -> [Lanes -> {"none", "dynamic", "fixed"}]]
Records == [Tasks -> [lane : Lanes \cup {"none"}, priority : Priorities]]

\* An admission without queueing.
LEMMA AdmitKeeps ==
  ASSUME NEW s, NEW w, NEW p \in Permits, StateOK(s, w, p), NEW t \in Tasks, NEW l \in Lanes,
         s.fut[t] = "none", p[t][l] = "none", s.active[l] < s.capacity[l]
  PROVE  StateOK([s EXCEPT !.active[l] = @ + 1], w, [p EXCEPT ![t][l] = "dynamic"])
<1> DEFINE z == [s EXCEPT !.active[l] = @ + 1]
           q == [p EXCEPT ![t][l] = "dynamic"]
<1>1. s \in ControllerState
  BY DEF StateOK
<1>2. /\ z \in ControllerState /\ z.capacity = s.capacity /\ z.waiters = s.waiters /\ z.fut = s.fut
      /\ z.active = [s.active EXCEPT ![l] = @ + 1] /\ s.active \in [Lanes -> Nat]
  <2>1. s.active \in [Lanes -> Nat]
    BY <1>1 DEF ControllerState
  <2>2. PICK a : a = [s.active EXCEPT ![l] = @ + 1]
    OBVIOUS
  <2>3. a \in [Lanes -> Nat]
    BY <2>1, <2>2
  <2>4. z = [s EXCEPT !.active = a]
    BY <2>2
  <2> HIDE DEF z
  <2>5. /\ z \in ControllerState /\ z.capacity = s.capacity /\ z.waiters = s.waiters /\ z.fut = s.fut
        /\ z.active = a
    BY <1>1, <2>3, <2>4 DEF ControllerState
  <2>6. QED  BY <2>1, <2>2, <2>5
<1>3. /\ q[t][l] = "dynamic"
      /\ \A u \in Tasks, k \in Lanes : (u # t \/ k # l) => q[u][k] = p[u][k]
  BY DEF Permits
<1> HIDE DEF z, q
<1>4. QueueOK(z, w)
  BY <1>2, QueueSame DEF StateOK
<1>5. WaitOK(z, w, q)
  BY <1>2, <1>3 DEF StateOK, WaitOK
<1>6. CountOK(z, w, q)
  <2>1. ASSUME NEW k \in Lanes PROVE Accounted(z.active[k], strays[k], z.fut, w, q, k)
    <3>1. Accounted(s.active[k], strays[k], s.fut, w, p, k) /\ s.active[k] \in Nat
      BY <1>2 DEF StateOK, CountOK
    <3>2. CASE k # l
      <4>1. UserOf(z.fut, w, q, k) = UserOf(s.fut, w, p, k) /\ ClaimOf(z.fut, w, q, k) = ClaimOf(s.fut, w, p, k)
        BY <1>2, <1>3, <3>2 DEF UserOf, ClaimOf
      <4>2. QED  BY <1>2, <3>1, <3>2, <4>1 DEF Accounted
    <3>3. CASE k = l
      <4>1. UserOf(z.fut, w, q, l) = UserOf(s.fut, w, p, l) \cup {t}
        BY <1>2, <1>3 DEF UserOf
      <4>2. ClaimOf(z.fut, w, q, l) = ClaimOf(s.fut, w, p, l) \cup {t}
        BY <1>2, <1>3 DEF ClaimOf
      <4>3. {t} \cap ClaimOf(s.fut, w, p, l) = {} /\ {t} \in SUBSET Tasks
        BY DEF ClaimOf
      <4>4. Cardinality({t}) = 1
        BY FS_Singleton
      <4>5. Accounted(s.active[l] + Cardinality({t}), strays[l], z.fut, w, q, l)
        BY <3>1, <3>3, <4>1, <4>2, <4>3, MoreAccount
      <4>6. z.active[l] = s.active[l] + Cardinality({t})
        BY <1>2, <4>4
      <4>7. QED  BY <3>3, <4>5, <4>6
    <3>4. QED  BY <3>2, <3>3
  <2>2. QED  BY <2>1 DEF CountOK
<1>7. LimitOK(z)
  <2>1. \A k \in Lanes : s.active[k] \in Nat /\ s.capacity[k] \in Nat /\ Ceiling[k] \in Nat
    BY <1>1, LanesAssumption DEF ControllerState
  <2>2. LimitOK(s)
    BY DEF StateOK
  <2>3. QED  BY <1>2, <2>1, <2>2 DEF LimitOK
<1>8. QED  BY <1>2, <1>4, <1>5, <1>6, <1>7 DEF StateOK, z, q

\* z is s after task t queued its future in lane l; its record changed from w to v.
Queues(s, z, w, v, t, l) ==
  LET c == CurrentPriority(t) IN
  /\ z \in ControllerState /\ c \in Priorities
  /\ z.capacity = s.capacity /\ z.active = s.active /\ z.degraded = s.degraded
  /\ z.foregroundWaiting = IF c = FOREGROUND THEN s.foregroundWaiting + 1 ELSE s.foregroundWaiting
  /\ z.waiters = [s.waiters EXCEPT ![l][c] = Append(s.waiters[l][c], [task |-> t, cancelled |-> FALSE])]
  /\ z.fut[t] = "pending" /\ \A u \in Tasks : u # t => z.fut[u] = s.fut[u]
  /\ v[t].lane = l /\ v[t].priority = c /\ \A u \in Tasks : u # t => v[u] = w[u]
  /\ QueueOK(z, v)

\* Queueing a future keeps the deques well formed.
LEMMA EnqueueQueue ==
  ASSUME NEW s \in ControllerState, NEW w \in Records, QueueOK(s, w), NEW t \in Tasks, NEW l \in Lanes,
         s.fut[t] = "none"
  PROVE  Queues(s, Enqueue(s, t, l), w, [w EXCEPT ![t] = [lane |-> l, priority |-> CurrentPriority(t)]], t, l)
<1> DEFINE z == Enqueue(s, t, l)
           v == [w EXCEPT ![t] = [lane |-> l, priority |-> CurrentPriority(t)]]
           c == CurrentPriority(t)
           e == [task |-> t, cancelled |-> FALSE]
<1>1. s \in ControllerState /\ c \in Priorities /\ e \in Entry
  BY DEF CurrentPriority, Priorities, Entry
<1>2. s.waiters[l][c] \in Seq(Entry)
  BY <1>1 DEF ControllerState
<1>3. Append(s.waiters[l][c], e) \in Seq(Entry)
  BY <1>1, <1>2
<1>4. /\ z.capacity = s.capacity /\ z.active = s.active /\ z.degraded = s.degraded
      /\ z.waiters = [s.waiters EXCEPT ![l][c] = Append(s.waiters[l][c], e)]
      /\ z.fut = [s.fut EXCEPT ![t] = "pending"]
      /\ z.foregroundWaiting = IF c = FOREGROUND THEN s.foregroundWaiting + 1 ELSE s.foregroundWaiting
      /\ z.foregroundWaiting \in Nat
      /\ z = [s EXCEPT !.waiters = z.waiters, !.foregroundWaiting = z.foregroundWaiting, !.fut = z.fut]
  BY <1>1 DEF Enqueue, ControllerState
<1>5. v[t].lane = l /\ v[t].priority = c /\ \A u \in Tasks : u # t => v[u] = w[u]
  BY DEF Records
<1> HIDE DEF z, v, c, e
<1>6. z \in ControllerState
  <2>1. z.waiters \in [Lanes -> [Priorities -> Seq(Entry)]]
    BY <1>1, <1>3, <1>4 DEF ControllerState
  <2>2. z.fut \in [Tasks -> FutureState]
    BY <1>1, <1>4 DEF ControllerState, FutureState
  <2>3. QED  BY <1>1, <1>4, <2>1, <2>2 DEF ControllerState
<1>7. z.fut[t] = "pending" /\ \A u \in Tasks : u # t => z.fut[u] = s.fut[u]
  BY <1>1, <1>4 DEF ControllerState
<1>8. QueueOK(z, v)
  <2>1. ASSUME NEW k \in Lanes, NEW r \in Priorities
        PROVE  /\ \A i \in DOMAIN z.waiters[k][r] : Awaited(z, v, k, r, z.waiters[k][r][i])
               /\ \A i, j \in DOMAIN z.waiters[k][r] :
                    SameWaiter(z.waiters[k][r][i], z.waiters[k][r][j]) => i = j
    <3>1. \A i \in DOMAIN s.waiters[k][r] :
            /\ Awaited(s, w, k, r, s.waiters[k][r][i])
            /\ s.waiters[k][r][i].task \in Tasks
      BY <1>1, EntryTask DEF QueueOK
    <3>2. \A i \in DOMAIN s.waiters[k][r] :
            ~s.waiters[k][r][i].cancelled => s.waiters[k][r][i].task # t
      BY <3>1 DEF Awaited
    <3>3. \A i \in DOMAIN s.waiters[k][r] : Awaited(z, v, k, r, s.waiters[k][r][i])
      BY <1>5, <1>7, <3>1, <3>2 DEF Awaited
    <3>4. \A i, j \in DOMAIN s.waiters[k][r] :
            SameWaiter(s.waiters[k][r][i], s.waiters[k][r][j]) => i = j
      BY DEF QueueOK
    <3>5. CASE k # l \/ r # c
      <4>1. z.waiters[k][r] = s.waiters[k][r]
        BY <1>1, <1>4, <3>5 DEF ControllerState
      <4>2. QED  BY <3>3, <3>4, <4>1
    <3>6. CASE k = l /\ r = c
      <4> DEFINE o == s.waiters[l][c]
                 a == Append(o, e)
      <4>1. z.waiters[k][r] = a
        BY <1>1, <1>4, <3>6 DEF ControllerState
      <4>2. o \in Seq(Entry) /\ Len(o) \in Nat
        BY <1>2
      <4>3. /\ DOMAIN a = 1..(Len(o) + 1) /\ DOMAIN o = 1..Len(o)
            /\ a[Len(o) + 1] = e /\ \A i \in 1..Len(o) : a[i] = o[i]
        BY <1>1, <4>2
      <4>4. e.task = t /\ Awaited(z, v, l, c, e)
        BY <1>5, <1>7 DEF Awaited, e
      <4> HIDE DEF o, a
      <4>5. \A i \in DOMAIN o : Awaited(z, v, l, c, o[i]) /\ (~o[i].cancelled => o[i].task # t)
        BY <3>2, <3>3, <3>6 DEF o
      <4>6. \A i, j \in DOMAIN o : SameWaiter(o[i], o[j]) => i = j
        BY <3>4, <3>6 DEF o
      <4>7. \A i \in DOMAIN a : Awaited(z, v, l, c, a[i])
        BY <4>2, <4>3, <4>4, <4>5
      <4>8. ASSUME NEW i \in DOMAIN a, NEW j \in DOMAIN a, SameWaiter(a[i], a[j]) PROVE i = j
        BY <4>2, <4>3, <4>4, <4>5, <4>6, <4>8 DEF SameWaiter
      <4>9. QED  BY <3>6, <4>1, <4>7, <4>8
    <3>7. QED  BY <3>5, <3>6
  <2>2. QED  BY <2>1 DEF QueueOK
<1>9. QED  BY <1>1, <1>4, <1>5, <1>6, <1>7, <1>8 DEF Queues, z, v, c, e

\* Queueing a future keeps the state invariant.
LEMMA EnqueueKeeps ==
  ASSUME NEW s, NEW w \in Records, NEW p \in Permits, StateOK(s, w, p), NEW t \in Tasks, NEW l \in Lanes,
         s.fut[t] = "none", p[t][l] = "none"
  PROVE  StateOK(Enqueue(s, t, l), [w EXCEPT ![t] = [lane |-> l, priority |-> CurrentPriority(t)]], p)
<1> DEFINE z == Enqueue(s, t, l)
           v == [w EXCEPT ![t] = [lane |-> l, priority |-> CurrentPriority(t)]]
<1>4. /\ z \in ControllerState /\ QueueOK(z, v) /\ z.capacity = s.capacity /\ z.active = s.active
      /\ z.fut[t] = "pending" /\ \A u \in Tasks : u # t => z.fut[u] = s.fut[u]
      /\ v[t].lane = l /\ \A u \in Tasks : u # t => v[u] = w[u]
  <2>1. /\ s \in ControllerState /\ QueueOK(s, w) /\ w \in Records
        /\ t \in Tasks /\ l \in Lanes /\ s.fut[t] = "none"
    BY DEF StateOK
  <2>2. Queues(s, z, w, v, t, l)
    BY <2>1, EnqueueQueue
  <2> HIDE DEF z, v
  <2> QED BY <2>2 DEF Queues
<1> HIDE DEF z, v
<1>5. WaitOK(z, v, p)
  BY <1>4 DEF StateOK, WaitOK
<1>6. CountOK(z, v, p)
  <2>1. \A k \in Lanes : /\ UserOf(z.fut, v, p, k) = UserOf(s.fut, w, p, k)
                         /\ ClaimOf(z.fut, v, p, k) = ClaimOf(s.fut, w, p, k)
    BY <1>4 DEF UserOf, ClaimOf
  <2>2. QED  BY <1>4, <2>1 DEF StateOK, CountOK, Accounted
<1>7. LimitOK(z)
  BY <1>4 DEF StateOK, LimitOK
<1>8. QED  BY <1>4, <1>5, <1>6, <1>7 DEF StateOK, z, v

\* A task resumes after its await: the permit it was handed, or has taken because
\* it was cancelled, is now recorded.
LEMMA ResumeKeeps ==
  ASSUME NEW s, NEW w \in Records, NEW p \in Permits, StateOK(s, w, p), NEW t \in Tasks,
         s.fut[t] \in {"granted", "cancelled"}, NEW n \in Nat
  PROVE  StateOK([s EXCEPT !.fut[t] = "none", !.foregroundWaiting = n],
                 [w EXCEPT ![t] = NoWaiter], [p EXCEPT ![t][w[t].lane] = "dynamic"])
<1>1. PICK l \in Lanes : l = w[t].lane /\ p[t][l] = "none"
  BY DEF StateOK, WaitOK
<1>2. PICK v : v = [w EXCEPT ![t] = NoWaiter]
  OBVIOUS
<1>3. PICK q : q = [p EXCEPT ![t][w[t].lane] = "dynamic"]
  OBVIOUS
<1>4. PICK f : f = [s.fut EXCEPT ![t] = "none"]
  OBVIOUS
<1>5. PICK z : z = [s EXCEPT !.fut = f, !.foregroundWaiting = n]
  OBVIOUS
<1>6. s \in ControllerState /\ s.fut \in [Tasks -> FutureState]
  BY DEF StateOK, ControllerState
<1>7. f \in [Tasks -> FutureState] /\ f[t] = "none" /\ \A u \in Tasks : u # t => f[u] = s.fut[u]
  BY <1>4, <1>6 DEF FutureState
<1>8. /\ z \in ControllerState /\ z.capacity = s.capacity /\ z.active = s.active
      /\ z.waiters = s.waiters /\ z.fut = f
  BY <1>5, <1>6, <1>7 DEF ControllerState
<1>9. \A u \in Tasks : u # t => v[u] = w[u]
  BY <1>2 DEF Records
<1>10. /\ q[t][l] = "dynamic"
       /\ \A u \in Tasks, k \in Lanes : (u # t \/ k # l) => q[u][k] = p[u][k]
  BY <1>1, <1>3 DEF Permits
<1>11. QueueOK(z, v)
  <2>1. ASSUME NEW k \in Lanes, NEW r \in Priorities, NEW i \in DOMAIN s.waiters[k][r]
        PROVE  Awaited(z, v, k, r, s.waiters[k][r][i])
    <3>1. Awaited(s, w, k, r, s.waiters[k][r][i]) /\ s.waiters[k][r][i].task \in Tasks
      BY <1>6, EntryTask DEF StateOK, QueueOK
    <3>2. QED  BY <1>7, <1>8, <1>9, <3>1 DEF Awaited
  <2>2. QED  BY <1>8, <2>1 DEF StateOK, QueueOK
<1>12. WaitOK(z, v, q)
  <2>1. \A u \in Tasks : u # t => z.fut[u] = s.fut[u] /\ v[u] = w[u]
    BY <1>7, <1>8, <1>9
  <2>2. z.fut[t] = "none"
    BY <1>7, <1>8
  <2>3. QED  BY <1>10, <2>1, <2>2 DEF StateOK, WaitOK
<1>13. CountOK(z, v, q)
  <2>1. ASSUME NEW k \in Lanes PROVE Accounted(z.active[k], strays[k], z.fut, v, q, k)
    <3>1. /\ strays[k] \in Nat /\ s.active[k] <= Cardinality(UserOf(s.fut, w, p, k))
          /\ Cardinality(ClaimOf(s.fut, w, p, k)) <= s.active[k] + strays[k]
      BY DEF StateOK, CountOK, Accounted
    <3>2. UserOf(s.fut, w, p, k) \subseteq UserOf(z.fut, v, q, k)
      BY <1>1, <1>7, <1>8, <1>9, <1>10 DEF UserOf
    <3>3. ClaimOf(z.fut, v, q, k) = ClaimOf(s.fut, w, p, k)
      BY <1>1, <1>7, <1>8, <1>9, <1>10 DEF ClaimOf
    <3>4. UserOf(s.fut, w, p, k) \in SUBSET Tasks /\ UserOf(z.fut, v, q, k) \in SUBSET Tasks
      BY DEF UserOf
    <3>5. PICK a \in SUBSET Tasks, b \in SUBSET Tasks :
            a = UserOf(s.fut, w, p, k) /\ b = UserOf(z.fut, v, q, k) /\ a \subseteq b
      BY <3>2, <3>4
    <3>6. Cardinality(a) <= Cardinality(b) /\ Cardinality(a) \in Nat /\ Cardinality(b) \in Nat
      BY <3>5, CanCount, FS_Subset
    <3>7. s.active[k] \in Nat
      BY <1>6 DEF ControllerState
    <3> QED BY <1>8, <3>1, <3>3, <3>5, <3>6, <3>7 DEF Accounted
  <2>2. QED  BY <2>1 DEF CountOK
<1>14. LimitOK(z)
  BY <1>8 DEF StateOK, LimitOK
<1>15. StateOK(z, v, q)
  BY <1>8, <1>11, <1>12, <1>13, <1>14 DEF StateOK
<1>16. z = [s EXCEPT !.fut[t] = "none", !.foregroundWaiting = n]
  BY <1>4, <1>5
<1>17. QED  BY <1>2, <1>3, <1>15, <1>16

\* The permits of a task are returned, in every lane where it used one.
LEMMA ReturnKeeps ==
  ASSUME NEW s, NEW w, NEW p \in Permits, StateOK(s, w, p), NEW t \in Tasks,
         s.fut[t] = "none", NEW L, L = {l \in Lanes : p[t][l] = "dynamic"}
  PROVE  StateOK(Returned(s, L), w, [p EXCEPT ![t] = [l \in Lanes |-> "none"]])
<1>1. PICK q : q = [p EXCEPT ![t] = [l \in Lanes |-> "none"]]
  OBVIOUS
<1>2. PICK a : a = [l \in Lanes |-> IF l \in L /\ s.active[l] > 0 THEN s.active[l] - 1 ELSE s.active[l]]
  OBVIOUS
<1>3. PICK z : z = [s EXCEPT !.active = a]
  OBVIOUS
<1>4. s \in ControllerState /\ s.active \in [Lanes -> Nat]
  BY DEF StateOK, ControllerState
<1>5. a \in [Lanes -> Nat] /\ \A l \in Lanes : a[l] <= s.active[l]
  BY <1>2, <1>4
<1>6. /\ z \in ControllerState /\ z.capacity = s.capacity /\ z.active = a
      /\ z.waiters = s.waiters /\ z.fut = s.fut
  BY <1>3, <1>4, <1>5 DEF ControllerState
<1>7. /\ \A k \in Lanes : q[t][k] = "none"
      /\ \A u \in Tasks : u # t => q[u] = p[u]
  BY <1>1 DEF Permits
<1>8. QueueOK(z, w)
  BY <1>6, QueueSame DEF StateOK
<1>9. WaitOK(z, w, q)
  BY <1>6, <1>7 DEF StateOK, WaitOK
<1>10. CountOK(z, w, q)
  <2>1. ASSUME NEW k \in Lanes PROVE Accounted(z.active[k], strays[k], z.fut, w, q, k)
    <3>1. PICK m \in SUBSET Tasks, c \in SUBSET Tasks : m = UserOf(s.fut, w, p, k) /\ c = ClaimOf(s.fut, w, p, k)
      BY DEF UserOf, ClaimOf
    <3>2. UserOf(z.fut, w, q, k) = m \ {t} /\ ClaimOf(z.fut, w, q, k) = c \ {t}
      BY <1>6, <1>7, <3>1 DEF UserOf, ClaimOf
    <3>3. /\ IsFiniteSet(m) /\ Cardinality(m) \in Nat
          /\ IsFiniteSet(c) /\ Cardinality(c) \in Nat
      BY CanCount
    <3>4. strays[k] \in Nat /\ s.active[k] <= Cardinality(m) /\ Cardinality(c) <= s.active[k] + strays[k]
      BY <3>1 DEF StateOK, CountOK, Accounted
    <3>5. z.active[k] = a[k] /\ s.active[k] \in Nat
      BY <1>4, <1>6
    <3>6. CASE k \in L
      <4>1. t \in m /\ t \in c
        BY <3>1, <3>6 DEF UserOf, ClaimOf
      <4>2. Cardinality(m \ {t}) = Cardinality(m) - 1 /\ Cardinality(c \ {t}) = Cardinality(c) - 1
        BY <3>3, <4>1, FS_RemoveElement
      <4>3. Cardinality(m) # 0 /\ Cardinality(c) # 0
        BY <3>3, <4>1, FS_EmptySet
      <4>4. a[k] = IF s.active[k] > 0 THEN s.active[k] - 1 ELSE s.active[k]
        BY <1>2, <3>6
      <4>5. a[k] <= Cardinality(m) - 1 /\ Cardinality(c) - 1 <= a[k] + strays[k]
        BY <3>3, <3>4, <3>5, <4>3, <4>4
      <4>6. QED  BY <3>2, <3>4, <3>5, <4>2, <4>5 DEF Accounted
    <3>7. CASE k \notin L
      <4>1. t \notin m /\ t \notin c
        BY <3>1, <3>7 DEF UserOf, ClaimOf
      <4>2. m \ {t} = m /\ c \ {t} = c
        BY <4>1
      <4>3. a[k] = s.active[k]
        BY <1>2, <3>7
      <4>4. QED  BY <3>2, <3>4, <3>5, <4>2, <4>3 DEF Accounted
    <3>8. QED  BY <3>6, <3>7
  <2>2. QED  BY <2>1 DEF CountOK
<1>11. LimitOK(z)
  <2>1. \A k \in Lanes : s.active[k] \in Nat /\ a[k] \in Nat /\ Ceiling[k] \in Nat
    BY <1>4, <1>5, LanesAssumption
  <2>2. \A k \in Lanes : s.active[k] <= Ceiling[k] /\ s.capacity[k] <= Ceiling[k]
    BY DEF StateOK, LimitOK
  <2>3. QED  BY <1>5, <1>6, <2>1, <2>2 DEF LimitOK
<1>12. StateOK(z, w, q)
  BY <1>6, <1>8, <1>9, <1>10, <1>11 DEF StateOK
<1>13. Returned(s, L) = z
  BY <1>2, <1>3 DEF Returned
<1>14. QED  BY <1>1, <1>12, <1>13

\* A permit of the plain semaphore does not count as a dynamic one.
LEMMA FixedKeeps ==
  ASSUME NEW s, NEW w, NEW p \in Permits, StateOK(s, w, p), NEW t \in Tasks, NEW l \in Lanes,
         s.fut[t] = "none", p[t][l] = "none"
  PROVE  StateOK(s, w, [p EXCEPT ![t][l] = "fixed"])
<1>1. PICK q : q = [p EXCEPT ![t][l] = "fixed"]
  OBVIOUS
<1>2. /\ q[t][l] = "fixed"
      /\ \A u \in Tasks, k \in Lanes : (u # t \/ k # l) => q[u][k] = p[u][k]
  BY <1>1 DEF Permits
<1>3. WaitOK(s, w, q)
  BY <1>2 DEF StateOK, WaitOK
<1>4. \A k \in Lanes : /\ UserOf(s.fut, w, q, k) = UserOf(s.fut, w, p, k)
                       /\ ClaimOf(s.fut, w, q, k) = ClaimOf(s.fut, w, p, k)
  BY <1>2 DEF UserOf, ClaimOf
<1>5. QED  BY <1>1, <1>3, <1>4 DEF StateOK, CountOK, Accounted

\* deque.remove keeps the other entries, in their order.
LEMMA WithoutEntries ==
  ASSUME NEW S, NEW q \in Seq(S), NEW i \in DOMAIN q
  PROVE  /\ Without(q, i) \in Seq(S)
         /\ \A j \in DOMAIN Without(q, i) : \E m \in DOMAIN q :
              m # i /\ Without(q, i)[j] = q[m] /\ m = IF j < i THEN j ELSE j + 1
<1>1. /\ Len(q) \in Nat /\ DOMAIN q = 1..Len(q) /\ i \in 1..Len(q)
      /\ \A m \in 1..Len(q) : q[m] \in S
  OBVIOUS
<1>2. PICK n : n = Len(q) - 1
  OBVIOUS
<1>0. n \in Nat /\ Len(q) = n + 1
  BY <1>1, <1>2
<1>3. PICK r : r = Without(q, i)
  OBVIOUS
<1>4. r = [j \in 1..n |-> IF j < i THEN q[j] ELSE q[j + 1]]
  BY <1>2, <1>3 DEF Without
<1>5. ASSUME NEW j \in 1..n
      PROVE  \E m \in 1..Len(q) : m # i /\ r[j] = q[m] /\ m = IF j < i THEN j ELSE j + 1
  <2>1. CASE j < i
    BY <1>0, <1>1, <1>4, <2>1
  <2>2. CASE ~(j < i)
    <3>1. j + 1 \in 1..Len(q) /\ j + 1 # i
      BY <1>0, <1>1, <2>2
    <3>2. QED  BY <1>4, <2>2, <3>1
  <2>3. QED  BY <2>1, <2>2
<1>6. r \in [1..n -> S]
  BY <1>1, <1>4, <1>5
<1>7. r \in Seq(S)
  BY <1>0, <1>6
<1>8. DOMAIN r = 1..n
  BY <1>4
<1>9. QED  BY <1>1, <1>3, <1>5, <1>7, <1>8

\* z is s after waiter i of the background deque of lane l, the future of task t,
\* became foreground; its record changed from w to v.
Promotes(s, z, w, v, t, l, i) ==
  /\ z \in ControllerState /\ QueueOK(z, v)
  /\ z.capacity = s.capacity /\ z.active = s.active /\ z.degraded = s.degraded
  /\ z.fut = s.fut /\ z.foregroundWaiting = s.foregroundWaiting + 1
  /\ z.waiters[l][BACKGROUND] = Without(s.waiters[l][BACKGROUND], i)
  /\ z.waiters[l][FOREGROUND] = Append(s.waiters[l][FOREGROUND], [task |-> t, cancelled |-> FALSE])
  /\ \A k \in Lanes : k # l => z.waiters[k] = s.waiters[k]
  /\ s.fut[t] = "pending" /\ w[t].lane = l /\ w[t].priority = BACKGROUND
  /\ v[t].lane = l /\ v[t].priority = FOREGROUND
  /\ \A u \in Tasks : u # t => v[u] = w[u]
  /\ \A u \in Tasks : v[u].lane = w[u].lane

\* A promotion keeps the deques well formed.
LEMMA LiftQueue ==
  ASSUME NEW s \in ControllerState, NEW w \in Records, QueueOK(s, w), NEW t \in Tasks, NEW l \in Lanes,
         NEW i \in DOMAIN s.waiters[l][BACKGROUND],
         s.waiters[l][BACKGROUND][i] = [task |-> t, cancelled |-> FALSE]
  PROVE  Promotes(s, Lift(s, l, i), w, [w EXCEPT ![t].priority = FOREGROUND], t, l, i)
<1>1. s \in ControllerState /\ FOREGROUND \in Priorities /\ BACKGROUND \in Priorities
  BY DEF Priorities
<1>2. PICK e \in Entry : e = [task |-> t, cancelled |-> FALSE]
  BY DEF Entry
<1>3. PICK b \in Seq(Entry) : b = s.waiters[l][BACKGROUND] /\ i \in DOMAIN b /\ b[i] = e
  BY <1>1, <1>2 DEF ControllerState
<1>4. PICK o \in Seq(Entry) : o = s.waiters[l][FOREGROUND]
  BY <1>1 DEF ControllerState
<1>5. PICK c : c = Without(b, i)
  OBVIOUS
<1>6. /\ c \in Seq(Entry)
      /\ \A j \in DOMAIN c : \E m \in DOMAIN b :
           m # i /\ c[j] = b[m] /\ m = IF j < i THEN j ELSE j + 1
  BY <1>3, <1>5, WithoutEntries
<1>7. PICK a : a = Append(o, e)
  OBVIOUS
<1>8. /\ a \in Seq(Entry) /\ DOMAIN a = 1..(Len(o) + 1) /\ DOMAIN o = 1..Len(o)
      /\ Len(o) \in Nat /\ a[Len(o) + 1] = e /\ \A j \in 1..Len(o) : a[j] = o[j]
  <2>1. Longer(a, o, e)
    BY <1>2, <1>4, <1>7, AppendEntries
  <2>2. QED  BY <2>1 DEF Longer
<1>9. PICK v : v = [w EXCEPT ![t].priority = FOREGROUND]
  OBVIOUS
<1>10. PICK z : z = Lift(s, l, i)
  OBVIOUS
<1>11. /\ z.capacity = s.capacity /\ z.active = s.active /\ z.degraded = s.degraded
       /\ z.fut = s.fut /\ z.foregroundWaiting = s.foregroundWaiting + 1
       /\ z.waiters = [s.waiters EXCEPT ![l] =
            [r \in Priorities |-> IF r = BACKGROUND THEN c ELSE a]]
       /\ z = [s EXCEPT !.waiters = z.waiters, !.foregroundWaiting = z.foregroundWaiting]
  <2>1. s = [capacity |-> s.capacity, active |-> s.active, waiters |-> s.waiters,
             foregroundWaiting |-> s.foregroundWaiting, fut |-> s.fut, degraded |-> s.degraded]
    BY <1>1 DEF ControllerState
  <2>2. l \in DOMAIN s.waiters
    BY <1>1 DEF ControllerState
  <2>3. PICK x : x = [r \in Priorities |-> IF r = BACKGROUND
                       THEN Without(s.waiters[l][r], i)
                       ELSE Append(s.waiters[l][r], s.waiters[l][BACKGROUND][i])]
    OBVIOUS
  <2>4. \A r \in Priorities : r # BACKGROUND => r = FOREGROUND
    BY DEF Priorities
  <2>5. x = [r \in Priorities |-> IF r = BACKGROUND THEN c ELSE a]
    BY <1>3, <1>4, <1>5, <1>7, <2>3, <2>4
  <2>6. z = [s EXCEPT !.waiters[l] = x, !.foregroundWaiting = @ + 1]
    BY <1>10, <2>3, Zenon DEF Lift
  <2>7. PICK y : y = [s.waiters EXCEPT ![l] = x]
    OBVIOUS
  <2>8. z = [s EXCEPT !.waiters = y, !.foregroundWaiting = s.foregroundWaiting + 1]
    BY <2>1, <2>6, <2>7
  <2>9. QED  BY <2>1, <2>5, <2>7, <2>8
<1>12. z \in ControllerState
  <2>1. PICK x : x = [r \in Priorities |-> IF r = BACKGROUND THEN c ELSE a]
    OBVIOUS
  <2>2. x \in [Priorities -> Seq(Entry)]
    BY <1>6, <1>8, <2>1
  <2>3. z.waiters \in [Lanes -> [Priorities -> Seq(Entry)]]
    BY <1>1, <1>11, <2>1, <2>2 DEF ControllerState
  <2>4. z.foregroundWaiting \in Nat
    BY <1>1, <1>11 DEF ControllerState
  <2>5. QED  BY <1>1, <1>11, <2>3, <2>4 DEF ControllerState
<1>13. /\ z.waiters[l][BACKGROUND] = c /\ z.waiters[l][FOREGROUND] = a
       /\ \A k \in Lanes : k # l => z.waiters[k] = s.waiters[k]
  BY <1>1, <1>11 DEF ControllerState, FOREGROUND, BACKGROUND
<1>14. s.fut[t] = "pending" /\ w[t].lane = l /\ w[t].priority = BACKGROUND
  <2>1. Awaited(s, w, l, BACKGROUND, e)
    BY <1>1, <1>3 DEF QueueOK
  <2>2. QED  BY <1>2, <2>1 DEF Awaited
<1>15. /\ v[t].lane = l /\ v[t].priority = FOREGROUND
       /\ \A u \in Tasks : u # t => v[u] = w[u]
       /\ \A u \in Tasks : v[u].lane = w[u].lane
  BY <1>9, <1>14 DEF Records
<1>16. ASSUME NEW k \in Lanes, NEW r \in Priorities, NEW j \in DOMAIN s.waiters[k][r],
              s.waiters[k][r][j].task # t \/ s.waiters[k][r][j].cancelled
       PROVE  Awaited(z, v, k, r, s.waiters[k][r][j])
  <2>1. Awaited(s, w, k, r, s.waiters[k][r][j]) /\ s.waiters[k][r][j].task \in Tasks
    BY <1>1, EntryTask DEF QueueOK
  <2>2. QED  BY <1>11, <1>15, <1>16, <2>1 DEF Awaited
<1>17. ASSUME NEW k \in Lanes, NEW r \in Priorities, NEW j \in DOMAIN s.waiters[k][r],
              k # l \/ r # BACKGROUND
       PROVE  s.waiters[k][r][j].task # t \/ s.waiters[k][r][j].cancelled
  <2>1. Awaited(s, w, k, r, s.waiters[k][r][j])
    BY DEF QueueOK
  <2>2. QED  BY <1>14, <1>17, <2>1 DEF Awaited
<1>18. \A k \in Lanes, r \in Priorities : \A x, y \in DOMAIN s.waiters[k][r] :
         SameWaiter(s.waiters[k][r][x], s.waiters[k][r][y]) => x = y
  BY DEF QueueOK
<1>19. \A m \in DOMAIN b : m # i => b[m].task # t \/ b[m].cancelled
  <2>1. ASSUME NEW m \in DOMAIN b, m # i, b[m].task = t, ~b[m].cancelled PROVE FALSE
    <3>1. SameWaiter(b[m], b[i])
      BY <1>2, <1>3, <2>1 DEF SameWaiter
    <3>2. QED  BY <1>1, <1>3, <1>18, <2>1, <3>1
  <2>2. QED  BY <2>1
<1>20. QueueOK(z, v)
  <2>1. ASSUME NEW k \in Lanes, NEW r \in Priorities
        PROVE  /\ \A j \in DOMAIN z.waiters[k][r] : Awaited(z, v, k, r, z.waiters[k][r][j])
               /\ \A x, y \in DOMAIN z.waiters[k][r] :
                    SameWaiter(z.waiters[k][r][x], z.waiters[k][r][y]) => x = y
    <3>1. CASE k # l
      BY <1>13, <1>16, <1>17, <1>18, <3>1
    <3>2. CASE k = l /\ r = BACKGROUND
      <4>1. z.waiters[k][r] = c
        BY <1>13, <3>2
      <4>2. ASSUME NEW j \in DOMAIN c PROVE Awaited(z, v, l, BACKGROUND, c[j])
        <5>1. PICK m \in DOMAIN b : m # i /\ c[j] = b[m]
          BY <1>6
        <5>2. QED  BY <1>1, <1>3, <1>16, <1>19, <5>1
      <4>3. ASSUME NEW x \in DOMAIN c, NEW y \in DOMAIN c, SameWaiter(c[x], c[y]) PROVE x = y
        <5>1. PICK m \in DOMAIN b : c[x] = b[m] /\ m = IF x < i THEN x ELSE x + 1
          BY <1>6
        <5>2. PICK n \in DOMAIN b : c[y] = b[n] /\ n = IF y < i THEN y ELSE y + 1
          BY <1>6
        <5>3. m = n
          BY <1>1, <1>3, <1>18, <4>3, <5>1, <5>2
        <5>4. x \in Nat /\ y \in Nat /\ i \in Nat
          <6>1. DOMAIN c = 1..Len(c) /\ DOMAIN b = 1..Len(b)
            BY <1>3, <1>6
          <6>2. QED  BY <1>3, <4>3, <6>1
        <5>5. QED  BY <5>1, <5>2, <5>3, <5>4
      <4>4. QED  BY <3>2, <4>1, <4>2, <4>3
    <3>3. CASE k = l /\ r = FOREGROUND
      <4>1. z.waiters[k][r] = a
        BY <1>13, <3>3
      <4>2. FOREGROUND # BACKGROUND
        BY DEF FOREGROUND, BACKGROUND
      <4>3. \A j \in DOMAIN o :
              (o[j].task # t \/ o[j].cancelled) /\ Awaited(z, v, l, FOREGROUND, o[j])
        BY <1>1, <1>4, <1>16, <1>17, <4>2
      <4>4. Awaited(z, v, l, FOREGROUND, e)
        BY <1>2, <1>11, <1>14, <1>15 DEF Awaited
      <4>5. \A x, y \in DOMAIN o : SameWaiter(o[x], o[y]) => x = y
        BY <1>1, <1>4, <1>18
      <4>6. e.task = t
        BY <1>2
      <4>7. ASSUME NEW j \in DOMAIN a PROVE Awaited(z, v, l, FOREGROUND, a[j])
        BY <1>8, <4>3, <4>4
      <4>8. ASSUME NEW x \in DOMAIN a, NEW y \in DOMAIN a, SameWaiter(a[x], a[y]) PROVE x = y
        <5>1. ASSUME NEW j \in DOMAIN a
              PROVE  (j \in DOMAIN o /\ a[j] = o[j]) \/ (j = Len(o) + 1 /\ a[j] = e)
          <6>1. j \in 1..(Len(o) + 1) /\ Len(o) \in Nat
            BY <1>8
          <6>2. j \in 1..Len(o) \/ j = Len(o) + 1
            BY <6>1
          <6>3. CASE j \in 1..Len(o)
            BY <1>8, <6>3
          <6>4. CASE j = Len(o) + 1
            BY <1>8, <6>4
          <6>5. QED  BY <6>2, <6>3, <6>4
        <5>2. \A j \in DOMAIN o : ~SameWaiter(o[j], e) /\ ~SameWaiter(e, o[j])
          BY <4>3, <4>6 DEF SameWaiter
        <5>3. QED  BY <4>5, <4>8, <5>1, <5>2
      <4>9. QED  BY <3>3, <4>1, <4>7, <4>8
    <3>4. QED  BY <3>1, <3>2, <3>3 DEF Priorities
  <2>2. QED  BY <2>1 DEF QueueOK
<1>21. QED  BY <1>2, <1>3, <1>4, <1>5, <1>7, <1>9, <1>10, <1>11, <1>12, <1>13, <1>14, <1>15, <1>20 DEF Promotes

\* A promotion keeps the state invariant.
LEMMA LiftKeeps ==
  ASSUME NEW s, NEW w \in Records, NEW p, StateOK(s, w, p), NEW t \in Tasks, NEW l \in Lanes,
         NEW i \in DOMAIN s.waiters[l][BACKGROUND],
         s.waiters[l][BACKGROUND][i] = [task |-> t, cancelled |-> FALSE]
  PROVE  StateOK(Lift(s, l, i), [w EXCEPT ![t].priority = FOREGROUND], p)
<1> DEFINE z == Lift(s, l, i)
           v == [w EXCEPT ![t].priority = FOREGROUND]
<1>3. /\ z \in ControllerState /\ QueueOK(z, v)
      /\ z.capacity = s.capacity /\ z.active = s.active /\ z.fut = s.fut
      /\ \A u \in Tasks : v[u].lane = w[u].lane
  <2>1. Promotes(s, z, w, v, t, l, i)
    BY LiftQueue DEF StateOK
  <2> HIDE DEF z, v
  <2> QED BY <2>1 DEF Promotes
<1> HIDE DEF z, v
<1>4. WaitOK(z, v, p)
  BY <1>3 DEF StateOK, WaitOK
<1>5. \A k \in Lanes : /\ UserOf(z.fut, v, p, k) = UserOf(s.fut, w, p, k)
                       /\ ClaimOf(z.fut, v, p, k) = ClaimOf(s.fut, w, p, k)
  BY <1>3 DEF UserOf, ClaimOf
<1>6. CountOK(z, v, p)
  BY <1>3, <1>5 DEF StateOK, CountOK, Accounted
<1>7. LimitOK(z)
  BY <1>3 DEF StateOK, LimitOK
<1>8. QED  BY <1>3, <1>4, <1>6, <1>7 DEF StateOK, z, v

-----------------------------------------------------------------------------
\* The invariant of the specification: the state is well formed, and nothing
\* but the task's own record and permits is stored outside the controller.
Inv ==
  /\ waiter \in Records /\ permit \in Permits /\ strays \in [Lanes -> Nat]
  /\ StateOK(Controller, waiter, permit)

\* The controller as a value has the type of its variables.
LEMMA ControllerType == Controller \in ControllerState <=> 
  /\ capacity \in [Lanes -> Nat \ {0}] /\ active \in [Lanes -> Nat]
  /\ waiters \in [Lanes -> [Priorities -> Seq(Entry)]]
  /\ foregroundWaiting \in Nat /\ fut \in [Tasks -> FutureState] /\ degraded \in BOOLEAN
BY DEF Controller, ControllerState

\* A handler's last state is the next state.
LEMMA BecomesController ==
  ASSUME NEW s \in ControllerState, Becomes(s)
  PROVE  Controller' = s
BY DEF Becomes, Controller, ControllerState

\* Nobody is queued before the first request.
LEMMA InitQueue ==
  ASSUME Init
  PROVE  /\ waiter \in Records /\ permit \in Permits
         /\ Controller \in ControllerState /\ QueueOK(Controller, waiter)
<1>2. waiter \in Records
  BY DEF Init, Records, NoWaiter, Priorities
<1>3. permit \in Permits
  BY DEF Init, Permits
<1>4. Controller \in ControllerState
  <2>1. \A l \in Lanes : waiters[l] = [r \in Priorities |-> <<>>]
    BY DEF Init
  <2>2. <<>> \in Seq(Entry)
    OBVIOUS
  <2>3. waiters \in [Lanes -> [Priorities -> Seq(Entry)]]
    BY <2>2 DEF Init
  <2>4. QED  BY <2>3, LanesAssumption, ControllerType DEF Init, FutureState
<1>5. QueueOK(Controller, waiter)
  BY DEF Init, QueueOK, Controller
<1>6. QED  BY <1>2, <1>3, <1>4, <1>5

\* The invariant holds before the first request.
LEMMA InitInv == HistoryInit => Inv
<1> SUFFICES ASSUME Init, strays = [l \in Lanes |-> 0] PROVE Inv
  BY DEF HistoryInit
<1>1. /\ waiter \in Records /\ permit \in Permits
      /\ Controller \in ControllerState /\ QueueOK(Controller, waiter)
  BY InitQueue
<1>6. WaitOK(Controller, waiter, permit)
  BY DEF Init, WaitOK, Controller
<1>7. CountOK(Controller, waiter, permit)
  <2>1. \A l \in Lanes : UserOf(fut, waiter, permit, l) = {} /\ ClaimOf(fut, waiter, permit, l) = {}
    BY DEF Init, UserOf, ClaimOf
  <2>2. Cardinality({}) = 0
    BY FS_EmptySet
  <2>3. ASSUME NEW l \in Lanes PROVE Accounted(active[l], strays[l], fut, waiter, permit, l)
    <3>1. active[l] = 0 /\ strays[l] = 0
      BY DEF Init
    <3>2. QED  BY <2>1, <2>2, <3>1 DEF Accounted
  <2>4. QED  BY <2>3 DEF CountOK, Controller
<1>8. LimitOK(Controller)
  BY LanesAssumption DEF Init, LimitOK, Controller
<1>9. strays \in [Lanes -> Nat]
  OBVIOUS
<1>10. QED  BY <1>1, <1>6, <1>7, <1>8, <1>9 DEF Inv, StateOK

\* What a handler's last call leaves is the next state of the controller.
LEMMA StateNext ==
  ASSUME NEW s, Becomes(s), NEW w, NEW p, waiter' = w, permit' = p,
         strays \in [Lanes -> Nat], strays' = strays, w \in Records, p \in Permits, StateOK(s, w, p)
  PROVE  Inv'
<1>1. Controller' = s
  BY BecomesController DEF StateOK
<1>2. StateOK(s, waiter', permit')
  OBVIOUS
<1>3. StateOK(Controller', waiter', permit')
  BY <1>1, <1>2
<1>a. QueueOK(Controller, waiter)' /\ WaitOK(Controller, waiter, permit)' /\ LimitOK(Controller)'
  BY <1>3 DEF StateOK, QueueOK, Awaited, WaitOK, LimitOK
<1>b. CountOK(Controller, waiter, permit)'
  <2>1. ASSUME NEW l \in Lanes
        PROVE  /\ strays'[l] \in Nat
               /\ Controller'.active[l] <= Cardinality(UserOf(Controller'.fut, waiter', permit', l))
               /\ Cardinality(ClaimOf(Controller'.fut, waiter', permit', l))
                    <= Controller'.active[l] + strays'[l]
    BY <1>3 DEF StateOK, CountOK, Accounted
  <2>2. QED  BY <2>1 DEF CountOK, Accounted, UserOf, ClaimOf
<1>4. StateOK(Controller, waiter, permit)'
  BY <1>3, <1>a, <1>b DEF StateOK
<1>5. QED  BY <1>4 DEF Inv

\* Every action keeps the invariant that cancels nobody.
LEMMA NextInv ==
  ASSUME Inv, Undisturbed \/ UNCHANGED vars, strays' = strays
  PROVE  Inv'
<1>1. /\ StateOK(Controller, waiter, permit) /\ waiter \in Records /\ permit \in Permits
      /\ Controller \in ControllerState /\ Controller.fut = fut /\ strays \in [Lanes -> Nat]
  BY DEF Inv, StateOK, Controller
<1>2. ASSUME NEW t \in Tasks, NEW l \in Lanes, Reaches(t, l)
      PROVE  fut[t] = "none" /\ permit[t][l] = "none"
  BY <1>2 DEF Reaches, Holds
<1>3. ASSUME NEW t \in Tasks, NEW l \in Lanes, AcquireFast(t, l) PROVE Inv'
  <2>1. PICK s \in Recompute(Controller, FALSE) :
          CanAdmit(s, l, CurrentPriority(t)) /\ Becomes([s EXCEPT !.active[l] = @ + 1])
    BY <1>3 DEF AcquireFast
  <2>2. /\ StateOK(s, waiter, permit)
        /\ \A u \in Tasks : Controller.fut[u] # "pending" => s.fut[u] = Controller.fut[u]
    BY <1>1, <2>1, RecomputeKeeps
  <2>3. s.fut[t] = "none" /\ permit[t][l] = "none"
    BY <1>1, <1>2, <1>3, <2>2 DEF AcquireFast
  <2>4. s.active[l] < s.capacity[l]
    <3>1. CurrentPriority(t) \in Priorities /\ s \in ControllerState
      BY <2>2 DEF CurrentPriority, Priorities, StateOK
    <3>2. PICK n \in Nat : n = Budget(s, l, CurrentPriority(t)) /\ n > 0
                           /\ s.active[l] + n <= s.capacity[l]
      BY <2>1, <3>1, BudgetType DEF CanAdmit
    <3>3. s.active[l] \in Nat /\ s.capacity[l] \in Nat
      BY <3>1 DEF ControllerState
    <3>4. QED  BY <3>2, <3>3
  <2>5. PICK q : q = [permit EXCEPT ![t][l] = "dynamic"]
    OBVIOUS
  <2>6. q \in Permits
    BY <1>1, <2>5 DEF Permits
  <2>7. PICK z : z = [s EXCEPT !.active[l] = @ + 1]
    OBVIOUS
  <2>8. StateOK(z, waiter, q)
    BY <1>1, <2>2, <2>3, <2>4, <2>5, <2>7, AdmitKeeps
  <2>9. permit' = q /\ waiter' = waiter /\ Becomes(z)
    BY <1>3, <2>1, <2>5, <2>7 DEF AcquireFast
  <2>10. QED  BY <1>1, <2>6, <2>8, <2>9, StateNext
<1>4. ASSUME NEW t \in Tasks, NEW l \in Lanes, AcquireSlow(t, l) PROVE Inv'
  <2>1. PICK s \in Recompute(Controller, FALSE) :
          \E r \in Recompute(Enqueue(s, t, l), TRUE) : Becomes(r)
    BY <1>4 DEF AcquireSlow
  <2>2. PICK r \in Recompute(Enqueue(s, t, l), TRUE) : Becomes(r)
    BY <2>1
  <2>3. /\ StateOK(s, waiter, permit)
        /\ \A u \in Tasks : Controller.fut[u] # "pending" => s.fut[u] = Controller.fut[u]
    BY <1>1, <2>1, RecomputeKeeps
  <2>4. s.fut[t] = "none" /\ permit[t][l] = "none"
    BY <1>1, <1>2, <1>4, <2>3 DEF AcquireSlow
  <2>5. PICK v : v = [waiter EXCEPT ![t] = [lane |-> l, priority |-> CurrentPriority(t)]]
    OBVIOUS
  <2>6. v \in Records
    BY <1>1, <2>5 DEF Records, CurrentPriority, Priorities
  <2>7. PICK e : e = Enqueue(s, t, l)
    OBVIOUS
  <2>8. StateOK(e, v, permit)
    BY <1>1, <2>3, <2>4, <2>5, <2>7, EnqueueKeeps
  <2>9. r \in Recompute(e, TRUE)
    BY <2>7
  <2>10. StateOK(r, v, permit)
    BY <2>8, <2>9, RecomputeKeeps
  <2>11. permit' = permit /\ waiter' = v
    BY <1>4, <2>5 DEF AcquireSlow
  <2>12. QED  BY <1>1, <2>2, <2>6, <2>10, <2>11, StateNext
<1>5. ASSUME NEW t \in Tasks, NEW l \in Lanes, AcquireFixed(t, l) PROVE Inv'
  <2>1. PICK q : q = [permit EXCEPT ![t][l] = "fixed"]
    OBVIOUS
  <2>2. q \in Permits
    BY <1>1, <2>1 DEF Permits
  <2>3. fut[t] = "none" /\ permit[t][l] = "none"
    BY <1>2, <1>5 DEF AcquireFixed
  <2>4. StateOK(Controller, waiter, q)
    BY <1>1, <2>1, <2>3, FixedKeeps
  <2>5. permit' = q /\ waiter' = waiter /\ Becomes(Controller)
    BY <1>5, <2>1 DEF AcquireFixed, Becomes, Controller
  <2>6. QED  BY <1>1, <2>2, <2>4, <2>5, StateNext
<1>6. ASSUME NEW t \in Tasks, Resume(t) PROVE Inv'
  <2>1. fut[t] \in {"granted", "cancelled"}
    BY <1>6 DEF Resume
  <2>2. PICK v : v = [waiter EXCEPT ![t] = NoWaiter]
    OBVIOUS
  <2>3. PICK q : q = [permit EXCEPT ![t][waiter[t].lane] = "dynamic"]
    OBVIOUS
  <2>4. v \in Records /\ q \in Permits
    BY <1>1, <2>2, <2>3 DEF Records, Permits, NoWaiter, Priorities
  <2>5. permit' = q /\ waiter' = v
    BY <1>6, <2>2, <2>3 DEF Resume
  <2>6. ASSUME NEW n \in Nat, NEW z, z = [Controller EXCEPT !.fut[t] = "none", !.foregroundWaiting = n]
        PROVE  StateOK(z, v, q)
    BY <1>1, <2>1, <2>2, <2>3, <2>6, ResumeKeeps
  <2>7. foregroundWaiting \in Nat
    BY <1>1, ControllerType
  <2>8. CASE waiter[t].priority = FOREGROUND
    <3>1. PICK n : n = IF foregroundWaiting > 0 THEN foregroundWaiting - 1 ELSE 0
      OBVIOUS
    <3>2. PICK z : z = [Controller EXCEPT !.fut[t] = "none", !.foregroundWaiting = n]
      OBVIOUS
    <3>3. n \in Nat
      BY <2>7, <3>1
    <3>4. StateOK(z, v, q)
      BY <2>6, <3>2, <3>3
    <3>5. Lanes \in SUBSET Lanes
      OBVIOUS
    <3>6. StateOK(WakeLanes(z, Lanes), v, q)
      BY <3>4, <3>5, WakeLanesKeeps
    <3>7. Becomes(WakeLanes(z, Lanes))
      BY <1>6, <2>8, <3>1, <3>2 DEF Resume, WakeAll, Controller
    <3>8. QED  BY <1>1, <2>4, <2>5, <3>6, <3>7, StateNext
  <2>9. CASE waiter[t].priority # FOREGROUND
    <3>1. PICK z : z = [Controller EXCEPT !.fut[t] = "none", !.foregroundWaiting = foregroundWaiting]
      OBVIOUS
    <3>2. StateOK(z, v, q)
      BY <2>6, <2>7, <3>1
    <3>3. Becomes(z)
      BY <1>6, <2>9, <3>1 DEF Resume, Becomes, Controller
    <3>4. QED  BY <1>1, <2>4, <2>5, <3>2, <3>3, StateNext
  <2>10. QED  BY <2>8, <2>9
<1>7. ASSUME NEW t \in Tasks, Promote(t) PROVE Inv'
  <2>1. PICK l : l = waiter[t].lane
    OBVIOUS
  <2>2. fut[t] = "pending"
    BY <1>7 DEF Promote
  <2>3. l \in Lanes
    BY <1>1, <2>1, <2>2 DEF StateOK, WaitOK
  <2>4. PICK i \in DOMAIN waiters[l][BACKGROUND] :
          /\ waiters[l][BACKGROUND][i] = [task |-> t, cancelled |-> FALSE]
          /\ Becomes(Wake(Lift(Controller, l, i), l))
    BY <1>7, <2>1 DEF Promote
  <2>5. PICK v : v = [waiter EXCEPT ![t].priority = FOREGROUND]
    OBVIOUS
  <2>6. PICK z : z = Lift(Controller, l, i)
    OBVIOUS
  <2>7. Controller.waiters = waiters
    BY DEF Controller
  <2>8. StateOK(z, v, permit)
    BY <1>1, <2>3, <2>4, <2>5, <2>6, <2>7, LiftKeeps
  <2>9. StateOK(Wake(z, l), v, permit)
    BY <2>3, <2>8, WakeKeeps
  <2>10. Becomes(Wake(z, l)) /\ waiter' = v /\ permit' = permit
    BY <1>7, <2>4, <2>5, <2>6 DEF Promote
  <2>11. v \in Records
    BY <1>1, <2>5 DEF Records, Priorities
  <2>12. QED  BY <1>1, <2>9, <2>10, <2>11, StateNext
<1>8. ASSUME NEW t \in Tasks, Finish(t) \/ AbandonFixed(t) PROVE Inv'
  <2>1. PICK L : L = DynamicLanes(t)
    OBVIOUS
  <2>2. L = {l \in Lanes : permit[t][l] = "dynamic"} /\ L \in SUBSET Lanes
    BY <2>1 DEF DynamicLanes
  <2>3. PICK q : q = [permit EXCEPT ![t] = [l \in Lanes |-> "none"]]
    OBVIOUS
  <2>4. fut[t] = "none" /\ ReleaseAll(t) /\ UNCHANGED waiter
    BY <1>2, <1>8 DEF Finish, AbandonFixed
  <2>5. PICK z : z = Returned(Controller, L)
    OBVIOUS
  <2>6. StateOK(z, waiter, q)
    BY <1>1, <2>2, <2>3, <2>4, <2>5, ReturnKeeps
  <2>7. StateOK(WakeLanes(z, L), waiter, q)
    BY <2>2, <2>6, WakeLanesKeeps
  <2>8. Becomes(WakeLanes(z, L)) /\ permit' = q /\ waiter' = waiter
    BY <2>1, <2>3, <2>4, <2>5 DEF ReleaseAll
  <2>9. q \in Permits
    BY <1>1, <2>3 DEF Permits
  <2>10. QED  BY <1>1, <2>7, <2>8, <2>9, StateNext
<1>9. ASSUME Observe PROVE Inv'
  <2>1. PICK s \in Recompute(Controller, TRUE) : Becomes(s)
    BY <1>9 DEF Observe
  <2>2. StateOK(s, waiter, permit)
    BY <1>1, <2>1, RecomputeKeeps
  <2>3. waiter' = waiter /\ permit' = permit
    BY <1>9 DEF Observe
  <2>4. QED  BY <1>1, <2>1, <2>2, <2>3, StateNext
<1>10. ASSUME UNCHANGED vars PROVE Inv'
  <2>1. Becomes(Controller) /\ waiter' = waiter /\ permit' = permit
    BY <1>10 DEF vars, Becomes, Controller
  <2>2. QED  BY <1>1, <2>1, StateNext
<1>11. QED  BY <1>3, <1>4, <1>5, <1>6, <1>7, <1>8, <1>9, <1>10 DEF Undisturbed

-----------------------------------------------------------------------------
(* Demand: who waits, and whom the controller would still admit.              *)

\* A live entry of task t in the deque of lane l and priority r.
Entered(s, t, l, r) ==
  \E i \in DOMAIN s.waiters[l][r] : s.waiters[l][r][i] = [task |-> t, cancelled |-> FALSE]

\* Who waits is queued, in the deque its record names.
Listed(s, w) ==
  \A t \in Tasks : s.fut[t] = "pending" =>
    w[t].lane \in Lanes /\ w[t].priority \in Priorities /\ Entered(s, t, w[t].lane, w[t].priority)

\* The foreground acquisitions that have not resumed.
Demanding(f, w) == {t \in Tasks : f[t] # "none" /\ w[t].priority = FOREGROUND}
Paused(s, w) == s.foregroundWaiting = Cardinality(Demanding(s.fut, w))

Demand(s, w) == s \in ControllerState /\ QueueOK(s, w) /\ Listed(s, w) /\ Paused(s, w)

\* Lane l would admit nobody who is queued in it.
Live(q) == \E i \in DOMAIN q : ~q[i].cancelled
Settled(s, l) == \A r \in Priorities : Live(s.waiters[l][r]) => ~CanAdmit(s, l, r)
AllSettled(s) == s.degraded \/ \A l \in Lanes : Settled(s, l)

\* What the loop of _wake does not pop is left, and nothing else.
LEMMA RestHolds ==
  ASSUME NEW q \in Seq(Entry), NEW n \in Nat, NEW i \in DOMAIN q, i \notin Popped(q, n)
  PROVE  \E j \in DOMAIN Rest(q, n) : Rest(q, n)[j] = q[i]
<1>1. PICK k \in 0..Len(q) : k = Cardinality(Popped(q, n)) /\ Popped(q, n) = 1..k
  BY PoppedPrefix
<1>2. i \in 1..Len(q) /\ Len(q) \in Nat /\ ~(i <= k)
  <2>1. DOMAIN q = 1..Len(q) /\ Len(q) \in Nat
    OBVIOUS
  <2>2. i \in 1..Len(q) /\ i \notin 1..k
    BY <1>1, <2>1, Zenon
  <2>3. QED  BY <2>1, <2>2
<1>3. Rest(q, n) = SubSeq(q, k + 1, Len(q))
  BY <1>1 DEF Rest
<1>4. \A m \in (k + 1)..Len(q) : q[m] \in Entry
  BY <1>2
<1>5. Len(Rest(q, n)) = Len(q) - k /\ Rest(q, n) \in Seq(Entry)
      /\ \A m \in 1..(Len(q) - k) : Rest(q, n)[m] = q[m + k]
  BY <1>2, <1>3, <1>4
<1>6. i - k \in 1..(Len(q) - k) /\ (i - k) + k = i
  BY <1>2
<1>7. i - k \in DOMAIN Rest(q, n)
  BY <1>5, <1>6
<1>8. QED  BY <1>5, <1>6, <1>7

\* As long as somebody is left the whole budget was used.
LEMMA BudgetUsed ==
  ASSUME NEW s \in ControllerState, NEW w, NEW l \in Lanes, NEW r \in Priorities, QueueOK(s, w),
         NEW q, q = s.waiters[l][r], NEW n \in Nat, Live(Rest(q, n))
  PROVE  Cardinality(Served(q, n)) = n
<1>1. q \in Seq(Entry)
  BY DEF ControllerState
<1>2. PICK k \in 0..Len(q) : k = Cardinality(Popped(q, n)) /\ Popped(q, n) = 1..k
  BY <1>1, PoppedPrefix
<1>3. k + 1 \in DOMAIN q /\ k + 1 \notin Popped(q, n) /\ k \in Nat
  <2>1. PICK i \in DOMAIN Rest(q, n) : i + k \in DOMAIN q /\ i + k \notin Popped(q, n)
    BY <1>1, <1>2, RestProperties DEF Live
  <2>2. i \in Nat /\ i # 0
    <3>1. Rest(q, n) \in Seq(Entry)
      BY <1>1, RestProperties
    <3>2. QED  BY <3>1
  <2>3. DOMAIN q = 1..Len(q) /\ Len(q) \in Nat /\ k \in Nat
    BY <1>1, <1>2
  <2>4. k + 1 \in 1..Len(q) /\ k + 1 \notin 1..k
    BY <2>1, <2>2, <2>3
  <2>5. QED  BY <1>2, <2>3, <2>4
<1> DEFINE live == LiveBefore(q, k + 1)
           f == [j \in live |-> q[j].task]
<1>4. IsFiniteSet(live) /\ Cardinality(live) \in Nat /\ ~(Cardinality(live) < n)
  BY <1>3, LiveBeforeGrows DEF Popped
<1>5. live = {j \in Popped(q, n) : ~q[j].cancelled} /\ \A j \in live : j \in DOMAIN q
  <2>1. (k + 1) - 1 = k /\ \A j \in Popped(q, n) : j \in DOMAIN q
    BY <1>3 DEF Popped
  <2>2. live = {j \in 1..k : ~q[j].cancelled}
    BY <2>1 DEF LiveBefore
  <2>3. QED  BY <1>2, <2>1, <2>2
<1>6. f \in Injection(live, Served(q, n))
  <2>1. f \in [live -> Served(q, n)]
    BY <1>5 DEF Served
  <2>2. \A i, j \in live : f[i] = f[j] => i = j
    <3>1. \A i, j \in DOMAIN q : SameWaiter(q[i], q[j]) => i = j
      BY DEF QueueOK
    <3>2. QED  BY <1>5, <3>1 DEF SameWaiter
  <2>3. QED  BY <2>1, <2>2, Fun_IsInj
<1>7. IsFiniteSet(Served(q, n)) /\ Cardinality(Served(q, n)) \in Nat /\ Cardinality(Served(q, n)) <= n
  BY <1>1, ServedFinite, ServedBounded
<1>8. Cardinality(live) <= Cardinality(Served(q, n))
  BY <1>6, <1>7, FS_Injection
<1>9. QED  BY <1>4, <1>7, <1>8

\* Serving leaves everybody queued whom it does not hand a permit.
LEMMA ServeListed ==
  ASSUME NEW s \in ControllerState, NEW w, NEW l \in Lanes, NEW r \in Priorities,
         QueueOK(s, w), Listed(s, w)
  PROVE  Listed(Serve(s, l, r), w)
<1> DEFINE v == Serve(s, l, r)
           x == s.waiters[l][r]
           m == Budget(s, l, r)
<1>0. s \in ControllerState
  OBVIOUS
<1>1. /\ v.capacity = s.capacity
      /\ v.active = [s.active EXCEPT ![l] = @ + Cardinality(Served(x, m))]
      /\ v.waiters = [s.waiters EXCEPT ![l][r] = Rest(x, m)]
      /\ v.fut = [t \in Tasks |-> IF t \in Served(x, m) THEN "granted" ELSE s.fut[t]]
  BY <1>0, ServeFields
<1>2. x \in Seq(Entry) /\ m \in Nat
  BY <1>0, BudgetType DEF ControllerState
<1> HIDE DEF v, m
<1>3. ASSUME NEW t \in Tasks, v.fut[t] = "pending"
      PROVE  w[t].lane \in Lanes /\ w[t].priority \in Priorities /\ Entered(v, t, w[t].lane, w[t].priority)
  <2>1. s.fut[t] = "pending" /\ t \notin Served(x, m)
    BY <1>1, <1>3
  <2>2. PICK k \in Lanes, u \in Priorities : k = w[t].lane /\ u = w[t].priority /\ Entered(s, t, k, u)
    BY <2>1 DEF Listed
  <2>3. CASE k = l /\ u = r
    <3>1. PICK i \in DOMAIN x : x[i] = [task |-> t, cancelled |-> FALSE]
      BY <2>2, <2>3 DEF Entered
    <3>2. i \notin Popped(x, m)
      BY <2>1, <3>1 DEF Served
    <3>3. PICK j \in DOMAIN Rest(x, m) : Rest(x, m)[j] = x[i]
      BY <1>2, <3>2, RestHolds
    <3>4. v.waiters[l][r] = Rest(x, m)
      BY <1>0, <1>1 DEF ControllerState
    <3>5. QED  BY <2>2, <2>3, <3>1, <3>3, <3>4 DEF Entered
  <2>4. CASE k # l \/ u # r
    <3>1. v.waiters[k][u] = s.waiters[k][u]
      BY <1>0, <1>1, <2>4 DEF ControllerState
    <3>2. QED  BY <2>2, <3>1 DEF Entered
  <2>5. QED  BY <2>3, <2>4
<1>4. QED  BY <1>3 DEF Listed, v

\* The budget does not grow with permits in use and with waiting foreground.
LEMMA SettledKept ==
  ASSUME NEW s \in ControllerState, NEW z \in ControllerState, NEW l \in Lanes, Settled(s, l),
         z.capacity[l] = s.capacity[l], s.active[l] <= z.active[l],
         s.foregroundWaiting <= z.foregroundWaiting,
         s.waiters[l][FOREGROUND] # <<>> => z.waiters[l][FOREGROUND] # <<>>,
         \A r \in Priorities : Live(z.waiters[l][r]) => Live(s.waiters[l][r])
  PROVE  Settled(z, l)
<1>1. /\ s.capacity[l] \in Nat /\ s.active[l] \in Nat /\ z.active[l] \in Nat
      /\ s.foregroundWaiting \in Nat /\ z.foregroundWaiting \in Nat /\ Reserve \in Nat
  BY LanesAssumption DEF ControllerState
<1>2. ASSUME NEW r \in Priorities, Live(z.waiters[l][r]) PROVE ~CanAdmit(z, l, r)
  <2>1. ~CanAdmit(s, l, r)
    BY <1>2 DEF Settled
  <2>2. QED  BY <1>1, <2>1 DEF CanAdmit, Budget, Free
<1>3. QED  BY <1>2 DEF Settled

\* z is s after class r of lane l was served; the class was q, its budget n.
Serves(s, z, l, r, q, n) ==
  /\ z.capacity = s.capacity /\ z.foregroundWaiting = s.foregroundWaiting
  /\ z.active[l] = s.active[l] + Cardinality(Served(q, n))
  /\ z.waiters[l][r] = Rest(q, n)
  /\ \A u \in Priorities : u # r => z.waiters[l][u] = s.waiters[l][u]

\* Serving a class, seen from its lane.
LEMMA ServeLane ==
  ASSUME NEW s \in ControllerState, NEW l \in Lanes, NEW r \in Priorities
  PROVE  Serves(s, Serve(s, l, r), l, r, s.waiters[l][r], Budget(s, l, r))
<1> DEFINE v == Serve(s, l, r)
           x == s.waiters[l][r]
           m == Budget(s, l, r)
<1>0. s \in ControllerState
  OBVIOUS
<1>1. /\ v.capacity = s.capacity /\ v.degraded = s.degraded
      /\ v.foregroundWaiting = s.foregroundWaiting
      /\ v.active = [s.active EXCEPT ![l] = @ + Cardinality(Served(x, m))]
      /\ v.waiters = [s.waiters EXCEPT ![l][r] = Rest(x, m)]
      /\ v.fut = [t \in Tasks |-> IF t \in Served(x, m) THEN "granted" ELSE s.fut[t]]
  BY ServeFields
<1> HIDE DEF v, x, m
<1>3. /\ v.active[l] = s.active[l] + Cardinality(Served(x, m))
      /\ v.waiters[l][r] = Rest(x, m)
      /\ \A u \in Priorities : u # r => v.waiters[l][u] = s.waiters[l][u]
  BY <1>0, <1>1 DEF ControllerState
<1>4. Serves(s, v, l, r, x, m)
  BY <1>1, <1>3 DEF Serves
<1>5. QED  BY <1>4 DEF v, x, m

\* A lane that was woken would admit nobody who is left in it.
LEMMA WakeSettles ==
  ASSUME NEW s \in ControllerState, NEW w, NEW l \in Lanes, QueueOK(s, w)
  PROVE  Settled(Wake(s, l), l)
<1>1. FOREGROUND \in Priorities /\ BACKGROUND \in Priorities /\ FOREGROUND # BACKGROUND
      /\ \A r \in Priorities : r = FOREGROUND \/ r = BACKGROUND
  BY DEF Priorities, FOREGROUND, BACKGROUND
<1>2. PICK a \in ControllerState : a = Serve(s, l, FOREGROUND) /\ QueueOK(a, w)
  BY <1>1, ServeType, ServeQueue
<1>3. PICK b \in ControllerState : b = Serve(a, l, BACKGROUND)
  BY <1>1, ServeType
<1>4. PICK n \in Nat : n = Budget(s, l, FOREGROUND)
  BY <1>1, BudgetType
<1>5. PICK m \in Nat : m = Budget(a, l, BACKGROUND)
  BY <1>1, BudgetType
<1>6. PICK q : q = s.waiters[l][FOREGROUND]
  OBVIOUS
<1>7. PICK x : x = a.waiters[l][BACKGROUND]
  OBVIOUS
<1>8. /\ a.capacity[l] = s.capacity[l] /\ a.foregroundWaiting = s.foregroundWaiting
      /\ a.active[l] = s.active[l] + Cardinality(Served(q, n))
      /\ a.waiters[l][FOREGROUND] = Rest(q, n)
  <2>1. Serves(s, a, l, FOREGROUND, q, n)
    BY <1>1, <1>2, <1>4, <1>6, ServeLane
  <2>2. QED  BY <2>1 DEF Serves
<1>9. /\ b.capacity[l] = a.capacity[l] /\ b.foregroundWaiting = a.foregroundWaiting
      /\ b.active[l] = a.active[l] + Cardinality(Served(x, m))
      /\ b.waiters[l][BACKGROUND] = Rest(x, m) /\ b.waiters[l][FOREGROUND] = a.waiters[l][FOREGROUND]
  <2>1. Serves(a, b, l, BACKGROUND, x, m)
    BY <1>1, <1>3, <1>5, <1>7, ServeLane
  <2>2. QED  BY <1>1, <2>1 DEF Serves
<1>10. /\ s.capacity[l] \in Nat /\ s.active[l] \in Nat /\ a.active[l] \in Nat /\ b.active[l] \in Nat
       /\ a.foregroundWaiting \in Nat /\ Reserve \in Nat
  BY LanesAssumption DEF ControllerState
<1>11. ASSUME Live(b.waiters[l][FOREGROUND]) PROVE ~CanAdmit(b, l, FOREGROUND)
  <2>1. Cardinality(Served(q, n)) = n
    BY <1>1, <1>6, <1>8, <1>9, <1>11, BudgetUsed
  <2>2. b.active[l] >= a.active[l]
    <3>1. x \in Seq(Entry)
      BY <1>1, <1>7 DEF ControllerState
    <3>2. Cardinality(Served(x, m)) \in Nat
      BY <3>1, ServedFinite
    <3>3. QED  BY <1>9, <1>10, <3>2
  <2>3. QED  BY <1>4, <1>8, <1>9, <1>10, <2>1, <2>2 DEF CanAdmit, Budget, Free
<1>12. ASSUME Live(b.waiters[l][BACKGROUND]) PROVE ~CanAdmit(b, l, BACKGROUND)
  <2>1. Cardinality(Served(x, m)) = m
    BY <1>1, <1>2, <1>7, <1>9, <1>12, BudgetUsed
  <2>2. m = Budget(a, l, BACKGROUND) /\ b.active[l] = a.active[l] + m
    BY <1>5, <1>9, <2>1
  <2>3. Budget(b, l, BACKGROUND) \in Nat
    BY <1>1, <1>3, BudgetType
  <2>4. /\ b.capacity[l] = a.capacity[l] /\ b.foregroundWaiting = a.foregroundWaiting
        /\ b.waiters[l][FOREGROUND] = a.waiters[l][FOREGROUND]
    BY <1>9
  <2>5. CASE m = 0
    BY <1>1, <1>10, <2>2, <2>4, <2>5 DEF CanAdmit, Budget, Free
  <2>6. CASE m > 0
    <3>1. a.capacity[l] \in Nat /\ a.active[l] \in Nat /\ b.active[l] = a.active[l] + m
      BY <1>8, <1>10, <2>2
    <3>2. m = IF Reserve > 0 /\ a.capacity[l] > Reserve
              THEN IF Free(a, l) > Reserve THEN Free(a, l) - Reserve ELSE 0
              ELSE Free(a, l)
      BY <1>1, <2>2, <2>6 DEF Budget
    <3>3. Free(a, l) \in Nat /\ m <= Free(a, l)
      BY <1>10, <3>1, <3>2 DEF Free
    <3>4. Free(b, l) = Free(a, l) - m
      BY <2>4, <2>6, <3>1, <3>3 DEF Free
    <3>5. Budget(b, l, BACKGROUND) \in {0, IF Reserve > 0 /\ a.capacity[l] > Reserve
              THEN IF Free(b, l) > Reserve THEN Free(b, l) - Reserve ELSE 0
              ELSE Free(b, l)}
      BY <1>1, <2>4 DEF Budget
    <3>6. Budget(b, l, BACKGROUND) = 0
      BY <1>10, <2>6, <3>1, <3>2, <3>3, <3>4, <3>5
    <3>7. QED  BY <3>6 DEF CanAdmit
  <2>7. QED  BY <1>5, <2>5, <2>6
<1>13. Wake(s, l) = b
  BY <1>2, <1>3 DEF Wake
<1>14. QED  BY <1>1, <1>11, <1>12, <1>13 DEF Settled

\* z is s after serving woke lanes L: nobody is lost, and L would admit no more.
Rested(s, z, w, L) ==
  /\ Demand(z, w) /\ z.degraded = s.degraded
  /\ \A l \in L : Settled(z, l)
  /\ \A l \in Lanes \ L : Settled(s, l) => Settled(z, l)
  /\ \A t \in Tasks : s.fut[t] # "pending" => z.fut[t] = s.fut[t]

\* _wake leaves everybody queued whom it does not hand a permit.
LEMMA WakeListed ==
  ASSUME NEW s \in ControllerState, NEW w, NEW l \in Lanes, QueueOK(s, w), Listed(s, w)
  PROVE  Listed(Wake(s, l), w)
<1>1. FOREGROUND \in Priorities /\ BACKGROUND \in Priorities
  BY DEF Priorities
<1>2. PICK a \in ControllerState : a = Serve(s, l, FOREGROUND) /\ QueueOK(a, w) /\ Listed(a, w)
  BY <1>1, ServeType, ServeQueue, ServeListed
<1>3. Listed(Serve(a, l, BACKGROUND), w)
  BY <1>1, <1>2, ServeListed
<1>4. QED  BY <1>2, <1>3 DEF Wake

\* Who stops waiting because of a permit still has to resume.
LEMMA PausedKept ==
  ASSUME NEW s, NEW z, NEW w, Paused(s, w), z.foregroundWaiting = s.foregroundWaiting,
         \A t \in Tasks : z.fut[t] # s.fut[t] => s.fut[t] = "pending" /\ z.fut[t] = "granted"
  PROVE  Paused(z, w)
<1>1. \A t \in Tasks : z.fut[t] # "none" <=> s.fut[t] # "none"
  OBVIOUS
<1>2. Demanding(z.fut, w) = Demanding(s.fut, w)
  BY <1>1 DEF Demanding
<1>3. QED  BY <1>2 DEF Paused

\* _wake settles its lane and loses nobody.
LEMMA WakeDemand ==
  ASSUME NEW s, NEW w, NEW l \in Lanes, Demand(s, w)
  PROVE  Rested(s, Wake(s, l), w, {l})
<1>1. s \in ControllerState /\ QueueOK(s, w) /\ Listed(s, w) /\ Paused(s, w)
  BY DEF Demand
<1>2. PICK z \in ControllerState :
        z = Wake(s, l) /\ QueueOK(z, w) /\ OnlyLane(s, z, w, l) /\ Listed(z, w) /\ Settled(z, l)
  BY <1>1, WakeQueue, WakeListed, WakeSettles
<1>3. /\ z.capacity = s.capacity /\ z.degraded = s.degraded
      /\ z.foregroundWaiting = s.foregroundWaiting
      /\ \A k \in Lanes : k # l => z.active[k] = s.active[k] /\ z.waiters[k] = s.waiters[k]
      /\ \A t \in Tasks : z.fut[t] # s.fut[t] => s.fut[t] = "pending" /\ z.fut[t] = "granted"
  BY <1>2 DEF OnlyLane
<1>4. Paused(z, w)
  BY <1>1, <1>3, PausedKept
<1>5. ASSUME NEW k \in Lanes \ {l}, Settled(s, k) PROVE Settled(z, k)
  <2>1. s.active[k] \in Nat /\ s.foregroundWaiting \in Nat
    BY <1>1 DEF ControllerState
  <2>2. /\ z.capacity[k] = s.capacity[k] /\ s.active[k] <= z.active[k]
        /\ s.foregroundWaiting <= z.foregroundWaiting /\ z.waiters[k] = s.waiters[k]
    BY <1>3, <2>1
  <2>3. QED  BY <1>1, <1>2, <1>5, <2>2, SettledKept
<1>6. Demand(z, w)
  BY <1>2, <1>4 DEF Demand
<1>7. QED  BY <1>2, <1>3, <1>5, <1>6 DEF Rested

\* Waking several lanes settles them and loses nobody.
LEMMA WakeLanesDemand ==
  ASSUME NEW s, NEW w, NEW L \in SUBSET Lanes, Demand(s, w)
  PROVE  Rested(s, WakeLanes(s, L), w, L)
<1>1. s \in ControllerState /\ QueueOK(s, w) /\ Listed(s, w) /\ Paused(s, w)
  BY DEF Demand
<1>2. PICK z : z = WakeLanes(s, L) /\ Woken(s, z, w, L)
  BY <1>1, WakeLanesQueue
<1>3. /\ z \in ControllerState /\ QueueOK(z, w)
      /\ z.capacity = s.capacity /\ z.degraded = s.degraded
      /\ z.foregroundWaiting = s.foregroundWaiting
      /\ \A l \in L : /\ z.active[l] = Wake(s, l).active[l] /\ z.waiters[l] = Wake(s, l).waiters[l]
                      /\ \A t \in Tasks : w[t].lane = l => z.fut[t] = Wake(s, l).fut[t]
      /\ \A l \in Lanes \ L : z.active[l] = s.active[l] /\ z.waiters[l] = s.waiters[l]
      /\ \A t \in Tasks : z.fut[t] # s.fut[t] => s.fut[t] = "pending" /\ z.fut[t] = "granted"
  BY <1>2 DEF Woken
<1>4. Paused(z, w)
  BY <1>1, <1>3, PausedKept
<1>5. ASSUME NEW t \in Tasks, z.fut[t] = "pending"
      PROVE  w[t].lane \in Lanes /\ w[t].priority \in Priorities /\ Entered(z, t, w[t].lane, w[t].priority)
  <2>1. s.fut[t] = "pending"
    BY <1>3, <1>5
  <2>2. PICK k \in Lanes, u \in Priorities : k = w[t].lane /\ u = w[t].priority /\ Entered(s, t, k, u)
    BY <1>1, <2>1 DEF Listed
  <2>3. CASE k \in L
    <3>1. PICK x : x = Wake(s, k) /\ Listed(x, w)
      BY <1>1, WakeListed
    <3>2. x.fut[t] = "pending" /\ z.waiters[k] = x.waiters[k]
      BY <1>3, <1>5, <2>2, <2>3, <3>1
    <3>3. Entered(x, t, k, u)
      BY <2>2, <3>1, <3>2 DEF Listed
    <3>4. QED  BY <2>2, <3>2, <3>3 DEF Entered
  <2>4. CASE k \notin L
    <3>1. z.waiters[k] = s.waiters[k]
      BY <1>3, <2>4
    <3>2. QED  BY <2>2, <3>1 DEF Entered
  <2>5. QED  BY <2>3, <2>4
<1>6. ASSUME NEW l \in L PROVE Settled(z, l)
  <2>1. PICK x \in ControllerState : x = Wake(s, l) /\ OnlyLane(s, x, w, l) /\ Settled(x, l)
    BY <1>1, WakeQueue, WakeSettles
  <2>2. /\ z.capacity[l] = x.capacity[l] /\ z.foregroundWaiting = x.foregroundWaiting
        /\ z.active[l] = x.active[l] /\ z.waiters[l] = x.waiters[l]
    BY <1>3, <2>1 DEF OnlyLane
  <2>3. x.active[l] \in Nat /\ x.foregroundWaiting \in Nat
    BY <2>1 DEF ControllerState
  <2>4. x.active[l] <= z.active[l] /\ x.foregroundWaiting <= z.foregroundWaiting
    BY <2>2, <2>3
  <2>5. QED  BY <1>3, <2>1, <2>2, <2>4, SettledKept
<1>7. ASSUME NEW l \in Lanes \ L, Settled(s, l) PROVE Settled(z, l)
  <2>1. s.active[l] \in Nat /\ s.foregroundWaiting \in Nat
    BY <1>1 DEF ControllerState
  <2>2. /\ z.capacity[l] = s.capacity[l] /\ s.active[l] <= z.active[l]
        /\ s.foregroundWaiting <= z.foregroundWaiting /\ z.waiters[l] = s.waiters[l]
    BY <1>3, <2>1
  <2>3. QED  BY <1>1, <1>3, <1>7, <2>2, SettledKept
<1>8. Listed(z, w)
  BY <1>5 DEF Listed
<1>9. Demand(z, w)
  BY <1>3, <1>4, <1>8 DEF Demand
<1>10. \A t \in Tasks : s.fut[t] # "pending" => z.fut[t] = s.fut[t]
  BY <1>3
<1>11. QED  BY <1>2, <1>3, <1>6, <1>7, <1>9, <1>10 DEF Rested

\* A change of plan alone loses nobody.
LEMMA ReplanDemand ==
  ASSUME NEW s, NEW w, Demand(s, w), NEW c \in [Lanes -> Nat \ {0}], NEW d \in BOOLEAN
  PROVE  Demand([s EXCEPT !.capacity = c, !.degraded = d], w)
<1> DEFINE z == [s EXCEPT !.capacity = c, !.degraded = d]
<1>1. s \in ControllerState /\ QueueOK(s, w) /\ Listed(s, w) /\ Paused(s, w)
  BY DEF Demand
<1>2. /\ z \in ControllerState /\ z.waiters = s.waiters /\ z.fut = s.fut
      /\ z.foregroundWaiting = s.foregroundWaiting
  BY <1>1 DEF ControllerState
<1> HIDE DEF z
<1>3. QueueOK(z, w)
  BY <1>1, <1>2, QueueSame
<1>4. Listed(z, w) /\ Paused(z, w)
  BY <1>1, <1>2 DEF Listed, Entered, Paused
<1>5. QED  BY <1>2, <1>3, <1>4 DEF Demand, z

\* recompute leaves every lane settled, or found it so, or the controller degraded.
LEMMA RecomputeDemand ==
  ASSUME NEW s, NEW w, NEW force \in BOOLEAN, Demand(s, w), force \/ AllSettled(s),
         NEW x \in Recompute(s, force)
  PROVE  /\ Demand(x, w) /\ AllSettled(x)
         /\ \A t \in Tasks : s.fut[t] # "pending" => x.fut[t] = s.fut[t]
<1>1. s \in ControllerState
  BY DEF Demand
<1>2. ASSUME NEW c \in Plans, x = WakeAll([s EXCEPT !.capacity = c])
      PROVE  /\ Demand(x, w) /\ AllSettled(x)
             /\ \A t \in Tasks : s.fut[t] # "pending" => x.fut[t] = s.fut[t]
  <2>1. c \in [Lanes -> Nat \ {0}]
    <3>1. DOMAIN c = Lanes /\ c = [l \in Lanes |-> c[l]] /\ \A l \in Lanes : c[l] \in Floor[l]..Ceiling[l]
      BY DEF Plans
    <3>2. \A l \in Lanes : Floor[l] \in Nat \ {0} /\ Ceiling[l] \in Nat
      BY LanesAssumption
    <3>3. \A l \in Lanes : c[l] \in Nat \ {0}
      BY <3>1, <3>2
    <3>4. QED  BY <3>1, <3>3
  <2>2. PICK y : y = [s EXCEPT !.capacity = c]
    OBVIOUS
  <2>3. s.degraded \in BOOLEAN /\ y = [s EXCEPT !.capacity = c, !.degraded = s.degraded] /\ y.fut = s.fut
    BY <1>1, <2>2 DEF ControllerState
  <2>4. Demand(y, w)
    BY <2>1, <2>3, ReplanDemand
  <2>5. x = WakeLanes(y, Lanes) /\ Lanes \in SUBSET Lanes
    BY <1>2, <2>2 DEF WakeAll
  <2>6. Rested(y, x, w, Lanes)
    BY <2>4, <2>5, WakeLanesDemand
  <2>7. QED  BY <2>3, <2>6 DEF Rested, AllSettled
<1>3. ASSUME x = Degraded(s)
      PROVE  /\ Demand(x, w) /\ AllSettled(x)
             /\ \A t \in Tasks : s.fut[t] # "pending" => x.fut[t] = s.fut[t]
  <2>1. Fixed \in [Lanes -> Nat \ {0}]
    BY LanesAssumption
  <2>2. x = [s EXCEPT !.capacity = Fixed, !.degraded = TRUE] /\ x.fut = s.fut /\ x.degraded
    BY <1>1, <1>3 DEF Degraded, ControllerState
  <2>3. Demand(x, w)
    BY <2>1, <2>2, ReplanDemand
  <2>4. QED  BY <2>2, <2>3 DEF AllSettled
<1>4. ASSUME x = s, AllSettled(s)
      PROVE  /\ Demand(x, w) /\ AllSettled(x)
             /\ \A t \in Tasks : s.fut[t] # "pending" => x.fut[t] = s.fut[t]
  BY <1>4
<1>5. \/ x = s /\ AllSettled(s)
      \/ x = Degraded(s)
      \/ \E c \in Plans : x = WakeAll([s EXCEPT !.capacity = c])
  <2>1. CASE s.degraded
    BY <2>1 DEF Recompute, AllSettled
  <2>2. CASE ~s.degraded
    <3>1. x \in Replan(s) \/ (x = s /\ ~force)
      BY <2>2 DEF Recompute
    <3>2. QED  BY <3>1 DEF Replan
  <2>3. QED  BY <2>1, <2>2
<1>6. QED  BY <1>2, <1>3, <1>4, <1>5

\* An admission without queueing.
LEMMA AdmitDemand ==
  ASSUME NEW s, NEW w, Demand(s, w), AllSettled(s), NEW l \in Lanes
  PROVE  Demand([s EXCEPT !.active[l] = @ + 1], w) /\ AllSettled([s EXCEPT !.active[l] = @ + 1])
<1>1. s \in ControllerState /\ QueueOK(s, w) /\ Listed(s, w) /\ Paused(s, w)
  BY DEF Demand
<1>2. s.active \in [Lanes -> Nat] /\ s.foregroundWaiting \in Nat
  BY <1>1 DEF ControllerState
<1>3. PICK a : a = [s.active EXCEPT ![l] = @ + 1]
  OBVIOUS
<1>4. a \in [Lanes -> Nat] /\ \A k \in Lanes : s.active[k] <= a[k]
  BY <1>2, <1>3
<1>5. PICK z : z = [s EXCEPT !.active = a]
  OBVIOUS
<1>6. /\ z \in ControllerState /\ z.capacity = s.capacity /\ z.waiters = s.waiters /\ z.fut = s.fut
      /\ z.active = a /\ z.foregroundWaiting = s.foregroundWaiting /\ z.degraded = s.degraded
  BY <1>1, <1>4, <1>5 DEF ControllerState
<1>7. Demand(z, w)
  <2>1. QueueOK(z, w)
    BY <1>1, <1>6, QueueSame
  <2>2. Listed(z, w) /\ Paused(z, w)
    BY <1>1, <1>6 DEF Listed, Entered, Paused
  <2>3. QED  BY <1>6, <2>1, <2>2 DEF Demand
<1>8. ASSUME NEW k \in Lanes, Settled(s, k) PROVE Settled(z, k)
  <2>1. /\ z.capacity[k] = s.capacity[k] /\ s.active[k] <= z.active[k]
        /\ s.foregroundWaiting <= z.foregroundWaiting /\ z.waiters[k] = s.waiters[k]
    BY <1>2, <1>4, <1>6
  <2>2. QED  BY <1>1, <1>6, <1>8, <2>1, SettledKept
<1>9. AllSettled(z)
  BY <1>6, <1>8 DEF AllSettled
<1>10. z = [s EXCEPT !.active[l] = @ + 1]
  BY <1>3, <1>5
<1>11. QED  BY <1>7, <1>9, <1>10

\* The foreground acquisitions can be counted.
LEMMA DemandingFinite ==
  ASSUME NEW f, NEW w
  PROVE  IsFiniteSet(Demanding(f, w)) /\ Cardinality(Demanding(f, w)) \in Nat
<1>1. Demanding(f, w) \in SUBSET Tasks
  BY DEF Demanding
<1>2. QED  BY <1>1, LanesAssumption, FS_Subset, FS_CardinalityType

\* One more foreground acquisition waits.
LEMMA PausedMore ==
  ASSUME NEW s, NEW z, NEW w, NEW v, Paused(s, w), NEW t \in Tasks,
         t \notin Demanding(s.fut, w), z.fut[t] # "none", v[t].priority = FOREGROUND,
         z.foregroundWaiting = s.foregroundWaiting + 1,
         \A u \in Tasks : u # t => z.fut[u] = s.fut[u] /\ v[u] = w[u]
  PROVE  Paused(z, v)
<1>1. PICK m : m = Demanding(s.fut, w)
  OBVIOUS
<1>2. Demanding(z.fut, v) = m \cup {t}
  BY <1>1 DEF Demanding
<1>3. IsFiniteSet(m) /\ Cardinality(m) \in Nat /\ t \notin m /\ s.foregroundWaiting = Cardinality(m)
  BY <1>1, DemandingFinite DEF Paused
<1>4. Cardinality(m \cup {t}) = Cardinality(m) + 1
  BY <1>3, FS_AddElement
<1>5. QED  BY <1>2, <1>3, <1>4 DEF Paused

\* A task queues: its future is listed, and counted if it is foreground.
LEMMA EnqueueDemand ==
  ASSUME NEW s, NEW w \in Records, Demand(s, w), NEW t \in Tasks, NEW l \in Lanes, s.fut[t] = "none"
  PROVE  Demand(Enqueue(s, t, l), [w EXCEPT ![t] = [lane |-> l, priority |-> CurrentPriority(t)]])
<1>1. s \in ControllerState /\ QueueOK(s, w) /\ Listed(s, w) /\ Paused(s, w)
  BY DEF Demand
<1>2. PICK z : z = Enqueue(s, t, l)
  OBVIOUS
<1>3. PICK v : v = [w EXCEPT ![t] = [lane |-> l, priority |-> CurrentPriority(t)]]
  OBVIOUS
<1>4. PICK c : c = CurrentPriority(t)
  OBVIOUS
<1>5. PICK e : e = [task |-> t, cancelled |-> FALSE]
  OBVIOUS
<1>6. Queues(s, z, w, v, t, l)
  BY <1>1, <1>2, <1>3, EnqueueQueue
<1>7. /\ z \in ControllerState /\ c \in Priorities
      /\ z.foregroundWaiting = IF c = FOREGROUND THEN s.foregroundWaiting + 1 ELSE s.foregroundWaiting
      /\ z.waiters = [s.waiters EXCEPT ![l][c] = Append(s.waiters[l][c], e)]
      /\ z.fut[t] = "pending" /\ \A u \in Tasks : u # t => z.fut[u] = s.fut[u]
      /\ v[t].lane = l /\ v[t].priority = c /\ \A u \in Tasks : u # t => v[u] = w[u]
      /\ QueueOK(z, v)
  BY <1>4, <1>5, <1>6 DEF Queues
<1>8. PICK o \in Seq(Entry) : o = s.waiters[l][c]
  BY <1>1, <1>7 DEF ControllerState
<1>9. PICK a : a = Append(o, e)
  OBVIOUS
<1>10. /\ DOMAIN a = 1..(Len(o) + 1) /\ DOMAIN o = 1..Len(o) /\ Len(o) \in Nat
       /\ a[Len(o) + 1] = e /\ \A i \in 1..Len(o) : a[i] = o[i] /\ i \in DOMAIN a
  <2>1. e \in Entry
    BY <1>5 DEF Entry
  <2>2. Longer(a, o, e)
    BY <1>8, <1>9, <2>1, AppendEntries
  <2>3. QED  BY <2>2 DEF Longer
<1>11. /\ z.waiters[l][c] = a
       /\ \A k \in Lanes, r \in Priorities : (k # l \/ r # c) => z.waiters[k][r] = s.waiters[k][r]
  BY <1>1, <1>7, <1>8, <1>9 DEF ControllerState
<1>12. ASSUME NEW u \in Tasks, z.fut[u] = "pending"
       PROVE  v[u].lane \in Lanes /\ v[u].priority \in Priorities /\ Entered(z, u, v[u].lane, v[u].priority)
  <2>1. CASE u = t
    <3>1. Len(o) + 1 \in DOMAIN a
      BY <1>10
    <3>2. Entered(z, t, l, c)
      BY <1>5, <1>10, <1>11, <3>1 DEF Entered
    <3>3. QED  BY <1>7, <2>1, <3>2
  <2>2. CASE u # t
    <3>1. PICK k \in Lanes, r \in Priorities : k = w[u].lane /\ r = w[u].priority /\ Entered(s, u, k, r)
      BY <1>1, <1>7, <1>12, <2>2 DEF Listed
    <3>2. PICK i \in DOMAIN s.waiters[k][r] : s.waiters[k][r][i] = [task |-> u, cancelled |-> FALSE]
      BY <3>1 DEF Entered
    <3>3. i \in DOMAIN z.waiters[k][r] /\ z.waiters[k][r][i] = s.waiters[k][r][i]
      <4>1. CASE k = l /\ r = c
        <5>1. i \in DOMAIN o
          BY <1>8, <4>1
        <5>2. i \in DOMAIN a /\ a[i] = o[i]
          BY <1>10, <5>1
        <5>3. QED  BY <1>8, <1>11, <4>1, <5>2
      <4>2. CASE k # l \/ r # c
        BY <1>11, <4>2
      <4>3. QED  BY <4>1, <4>2
    <3>4. Entered(z, u, k, r)
      BY <3>2, <3>3 DEF Entered
    <3>5. QED  BY <1>7, <2>2, <3>1, <3>4
  <2>3. QED  BY <2>1, <2>2
<1>13. Listed(z, v)
  BY <1>12 DEF Listed
<1>14. t \notin Demanding(s.fut, w)
  BY DEF Demanding
<1>15. Paused(z, v)
  <2>1. CASE c = FOREGROUND
    BY <1>1, <1>7, <1>14, <2>1, PausedMore
  <2>2. CASE c # FOREGROUND
    <3>1. Demanding(z.fut, v) = Demanding(s.fut, w)
      BY <1>7, <1>14, <2>2 DEF Demanding
    <3>2. QED  BY <1>1, <1>7, <2>2, <3>1 DEF Paused
  <2>3. QED  BY <2>1, <2>2
<1>16. QED  BY <1>2, <1>3, <1>7, <1>13, <1>15 DEF Demand

\* A task runs again after its await, admitted or cancelled, and is no longer counted.
LEMMA ResumeDemand ==
  ASSUME NEW s, NEW w \in Records, Demand(s, w), NEW t \in Tasks,
         s.fut[t] \in {"granted", "cancelled"}, NEW n,
         n = IF w[t].priority = FOREGROUND
             THEN IF s.foregroundWaiting > 0 THEN s.foregroundWaiting - 1 ELSE 0
             ELSE s.foregroundWaiting
  PROVE  Demand([s EXCEPT !.fut[t] = "none", !.foregroundWaiting = n], [w EXCEPT ![t] = NoWaiter])
<1>1. /\ s \in ControllerState /\ QueueOK(s, w) /\ Listed(s, w) /\ Paused(s, w)
      /\ s.fut \in [Tasks -> FutureState] /\ s.foregroundWaiting \in Nat
  BY DEF Demand, ControllerState
<1>2. PICK v : v = [w EXCEPT ![t] = NoWaiter]
  OBVIOUS
<1>3. PICK f : f = [s.fut EXCEPT ![t] = "none"]
  OBVIOUS
<1>4. PICK z : z = [s EXCEPT !.fut = f, !.foregroundWaiting = n]
  OBVIOUS
<1>5. f \in [Tasks -> FutureState] /\ f[t] = "none" /\ \A u \in Tasks : u # t => f[u] = s.fut[u]
  BY <1>1, <1>3 DEF FutureState
<1>6. n \in Nat
  BY <1>1
<1>7. z \in ControllerState /\ z.waiters = s.waiters /\ z.fut = f /\ z.foregroundWaiting = n
  BY <1>1, <1>4, <1>5, <1>6 DEF ControllerState
<1>8. \A u \in Tasks : u # t => v[u] = w[u]
  BY <1>2 DEF Records
<1>9. QueueOK(z, v)
  <2>1. ASSUME NEW k \in Lanes, NEW r \in Priorities, NEW i \in DOMAIN s.waiters[k][r]
        PROVE  Awaited(z, v, k, r, s.waiters[k][r][i])
    <3>1. Awaited(s, w, k, r, s.waiters[k][r][i]) /\ s.waiters[k][r][i].task \in Tasks
      BY <1>1, EntryTask DEF QueueOK
    <3>2. QED  BY <1>5, <1>7, <1>8, <3>1 DEF Awaited
  <2>2. QED  BY <1>1, <1>7, <2>1 DEF QueueOK
<1>10. Listed(z, v)
  <2>1. ASSUME NEW u \in Tasks, z.fut[u] = "pending"
        PROVE  /\ v[u].lane \in Lanes /\ v[u].priority \in Priorities
               /\ Entered(z, u, v[u].lane, v[u].priority)
    <3>1. v[u] = w[u] /\ s.fut[u] = "pending"
      BY <1>5, <1>7, <1>8, <2>1
    <3>2. QED  BY <1>1, <1>7, <3>1 DEF Listed, Entered
  <2>2. QED  BY <2>1 DEF Listed
<1>11. Paused(z, v)
  <2>1. PICK m : m = Demanding(s.fut, w)
    OBVIOUS
  <2>2. /\ Demanding(z.fut, v) = m \ {t} /\ (t \in m <=> w[t].priority = FOREGROUND)
        /\ m \in SUBSET Tasks
    BY <1>5, <1>7, <1>8, <2>1 DEF Demanding
  <2>3. IsFiniteSet(m) /\ Cardinality(m) \in Nat /\ s.foregroundWaiting = Cardinality(m)
    BY <1>1, <2>1, DemandingFinite DEF Paused
  <2>4. CASE t \in m
    <3>1. Cardinality(m \ {t}) = Cardinality(m) - 1
      BY <2>3, <2>4, FS_RemoveElement
    <3>2. Cardinality(m) # 0
      BY <2>3, <2>4, FS_EmptySet
    <3>3. QED  BY <1>7, <2>2, <2>3, <2>4, <3>1, <3>2 DEF Paused
  <2>5. CASE t \notin m
    <3>1. m \ {t} = m
      BY <2>5
    <3>2. QED  BY <1>7, <2>2, <2>3, <2>5, <3>1 DEF Paused
  <2>6. QED  BY <2>4, <2>5
<1>12. z = [s EXCEPT !.fut[t] = "none", !.foregroundWaiting = n]
  BY <1>3, <1>4
<1>13. QED  BY <1>2, <1>7, <1>9, <1>10, <1>11, <1>12 DEF Demand

\* task.cancel() marks the task's own entry and no other.
LEMMA CancelledType ==
  ASSUME NEW x \in Seq(Entry), NEW t \in Tasks
  PROVE  /\ CancelledEntry(x, t) \in Seq(Entry) /\ DOMAIN CancelledEntry(x, t) = DOMAIN x
         /\ \A i \in DOMAIN x :
              /\ x[i].task # t => CancelledEntry(x, t)[i] = x[i]
              /\ x[i].task = t => CancelledEntry(x, t)[i].cancelled
<1>1. PICK n \in Nat : n = Len(x) /\ DOMAIN x = 1..n
  OBVIOUS
<1>2. ASSUME NEW i \in DOMAIN x
      PROVE  /\ [x[i] EXCEPT !.cancelled = TRUE] \in Entry
             /\ [x[i] EXCEPT !.cancelled = TRUE].cancelled = TRUE /\ x[i] \in Entry
  <2>1. PICK e : e = x[i]
    OBVIOUS
  <2>2. e \in Entry
    BY <2>1
  <2>3. [e EXCEPT !.cancelled = TRUE] \in Entry /\ [e EXCEPT !.cancelled = TRUE].cancelled = TRUE
    BY <2>2 DEF Entry
  <2>4. QED  BY <2>1, <2>2, <2>3
<1>3. CancelledEntry(x, t) \in [1..n -> Entry]
  BY <1>1, <1>2 DEF CancelledEntry
<1>4. CancelledEntry(x, t) \in Seq(Entry)
  BY <1>3
<1>5. \A i \in DOMAIN x :
        /\ x[i].task # t => CancelledEntry(x, t)[i] = x[i]
        /\ x[i].task = t => CancelledEntry(x, t)[i].cancelled
  BY <1>2 DEF CancelledEntry
<1>6. QED  BY <1>1, <1>3, <1>4, <1>5

\* A cancelled waiter is still counted, and unsettles no lane.
LEMMA CancelDemand ==
  ASSUME NEW s, NEW z, NEW w \in Records, Demand(s, w), AllSettled(s), NEW t \in Tasks,
         s.fut[t] = "pending", NEW l \in Lanes, NEW r \in Priorities,
         l = w[t].lane, r = w[t].priority,
         z = [s EXCEPT !.fut = [s.fut EXCEPT ![t] = "cancelled"],
                       !.waiters = [s.waiters EXCEPT ![l][r] = CancelledEntry(s.waiters[l][r], t)]]
  PROVE  Demand(z, w) /\ AllSettled(z)
<1>1. /\ s \in ControllerState /\ QueueOK(s, w) /\ Listed(s, w) /\ Paused(s, w)
      /\ s.fut \in [Tasks -> FutureState] /\ s.foregroundWaiting \in Nat
      /\ s.waiters \in [Lanes -> [Priorities -> Seq(Entry)]] /\ s.active \in [Lanes -> Nat]
  BY DEF Demand, ControllerState
<1>2. PICK x \in Seq(Entry) : x = s.waiters[l][r]
  BY <1>1
<1>a. PICK q : q = CancelledEntry(x, t)
  OBVIOUS
<1>3. /\ q \in Seq(Entry) /\ q = CancelledEntry(x, t) /\ DOMAIN q = DOMAIN x
      /\ \A i \in DOMAIN x : /\ x[i].task # t => q[i] = x[i]
                             /\ x[i].task = t => q[i].cancelled
  <2>1. /\ CancelledEntry(x, t) \in Seq(Entry) /\ DOMAIN CancelledEntry(x, t) = DOMAIN x
        /\ \A i \in DOMAIN x :
             /\ x[i].task # t => CancelledEntry(x, t)[i] = x[i]
             /\ x[i].task = t => CancelledEntry(x, t)[i].cancelled
    BY CancelledType
  <2>2. QED  BY <1>a, <2>1, Zenon
<1>4. PICK f : f = [s.fut EXCEPT ![t] = "cancelled"]
  OBVIOUS
<1>5. PICK y : y = [s.waiters EXCEPT ![l][r] = q]
  OBVIOUS
<1>6. z = [s EXCEPT !.fut = f, !.waiters = y]
  BY <1>2, <1>3, <1>4, <1>5
<1>7. f \in [Tasks -> FutureState] /\ f[t] = "cancelled" /\ \A u \in Tasks : u # t => f[u] = s.fut[u]
  BY <1>1, <1>4 DEF FutureState
<1>8. /\ y \in [Lanes -> [Priorities -> Seq(Entry)]] /\ y[l][r] = q
      /\ \A k \in Lanes, u \in Priorities : (k # l \/ u # r) => y[k][u] = s.waiters[k][u]
  BY <1>1, <1>3, <1>5
<1>9. /\ z \in ControllerState /\ z.waiters = y /\ z.fut = f /\ z.capacity = s.capacity
      /\ z.active = s.active /\ z.foregroundWaiting = s.foregroundWaiting /\ z.degraded = s.degraded
  BY <1>1, <1>6, <1>7, <1>8 DEF ControllerState
<1>10. \A k \in Lanes, u \in Priorities : \A i \in DOMAIN s.waiters[k][u] :
         s.waiters[k][u][i].task \in Tasks /\ Awaited(s, w, k, u, s.waiters[k][u][i])
  <2>1. ASSUME NEW k \in Lanes, NEW u \in Priorities, NEW i \in DOMAIN s.waiters[k][u]
        PROVE  s.waiters[k][u][i].task \in Tasks /\ Awaited(s, w, k, u, s.waiters[k][u][i])
    <3>1. s.waiters[k][u][i].task \in Tasks
      BY <1>1, EntryTask
    <3>2. Awaited(s, w, k, u, s.waiters[k][u][i])
      BY <1>1 DEF QueueOK
    <3>3. QED  BY <3>1, <3>2
  <2>2. QED  BY <2>1
\* The deques hold what they held, apart from the entry of t, which is dead.
<1>11. ASSUME NEW k \in Lanes, NEW u \in Priorities
       PROVE  /\ DOMAIN y[k][u] = DOMAIN s.waiters[k][u]
              /\ \A i \in DOMAIN s.waiters[k][u] :
                   /\ s.waiters[k][u][i].task # t => y[k][u][i] = s.waiters[k][u][i]
                   /\ ~y[k][u][i].cancelled =>
                        y[k][u][i] = s.waiters[k][u][i] /\ s.waiters[k][u][i].task # t
  <2>1. CASE k = l /\ u = r
    <3>1. y[k][u] = q /\ s.waiters[k][u] = x
      BY <1>2, <1>8, <2>1
    <3>2. QED  BY <1>3, <3>1
  <2>2. CASE k # l \/ u # r
    <3>1. y[k][u] = s.waiters[k][u]
      BY <1>8, <2>2
    <3>2. \A i \in DOMAIN s.waiters[k][u] :
            ~s.waiters[k][u][i].cancelled => s.waiters[k][u][i].task # t
      <4>1. ASSUME NEW i \in DOMAIN s.waiters[k][u], ~s.waiters[k][u][i].cancelled
            PROVE  w[s.waiters[k][u][i].task].lane = k /\ w[s.waiters[k][u][i].task].priority = u
        <5>1. Awaited(s, w, k, u, s.waiters[k][u][i])
          BY <1>10, <4>1
        <5>2. QED  BY <4>1, <5>1, Zenon DEF Awaited
      <4>2. QED  BY <2>2, <4>1
    <3>3. QED  BY <3>1, <3>2
  <2>3. QED  BY <2>1, <2>2
<1>12. QueueOK(z, w)
  <2>1. ASSUME NEW k \in Lanes, NEW u \in Priorities
        PROVE  /\ \A i \in DOMAIN y[k][u] : Awaited(z, w, k, u, y[k][u][i])
               /\ \A i, j \in DOMAIN y[k][u] : SameWaiter(y[k][u][i], y[k][u][j]) => i = j
    <3>1. ASSUME NEW i \in DOMAIN y[k][u], ~y[k][u][i].cancelled
          PROVE  /\ z.fut[y[k][u][i].task] = "pending"
                 /\ w[y[k][u][i].task].lane = k /\ w[y[k][u][i].task].priority = u
      <4>1. PICK e : e = s.waiters[k][u][i]
        OBVIOUS
      <4>2. i \in DOMAIN s.waiters[k][u] /\ y[k][u][i] = e /\ e.task # t /\ ~e.cancelled
        <5>1. i \in DOMAIN s.waiters[k][u]
          BY <1>11
        <5>2. y[k][u][i] = e /\ e.task # t
          BY <1>11, <3>1, <4>1, <5>1, Zenon
        <5>3. QED  BY <3>1, <5>1, <5>2
      <4>3. /\ e.task \in Tasks /\ s.fut[e.task] = "pending"
            /\ w[e.task].lane = k /\ w[e.task].priority = u
        <5>1. e.task \in Tasks /\ Awaited(s, w, k, u, e)
          BY <1>10, <4>1, <4>2
        <5>2. QED  BY <4>2, <5>1 DEF Awaited
      <4>4. QED  BY <1>7, <1>9, <4>2, <4>3
    <3>2. \A i, j \in DOMAIN s.waiters[k][u] :
            SameWaiter(s.waiters[k][u][i], s.waiters[k][u][j]) => i = j
      BY <1>1 DEF QueueOK
    <3>3. ASSUME NEW i \in DOMAIN y[k][u], NEW j \in DOMAIN y[k][u], SameWaiter(y[k][u][i], y[k][u][j])
          PROVE  i = j
      <4>1. ~y[k][u][i].cancelled /\ ~y[k][u][j].cancelled
        BY <3>3 DEF SameWaiter
      <4>2. /\ i \in DOMAIN s.waiters[k][u] /\ y[k][u][i] = s.waiters[k][u][i]
            /\ j \in DOMAIN s.waiters[k][u] /\ y[k][u][j] = s.waiters[k][u][j]
        BY <1>11, <4>1
      <4>3. QED  BY <3>2, <3>3, <4>2
    <3>4. QED  BY <3>1, <3>3 DEF Awaited
  <2>2. QED  BY <1>9, <2>1 DEF QueueOK
<1>13. Listed(z, w)
  <2>1. ASSUME NEW v \in Tasks, z.fut[v] = "pending"
        PROVE  /\ w[v].lane \in Lanes /\ w[v].priority \in Priorities
               /\ Entered(z, v, w[v].lane, w[v].priority)
    <3>1. v # t /\ s.fut[v] = "pending"
      BY <1>7, <1>9, <2>1
    <3>2. PICK k \in Lanes, u \in Priorities : k = w[v].lane /\ u = w[v].priority /\ Entered(s, v, k, u)
      BY <1>1, <3>1 DEF Listed
    <3>3. PICK i \in DOMAIN s.waiters[k][u] : s.waiters[k][u][i] = [task |-> v, cancelled |-> FALSE]
      BY <3>2 DEF Entered
    <3>4. s.waiters[k][u][i].task = v
      BY <3>3
    <3>5. i \in DOMAIN y[k][u] /\ y[k][u][i] = s.waiters[k][u][i]
      BY <1>11, <3>1, <3>4
    <3>6. Entered(z, v, k, u)
      BY <1>9, <3>3, <3>5 DEF Entered
    <3>7. QED  BY <3>2, <3>6
  <2>2. QED  BY <2>1 DEF Listed
<1>14. Paused(z, w)
  <2>1. \A u \in Tasks : z.fut[u] # "none" <=> s.fut[u] # "none"
    BY <1>7, <1>9
  <2>2. Demanding(z.fut, w) = Demanding(s.fut, w)
    BY <2>1 DEF Demanding
  <2>3. QED  BY <1>1, <1>9, <2>2 DEF Paused
<1>15. ASSUME NEW k \in Lanes, Settled(s, k) PROVE Settled(z, k)
  <2>1. s.waiters[k][FOREGROUND] # <<>> => z.waiters[k][FOREGROUND] # <<>>
    <3>1. FOREGROUND \in Priorities
      BY DEF Priorities
    <3>2. PICK a \in Seq(Entry) : a = s.waiters[k][FOREGROUND]
      BY <1>1, <3>1
    <3>3. PICK b \in Seq(Entry) : b = z.waiters[k][FOREGROUND]
      BY <1>8, <1>9, <3>1
    <3>4. DOMAIN b = DOMAIN a
      BY <1>9, <1>11, <3>1, <3>2, <3>3
    <3>5. b = <<>> => a = <<>>
      BY <3>4
    <3>6. QED  BY <3>2, <3>3, <3>5
  <2>2. \A u \in Priorities : Live(z.waiters[k][u]) => Live(s.waiters[k][u])
    <3>1. ASSUME NEW u \in Priorities, NEW i \in DOMAIN y[k][u], ~y[k][u][i].cancelled
          PROVE  i \in DOMAIN s.waiters[k][u] /\ ~s.waiters[k][u][i].cancelled
      BY <1>11, <3>1
    <3>2. QED  BY <1>9, <3>1 DEF Live
  <2>3. /\ z.capacity[k] = s.capacity[k] /\ s.active[k] <= z.active[k]
        /\ s.foregroundWaiting <= z.foregroundWaiting
    BY <1>1, <1>9
  <2>4. QED  BY <1>1, <1>9, <1>15, <2>1, <2>2, <2>3, SettledKept
<1>16. AllSettled(z)
  BY <1>9, <1>15 DEF AllSettled
<1>17. QED  BY <1>9, <1>12, <1>13, <1>14, <1>16 DEF Demand

\* deque.remove takes no other entry along.
LEMMA WithoutKeeps ==
  ASSUME NEW S, NEW q \in Seq(S), NEW i \in DOMAIN q, NEW m \in DOMAIN q, m # i
  PROVE  \E j \in DOMAIN Without(q, i) : Without(q, i)[j] = q[m]
<1>1. PICK n \in Nat : n = Len(q) - 1 /\ Len(q) = n + 1 /\ i \in 1..(n + 1) /\ m \in 1..(n + 1)
  <2>1. DOMAIN q = 1..Len(q) /\ Len(q) \in Nat
    OBVIOUS
  <2>2. Len(q) - 1 \in Nat /\ Len(q) = (Len(q) - 1) + 1
    BY <2>1
  <2>3. QED  BY <2>1, <2>2
<1>2. Without(q, i) = [j \in 1..n |-> IF j < i THEN q[j] ELSE q[j + 1]]
  BY <1>1 DEF Without
<1>3. CASE m < i
  BY <1>1, <1>2, <1>3
<1>4. CASE i < m
  <2>1. m - 1 \in 1..n /\ ~(m - 1 < i) /\ (m - 1) + 1 = m
    BY <1>1, <1>4
  <2>2. QED  BY <1>2, <2>1
<1>5. QED  BY <1>1, <1>3, <1>4

\* A promoted waiter is counted from then on, and keeps its place in a deque.
LEMMA LiftDemand ==
  ASSUME NEW s, NEW w \in Records, Demand(s, w), NEW t \in Tasks, NEW l \in Lanes,
         NEW i \in DOMAIN s.waiters[l][BACKGROUND],
         s.waiters[l][BACKGROUND][i] = [task |-> t, cancelled |-> FALSE]
  PROVE  /\ Demand(Lift(s, l, i), [w EXCEPT ![t].priority = FOREGROUND])
         /\ Lift(s, l, i).degraded = s.degraded
         /\ \A k \in Lanes \ {l} : Settled(s, k) => Settled(Lift(s, l, i), k)
<1>1. /\ s \in ControllerState /\ QueueOK(s, w) /\ Listed(s, w) /\ Paused(s, w)
      /\ s.foregroundWaiting \in Nat /\ s.active \in [Lanes -> Nat]
      /\ FOREGROUND \in Priorities /\ BACKGROUND \in Priorities /\ FOREGROUND # BACKGROUND
      /\ \A r \in Priorities : r = FOREGROUND \/ r = BACKGROUND
  BY DEF Demand, ControllerState, Priorities, FOREGROUND, BACKGROUND
<1>2. PICK z : z = Lift(s, l, i)
  OBVIOUS
<1>3. PICK v : v = [w EXCEPT ![t].priority = FOREGROUND]
  OBVIOUS
<1>4. PICK e \in Entry : e = [task |-> t, cancelled |-> FALSE]
  BY DEF Entry
<1>5. PICK b \in Seq(Entry) : b = s.waiters[l][BACKGROUND] /\ i \in DOMAIN b
  BY <1>1 DEF ControllerState
<1>6. PICK o \in Seq(Entry) : o = s.waiters[l][FOREGROUND]
  BY <1>1 DEF ControllerState
<1>7. PICK a : a = Append(o, e)
  OBVIOUS
<1>8. /\ DOMAIN a = 1..(Len(o) + 1) /\ DOMAIN o = 1..Len(o) /\ Len(o) \in Nat
      /\ a[Len(o) + 1] = e /\ \A j \in 1..Len(o) : a[j] = o[j] /\ j \in DOMAIN a
  <2>1. Longer(a, o, e)
    BY <1>4, <1>6, <1>7, AppendEntries
  <2>2. QED  BY <2>1 DEF Longer
<1>9. Promotes(s, z, w, v, t, l, i)
  BY <1>1, <1>2, <1>3, LiftQueue
<1>10. /\ z \in ControllerState /\ QueueOK(z, v)
       /\ z.capacity = s.capacity /\ z.active = s.active /\ z.degraded = s.degraded
       /\ z.fut = s.fut /\ z.foregroundWaiting = s.foregroundWaiting + 1
       /\ z.waiters[l][BACKGROUND] = Without(b, i) /\ z.waiters[l][FOREGROUND] = a
       /\ \A k \in Lanes : k # l => z.waiters[k] = s.waiters[k]
       /\ s.fut[t] = "pending" /\ w[t].priority = BACKGROUND
       /\ v[t].lane = l /\ v[t].priority = FOREGROUND
       /\ \A u \in Tasks : u # t => v[u] = w[u]
  BY <1>4, <1>5, <1>6, <1>7, <1>9 DEF Promotes
<1>11. ASSUME NEW u \in Tasks, z.fut[u] = "pending"
       PROVE  v[u].lane \in Lanes /\ v[u].priority \in Priorities /\ Entered(z, u, v[u].lane, v[u].priority)
  <2>1. CASE u = t
    <3>1. Len(o) + 1 \in DOMAIN a
      BY <1>8
    <3>2. Entered(z, t, l, FOREGROUND)
      BY <1>4, <1>8, <1>10, <3>1 DEF Entered
    <3>3. QED  BY <1>1, <1>10, <2>1, <3>2
  <2>2. CASE u # t
    <3>1. PICK k \in Lanes, r \in Priorities : k = w[u].lane /\ r = w[u].priority /\ Entered(s, u, k, r)
      BY <1>1, <1>10, <1>11, <2>2 DEF Listed
    <3>2. PICK m \in DOMAIN s.waiters[k][r] : s.waiters[k][r][m] = [task |-> u, cancelled |-> FALSE]
      BY <3>1 DEF Entered
    <3>3. Entered(z, u, k, r)
      <4>1. CASE k # l
        BY <1>10, <3>2, <4>1 DEF Entered
      <4>2. CASE k = l /\ r = FOREGROUND
        <5>1. m \in DOMAIN o /\ o[m] = s.waiters[l][FOREGROUND][m]
          BY <1>6, <3>2, <4>2
        <5>2. m \in DOMAIN a /\ a[m] = o[m]
          BY <1>8, <5>1
        <5>3. a[m] = [task |-> u, cancelled |-> FALSE]
          BY <3>2, <4>2, <5>1, <5>2
        <5>4. QED  BY <1>10, <4>2, <5>2, <5>3 DEF Entered
      <4>3. CASE k = l /\ r = BACKGROUND
        <5>1. m \in DOMAIN b /\ b[m] = [task |-> u, cancelled |-> FALSE]
          BY <1>5, <3>2, <4>3
        <5>2. m # i
          <6>1. b[i].task = t /\ b[m].task = u
            BY <1>5, <5>1
          <6>2. QED  BY <2>2, <6>1
        <5>3. \E j \in DOMAIN Without(b, i) : Without(b, i)[j] = b[m]
          BY <1>5, <5>1, <5>2, WithoutKeeps
        <5>4. QED  BY <1>10, <4>3, <5>1, <5>3 DEF Entered
      <4>4. QED  BY <1>1, <4>1, <4>2, <4>3
    <3>4. QED  BY <1>10, <2>2, <3>1, <3>3
  <2>3. QED  BY <2>1, <2>2
<1>12. Listed(z, v)
  BY <1>11 DEF Listed
<1>13. Paused(z, v)
  <2>1. t \notin Demanding(s.fut, w)
    BY <1>1, <1>10 DEF Demanding
  <2>2. z.fut[t] # "none" /\ \A u \in Tasks : u # t => z.fut[u] = s.fut[u] /\ v[u] = w[u]
    BY <1>10
  <2>3. QED  BY <1>1, <1>10, <2>1, <2>2, PausedMore
<1>14. ASSUME NEW k \in Lanes \ {l}, Settled(s, k) PROVE Settled(z, k)
  <2>1. /\ z.capacity[k] = s.capacity[k] /\ s.active[k] <= z.active[k]
        /\ s.foregroundWaiting <= z.foregroundWaiting /\ z.waiters[k] = s.waiters[k]
    BY <1>1, <1>10
  <2>2. QED  BY <1>1, <1>10, <1>14, <2>1, SettledKept
<1>15. Demand(z, v)
  BY <1>10, <1>12, <1>13 DEF Demand
<1>16. QED  BY <1>2, <1>3, <1>10, <1>14, <1>15

\* Returned permits lose no waiter; the other lanes stay settled.
LEMMA ReturnDemand ==
  ASSUME NEW s, NEW w, NEW L \in SUBSET Lanes, Demand(s, w)
  PROVE  /\ Demand(Returned(s, L), w) /\ Returned(s, L).degraded = s.degraded
         /\ \A k \in Lanes \ L : Settled(s, k) => Settled(Returned(s, L), k)
<1>1. /\ s \in ControllerState /\ QueueOK(s, w) /\ Listed(s, w) /\ Paused(s, w)
      /\ s.active \in [Lanes -> Nat] /\ s.foregroundWaiting \in Nat
  BY DEF Demand, ControllerState
<1>2. PICK a : a = [l \in Lanes |-> IF l \in L /\ s.active[l] > 0 THEN s.active[l] - 1 ELSE s.active[l]]
  OBVIOUS
<1>3. PICK z : z = [s EXCEPT !.active = a]
  OBVIOUS
<1>4. a \in [Lanes -> Nat] /\ \A l \in Lanes \ L : a[l] = s.active[l]
  BY <1>1, <1>2
<1>5. /\ z \in ControllerState /\ z.capacity = s.capacity /\ z.active = a
      /\ z.waiters = s.waiters /\ z.fut = s.fut
      /\ z.foregroundWaiting = s.foregroundWaiting /\ z.degraded = s.degraded
  BY <1>1, <1>3, <1>4 DEF ControllerState
<1>6. QueueOK(z, w)
  BY <1>1, <1>5, QueueSame
<1>7. Listed(z, w) /\ Paused(z, w)
  BY <1>1, <1>5 DEF Listed, Entered, Paused
<1>8. ASSUME NEW k \in Lanes \ L, Settled(s, k) PROVE Settled(z, k)
  <2>1. /\ z.capacity[k] = s.capacity[k] /\ s.active[k] <= z.active[k]
        /\ s.foregroundWaiting <= z.foregroundWaiting /\ z.waiters[k] = s.waiters[k]
    BY <1>1, <1>4, <1>5
  <2>2. QED  BY <1>1, <1>5, <1>8, <2>1, SettledKept
<1>9. Returned(s, L) = z
  BY <1>2, <1>3 DEF Returned
<1>10. QED  BY <1>5, <1>6, <1>7, <1>8, <1>9 DEF Demand

-----------------------------------------------------------------------------
\* The invariant of the waiting side, with cancelled waiters or without.
DemandInv ==
  /\ waiter \in Records /\ permit \in Permits
  /\ Demand(Controller, waiter) /\ AllSettled(Controller)

\* Before the first request nobody waits.
LEMMA InitDemand == Init => DemandInv
<1> SUFFICES ASSUME Init PROVE DemandInv
  OBVIOUS
<1>1. /\ Controller \in ControllerState /\ QueueOK(Controller, waiter)
      /\ waiter \in Records /\ permit \in Permits
  BY InitQueue
<1>2. Listed(Controller, waiter)
  BY DEF Init, Listed, Controller
<1>3. Paused(Controller, waiter)
  <2>1. Demanding(fut, waiter) = {}
    BY DEF Init, Demanding
  <2>2. Cardinality({}) = 0
    BY FS_EmptySet
  <2>3. QED  BY <2>1, <2>2 DEF Paused, Controller, Init
<1>4. AllSettled(Controller)
  <2>1. \A l \in Lanes, r \in Priorities : waiters[l][r] = <<>>
    BY DEF Init
  <2>2. \A l \in Lanes, r \in Priorities : ~Live(waiters[l][r])
    BY <2>1 DEF Live
  <2>3. QED  BY <2>2 DEF AllSettled, Settled, Controller
<1>5. QED  BY <1>1, <1>2, <1>3, <1>4 DEF DemandInv, Demand

\* What a handler's last call leaves is the next state of the controller.
LEMMA DemandNext ==
  ASSUME NEW s, Becomes(s), NEW w, NEW p, waiter' = w, permit' = p,
         w \in Records, p \in Permits, Demand(s, w), AllSettled(s)
  PROVE  DemandInv'
<1>1. Controller' = s
  BY BecomesController DEF Demand
<1>2. Demand(s, waiter')
  OBVIOUS
<1>3. Demand(Controller', waiter') /\ AllSettled(Controller')
  BY <1>1, <1>2
<1>4. Demand(Controller, waiter)'
  BY <1>3 DEF Demand, QueueOK, Awaited, Listed, Entered, Paused, Demanding
<1>5. AllSettled(Controller)'
  BY <1>3 DEF AllSettled, Settled, CanAdmit, Budget, Free
<1>6. QED  BY <1>4, <1>5 DEF DemandInv

\* Every action keeps the invariant of the waiting side.
LEMMA NextDemand ==
  ASSUME DemandInv, [Next]_vars
  PROVE  DemandInv'
<1>1. /\ Demand(Controller, waiter) /\ AllSettled(Controller)
      /\ waiter \in Records /\ permit \in Permits
      /\ Controller \in ControllerState /\ Controller.fut = fut
      /\ Controller.degraded = degraded /\ Controller.waiters = waiters
      /\ Controller.foregroundWaiting = foregroundWaiting
      /\ QueueOK(Controller, waiter) /\ Listed(Controller, waiter)
  BY DEF DemandInv, Demand, Controller
<1>2. ASSUME NEW t \in Tasks, NEW l \in Lanes, AcquireFast(t, l) PROVE DemandInv'
  <2>1. PICK s \in Recompute(Controller, FALSE) : Becomes([s EXCEPT !.active[l] = @ + 1])
    BY <1>2 DEF AcquireFast
  <2>2. Demand(s, waiter) /\ AllSettled(s)
    BY <1>1, <2>1, RecomputeDemand
  <2>3. PICK z : z = [s EXCEPT !.active[l] = @ + 1]
    OBVIOUS
  <2>4. Demand(z, waiter) /\ AllSettled(z)
    BY <2>2, <2>3, AdmitDemand
  <2>5. PICK q : q = [permit EXCEPT ![t][l] = "dynamic"]
    OBVIOUS
  <2>6. q \in Permits
    BY <1>1, <2>5 DEF Permits
  <2>7. permit' = q /\ waiter' = waiter /\ Becomes(z)
    BY <1>2, <2>1, <2>3, <2>5 DEF AcquireFast
  <2>8. QED  BY <1>1, <2>4, <2>6, <2>7, DemandNext
<1>3. ASSUME NEW t \in Tasks, NEW l \in Lanes, AcquireSlow(t, l) PROVE DemandInv'
  <2>1. PICK s \in Recompute(Controller, FALSE) :
          \E r \in Recompute(Enqueue(s, t, l), TRUE) : Becomes(r)
    BY <1>3 DEF AcquireSlow
  <2>2. PICK r \in Recompute(Enqueue(s, t, l), TRUE) : Becomes(r)
    BY <2>1
  <2>3. /\ Demand(s, waiter)
        /\ \A u \in Tasks : Controller.fut[u] # "pending" => s.fut[u] = Controller.fut[u]
    BY <1>1, <2>1, RecomputeDemand
  <2>4. s.fut[t] = "none"
    BY <1>1, <1>3, <2>3 DEF AcquireSlow, Reaches
  <2>5. PICK v : v = [waiter EXCEPT ![t] = [lane |-> l, priority |-> CurrentPriority(t)]]
    OBVIOUS
  <2>6. v \in Records
    BY <1>1, <2>5 DEF Records, CurrentPriority, Priorities
  <2>7. PICK e : e = Enqueue(s, t, l)
    OBVIOUS
  <2>8. Demand(e, v)
    BY <1>1, <2>3, <2>4, <2>5, <2>7, EnqueueDemand
  <2>9. r \in Recompute(e, TRUE)
    BY <2>7
  <2>10. Demand(r, v) /\ AllSettled(r)
    BY <2>8, <2>9, RecomputeDemand
  <2>11. permit' = permit /\ waiter' = v
    BY <1>3, <2>5 DEF AcquireSlow
  <2>12. QED  BY <1>1, <2>2, <2>6, <2>10, <2>11, DemandNext
<1>4. ASSUME NEW t \in Tasks, NEW l \in Lanes, AcquireFixed(t, l) PROVE DemandInv'
  <2>1. PICK q : q = [permit EXCEPT ![t][l] = "fixed"]
    OBVIOUS
  <2>2. q \in Permits
    BY <1>1, <2>1 DEF Permits
  <2>3. permit' = q /\ waiter' = waiter /\ Becomes(Controller)
    BY <1>4, <2>1 DEF AcquireFixed, Becomes, Controller
  <2>4. QED  BY <1>1, <2>2, <2>3, DemandNext
<1>5. ASSUME NEW t \in Tasks, Resume(t) PROVE DemandInv'
  <2>1. PICK v : v = [waiter EXCEPT ![t] = NoWaiter]
    OBVIOUS
  <2>2. PICK q : q = [permit EXCEPT ![t][waiter[t].lane] = "dynamic"]
    OBVIOUS
  <2>3. v \in Records /\ q \in Permits
    BY <1>1, <2>1, <2>2 DEF Records, Permits, NoWaiter, Priorities
  <2>4. permit' = q /\ waiter' = v /\ fut[t] \in {"granted", "cancelled"}
    BY <1>5, <2>1, <2>2 DEF Resume
  <2>5. PICK n : n = IF waiter[t].priority = FOREGROUND
                     THEN IF foregroundWaiting > 0 THEN foregroundWaiting - 1 ELSE 0
                     ELSE foregroundWaiting
    OBVIOUS
  <2>6. PICK z : z = [Controller EXCEPT !.fut[t] = "none", !.foregroundWaiting = n]
    OBVIOUS
  <2>7. Demand(z, v)
    BY <1>1, <2>1, <2>4, <2>5, <2>6, ResumeDemand
  <2>8. CASE waiter[t].priority = FOREGROUND
    <3>1. Rested(z, WakeLanes(z, Lanes), v, Lanes)
      <4>1. Lanes \in SUBSET Lanes
        OBVIOUS
      <4>2. QED  BY <2>7, <4>1, WakeLanesDemand
    <3>2. Becomes(WakeLanes(z, Lanes))
      BY <1>5, <2>5, <2>6, <2>8 DEF Resume, WakeAll, Controller
    <3>3. Demand(WakeLanes(z, Lanes), v) /\ AllSettled(WakeLanes(z, Lanes))
      BY <3>1 DEF Rested, AllSettled
    <3>4. QED  BY <2>3, <2>4, <3>2, <3>3, DemandNext
  <2>9. CASE waiter[t].priority # FOREGROUND
    <3>1. Becomes(z)
      BY <1>5, <2>5, <2>6, <2>9 DEF Resume, Becomes, Controller
    <3>2. /\ z.capacity = Controller.capacity /\ z.active = Controller.active
          /\ z.waiters = Controller.waiters /\ z.foregroundWaiting = Controller.foregroundWaiting
          /\ z.degraded = Controller.degraded
      BY <2>5, <2>6, <2>9 DEF Controller
    <3>3. AllSettled(z)
      <4>1. \A l \in Lanes : Settled(Controller, l) => Settled(z, l)
        BY <3>2 DEF Settled, CanAdmit, Budget, Free
      <4>2. QED  BY <1>1, <3>2, <4>1 DEF AllSettled
    <3>4. QED  BY <2>3, <2>4, <2>7, <3>1, <3>3, DemandNext
  <2>10. QED  BY <2>8, <2>9
<1>6. ASSUME NEW t \in Tasks, Cancel(t) PROVE DemandInv'
  <2>1. fut[t] = "pending"
    BY <1>6 DEF Cancel
  <2>2. PICK l \in Lanes, r \in Priorities : l = waiter[t].lane /\ r = waiter[t].priority
    BY <1>1, <2>1 DEF Listed
  <2>3. PICK z : z = [Controller EXCEPT
          !.fut = [Controller.fut EXCEPT ![t] = "cancelled"],
          !.waiters = [Controller.waiters EXCEPT ![l][r] = CancelledEntry(Controller.waiters[l][r], t)]]
    OBVIOUS
  <2>4. Demand(z, waiter) /\ AllSettled(z)
    BY <1>1, <2>1, <2>2, <2>3, CancelDemand
  <2>5. Becomes(z) /\ permit' = permit /\ waiter' = waiter
    <3>1. /\ fut' = [fut EXCEPT ![t] = "cancelled"]
          /\ waiters' = [waiters EXCEPT ![l][r] = CancelledEntry(waiters[l][r], t)]
          /\ UNCHANGED <<capacity, active, foregroundWaiting, degraded, waiter, permit>>
      BY <1>6, <2>2 DEF Cancel
    <3>2. QED  BY <2>3, <3>1 DEF Becomes, Controller
  <2>6. QED  BY <1>1, <2>4, <2>5, DemandNext
<1>7. ASSUME NEW t \in Tasks, Promote(t) PROVE DemandInv'
  <2>1. ~degraded /\ fut[t] = "pending"
    BY <1>7 DEF Promote
  <2>2. PICK l \in Lanes : l = waiter[t].lane
    BY <1>1, <2>1 DEF Listed
  <2>3. PICK i \in DOMAIN waiters[l][BACKGROUND] :
          /\ waiters[l][BACKGROUND][i] = [task |-> t, cancelled |-> FALSE]
          /\ Becomes(Wake(Lift(Controller, l, i), l))
    BY <1>7, <2>2 DEF Promote
  <2>4. PICK v : v = [waiter EXCEPT ![t].priority = FOREGROUND]
    OBVIOUS
  <2>5. PICK z : z = Lift(Controller, l, i)
    OBVIOUS
  <2>6. /\ Demand(z, v) /\ z.degraded = Controller.degraded
        /\ \A k \in Lanes \ {l} : Settled(Controller, k) => Settled(z, k)
    <3>1. /\ i \in DOMAIN Controller.waiters[l][BACKGROUND]
          /\ Controller.waiters[l][BACKGROUND][i] = [task |-> t, cancelled |-> FALSE]
      BY <1>1, <2>3
    <3>2. QED  BY <1>1, <2>4, <2>5, <3>1, LiftDemand
  <2>7. Rested(z, Wake(z, l), v, {l})
    BY <2>6, WakeDemand
  <2>8. Demand(Wake(z, l), v) /\ AllSettled(Wake(z, l))
    <3>1. \A k \in Lanes : Settled(Controller, k)
      BY <1>1, <2>1 DEF AllSettled
    <3>2. QED  BY <2>6, <2>7, <3>1 DEF Rested, AllSettled
  <2>9. Becomes(Wake(z, l)) /\ waiter' = v /\ permit' = permit
    BY <1>7, <2>3, <2>4, <2>5 DEF Promote
  <2>10. v \in Records
    BY <1>1, <2>4 DEF Records, Priorities
  <2>11. QED  BY <1>1, <2>8, <2>9, <2>10, DemandNext
<1>8. ASSUME NEW t \in Tasks, Finish(t) \/ AbandonFixed(t) PROVE DemandInv'
  <2>1. PICK L : L = DynamicLanes(t)
    OBVIOUS
  <2>2. L \in SUBSET Lanes
    BY <2>1 DEF DynamicLanes
  <2>3. PICK q : q = [permit EXCEPT ![t] = [l \in Lanes |-> "none"]]
    OBVIOUS
  <2>4. PICK z : z = Returned(Controller, L)
    OBVIOUS
  <2>5. /\ Demand(z, waiter) /\ z.degraded = Controller.degraded
        /\ \A k \in Lanes \ L : Settled(Controller, k) => Settled(z, k)
    BY <1>1, <2>2, <2>4, ReturnDemand
  <2>6. Rested(z, WakeLanes(z, L), waiter, L)
    BY <2>2, <2>5, WakeLanesDemand
  <2>7. Demand(WakeLanes(z, L), waiter) /\ AllSettled(WakeLanes(z, L))
    BY <1>1, <2>5, <2>6 DEF Rested, AllSettled
  <2>8. ReleaseAll(t) /\ UNCHANGED waiter
    BY <1>8 DEF Finish, AbandonFixed
  <2>9. Becomes(WakeLanes(z, L)) /\ permit' = q /\ waiter' = waiter
    BY <2>1, <2>3, <2>4, <2>8 DEF ReleaseAll
  <2>10. q \in Permits
    BY <1>1, <2>3 DEF Permits
  <2>11. QED  BY <1>1, <2>7, <2>9, <2>10, DemandNext
<1>9. ASSUME Observe PROVE DemandInv'
  <2>1. PICK s \in Recompute(Controller, TRUE) : Becomes(s)
    BY <1>9 DEF Observe
  <2>2. Demand(s, waiter) /\ AllSettled(s)
    BY <1>1, <2>1, RecomputeDemand
  <2>3. waiter' = waiter /\ permit' = permit
    BY <1>9 DEF Observe
  <2>4. QED  BY <1>1, <2>1, <2>2, <2>3, DemandNext
<1>10. ASSUME UNCHANGED vars PROVE DemandInv'
  <2>1. Becomes(Controller) /\ waiter' = waiter /\ permit' = permit
    BY <1>10 DEF vars, Becomes, Controller
  <2>2. QED  BY <1>1, <2>1, DemandNext
<1>11. QED  BY <1>2, <1>3, <1>4, <1>5, <1>6, <1>7, <1>8, <1>9, <1>10 DEF Next, Undisturbed

\* Whatever is cancelled, nobody who waits is lost and every lane is settled.
THEOREM DemandInvHolds == Spec => []DemandInv
<1>1. DemandInv /\ [Next]_vars => DemandInv'
  BY NextDemand
<1>2. QED  BY <1>1, InitDemand, PTL DEF Spec

\* The controller keeps its type: every queued entry is a task, every counter
\* a natural number, every record a lane and a priority.
THEOREM TypesHold == Spec => []TypeOK
<1>1. DemandInv => TypeOK
  BY ControllerType DEF DemandInv, Demand, TypeOK, Records, Permits, FutureState
<1>2. QED  BY <1>1, DemandInvHolds, PTL

\* For any tasks, lanes, routes and plans, and whatever is cancelled:
\* _foreground_waiting is the number of foreground or promoted acquisitions that
\* have not resumed, so the pause of the background lanes neither leaks nor ends early.
THEOREM ForegroundCountHolds == Spec => []ForegroundCount
<1>1. DemandInv => ForegroundCount
  BY DEF DemandInv, Demand, Paused, Demanding, ForegroundCount, Controller
<1>2. QED  BY <1>1, DemandInvHolds, PTL

\* For any tasks, lanes, routes and plans, and whatever is cancelled: no waiter is
\* left queued while the controller, not degraded, would admit one of its class.
THEOREM NobodyStrandedHolds == Spec => []NobodyStranded
<1>1. ASSUME DemandInv, ~degraded, NEW t \in Tasks, fut[t] = "pending"
      PROVE  ~CanAdmit(Controller, waiter[t].lane, waiter[t].priority)
  <2>1. Listed(Controller, waiter) /\ \A l \in Lanes : Settled(Controller, l)
    BY <1>1 DEF DemandInv, Demand, AllSettled, Controller
  <2>2. PICK l \in Lanes, r \in Priorities :
          l = waiter[t].lane /\ r = waiter[t].priority /\ Entered(Controller, t, l, r)
    BY <1>1, <2>1 DEF Listed, Controller
  <2>3. Live(Controller.waiters[l][r])
    <3>1. PICK i \in DOMAIN Controller.waiters[l][r] :
            Controller.waiters[l][r][i] = [task |-> t, cancelled |-> FALSE]
      BY <2>2 DEF Entered
    <3>2. ~Controller.waiters[l][r][i].cancelled
      BY <3>1
    <3>3. QED  BY <3>2 DEF Live
  <2>4. QED  BY <2>1, <2>2, <2>3 DEF Settled
<1>2. DemandInv => NobodyStranded
  BY <1>1 DEF NobodyStranded
<1>3. QED  BY <1>2, DemandInvHolds, PTL

\* A waiter that is awaited has one live entry, in the deque its record names, and
\* nobody else has any: cancel, promote and wake neither lose nor double it.
THEOREM QueuedOnceHolds == Spec => []QueuedOnce
<1>1. ASSUME DemandInv, NEW t \in Tasks, NEW l \in Lanes, NEW r \in Priorities
      PROVE  Cardinality({i \in DOMAIN waiters[l][r] : waiters[l][r][i] = [task |-> t, cancelled |-> FALSE]})
               = IF fut[t] = "pending" /\ waiter[t] = [lane |-> l, priority |-> r] THEN 1 ELSE 0
  <2>1. /\ QueueOK(Controller, waiter) /\ Listed(Controller, waiter) /\ waiter \in Records
        /\ Controller.waiters = waiters /\ Controller.fut = fut
    BY <1>1 DEF DemandInv, Demand, Controller
  <2>2. PICK e : e = [task |-> t, cancelled |-> FALSE]
    OBVIOUS
  <2>3. PICK I : I = {i \in DOMAIN waiters[l][r] : waiters[l][r][i] = e}
    OBVIOUS
  <2>4. waiter[t] = [lane |-> l, priority |-> r] <=> waiter[t].lane = l /\ waiter[t].priority = r
    BY <2>1 DEF Records
  <2>5. ASSUME NEW i \in I
        PROVE  I = {i} /\ fut[t] = "pending" /\ waiter[t].lane = l /\ waiter[t].priority = r
    <3>1. \A j \in I : SameWaiter(waiters[l][r][i], waiters[l][r][j])
      BY <2>2, <2>3 DEF SameWaiter
    <3>2. \A j \in I : i = j
      BY <2>1, <2>3, <3>1 DEF QueueOK
    <3>3. Awaited(Controller, waiter, l, r, e)
      BY <2>1, <2>3 DEF QueueOK
    <3>4. QED  BY <2>1, <2>2, <3>2, <3>3 DEF Awaited
  <2>6. CASE I = {}
    <3>1. ~(fut[t] = "pending" /\ waiter[t].lane = l /\ waiter[t].priority = r)
      BY <2>1, <2>2, <2>3, <2>6 DEF Listed, Entered
    <3>2. Cardinality(I) = 0
      BY <2>6, FS_EmptySet
    <3>3. QED  BY <2>2, <2>3, <2>4, <3>1, <3>2
  <2>7. CASE I # {}
    <3>1. PICK i \in I : I = {i} /\ fut[t] = "pending" /\ waiter[t].lane = l /\ waiter[t].priority = r
      BY <2>5, <2>7
    <3>2. Cardinality(I) = 1
      BY <3>1, FS_Singleton
    <3>3. QED  BY <2>2, <2>3, <2>4, <3>1, <3>2
  <2>8. QED  BY <2>6, <2>7
<1>2. DemandInv => QueuedOnce
  BY <1>1 DEF QueuedOnce
<1>3. QED  BY <1>2, DemandInvHolds, PTL

-----------------------------------------------------------------------------
(* Who runs under a permit, whoever is cancelled.                             *)

\* The history variable only watches.
LEMMA HistoryIsLanes == HistorySpec => Spec
<1>1. HistoryInit => Init
  BY DEF HistoryInit
<1>2. [HistoryNext]_historyVars => [Next]_vars
  BY DEF HistoryNext, historyVars, Next
<1>3. QED  BY <1>1, <1>2, PTL DEF HistorySpec, Spec

\* A waiter that is cancelled is a claimant more, and a stray more.
LEMMA CancelInv ==
  ASSUME Inv, DemandInv', NEW t \in Tasks, Cancel(t),
         strays' = [strays EXCEPT ![waiter[t].lane] = @ + 1]
  PROVE  Inv'
<1>1. /\ StateOK(Controller, waiter, permit) /\ waiter \in Records /\ permit \in Permits
      /\ Controller \in ControllerState /\ Controller.fut = fut
      /\ Controller.active = active /\ Controller.capacity = capacity
      /\ strays \in [Lanes -> Nat]
  BY DEF Inv, StateOK, Controller
<1>2. /\ fut[t] = "pending" /\ fut' = [fut EXCEPT ![t] = "cancelled"]
      /\ UNCHANGED <<capacity, active, waiter, permit>>
  BY DEF Cancel
<1>3. fut \in [Tasks -> FutureState]
  BY <1>1, ControllerType
<1>4. fut'[t] = "cancelled" /\ \A u \in Tasks : u # t => fut'[u] = fut[u]
  BY <1>2, <1>3
<1>11. /\ \A l \in Lanes : strays'[l] = IF waiter[t].lane = l THEN strays[l] + 1 ELSE strays[l]
       /\ strays' \in [Lanes -> Nat]
  <2>1. PICK k \in Lanes : k = waiter[t].lane
    BY <1>1, <1>2 DEF StateOK, WaitOK
  <2>2. strays' = [strays EXCEPT ![k] = strays[k] + 1]
    BY <2>1
  <2>3. QED  BY <1>1, <2>1, <2>2
<1>5. Controller' \in ControllerState /\ QueueOK(Controller, waiter)'
  BY DEF DemandInv, Demand
<1>6. WaitOK(Controller, waiter, permit)'
  <2>1. ASSUME NEW u \in Tasks, fut'[u] # "none"
        PROVE  waiter'[u].lane \in Lanes /\ permit'[u][waiter'[u].lane] = "none"
    BY <1>1, <1>2, <1>4, <2>1 DEF StateOK, WaitOK
  <2>2. QED  BY <2>1 DEF WaitOK, Controller
<1>7. CountOK(Controller, waiter, permit)'
  <2>1. ASSUME NEW l \in Lanes
        PROVE  Accounted(active'[l], strays'[l], fut', waiter', permit', l)
    <3>1. active[l] \in Nat /\ active'[l] = active[l]
      BY <1>1, <1>2, ControllerType
    <3>2. /\ strays[l] \in Nat /\ active[l] <= Cardinality(UserOf(fut, waiter, permit, l))
          /\ Cardinality(ClaimOf(fut, waiter, permit, l)) <= active[l] + strays[l]
      BY <1>1 DEF StateOK, CountOK, Accounted
    <3>3. UserOf(fut', waiter', permit', l) = UserOf(fut, waiter, permit, l)
      BY <1>2, <1>4 DEF UserOf
    <3>4. CASE waiter[t].lane # l
      <4>1. strays'[l] = strays[l]
        BY <3>4, <1>11
      <4>2. ClaimOf(fut', waiter', permit', l) = ClaimOf(fut, waiter, permit, l)
        BY <1>2, <1>4, <3>4 DEF ClaimOf
      <4>3. QED  BY <3>1, <3>2, <3>3, <4>1, <4>2 DEF Accounted
    <3>5. CASE waiter[t].lane = l
      <4>1. strays'[l] = strays[l] + 1
        BY <3>5, <1>11
      <4>2. PICK c \in SUBSET Tasks : c = ClaimOf(fut, waiter, permit, l)
        BY DEF ClaimOf
      <4>3. ClaimOf(fut', waiter', permit', l) = c \cup {t}
        BY <1>2, <1>4, <3>5, <4>2 DEF ClaimOf
      <4>4. /\ IsFiniteSet(c) /\ Cardinality(c) \in Nat
            /\ Cardinality(c \cup {t}) = IF t \in c THEN Cardinality(c) ELSE Cardinality(c) + 1
        BY CanCount, FS_AddElement
      <4>5. Cardinality(c \cup {t}) <= active[l] + (strays[l] + 1)
        BY <3>1, <3>2, <4>2, <4>4
      <4>6. QED  BY <3>1, <3>2, <3>3, <4>1, <4>3, <4>5 DEF Accounted
    <3>6. QED  BY <3>4, <3>5
  <2>2. QED  BY <2>1 DEF CountOK, Controller, Accounted, UserOf, ClaimOf
<1>8. LimitOK(Controller)'
  BY <1>1, <1>2 DEF StateOK, LimitOK, Controller
<1>9. StateOK(Controller, waiter, permit)'
  BY <1>5, <1>6, <1>7, <1>8 DEF StateOK
<1>10. QED  BY <1>1, <1>2, <1>9, <1>11 DEF Inv

\* Whatever is cancelled, the state is well formed throughout.
THEOREM InvHolds == HistorySpec => []Inv
<1>1. DemandInv' /\ Inv /\ [HistoryNext]_historyVars => Inv'
  BY NextInv, CancelInv DEF HistoryNext, historyVars
<1>2. QED  BY <1>1, InitInv, HistoryIsLanes, DemandInvHolds, PTL DEF HistorySpec

\* The holders of a lane are among its claimants.
LEMMA HoldersClaim ==
  ASSUME Inv, NEW l \in Lanes
  PROVE  /\ Cardinality(Holders(l)) \in Nat /\ strays[l] \in Nat /\ active[l] \in Nat
         /\ active[l] <= Cardinality(Holders(l))
         /\ Cardinality(Holders(l)) <= active[l] + strays[l]
         /\ active[l] <= Ceiling[l]
<1>1. /\ strays[l] \in Nat /\ active[l] <= Cardinality(UserOf(fut, waiter, permit, l))
      /\ Cardinality(ClaimOf(fut, waiter, permit, l)) <= active[l] + strays[l]
      /\ active[l] <= Ceiling[l]
  BY DEF Inv, StateOK, CountOK, Accounted, LimitOK, Controller
<1>2. active[l] \in Nat
  BY ControllerType DEF Inv, StateOK
<1>3. Holders(l) = UserOf(fut, waiter, permit, l)
  BY DEF Holders, UserOf
<1>a. Holders(l) \subseteq ClaimOf(fut, waiter, permit, l)
  BY DEF Holders, ClaimOf
<1>b. ClaimOf(fut, waiter, permit, l) \subseteq Tasks
  BY DEF ClaimOf
<1>4. PICK a \in SUBSET Tasks, c \in SUBSET Tasks :
        a = Holders(l) /\ c = ClaimOf(fut, waiter, permit, l) /\ a \subseteq c
  BY <1>a, <1>b, Zenon
<1>5. Cardinality(a) <= Cardinality(c) /\ Cardinality(a) \in Nat /\ Cardinality(c) \in Nat
  BY <1>4, CanCount, FS_Subset
<1>6. QED  BY <1>1, <1>2, <1>3, <1>4, <1>5

\* For any tasks, lanes, routes, plans and cancellations: LaneState.active is never
\* above the number of tasks that use a dynamic permit of the lane, and below it by no
\* more than the waiters that were cancelled in its deques.
THEOREM PermitAccountingHolds == HistorySpec => []PermitAccounting
<1>1. Inv => PermitAccounting
  BY HoldersClaim DEF PermitAccounting
<1>2. QED  BY <1>1, InvHolds, PTL

\* For any tasks, lanes, routes, plans and cancellations: the tasks that run under a
\* lane's dynamic permits never outnumber its hard ceiling by more than the waiters
\* that were cancelled in its deques.
THEOREM BoundedAlwaysHolds == HistorySpec => []BoundedAlways
<1>1. ASSUME Inv, NEW l \in Lanes PROVE Cardinality(Holders(l)) <= Ceiling[l] + strays[l]
  <2>1. Ceiling[l] \in Nat
    BY LanesAssumption
  <2>2. QED  BY <1>1, <2>1, HoldersClaim
<1>2. Inv => BoundedAlways
  BY <1>1 DEF BoundedAlways
<1>3. QED  BY <1>2, InvHolds, PTL

-----------------------------------------------------------------------------
\* The plain semaphore that replaces a lane after a degrade admits Fixed tasks.
FixedInv == \A l \in Lanes : Cardinality(FixedHolders(l)) <= Fixed[l]

\* The holders of a plain semaphore can be counted.
LEMMA FixedFinite ==
  ASSUME NEW l \in Lanes
  PROVE  /\ IsFiniteSet(FixedHolders(l)) /\ Cardinality(FixedHolders(l)) \in Nat
         /\ FixedHolders(l)' \in SUBSET Tasks
<1>1. FixedHolders(l) \in SUBSET Tasks /\ FixedHolders(l)' \in SUBSET Tasks
  BY DEF FixedHolders
<1>2. QED  BY <1>1, LanesAssumption, FS_Subset, FS_CardinalityType

\* A step that hands out no fixed permit keeps the bound.
LEMMA FixedKept ==
  ASSUME FixedInv,
         \A t \in Tasks, l \in Lanes : permit'[t][l] = "fixed" => permit[t][l] = "fixed"
  PROVE  FixedInv'
<1>1. ASSUME NEW l \in Lanes PROVE Cardinality(FixedHolders(l)') <= Fixed[l]
  <2>1. FixedHolders(l)' \in SUBSET FixedHolders(l)
    BY DEF FixedHolders
  <2>2. PICK m : m = FixedHolders(l)
    OBVIOUS
  <2>3. PICK n : n = FixedHolders(l)'
    OBVIOUS
  <2>4. IsFiniteSet(m) /\ Cardinality(m) \in Nat /\ Cardinality(m) <= Fixed[l] /\ Fixed[l] \in Nat
    BY <2>2, FixedFinite, LanesAssumption DEF FixedInv
  <2>5. IsFiniteSet(n) /\ Cardinality(n) <= Cardinality(m)
    BY <2>1, <2>2, <2>3, <2>4, FS_Subset
  <2>6. Cardinality(n) \in Nat
    BY <2>5, FS_CardinalityType
  <2>7. QED  BY <2>3, <2>4, <2>5, <2>6
<1>2. QED  BY <1>1 DEF FixedInv

\* Every action keeps the bound of the plain semaphores.
LEMMA NextFixed ==
  ASSUME FixedInv, permit \in Permits, [Next]_vars
  PROVE  FixedInv'
<1>1. ASSUME NEW t \in Tasks, NEW l \in Lanes, AcquireFixed(t, l) PROVE FixedInv'
  <2>1. /\ permit' = [permit EXCEPT ![t][l] = "fixed"]
        /\ Cardinality(FixedHolders(l)) < Fixed[l]
    BY <1>1 DEF AcquireFixed
  <2>2. ASSUME NEW k \in Lanes PROVE Cardinality(FixedHolders(k)') <= Fixed[k]
    <3>1. CASE k # l
      <4>1. FixedHolders(k)' = FixedHolders(k)
        BY <2>1, <3>1 DEF FixedHolders, Permits
      <4>2. QED  BY <4>1 DEF FixedInv
    <3>2. CASE k = l
      <4>1. FixedHolders(l)' = FixedHolders(l) \cup {t}
        BY <2>1 DEF FixedHolders, Permits
      <4>2. PICK m : m = FixedHolders(l)
        OBVIOUS
      <4>3. IsFiniteSet(m) /\ Cardinality(m) \in Nat /\ Cardinality(m) < Fixed[l] /\ Fixed[l] \in Nat
        BY <2>1, <4>2, FixedFinite, LanesAssumption
      <4>4. Cardinality(m \cup {t}) = IF t \in m THEN Cardinality(m) ELSE Cardinality(m) + 1
        BY <4>3, FS_AddElement
      <4>5. Cardinality(m \cup {t}) <= Fixed[l]
        BY <4>3, <4>4
      <4>6. QED  BY <3>2, <4>1, <4>2, <4>5
    <3>3. QED  BY <3>1, <3>2
  <2>3. QED  BY <2>2 DEF FixedInv
<1>2. ASSUME NEW t \in Tasks, NEW l, permit' = [permit EXCEPT ![t][l] = "dynamic"] PROVE FixedInv'
  BY <1>2, FixedKept DEF Permits
<1>3. ASSUME NEW t \in Tasks, permit' = [permit EXCEPT ![t] = [l \in Lanes |-> "none"]] PROVE FixedInv'
  BY <1>3, FixedKept DEF Permits
<1>4. ASSUME permit' = permit PROVE FixedInv'
  BY <1>4, FixedKept
<1>5. \/ \E t \in Tasks, l \in Lanes : AcquireFixed(t, l)
      \/ \E t \in Tasks : \E l : permit' = [permit EXCEPT ![t][l] = "dynamic"]
      \/ \E t \in Tasks : permit' = [permit EXCEPT ![t] = [l \in Lanes |-> "none"]]
      \/ permit' = permit
  <2>1. ASSUME NEW t \in Tasks, Resume(t)
        PROVE  \E l : permit' = [permit EXCEPT ![t][l] = "dynamic"]
    BY <2>1 DEF Resume
  <2>2. ASSUME NEW t \in Tasks, NEW l \in Lanes, AcquireFast(t, l)
        PROVE  permit' = [permit EXCEPT ![t][l] = "dynamic"]
    BY <2>2 DEF AcquireFast
  <2>3. ASSUME NEW t \in Tasks, Finish(t) \/ AbandonFixed(t)
        PROVE  permit' = [permit EXCEPT ![t] = [l \in Lanes |-> "none"]]
    BY <2>3 DEF Finish, AbandonFixed, ReleaseAll
  <2>4. ASSUME NEW t \in Tasks, NEW l \in Lanes, AcquireSlow(t, l) PROVE permit' = permit
    BY <2>4 DEF AcquireSlow
  <2>5. ASSUME NEW t \in Tasks, Cancel(t) \/ Promote(t) PROVE permit' = permit
    BY <2>5 DEF Cancel, Promote
  <2>6. ASSUME Observe \/ UNCHANGED vars PROVE permit' = permit
    BY <2>6 DEF Observe, vars
  <2>7. QED  BY <2>1, <2>2, <2>3, <2>4, <2>5, <2>6 DEF Next, Undisturbed
<1>6. QED  BY <1>1, <1>2, <1>3, <1>4, <1>5

\* Whatever is cancelled, at most Fixed[l] tasks are inside the plain semaphore.
THEOREM FixedInvHolds == Spec => []FixedInv
<1>1. Init => FixedInv
  <2>1. ASSUME Init, NEW l \in Lanes PROVE Cardinality(FixedHolders(l)) <= Fixed[l]
    <3>1. FixedHolders(l) = {}
      BY <2>1 DEF Init, FixedHolders
    <3>2. Cardinality({}) = 0 /\ Fixed[l] \in Nat
      BY LanesAssumption, FS_EmptySet
    <3>3. QED  BY <3>1, <3>2
  <2>2. QED  BY <2>1 DEF FixedInv
<1>2. DemandInv => permit \in Permits
  BY DEF DemandInv
<1>3. FixedInv /\ permit \in Permits /\ [Next]_vars => FixedInv'
  BY NextFixed
<1>4. QED  BY <1>1, <1>2, <1>3, DemandInvHolds, PTL DEF Spec

\* Whatever is cancelled, a lane never runs more tasks than its ceiling and its fixed
\* limit together, and one for each waiter that was cancelled, also after a degrade,
\* when the old dynamic holders and the new holders of the plain semaphore coexist.
THEOREM BoundedAfterDegradeHolds == HistorySpec => []BoundedAfterDegrade
<1>1. ASSUME Inv, FixedInv, NEW l \in Lanes
      PROVE  Cardinality(Holders(l)) + Cardinality(FixedHolders(l)) <= Ceiling[l] + Fixed[l] + strays[l]
  <2>1. Cardinality(FixedHolders(l)) \in Nat /\ Cardinality(FixedHolders(l)) <= Fixed[l]
    BY <1>1, FixedFinite DEF FixedInv
  <2>2. Ceiling[l] \in Nat /\ Fixed[l] \in Nat
    BY LanesAssumption
  <2>3. QED  BY <1>1, <2>1, <2>2, HoldersClaim
<1>2. Inv /\ FixedInv => BoundedAfterDegrade
  BY <1>1 DEF BoundedAfterDegrade
<1>3. QED  BY <1>2, InvHolds, HistoryIsLanes, FixedInvHolds, PTL

-----------------------------------------------------------------------------
\* x is s after some waiters were handed permits, and while foreground waits
\* anywhere no background waiter was.
Polite(s, x, w) ==
  /\ x \in ControllerState /\ x.foregroundWaiting = s.foregroundWaiting
  /\ \A u \in Tasks : x.fut[u] # s.fut[u] =>
       /\ s.fut[u] = "pending"
       /\ w[u].priority = BACKGROUND => s.foregroundWaiting = 0

\* A lane admits background work only while no foreground waits anywhere.
LEMMA NoBackground ==
  ASSUME NEW s \in ControllerState, NEW l \in Lanes, CanAdmit(s, l, BACKGROUND)
  PROVE  s.foregroundWaiting = 0
<1>1. s.foregroundWaiting \in Nat /\ BACKGROUND # FOREGROUND
  BY DEF ControllerState, BACKGROUND, FOREGROUND
<1>2. QED  BY <1>1 DEF CanAdmit, Budget

\* Serving a class is polite: background is served only while no foreground waits.
LEMMA ServePolite ==
  ASSUME NEW s \in ControllerState, NEW w, NEW l \in Lanes, NEW r \in Priorities, QueueOK(s, w)
  PROVE  Polite(s, Serve(s, l, r), w)
<1>1. PICK n \in Nat : n = Budget(s, l, r)
  BY BudgetType
<1>2. PICK q \in Seq(Entry) : q = s.waiters[l][r]
  BY DEF ControllerState
<1> DEFINE v == Serve(s, l, r)
           x == s.waiters[l][r]
           m == Budget(s, l, r)
<1>0. s \in ControllerState
  OBVIOUS
<1>3. /\ v.capacity = s.capacity /\ v.degraded = s.degraded
      /\ v.foregroundWaiting = s.foregroundWaiting
      /\ v.active = [s.active EXCEPT ![l] = @ + Cardinality(Served(x, m))]
      /\ v.waiters = [s.waiters EXCEPT ![l][r] = Rest(x, m)]
      /\ v.fut = [t \in Tasks |-> IF t \in Served(x, m) THEN "granted" ELSE s.fut[t]]
  BY ServeFields
<1>4. v \in ControllerState
  BY ServeType
<1>5. \A t \in Served(x, m) : s.fut[t] = "pending" /\ w[t].priority = r
  BY <1>1, ServedWaited
<1>6. x = q /\ m = n
  BY <1>1, <1>2
<1> HIDE DEF v, x, m
<1>7. ASSUME NEW u \in Served(q, n) PROVE n > 0
  <2>1. PICK i \in Popped(q, n) : ~q[i].cancelled /\ q[i].task = u
    BY DEF Served
  <2>2. i \in DOMAIN q /\ Cardinality(LiveBefore(q, i)) < n
    BY <2>1 DEF Popped
  <2>3. i \in Nat
    BY <2>2
  <2>4. Cardinality(LiveBefore(q, i)) \in Nat
    BY <2>3, LiveBeforeGrows
  <2>5. QED  BY <2>2, <2>4
<1>8. ASSUME NEW u \in Tasks, v.fut[u] # s.fut[u], w[u].priority = BACKGROUND
      PROVE  s.foregroundWaiting = 0
  <2>1. u \in Served(q, n) /\ r = BACKGROUND
    BY <1>3, <1>5, <1>6, <1>8
  <2>2. CanAdmit(s, l, BACKGROUND)
    BY <1>1, <1>7, <2>1 DEF CanAdmit
  <2>3. QED  BY <2>2, NoBackground
<1>9. \A u \in Tasks : v.fut[u] # s.fut[u] => s.fut[u] = "pending"
  BY <1>3, <1>5
<1>10. Polite(s, v, w)
  BY <1>3, <1>4, <1>8, <1>9 DEF Polite
<1>11. QED  BY <1>10 DEF v

\* So is _wake.
LEMMA WakePolite ==
  ASSUME NEW s \in ControllerState, NEW w, NEW l \in Lanes, QueueOK(s, w)
  PROVE  Polite(s, Wake(s, l), w)
<1>1. FOREGROUND \in Priorities /\ BACKGROUND \in Priorities
  BY DEF Priorities
<1>2. PICK a \in ControllerState : a = Serve(s, l, FOREGROUND) /\ QueueOK(a, w) /\ Polite(s, a, w)
  BY <1>1, ServeType, ServeQueue, ServePolite
<1>3. PICK b : b = Serve(a, l, BACKGROUND) /\ Polite(a, b, w)
  BY <1>1, <1>2, ServePolite
<1>4. Polite(s, b, w)
  BY <1>2, <1>3 DEF Polite
<1>5. QED  BY <1>2, <1>3, <1>4 DEF Wake

\* So is waking several lanes.
LEMMA WakeLanesPolite ==
  ASSUME NEW s \in ControllerState, NEW w, NEW L \in SUBSET Lanes, QueueOK(s, w)
  PROVE  Polite(s, WakeLanes(s, L), w)
<1>1. PICK z : z = WakeLanes(s, L) /\ Woken(s, z, w, L)
  BY WakeLanesQueue
<1>2. ASSUME NEW u \in Tasks, z.fut[u] # s.fut[u]
      PROVE  s.fut[u] = "pending" /\ (w[u].priority = BACKGROUND => s.foregroundWaiting = 0)
  <2>1. w[u].lane \in L /\ w[u].lane \in Lanes
    BY <1>1, <1>2 DEF Woken
  <2>2. z.fut[u] = Wake(s, w[u].lane).fut[u]
    BY <1>1, <2>1 DEF Woken
  <2>3. Polite(s, Wake(s, w[u].lane), w)
    BY <2>1, WakePolite
  <2>4. QED  BY <1>2, <2>2, <2>3 DEF Polite
<1>3. z \in ControllerState /\ z.foregroundWaiting = s.foregroundWaiting
  BY <1>1 DEF Woken
<1>4. QED  BY <1>1, <1>2, <1>3 DEF Polite

\* So is recompute, whichever plan it makes.
LEMMA RecomputePolite ==
  ASSUME NEW s, NEW w, NEW force \in BOOLEAN, Demand(s, w), force \/ AllSettled(s),
         NEW x \in Recompute(s, force)
  PROVE  Polite(s, x, w)
<1>1. s \in ControllerState
  BY DEF Demand
<1>2. ASSUME NEW c \in Plans, x = WakeAll([s EXCEPT !.capacity = c])
      PROVE  Polite(s, x, w)
  <2>1. c \in [Lanes -> Nat \ {0}]
    <3>1. DOMAIN c = Lanes /\ c = [l \in Lanes |-> c[l]] /\ \A l \in Lanes : c[l] \in Floor[l]..Ceiling[l]
      BY DEF Plans
    <3>2. \A l \in Lanes : Floor[l] \in Nat \ {0} /\ Ceiling[l] \in Nat
      BY LanesAssumption
    <3>3. \A l \in Lanes : c[l] \in Nat \ {0}
      BY <3>1, <3>2
    <3>4. QED  BY <3>1, <3>3
  <2>2. PICK y : y = [s EXCEPT !.capacity = c]
    OBVIOUS
  <2>3. /\ s.degraded \in BOOLEAN /\ y = [s EXCEPT !.capacity = c, !.degraded = s.degraded]
        /\ y.fut = s.fut /\ y.foregroundWaiting = s.foregroundWaiting
    BY <1>1, <2>2 DEF ControllerState
  <2>4. Demand(y, w)
    BY <2>1, <2>3, ReplanDemand
  <2>5. x = WakeLanes(y, Lanes) /\ Lanes \in SUBSET Lanes
    BY <1>2, <2>2 DEF WakeAll
  <2>6. Polite(y, x, w)
    BY <2>4, <2>5, WakeLanesPolite DEF Demand
  <2>7. QED  BY <2>3, <2>6 DEF Polite
<1>3. ASSUME x.fut = s.fut, x.foregroundWaiting = s.foregroundWaiting PROVE Polite(s, x, w)
  <2>1. x \in ControllerState
    BY RecomputeDemand DEF Demand
  <2>2. QED  BY <1>3, <2>1 DEF Polite
<1>4. x = Degraded(s) => x.fut = s.fut /\ x.foregroundWaiting = s.foregroundWaiting
  BY <1>1 DEF Degraded, ControllerState
<1>5. x = s \/ x = Degraded(s) \/ \E c \in Plans : x = WakeAll([s EXCEPT !.capacity = c])
  BY DEF Recompute, Replan
<1>6. QED  BY <1>2, <1>3, <1>4, <1>5

\* In every action, who is admitted as background is so while no foreground waits.
LEMMA NextPolite ==
  ASSUME DemandInv, Next, NEW t \in Tasks, NewlyAdmitted(t), CurrentPriority(t) = BACKGROUND,
         ~(fut[t] = "pending" /\ waiter'[t].priority = FOREGROUND)
  PROVE  foregroundWaiting = 0 \/ foregroundWaiting' = 0
<1>1. /\ Demand(Controller, waiter) /\ AllSettled(Controller)
      /\ waiter \in Records /\ permit \in Permits
      /\ Controller \in ControllerState /\ Controller.fut = fut
      /\ Controller.waiters = waiters /\ Controller.foregroundWaiting = foregroundWaiting
      /\ QueueOK(Controller, waiter) /\ Listed(Controller, waiter)
  BY DEF DemandInv, Demand, Controller
<1>2. DemandInv'
  BY NextDemand
<1>3. waiter' \in Records /\ BACKGROUND # FOREGROUND
  BY <1>2 DEF DemandInv, BACKGROUND, FOREGROUND
<1>4. fut[t] = "pending" => waiter'[t].priority = BACKGROUND
  BY <1>3 DEF Records, Priorities
\* Whoever is handed a permit while foreground waits is foreground.
<1>5. ASSUME NEW s, NEW x, Polite(s, x, waiter'), s.fut[t] = fut[t], x.fut[t] # s.fut[t]
      PROVE  s.foregroundWaiting = 0
  BY <1>4, <1>5 DEF Polite
\* Only AcquireFast takes a dynamic permit without a future.
<1>6. ASSUME \A l \in Lanes : permit[t][l] = "none" => permit'[t][l] # "dynamic" \/ fut[t] # "none"
      PROVE  fut[t] # "granted" /\ fut'[t] = "granted"
  BY <1>6 DEF NewlyAdmitted
<1>7. ASSUME NEW u \in Tasks, NEW l \in Lanes, AcquireFast(u, l)
      PROVE  foregroundWaiting = 0 \/ foregroundWaiting' = 0
  <2>1. PICK s \in Recompute(Controller, FALSE) :
          CanAdmit(s, l, CurrentPriority(u)) /\ Becomes([s EXCEPT !.active[l] = @ + 1])
    BY <1>7 DEF AcquireFast
  <2>2. Polite(Controller, s, waiter)
    BY <1>1, <2>1, RecomputePolite
  <2>3. s \in ControllerState /\ fut' = s.fut /\ foregroundWaiting' = s.foregroundWaiting
    BY <2>1, <2>2 DEF Polite, Becomes, ControllerState
  <2>4. waiter' = waiter /\ permit' = [permit EXCEPT ![u][l] = "dynamic"]
    BY <1>7 DEF AcquireFast
  <2>5. CASE t = u
    <3>1. CanAdmit(s, l, BACKGROUND)
      BY <2>1, <2>5
    <3>2. QED  BY <2>3, <3>1, NoBackground
  <2>6. CASE t # u
    <3>1. permit'[t] = permit[t]
      BY <1>1, <2>4, <2>6 DEF Permits
    <3>2. fut[t] # "granted" /\ fut'[t] = "granted"
      BY <1>6, <3>1
    <3>3. Controller.foregroundWaiting = 0
      BY <1>1, <1>5, <2>2, <2>3, <2>4, <3>2
    <3>4. QED  BY <1>1, <3>3
  <2>7. QED  BY <2>5, <2>6
<1>8. ASSUME NEW u \in Tasks, NEW l \in Lanes, AcquireSlow(u, l)
      PROVE  foregroundWaiting = 0 \/ foregroundWaiting' = 0
  <2>1. PICK s \in Recompute(Controller, FALSE) :
          \E r \in Recompute(Enqueue(s, u, l), TRUE) : Becomes(r)
    BY <1>8 DEF AcquireSlow
  <2>2. PICK r \in Recompute(Enqueue(s, u, l), TRUE) : Becomes(r)
    BY <2>1
  <2>3. /\ Demand(s, waiter) /\ Polite(Controller, s, waiter)
        /\ \A k \in Tasks : Controller.fut[k] # "pending" => s.fut[k] = Controller.fut[k]
    BY <1>1, <2>1, RecomputeDemand, RecomputePolite
  <2>4. fut[u] = "none" /\ s.fut[u] = "none"
    BY <1>1, <1>8, <2>3 DEF AcquireSlow, Reaches
  <2>5. /\ permit' = permit
        /\ waiter' = [waiter EXCEPT ![u] = [lane |-> l, priority |-> CurrentPriority(u)]]
    BY <1>8 DEF AcquireSlow
  <2>6. PICK e : e = Enqueue(s, u, l)
    OBVIOUS
  <2>7. Demand(e, waiter') /\ Queues(s, e, waiter, waiter', u, l)
    BY <1>1, <2>3, <2>4, <2>5, <2>6, EnqueueDemand, EnqueueQueue DEF Demand
  <2>8. Polite(e, r, waiter')
    BY <2>2, <2>6, <2>7, RecomputePolite
  <2>9. /\ e.fut[u] = "pending" /\ waiter'[u].priority = CurrentPriority(u)
        /\ \A k \in Tasks : k # u => e.fut[k] = s.fut[k] /\ waiter'[k] = waiter[k]
    BY <2>7 DEF Queues
  <2>10. fut' = r.fut /\ foregroundWaiting' = r.foregroundWaiting
    BY <2>2 DEF Becomes
  <2>11. fut[t] # "granted" /\ fut'[t] = "granted"
    BY <1>6, <2>5
  <2>12. CASE s.fut[t] # fut[t]
    <3>1. fut[t] = "pending" /\ t # u
      BY <1>1, <2>3, <2>4, <2>12 DEF Polite
    <3>2. waiter[t].priority = BACKGROUND
      BY <1>4, <2>9, <3>1
    <3>3. QED  BY <1>1, <2>3, <2>12, <3>2 DEF Polite
  <2>13. CASE s.fut[t] = fut[t]
    <3>1. r.fut[t] # e.fut[t]
      BY <2>9, <2>10, <2>11, <2>13
    <3>2. e.fut[t] = "pending"
      BY <2>8, <3>1 DEF Polite
    <3>3. waiter'[t].priority = BACKGROUND
      BY <1>4, <2>9, <2>13, <3>2
    <3>4. QED  BY <2>8, <2>10, <3>1, <3>3 DEF Polite
  <2>14. QED  BY <2>12, <2>13
<1>9. ASSUME NEW u \in Tasks, Resume(u)
      PROVE  foregroundWaiting = 0 \/ foregroundWaiting' = 0
  <2>1. PICK v : v = [waiter EXCEPT ![u] = NoWaiter]
    OBVIOUS
  <2>2. /\ fut[u] \in {"granted", "cancelled"} /\ waiter' = v
        /\ permit' = [permit EXCEPT ![u][waiter[u].lane] = "dynamic"]
    BY <1>9, <2>1 DEF Resume
  <2>3. fut[t] # "granted" /\ fut'[t] = "granted"
    <3>1. t # u => permit'[t] = permit[t]
      BY <1>1, <2>2 DEF Permits
    <3>2. QED  BY <1>6, <2>2, <3>1
  <2>4. PICK n : n = IF waiter[u].priority = FOREGROUND
                     THEN IF foregroundWaiting > 0 THEN foregroundWaiting - 1 ELSE 0
                     ELSE foregroundWaiting
    OBVIOUS
  <2>5. PICK z : z = [Controller EXCEPT !.fut[u] = "none", !.foregroundWaiting = n]
    OBVIOUS
  <2>6. Demand(z, v)
    BY <1>1, <2>1, <2>2, <2>4, <2>5, ResumeDemand
  <2>7. z.fut[u] = "none" /\ \A k \in Tasks : k # u => z.fut[k] = fut[k]
    <3>1. fut \in [Tasks -> FutureState]
      BY <1>1 DEF ControllerState
    <3>2. z.fut = [fut EXCEPT ![u] = "none"]
      BY <2>5 DEF Controller
    <3>3. QED  BY <3>1, <3>2
  <2>8. CASE waiter[u].priority = FOREGROUND
    <3>1. Lanes \in SUBSET Lanes
      OBVIOUS
    <3>2. Polite(z, WakeLanes(z, Lanes), v)
      BY <2>6, <3>1, WakeLanesPolite DEF Demand
    <3>3. Becomes(WakeLanes(z, Lanes))
      BY <1>9, <2>4, <2>5, <2>8 DEF Resume, WakeAll, Controller
    <3>4. /\ fut' = WakeLanes(z, Lanes).fut
          /\ foregroundWaiting' = WakeLanes(z, Lanes).foregroundWaiting
      BY <3>3 DEF Becomes
    <3>5. t # u
      BY <2>3, <2>7, <3>2, <3>4 DEF Polite
    <3>6. z.foregroundWaiting = 0
      BY <1>5, <2>2, <2>3, <2>7, <3>2, <3>4, <3>5
    <3>7. QED  BY <3>2, <3>4, <3>6 DEF Polite
  <2>9. CASE waiter[u].priority # FOREGROUND
    <3>1. fut' = z.fut
      BY <1>9, <2>5, <2>9 DEF Resume, Becomes, Controller
    <3>2. QED  BY <2>3, <2>7, <3>1
  <2>10. QED  BY <2>8, <2>9
<1>10. ASSUME NEW u \in Tasks, Promote(u)
       PROVE  foregroundWaiting = 0 \/ foregroundWaiting' = 0
  <2>1. fut[u] = "pending" /\ permit' = permit /\ waiter' = [waiter EXCEPT ![u].priority = FOREGROUND]
    BY <1>10 DEF Promote
  <2>2. PICK l \in Lanes : l = waiter[u].lane
    BY <1>1, <2>1 DEF Listed
  <2>3. PICK i \in DOMAIN waiters[l][BACKGROUND] :
          /\ waiters[l][BACKGROUND][i] = [task |-> u, cancelled |-> FALSE]
          /\ Becomes(Wake(Lift(Controller, l, i), l))
    BY <1>10, <2>2 DEF Promote
  <2>4. PICK z : z = Lift(Controller, l, i)
    OBVIOUS
  <2>5. Promotes(Controller, z, waiter, waiter', u, l, i)
    BY <1>1, <2>1, <2>3, <2>4, LiftQueue
  <2>6. z \in ControllerState /\ QueueOK(z, waiter') /\ z.fut = fut
    BY <1>1, <2>5 DEF Promotes
  <2>7. Polite(z, Wake(z, l), waiter')
    BY <2>6, WakePolite
  <2>8. fut[t] # "granted" /\ fut'[t] = "granted"
    BY <1>6, <2>1
  <2>9. fut' = Wake(z, l).fut /\ foregroundWaiting' = Wake(z, l).foregroundWaiting
    BY <2>3, <2>4 DEF Becomes
  <2>10. z.foregroundWaiting = 0
    BY <1>5, <2>6, <2>7, <2>8, <2>9
  <2>11. QED  BY <2>7, <2>9, <2>10 DEF Polite
<1>11. ASSUME NEW u \in Tasks, Finish(u) \/ AbandonFixed(u)
       PROVE  foregroundWaiting = 0 \/ foregroundWaiting' = 0
  <2>1. PICK L : L = DynamicLanes(u)
    OBVIOUS
  <2>2. L \in SUBSET Lanes
    BY <2>1 DEF DynamicLanes
  <2>3. ReleaseAll(u) /\ UNCHANGED waiter
    BY <1>11 DEF Finish, AbandonFixed
  <2>4. PICK z : z = Returned(Controller, L)
    OBVIOUS
  <2>5. /\ Becomes(WakeLanes(z, L)) /\ waiter' = waiter
        /\ permit' = [permit EXCEPT ![u] = [l \in Lanes |-> "none"]]
    BY <2>1, <2>3, <2>4 DEF ReleaseAll
  <2>6. z.fut = fut /\ z.foregroundWaiting = foregroundWaiting
    BY <2>4 DEF Returned, Controller
  <2>7. Demand(z, waiter)
    BY <1>1, <2>2, <2>4, ReturnDemand
  <2>8. Polite(z, WakeLanes(z, L), waiter)
    BY <2>2, <2>7, WakeLanesPolite DEF Demand
  <2>9. fut[t] # "granted" /\ fut'[t] = "granted"
    <3>1. \A l \in Lanes : permit'[t][l] = "none" \/ permit'[t][l] = permit[t][l]
      BY <1>1, <2>5 DEF Permits
    <3>2. QED  BY <1>6, <3>1
  <2>10. fut' = WakeLanes(z, L).fut
    BY <2>5 DEF Becomes
  <2>11. QED  BY <1>5, <2>5, <2>6, <2>8, <2>9, <2>10
<1>12. ASSUME Observe
       PROVE  foregroundWaiting = 0 \/ foregroundWaiting' = 0
  <2>1. PICK s \in Recompute(Controller, TRUE) : Becomes(s)
    BY <1>12 DEF Observe
  <2>2. waiter' = waiter /\ permit' = permit /\ fut' = s.fut
    BY <1>12, <2>1 DEF Observe, Becomes
  <2>3. Polite(Controller, s, waiter)
    BY <1>1, <2>1, RecomputePolite
  <2>4. fut[t] # "granted" /\ fut'[t] = "granted"
    BY <1>6, <2>2
  <2>5. QED  BY <1>1, <1>5, <2>2, <2>3, <2>4
<1>13. ASSUME NEW u \in Tasks, Cancel(u) PROVE FALSE
  <2>1. permit' = permit /\ fut' = [fut EXCEPT ![u] = "cancelled"]
    BY <1>13 DEF Cancel
  <2>2. fut \in [Tasks -> FutureState]
    BY <1>1 DEF ControllerState
  <2>3. QED  BY <1>6, <2>1, <2>2
<1>14. ASSUME NEW u \in Tasks, NEW l \in Lanes, AcquireFixed(u, l) PROVE FALSE
  <2>1. permit' = [permit EXCEPT ![u][l] = "fixed"] /\ fut' = fut
    BY <1>14 DEF AcquireFixed
  <2>2. \A k \in Lanes : permit'[t][k] = "fixed" \/ permit'[t][k] = permit[t][k]
    BY <1>1, <2>1 DEF Permits
  <2>3. QED  BY <1>6, <2>1, <2>2
<1>15. QED  BY <1>7, <1>8, <1>9, <1>10, <1>11, <1>12, <1>13, <1>14 DEF Next, Undisturbed

\* For any tasks, lanes, routes and plans, and whatever is cancelled: a background
\* task is admitted only in a step during which no foreground acquisition waits in
\* any lane, whether it acquires, is woken by a release or by a new plan.
THEOREM ForegroundFirstHolds == Spec => ForegroundFirst
<1>1. ASSUME DemandInv, Next, NEW t \in Tasks, NewlyAdmitted(t), CurrentPriority(t) = BACKGROUND,
             ~(fut[t] = "pending" /\ waiter'[t].priority = FOREGROUND)
      PROVE  0 \in {foregroundWaiting, foregroundWaiting'}
  BY <1>1, NextPolite
<1>2. DemandInv /\ [Next]_vars =>
        [\A t \in Tasks :
           NewlyAdmitted(t) /\ CurrentPriority(t) = BACKGROUND
             /\ ~(fut[t] = "pending" /\ waiter'[t].priority = FOREGROUND)
           => 0 \in {foregroundWaiting, foregroundWaiting'}]_vars
  BY <1>1
<1>3. QED  BY <1>2, DemandInvHolds, PTL DEF Spec, ForegroundFirst
=============================================================================
