--------------------------- MODULE CapacityLanes ---------------------------
(* The queueing lanes of the dynamic capacity controller                    *)
(* (AnonX_3/core/dynamic_capacity.py) together with the DynamicSemaphore    *)
(* through which yt-dlp, download, video and ffmpeg work takes its permits. *)
(*                                                                          *)
(* asyncio is cooperative: a handler runs to its next await without being   *)
(* interrupted, so each action below is one such run.  acquire() has one    *)
(* await (the waiter's future) and is split there: Acquire is the part      *)
(* before it, Resume the part after it.  Recomputed capacities stand for    *)
(* every plan the pressure sampler can produce between floor and ceiling.   *)
EXTENDS Naturals, Sequences, FiniteSets

CONSTANTS
  Tasks,        \* asyncio tasks that take permits
  Background,   \* the tasks that run inside background_scope()
  Lanes,        \* the pausable lanes in use
  Route,        \* Route[t]: the lanes task t takes, outermost "async with" first
  Fixed,        \* Fixed[l]: the env limit of lane l, used before and after dynamic control
  Floor,        \* Floor[l]: the smallest capacity a plan may choose
  Ceiling,      \* Ceiling[l]: the largest capacity a plan may choose
  Reserve,      \* DYNAMIC_FOREGROUND_RESERVE
  Cancellable,  \* tasks that may be cancelled while they queue
  Abandoning,   \* tasks that may be cancelled while they wait for a fixed permit
  MayFail,      \* whether computing a plan may raise
  MaxStale      \* bound: cancelled futures left in one deque

ASSUME LanesAssumption ==
  /\ IsFiniteSet(Tasks) /\ IsFiniteSet(Lanes)
  /\ Background \subseteq Tasks
  /\ Cancellable \subseteq Tasks /\ Abandoning \subseteq Tasks
  /\ Route \in [Tasks -> Seq(Lanes)]
  /\ Fixed \in [Lanes -> Nat \ {0}]
  /\ Floor \in [Lanes -> Nat \ {0}]
  /\ Ceiling \in [Lanes -> Nat \ {0}]
  /\ \A l \in Lanes : Floor[l] <= Fixed[l] /\ Fixed[l] <= Ceiling[l]
  /\ Reserve \in Nat
  /\ MayFail \in BOOLEAN
  /\ MaxStale \in Nat

VARIABLES
  capacity,           \* LaneState.capacity
  active,             \* LaneState.active, the permits in use
  waiters,            \* LaneState.waiters: per priority, a FIFO of futures
  foregroundWaiting,  \* _foreground_waiting, summed over all lanes
  fut,                \* state of the future each task awaits
  degraded,           \* _degraded: latched to the fixed limits
  waiter,             \* the _Waiter record of each task: its lane and priority
  permit              \* DynamicSemaphore._modes: what each task thinks it holds

vars == <<capacity, active, waiters, foregroundWaiting, fut, degraded, waiter, permit>>

FOREGROUND == 0
BACKGROUND == 1
Priorities == {FOREGROUND, BACKGROUND}

NoWaiter == [lane |-> "none", priority |-> FOREGROUND]

\* A queued future: whose it is, and whether it was cancelled where it stands.
Entry == [task : Tasks, cancelled : BOOLEAN]

CurrentPriority(t) == IF t \in Background THEN BACKGROUND ELSE FOREGROUND

\* The controller's state as a value, so that a handler can be written as the
\* composition of the calls it makes.
Controller ==
  [capacity |-> capacity, active |-> active, waiters |-> waiters,
   foregroundWaiting |-> foregroundWaiting, fut |-> fut, degraded |-> degraded]

Becomes(s) ==
  /\ capacity' = s.capacity /\ active' = s.active /\ waiters' = s.waiters
  /\ foregroundWaiting' = s.foregroundWaiting
  /\ fut' = s.fut /\ degraded' = s.degraded

Free(s, l) == IF s.capacity[l] > s.active[l] THEN s.capacity[l] - s.active[l] ELSE 0

NothingQueued(s, l) == \A p \in Priorities : s.waiters[l][p] = <<>>

(* How many more admissions of priority p lane l allows.  Background work   *)
(* gets none while foreground waits anywhere, or is still queued in this    *)
(* lane, and leaves the last Reserve permits of a large enough lane alone.  *)
IgnorePause(s, l, p) ==  \* a mutant: background admitted past foreground waiters
  IF p = BACKGROUND /\ s.waiters[l][FOREGROUND] # <<>> THEN 0 ELSE Free(s, l)

OffByOne(s, l, p) == Free(s, l) + 1  \* a mutant: one permit too many

Budget(s, l, p) ==
  IF p = FOREGROUND THEN Free(s, l)
  ELSE IF s.foregroundWaiting > 0 \/ s.waiters[l][FOREGROUND] # <<>> THEN 0
  ELSE IF Reserve > 0 /\ s.capacity[l] > Reserve
       THEN IF Free(s, l) > Reserve THEN Free(s, l) - Reserve ELSE 0
  ELSE Free(s, l)

CanAdmit(s, l, p) == Budget(s, l, p) > 0

LiveBefore(q, i) == {j \in 1..(i - 1) : ~q[j].cancelled}

\* The entries the loop of _wake pops while it may still admit n waiters.
Popped(q, n) == {i \in DOMAIN q : Cardinality(LiveBefore(q, i)) < n}

Served(q, n) == {q[i].task : i \in {j \in Popped(q, n) : ~q[j].cancelled}}

Rest(q, n) == SubSeq(q, Cardinality(Popped(q, n)) + 1, Len(q))

\* One priority class of one lane is served.
Serve(s, l, p) ==
  LET q == s.waiters[l][p]
      n == Budget(s, l, p)
      g == Served(q, n)
  IN  [s EXCEPT !.active[l]     = @ + Cardinality(g),
                !.waiters[l][p] = Rest(q, n),
                !.fut           = [t \in Tasks |-> IF t \in g THEN "granted" ELSE @[t]]]

Wake(s, l) == Serve(Serve(s, l, FOREGROUND), l, BACKGROUND)

\* The lanes in L are woken, in any order: all they share is foregroundWaiting,
\* which _wake only reads.
WakeLanes(s, L) ==
  [s EXCEPT !.active  = [l \in Lanes |-> IF l \in L THEN Wake(s, l).active[l] ELSE @[l]],
            !.waiters = [l \in Lanes |-> IF l \in L THEN Wake(s, l).waiters[l] ELSE @[l]],
            !.fut     = [t \in Tasks |->
                           IF \E l \in L : Wake(s, l).fut[t] # s.fut[t]
                           THEN "granted" ELSE @[t]]]

WakeAll(s) == WakeLanes(s, Lanes)

Plans ==
  LET range == UNION {Floor[l]..Ceiling[l] : l \in Lanes}
  IN  {c \in [Lanes -> range] : \A l \in Lanes : c[l] \in Floor[l]..Ceiling[l]}

Degraded(s) == [s EXCEPT !.capacity = Fixed, !.degraded = TRUE]

\* recompute() with a fresh plan: new capacities, then every lane is woken.
\* An exception latches the fixed limits and wakes nobody.
Replan(s) ==
  {WakeAll([s EXCEPT !.capacity = c]) : c \in Plans}
    \cup (IF MayFail THEN {Degraded(s)} ELSE {})

\* recompute(): disabled once degraded; unless forced, a recent plan is kept.
Recompute(s, force) ==
  IF s.degraded THEN {s} ELSE Replan(s) \cup (IF force THEN {} ELSE {s})

-----------------------------------------------------------------------------
Holds(t, l) == permit[t][l] # "none"

\* Task t is about to enter "async with" on lane l: the next lane of its route.
Reaches(t, l) ==
  /\ fut[t] = "none" /\ ~Holds(t, l)
  /\ \E i \in DOMAIN Route[t] :
       /\ Route[t][i] = l
       /\ \A j \in 1..(i - 1) : Holds(t, Route[t][j])

Init ==
  /\ capacity = Fixed
  /\ active = [l \in Lanes |-> 0]
  /\ waiters = [l \in Lanes |-> [p \in Priorities |-> <<>>]]
  /\ foregroundWaiting = 0
  /\ fut = [t \in Tasks |-> "none"]
  /\ degraded = FALSE
  /\ waiter = [t \in Tasks |-> NoWaiter]
  /\ permit = [t \in Tasks |-> [l \in Lanes |-> "none"]]

\* acquire() takes a free permit at once when nobody is queued in the lane.
AcquireFast(t, l) ==
  /\ ~degraded /\ Reaches(t, l)
  /\ \E s \in Recompute(Controller, FALSE) :
       /\ CanAdmit(s, l, CurrentPriority(t)) /\ NothingQueued(s, l)
       /\ Becomes([s EXCEPT !.active[l] = @ + 1])
  /\ permit' = [permit EXCEPT ![t][l] = "dynamic"]
  /\ UNCHANGED waiter

Enqueue(s, t, l) ==
  LET p == CurrentPriority(t)
  IN  [s EXCEPT !.waiters[l][p] = Append(@, [task |-> t, cancelled |-> FALSE]),
                !.foregroundWaiting = IF p = FOREGROUND THEN @ + 1 ELSE @,
                !.fut[t] = "pending"]

\* Otherwise it queues a future, re-plans with the new demand and awaits.
AcquireSlow(t, l) ==
  /\ ~degraded /\ Reaches(t, l)
  /\ \E s \in Recompute(Controller, FALSE) :
       /\ ~(CanAdmit(s, l, CurrentPriority(t)) /\ NothingQueued(s, l))
       /\ \E r \in Recompute(Enqueue(s, t, l), TRUE) : Becomes(r)
  /\ waiter' = [waiter EXCEPT ![t] = [lane |-> l, priority |-> CurrentPriority(t)]]
  /\ UNCHANGED permit

\* The task runs again after its await, granted or cancelled.  A cancelled
\* future is done(), so the handler returns True as if it had been admitted.
ResumeAsleep(t) ==  \* a mutant: the paused lanes are not woken
  /\ fut[t] \in {"granted", "cancelled"}
  /\ Becomes([Controller EXCEPT
        !.fut[t] = "none",
        !.foregroundWaiting = IF waiter[t].priority = FOREGROUND /\ @ > 0 THEN @ - 1 ELSE @])
  /\ permit' = [permit EXCEPT ![t][waiter[t].lane] = "dynamic"]
  /\ waiter' = [waiter EXCEPT ![t] = NoWaiter]

Resume(t) ==
  /\ fut[t] \in {"granted", "cancelled"}
  /\ LET s == [Controller EXCEPT !.fut[t] = "none"]
     IN  IF waiter[t].priority = FOREGROUND
         THEN Becomes(WakeAll([s EXCEPT !.foregroundWaiting = IF @ > 0 THEN @ - 1 ELSE 0]))
         ELSE Becomes(s)
  /\ permit' = [permit EXCEPT ![t][waiter[t].lane] = "dynamic"]
  /\ waiter' = [waiter EXCEPT ![t] = NoWaiter]

CancelledEntry(q, t) ==
  [i \in DOMAIN q |-> IF q[i].task = t THEN [q[i] EXCEPT !.cancelled = TRUE] ELSE q[i]]

\* task.cancel() cancels the awaited future; its deque entry stays queued.
Cancel(t) ==
  /\ t \in Cancellable /\ fut[t] = "pending"
  /\ fut' = [fut EXCEPT ![t] = "cancelled"]
  /\ LET w == waiter[t] IN
       /\ Cardinality({i \in DOMAIN waiters[w.lane][w.priority] :
                         waiters[w.lane][w.priority][i].cancelled}) < MaxStale
       /\ waiters' = [waiters EXCEPT ![w.lane][w.priority] = CancelledEntry(@, t)]
  /\ UNCHANGED <<capacity, active, foregroundWaiting, degraded, waiter, permit>>

\* deque.remove: q without its i-th entry.
Without(q, i) == [j \in 1..(Len(q) - 1) |-> IF j < i THEN q[j] ELSE q[j + 1]]

LiftUncounted(s, l, i) ==  \* a mutant: the promoted waiter is not counted as foreground
  [s EXCEPT !.waiters[l] = [p \in Priorities |-> IF p = BACKGROUND
                                                  THEN Without(@[p], i)
                                                  ELSE Append(@[p], @[BACKGROUND][i])]]

\* Waiter i of the lane's background deque becomes its last foreground waiter.
Lift(s, l, i) ==
  [s EXCEPT !.waiters[l] = [p \in Priorities |-> IF p = BACKGROUND
                                                  THEN Without(@[p], i)
                                                  ELSE Append(@[p], @[BACKGROUND][i])],
            !.foregroundWaiting = @ + 1]

\* A foreground request joins the worker t: its queued permit becomes foreground.
Promote(t) ==
  /\ ~degraded /\ fut[t] = "pending" /\ waiter[t].priority = BACKGROUND
  /\ LET l == waiter[t].lane IN
       \E i \in DOMAIN waiters[l][BACKGROUND] :
         /\ waiters[l][BACKGROUND][i] = [task |-> t, cancelled |-> FALSE]
         /\ Becomes(Wake(Lift(Controller, l, i), l))
  /\ waiter' = [waiter EXCEPT ![t].priority = FOREGROUND]
  /\ UNCHANGED permit

\* The lanes in which t holds a dynamic permit, whose active count release() lowers.
DynamicLanes(t) == {l \in Lanes : permit[t][l] = "dynamic"}

ReturnedNever(s, L) == s  \* a mutant: the permit is never returned

Returned(s, L) ==
  [s EXCEPT !.active = [l \in Lanes |-> IF l \in L /\ @[l] > 0 THEN @[l] - 1 ELSE @[l]]]

ReleaseAsleep(t) ==  \* a mutant: nobody is told of the free permit
  /\ Becomes(Returned(Controller, DynamicLanes(t)))
  /\ permit' = [permit EXCEPT ![t] = [l \in Lanes |-> "none"]]

\* Leaving the nested "async with" blocks releases every lane without an await
\* between; each release wakes its lane.
ReleaseAll(t) ==
  /\ Becomes(WakeLanes(Returned(Controller, DynamicLanes(t)), DynamicLanes(t)))
  /\ permit' = [permit EXCEPT ![t] = [l \in Lanes |-> "none"]]

\* The work under the permits ends, normally or with an exception.
Finish(t) ==
  /\ fut[t] = "none"
  /\ \A i \in DOMAIN Route[t] : Holds(t, Route[t][i])
  /\ ReleaseAll(t)
  /\ UNCHANGED waiter

FixedHolders(l) == {t \in Tasks : permit[t][l] = "fixed"}

\* Once degraded, a DynamicSemaphore is a plain asyncio.Semaphore of the fixed
\* size.  Waiting for it is the action not being enabled.
AcquireFixed(t, l) ==
  /\ degraded /\ Reaches(t, l)
  /\ Cardinality(FixedHolders(l)) < Fixed[l]
  /\ permit' = [permit EXCEPT ![t][l] = "fixed"]
  /\ UNCHANGED <<capacity, active, waiters, foregroundWaiting, fut, degraded, waiter>>

\* Cancelled while it waits for that semaphore, the task unwinds.
AbandonFixed(t) ==
  /\ degraded /\ t \in Abandoning
  /\ \E l \in Lanes : Reaches(t, l) /\ Cardinality(FixedHolders(l)) >= Fixed[l]
  /\ \E l \in Lanes : Holds(t, l)
  /\ ReleaseAll(t)
  /\ UNCHANGED waiter

\* A re-plan on behalf of somebody else: /health, stream admission, other lanes.
Observe ==
  /\ \E s \in Recompute(Controller, TRUE) : Becomes(s)
  /\ UNCHANGED <<waiter, permit>>

\* The steps that cancel no queued task.
Undisturbed ==
  \/ \E t \in Tasks, l \in Lanes : AcquireFast(t, l) \/ AcquireSlow(t, l) \/ AcquireFixed(t, l)
  \/ \E t \in Tasks : Resume(t) \/ Promote(t) \/ Finish(t) \/ AbandonFixed(t)
  \/ Observe

Next == Undisturbed \/ \E t \in Tasks : Cancel(t)

Spec == Init /\ [][Next]_vars

\* The event loop runs every ready task, work under permits ends, and a task
\* that holds part of its route goes on to ask for the rest.
GoesOn(t) ==
  /\ \E l \in Lanes : Holds(t, l)
  /\ \E l \in Lanes : AcquireFast(t, l) \/ AcquireSlow(t, l) \/ AcquireFixed(t, l)

Fairness == \A t \in Tasks : WF_vars(Resume(t)) /\ WF_vars(Finish(t)) /\ WF_vars(GoesOn(t))

FairSpec == Spec /\ Fairness

-----------------------------------------------------------------------------
TypeOK ==
  /\ capacity \in [Lanes -> Nat \ {0}]
  /\ active \in [Lanes -> Nat]
  /\ waiters \in [Lanes -> [Priorities -> Seq(Entry)]]
  /\ foregroundWaiting \in Nat
  /\ fut \in [Tasks -> {"none", "pending", "granted", "cancelled"}]
  /\ degraded \in BOOLEAN
  /\ waiter \in [Tasks -> [lane : Lanes \cup {"none"}, priority : Priorities]]
  /\ permit \in [Tasks -> [Lanes -> {"none", "dynamic", "fixed"}]]

\* Who uses, or has just been handed, a dynamic permit of lane l.
Holders(l) ==
  {t \in Tasks : permit[t][l] = "dynamic" \/ (fut[t] = "granted" /\ waiter[t].lane = l)}

\* _foreground_waiting, which pauses every background lane, counts exactly the
\* foreground (or promoted) acquisitions that have not resumed yet, so the
\* pause can neither leak (background frozen for ever) nor end early.
ForegroundCount ==
  foregroundWaiting =
    Cardinality({t \in Tasks : fut[t] # "none" /\ waiter[t].priority = FOREGROUND})

\* A pending waiter has exactly one live entry, in the deque of its record.
QueuedOnce ==
  \A t \in Tasks, l \in Lanes, p \in Priorities :
    Cardinality({i \in DOMAIN waiters[l][p] :
                   waiters[l][p][i] = [task |-> t, cancelled |-> FALSE]})
      = IF fut[t] = "pending" /\ waiter[t] = [lane |-> l, priority |-> p] THEN 1 ELSE 0

\* No waiter is left queued while the controller, still dynamic, would admit
\* one of its class: every event that can free a permit wakes the right lanes.
NobodyStranded ==
  ~degraded =>
    \A t \in Tasks : fut[t] = "pending" =>
      ~CanAdmit(Controller, waiter[t].lane, waiter[t].priority)

NewlyAdmitted(t) ==
  \/ fut[t] # "granted" /\ fut'[t] = "granted"
  \/ fut[t] = "none" /\ fut'[t] = "none" /\ \E l \in Lanes : permit[t][l] = "none" /\ permit'[t][l] = "dynamic"

\* A background task is admitted only in a step during which no foreground
\* acquisition is waiting in any lane.
ForegroundFirst ==
  [][\A t \in Tasks :
       NewlyAdmitted(t) /\ CurrentPriority(t) = BACKGROUND
         /\ ~(fut[t] = "pending" /\ waiter'[t].priority = FOREGROUND)
       => 0 \in {foregroundWaiting, foregroundWaiting'}]_vars

\* Within one lane and priority, permits are handed out in arrival order.
FirstComeFirstServed ==
  [][\A l \in Lanes, p \in Priorities : \A i, j \in DOMAIN waiters[l][p] :
       LET a == waiters[l][p][i].task
           b == waiters[l][p][j].task
       IN  i < j /\ ~waiters[l][p][i].cancelled /\ ~waiters[l][p][j].cancelled
             /\ fut'[b] = "granted" /\ waiter'[b].priority = p
           => fut'[a] = "granted"]_vars

\* A foreground acquisition that waits is eventually admitted, unless the
\* controller degrades, which wakes nobody.
ForegroundServed ==
  \A t \in Tasks \ Background : fut[t] = "pending" ~> fut[t] # "pending" \/ degraded
=============================================================================
