---------------------------- MODULE SingleFlight ----------------------------
(* The process-local call coalescing of media work                          *)
(* (AnonX_3/core/downloader/singleflight.py).  A flight is one runner task  *)
(* and the factory task it shields; do() runs to its await without being    *)
(* interrupted (the per-key lock is never contended: nothing awaits between *)
(* the two get_task() looks), so each action is one uninterrupted run of a  *)
(* caller, a runner, a factory or the shutdown coroutine.                   *)
EXTENDS Naturals, FiniteSets

CONSTANTS
  Callers,      \* coroutines that call do()
  Keys,         \* media keys
  MaxFlights,   \* bound: flights started in one run
  MayCancel     \* whether cancel(key) is called

ASSUME FlightAssumption ==
  /\ MaxFlights \in Nat /\ MayCancel \in BOOLEAN

Flights == 1..MaxFlights
None == 0

VARIABLES
  inflight,   \* _inflight: the runner registered for a key
  owner,      \* _owner: the flight whose token is registered for a key
  keyOf,      \* the key a flight was started for
  runner,     \* state of the runner task
  factory,    \* state of the factory task
  stopping,   \* runners with a cancellation request not yet delivered
  told,       \* factories with a cancellation request
  phase,      \* "open", "closing" (_closing), "complete" (_shutdown_complete)
  owned,      \* what shutdown() awaits: runners and factories of these flights
  waitsFor,   \* the flight whose shielded runner a caller awaits
  answer      \* how a caller's last do() ended

vars == <<inflight, owner, keyOf, runner, factory, stopping, told, phase, owned, waitsFor, answer>>
tasks == <<keyOf, runner, factory, stopping, told>>
callers == <<waitsFor, answer>>

Done == {"ok", "failed", "cancelled"}
Started == {f \in Flights : runner[f] # "none"}
Live(f) == runner[f] \in {"created", "running"}

Init ==
  /\ inflight = [k \in Keys |-> None] /\ owner = [k \in Keys |-> None]
  /\ keyOf = [f \in Flights |-> "none"]
  /\ runner = [f \in Flights |-> "none"] /\ factory = [f \in Flights |-> "none"]
  /\ stopping = {} /\ told = {} /\ phase = "open"
  /\ owned = [runners |-> {}, factories |-> {}]
  /\ waitsFor = [c \in Callers |-> None] /\ answer = [c \in Callers |-> "nothing"]

GetTask(k) == IF inflight[k] # None /\ Live(inflight[k]) THEN inflight[k] ELSE None

Refuse(c) ==
  /\ waitsFor[c] = None /\ phase # "open"
  /\ answer' = [answer EXCEPT ![c] = "refused"]
  /\ UNCHANGED <<inflight, owner, tasks, phase, owned, waitsFor>>

Join(c, k) ==
  /\ waitsFor[c] = None /\ phase = "open" /\ GetTask(k) # None
  /\ waitsFor' = [waitsFor EXCEPT ![c] = GetTask(k)]
  /\ answer' = [answer EXCEPT ![c] = "nothing"]
  /\ UNCHANGED <<inflight, owner, tasks, phase, owned>>

StartAlways(c, k) ==  \* a mutant: the running task is not looked up
  /\ waitsFor[c] = None /\ phase = "open"
  /\ \E f \in Flights :
       /\ f = Cardinality(Started) + 1
       /\ inflight' = [inflight EXCEPT ![k] = f] /\ owner' = [owner EXCEPT ![k] = f]
       /\ keyOf' = [keyOf EXCEPT ![f] = k] /\ runner' = [runner EXCEPT ![f] = "created"]
       /\ waitsFor' = [waitsFor EXCEPT ![c] = f]
  /\ answer' = [answer EXCEPT ![c] = "nothing"]
  /\ UNCHANGED <<factory, stopping, told, phase, owned>>

Start(c, k) ==
  /\ waitsFor[c] = None /\ phase = "open" /\ GetTask(k) = None
  /\ \E f \in Flights :
       /\ f = Cardinality(Started) + 1
       /\ inflight' = [inflight EXCEPT ![k] = f] /\ owner' = [owner EXCEPT ![k] = f]
       /\ keyOf' = [keyOf EXCEPT ![f] = k] /\ runner' = [runner EXCEPT ![f] = "created"]
       /\ waitsFor' = [waitsFor EXCEPT ![c] = f]
  /\ answer' = [answer EXCEPT ![c] = "nothing"]
  /\ UNCHANGED <<factory, stopping, told, phase, owned>>

\* The runner's first step: it refuses once closing, else starts the factory.
Run(f) ==
  /\ runner[f] = "created" /\ f \notin stopping
  /\ IF phase = "open"
     THEN /\ runner' = [runner EXCEPT ![f] = "running"]
          /\ factory' = [factory EXCEPT ![f] = "running"]
     ELSE runner' = [runner EXCEPT ![f] = "failed"] /\ UNCHANGED factory
  /\ UNCHANGED <<inflight, owner, keyOf, stopping, told, phase, owned, callers>>

\* A runner cancelled before its first step never runs its body.
DropRunner(f) ==
  /\ runner[f] = "created" /\ f \in stopping
  /\ runner' = [runner EXCEPT ![f] = "cancelled"]
  /\ UNCHANGED <<inflight, owner, keyOf, factory, stopping, told, phase, owned, callers>>

EndFactory(f) ==
  /\ factory[f] = "running"
  /\ \E o \in {"ok", "failed"} \cup (IF f \in told THEN {"cancelled"} ELSE {}) :
       factory' = [factory EXCEPT ![f] = o]
  /\ UNCHANGED <<inflight, owner, keyOf, runner, stopping, told, phase, owned, callers>>

\* The runner's finally block: only the registered owner clears its key.
Unregister(f) ==
  LET k == keyOf[f]
  IN  IF owner[k] = f
      THEN /\ owner' = [owner EXCEPT ![k] = None]
           /\ inflight' = [inflight EXCEPT ![k] = IF @ = f THEN None ELSE @]
      ELSE UNCHANGED <<owner, inflight>>

RetryForEver(f) ==  \* a mutant: a failed factory is tried again without bound
  /\ runner[f] = "running"
  /\ f \in stopping \/ factory[f] \in Done
  /\ IF factory[f] = "failed"
     THEN /\ factory' = [factory EXCEPT ![f] = "running"]
          /\ UNCHANGED <<runner, owner, inflight>>
     ELSE /\ runner' = [runner EXCEPT ![f] = IF f \in stopping THEN "cancelled" ELSE factory[f]]
          /\ Unregister(f) /\ UNCHANGED factory
  /\ UNCHANGED <<keyOf, stopping, told, phase, owned, callers>>

\* Woken by its factory or by a cancellation, which does not reach the factory.
EndRunner(f) ==
  /\ runner[f] = "running"
  /\ f \in stopping \/ factory[f] \in Done
  /\ runner' = [runner EXCEPT ![f] = IF f \in stopping THEN "cancelled" ELSE factory[f]]
  /\ Unregister(f)
  /\ UNCHANGED <<keyOf, factory, stopping, told, phase, owned, callers>>

AnswerAny(c) ==  \* a mutant: the caller is woken before the runner is done
  /\ waitsFor[c] # None /\ factory[waitsFor[c]] \in Done
  /\ answer' = [answer EXCEPT ![c] = factory[waitsFor[c]]]
  /\ waitsFor' = [waitsFor EXCEPT ![c] = None]
  /\ UNCHANGED <<inflight, owner, tasks, phase, owned>>

Answer(c) ==
  /\ waitsFor[c] # None /\ runner[waitsFor[c]] \in Done
  /\ answer' = [answer EXCEPT ![c] = runner[waitsFor[c]]]
  /\ waitsFor' = [waitsFor EXCEPT ![c] = None]
  /\ UNCHANGED <<inflight, owner, tasks, phase, owned>>

\* The caller times out or is cancelled; the shield keeps that from the runner.
GiveUp(c) ==
  /\ waitsFor[c] # None
  /\ answer' = [answer EXCEPT ![c] = "left"]
  /\ waitsFor' = [waitsFor EXCEPT ![c] = None]
  /\ UNCHANGED <<inflight, owner, tasks, phase, owned>>

Cancel(k) ==
  /\ MayCancel /\ inflight[k] # None
  /\ inflight' = [inflight EXCEPT ![k] = None] /\ owner' = [owner EXCEPT ![k] = None]
  /\ stopping' = IF Live(inflight[k]) THEN stopping \cup {inflight[k]} ELSE stopping
  /\ UNCHANGED <<keyOf, runner, factory, told, phase, owned, callers>>

FactoryTasks == {f \in Flights : factory[f] = "running"}  \* _factory_tasks

Shutdown ==
  /\ phase = "open" /\ phase' = "closing"
  /\ LET registered == {inflight[k] : k \in Keys} \ {None}
     IN  /\ owned' = [runners |-> registered, factories |-> FactoryTasks]
         /\ stopping' = stopping \cup {f \in registered : Live(f)}
  /\ told' = told \cup FactoryTasks
  /\ inflight' = [k \in Keys |-> None] /\ owner' = [k \in Keys |-> None]
  /\ UNCHANGED <<keyOf, runner, factory, callers>>

Gathered == /\ \A f \in owned.runners : ~Live(f)
            /\ \A f \in owned.factories : factory[f] \in Done

CompleteEarly ==  \* a mutant: the runners are awaited, the factories are not
  /\ phase = "closing" /\ \A f \in owned.runners : ~Live(f)
  /\ phase' = "complete"
  /\ UNCHANGED <<inflight, owner, tasks, owned, callers>>

\* gather() returns when all it awaits has ended.  A closing step that times out
\* only cancels the same tasks again: a cancelled gather() still ends after them.
Complete ==
  /\ phase = "closing" /\ Gathered
  /\ phase' = "complete"
  /\ UNCHANGED <<inflight, owner, tasks, owned, callers>>

Next ==
  \/ \E c \in Callers : Refuse(c) \/ Answer(c) \/ GiveUp(c)
  \/ \E c \in Callers, k \in Keys : Join(c, k) \/ Start(c, k)
  \/ \E f \in Flights : Run(f) \/ DropRunner(f) \/ EndFactory(f) \/ EndRunner(f)
  \/ \E k \in Keys : Cancel(k)
  \/ Shutdown \/ Complete

Spec == Init /\ [][Next]_vars

\* The loop runs every ready task, and every factory ends (downloads carry
\* their own timeouts).
Fairness ==
  /\ \A f \in Flights : WF_vars(Run(f) \/ DropRunner(f)) /\ WF_vars(EndFactory(f)) /\ WF_vars(EndRunner(f))
  /\ \A c \in Callers : WF_vars(Answer(c))
  /\ WF_vars(Complete)

FairSpec == Spec /\ Fairness

-----------------------------------------------------------------------------
TypeOK ==
  /\ inflight \in [Keys -> Flights \cup {None}] /\ owner \in [Keys -> Flights \cup {None}]
  /\ keyOf \in [Flights -> Keys \cup {"none"}]
  /\ runner \in [Flights -> {"none", "created", "running"} \cup Done]
  /\ factory \in [Flights -> {"none", "running"} \cup Done]
  /\ stopping \subseteq Flights /\ told \subseteq Flights
  /\ phase \in {"open", "closing", "complete"}
  /\ owned \in [runners : SUBSET Flights, factories : SUBSET Flights]
  /\ waitsFor \in [Callers -> Flights \cup {None}]
  /\ answer \in [Callers -> Done \cup {"nothing", "refused", "left"}]

\* A runner that nobody cancelled can be found under its key as long as it
\* lives, and only live runners are registered: cancel(), a restart of the key
\* and the late finally block of the cancelled runner do not disturb this.
Registered ==
  /\ \A f \in Started : Live(f) /\ f \notin stopping => inflight[keyOf[f]] = f /\ owner[keyOf[f]] = f
  /\ \A k \in Keys : inflight[k] # None => Live(inflight[k]) /\ inflight[k] \notin stopping

\* "Run factory once per key": two factories of one key never run together,
\* unless one of them lost its runner to cancel(key) or to shutdown().
OneFactory ==
  \A f, g \in Flights :
    /\ factory[f] = "running" /\ f \notin stopping
    /\ factory[g] = "running" /\ g \notin stopping /\ keyOf[f] = keyOf[g]
    => f = g

\* A factory that nobody waits for any more still belongs to an instance that
\* will stop it: at the end of shutdown no task of the instance is running.
\* (A runner that cancel() stopped just before may still have to notice.)
QuietAfterShutdown ==
  phase = "complete" =>
    \A f \in Started : factory[f] # "running" /\ (Live(f) => f \in stopping)

\* Every caller that waits is answered, whatever is cancelled around it.
EveryCallerAnswered == \A c \in Callers : waitsFor[c] # None ~> waitsFor[c] = None

\* The job behind each flight, as its callers see it: a flight that was told to
\* stop is over for them.
Outcome(f) ==
  IF runner[f] = "none" THEN "unborn"
  ELSE IF f \in stopping THEN "cancelled"
  ELSE IF Live(f) THEN "running" ELSE runner[f]

Coalescing ==
  INSTANCE SharedJob WITH MaxJobs <- MaxFlights, current <- inflight, told <- answer,
    asked <- waitsFor, result <- [f \in Flights |-> Outcome(f)]

\* The flights implement the coalescing contract.
ImplementsSharedJob == Coalescing!Spec
=============================================================================
