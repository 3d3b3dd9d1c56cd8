------------------------- MODULE SingleFlightProof -------------------------
(* Proofs about SingleFlight, for any callers, keys and number of flights: one *)
(* factory runs per key, nothing runs after the shutdown, and the flights      *)
(* implement the coalescing contract of SharedJob.                             *)
EXTENDS SingleFlight, FiniteSetTheorems, TLAPS

\* The flights that have started are the first ones.
Numbered == \E n \in 0 .. MaxFlights : Started = 1 .. n

\* A key and its registered flight belong together, and a runner that nobody
\* told to stop is registered as long as it lives.
Paired ==
  /\ \A k \in Keys : inflight[k] = owner[k]
  /\ \A k \in Keys : inflight[k] # None =>
       /\ Live(inflight[k]) /\ inflight[k] \notin stopping /\ keyOf[inflight[k]] = k
  /\ \A f \in Flights : Live(f) /\ f \notin stopping =>
       keyOf[f] \in Keys /\ inflight[keyOf[f]] = f
  /\ \A f \in Started : keyOf[f] \in Keys
  /\ stopping \subseteq Started
  /\ \A c \in Callers : waitsFor[c] # None => waitsFor[c] \in Started

\* A factory runs inside its runner, unless the runner was told to stop; a runner
\* that ends of itself has the outcome of its factory.
Inside ==
  \A f \in Flights :
    /\ factory[f] = "running" /\ f \notin stopping => runner[f] = "running"
    /\ runner[f] \in {"none", "created"} => factory[f] = "none"
    /\ runner[f] = "running" => factory[f] # "none"
    /\ runner[f] \in {"ok", "failed"} => f \notin stopping

\* Once the shutdown has begun nothing is registered, and it awaits what runs.
Closing ==
  phase # "open" =>
    /\ \A k \in Keys : inflight[k] = None
    /\ \A f \in Flights : factory[f] = "running" => phase = "closing" /\ f \in owned.factories

FlightInv == TypeOK /\ Numbered /\ Paired /\ Inside /\ Closing

-----------------------------------------------------------------------------
LEMMA GetTaskIs ==
  ASSUME FlightInv, NEW k \in Keys PROVE GetTask(k) = inflight[k]
  BY DEF FlightInv, Paired, GetTask

\* What a registered flight is.
LEMMA RegisteredIs ==
  ASSUME FlightInv, NEW k \in Keys, inflight[k] # None
  PROVE  /\ inflight[k] \in Started /\ Live(inflight[k]) /\ inflight[k] \notin stopping
         /\ keyOf[inflight[k]] = k /\ owner[k] = inflight[k]
<1>1. inflight[k] \in Flights
  BY DEF FlightInv, TypeOK
<1>2. /\ Live(inflight[k]) /\ inflight[k] \notin stopping
      /\ keyOf[inflight[k]] = k /\ owner[k] = inflight[k]
  BY Zenon DEF FlightInv, Paired
<1> QED BY <1>1, <1>2 DEF Live, Started

\* A new flight is the one after those that have started.
LEMMA NextFlight ==
  ASSUME FlightInv, NEW f \in Flights, f = Cardinality(Started) + 1
  PROVE  runner[f] = "none" /\ Started \cup {f} = 1 .. f /\ f \in 0 .. MaxFlights /\ f \notin Started
<1>1. PICK n \in 0 .. MaxFlights : Started = 1 .. n
  BY DEF FlightInv, Numbered
<1>2. n \in Int /\ n >= 0 /\ MaxFlights \in Nat
  BY FlightAssumption
<1>3. Cardinality(1 .. n) = n
  <2>1. Cardinality(1 .. n) = IF 1 > n THEN 0 ELSE n - 1 + 1
    BY <1>2, FS_Interval
  <2> QED BY <1>2, <2>1
<1>4. f = n + 1
  BY <1>1, <1>2, <1>3
<1>5. f \notin Started /\ Started \cup {f} = 1 .. f
  BY <1>1, <1>2, <1>4
<1> QED BY <1>2, <1>4, <1>5 DEF Started, Flights

\* Nothing but the callers changes.
LEMMA CallersOnly ==
  ASSUME FlightInv, NEW c \in Callers, NEW f \in Started \cup {None},
         NEW a \in Done \cup {"nothing", "refused", "left"},
         waitsFor' = [waitsFor EXCEPT ![c] = f], answer' = [answer EXCEPT ![c] = a],
         UNCHANGED <<inflight, owner, tasks, phase, owned>>
  PROVE  FlightInv'
<1>1. UNCHANGED <<inflight, owner, keyOf, runner, factory, stopping, told, phase, owned>> /\ Started' = Started
  BY DEF tasks, Started
<1>2. TypeOK'
  BY <1>1 DEF FlightInv, TypeOK, Started
<1>3. Paired'
  BY <1>1 DEF FlightInv, TypeOK, Paired, Live
<1> QED BY <1>1, <1>2, <1>3 DEF FlightInv, Numbered, Inside, Closing

LEMMA CallersKeep ==
  ASSUME FlightInv, NEW c \in Callers, Refuse(c) \/ Answer(c) \/ GiveUp(c) PROVE FlightInv'
<1>1. None \in Started \cup {None} /\ waitsFor[c] \in Started \cup {None}
  BY DEF FlightInv, Paired
<1>2. CASE Refuse(c)
  <2>1. waitsFor' = [waitsFor EXCEPT ![c] = None]
    BY <1>2 DEF FlightInv, TypeOK, Refuse
  <2> QED BY <1>1, <1>2, <2>1, CallersOnly DEF Refuse
<1>3. CASE Answer(c)
  BY <1>1, <1>3, CallersOnly DEF Answer
<1>4. CASE GiveUp(c)
  BY <1>1, <1>4, CallersOnly DEF GiveUp
<1> QED BY <1>2, <1>3, <1>4

LEMMA JoinKeeps ==
  ASSUME FlightInv, NEW c \in Callers, NEW k \in Keys, Join(c, k) PROVE FlightInv'
<1>1. GetTask(k) = inflight[k] /\ inflight[k] # None
  BY GetTaskIs DEF Join
<1>2. inflight[k] \in Started
  BY <1>1, RegisteredIs
<1>3. /\ waitsFor' = [waitsFor EXCEPT ![c] = inflight[k]] /\ answer' = [answer EXCEPT ![c] = "nothing"]
      /\ UNCHANGED <<inflight, owner, tasks, phase, owned>>
  BY <1>1 DEF Join
<1> QED BY <1>2, <1>3, CallersOnly

LEMMA StartKeeps ==
  ASSUME FlightInv, NEW c \in Callers, NEW k \in Keys, Start(c, k) PROVE FlightInv'
<1>1. PICK f \in Flights :
        /\ f = Cardinality(Started) + 1
        /\ inflight' = [inflight EXCEPT ![k] = f] /\ owner' = [owner EXCEPT ![k] = f]
        /\ keyOf' = [keyOf EXCEPT ![f] = k] /\ runner' = [runner EXCEPT ![f] = "created"]
        /\ waitsFor' = [waitsFor EXCEPT ![c] = f]
  BY DEF Start
<1>2. runner[f] = "none" /\ Started \cup {f} = 1 .. f /\ f \in 0 .. MaxFlights /\ f \notin Started
  BY <1>1, NextFlight
<1>3. /\ inflight[k] = None /\ phase = "open" /\ answer' = [answer EXCEPT ![c] = "nothing"]
      /\ UNCHANGED <<factory, stopping, told, phase, owned>>
  BY GetTaskIs DEF Start
<1>4. TypeOK'
  BY <1>1, <1>3 DEF FlightInv, TypeOK
<1>5. Started' = Started \cup {f}
  BY <1>1, <1>2 DEF Started, FlightInv, TypeOK
<1>6. Numbered'
  BY <1>2, <1>5 DEF Numbered
<1>7. f \notin stopping /\ \A j \in Keys : inflight[j] # f
  <2>1. f # None
    BY DEF Flights, None
  <2>2. ~Live(f)
    BY <1>2 DEF Live
  <2> QED BY <1>2, <2>1, <2>2 DEF FlightInv, Paired
<1>8. Paired'
  <2>1. \A j \in Keys : inflight'[j] = owner'[j]
    BY <1>1 DEF FlightInv, TypeOK, Paired
  <2>2. ASSUME NEW j \in Keys, inflight'[j] # None
        PROVE  (Live(inflight[j]) /\ inflight[j] \notin stopping /\ keyOf[inflight[j]] = j)'
    <3>1. CASE j = k
      BY <1>1, <1>3, <1>7, <3>1 DEF FlightInv, TypeOK, Live
    <3>2. CASE j # k
      <4>1. inflight'[j] = inflight[j] /\ inflight[j] # None /\ inflight[j] # f
        BY <1>1, <1>7, <2>2, <3>2 DEF FlightInv, TypeOK
      <4>2. Live(inflight[j]) /\ inflight[j] \notin stopping /\ keyOf[inflight[j]] = j /\ inflight[j] \in Flights
        BY <4>1, RegisteredIs DEF Started
      <4>3. runner'[inflight[j]] = runner[inflight[j]] /\ keyOf'[inflight[j]] = keyOf[inflight[j]]
        BY <1>1, <4>1, <4>2 DEF FlightInv, TypeOK
      <4> QED BY <1>3, <4>1, <4>2, <4>3 DEF Live
    <3> QED BY <3>1, <3>2
  <2>3. ASSUME NEW g \in Flights, (Live(g) /\ g \notin stopping)'
        PROVE  (keyOf[g] \in Keys /\ inflight[keyOf[g]] = g)'
    <3>1. CASE g = f
      BY <1>1, <3>1 DEF FlightInv, TypeOK
    <3>2. CASE g # f
      <4>1. Live(g) /\ g \notin stopping /\ keyOf'[g] = keyOf[g]
        BY <1>1, <1>3, <2>3, <3>2 DEF FlightInv, TypeOK, Live
      <4>2. keyOf[g] \in Keys /\ inflight[keyOf[g]] = g
        BY <4>1 DEF FlightInv, Paired
      <4>3. keyOf[g] # k
        BY <1>3, <4>2 DEF Flights, None
      <4> QED BY <1>1, <4>1, <4>2, <4>3 DEF FlightInv, TypeOK
    <3> QED BY <3>1, <3>2
  <2>4. stopping' \subseteq Started'
    BY <1>3, <1>5 DEF FlightInv, Paired
  <2>5. ASSUME NEW d \in Callers, waitsFor'[d] # None PROVE waitsFor'[d] \in Started'
    BY <1>1, <1>5, <2>5 DEF FlightInv, TypeOK, Paired
  <2>6. ASSUME NEW g \in Started' PROVE keyOf'[g] \in Keys
    BY <1>1, <1>5, <2>6 DEF FlightInv, TypeOK, Paired, Started
  <2> QED BY <2>1, <2>2, <2>3, <2>4, <2>5, <2>6 DEF Paired
<1>9. Inside'
  BY <1>1, <1>2, <1>3 DEF FlightInv, TypeOK, Inside
<1>10. Closing'
  BY <1>3 DEF Closing
<1> QED BY <1>4, <1>6, <1>8, <1>9, <1>10 DEF FlightInv

\* A runner that nobody told to stop is registered.
LEMMA LiveIsRegistered ==
  ASSUME FlightInv, NEW f \in Flights, Live(f), f \notin stopping
  PROVE  keyOf[f] \in Keys /\ inflight[keyOf[f]] = f
  BY Zenon DEF FlightInv, Paired

\* A task of the flight f moves, and nothing is registered or unregistered.
LEMMA TaskMoves ==
  ASSUME FlightInv, NEW f \in Flights, NEW r, NEW a,
         runner[f] # "none", r \in {"created", "running"} \cup Done, a \in {"none", "running"} \cup Done,
         runner' = [runner EXCEPT ![f] = r], factory' = [factory EXCEPT ![f] = a],
         f \in stopping \/ (Live(f) <=> r \in {"created", "running"}),
         UNCHANGED <<inflight, owner, keyOf, stopping, told, phase, owned, callers>>
  PROVE  TypeOK' /\ Numbered' /\ Paired'
<1>1. TypeOK'
  BY DEF FlightInv, TypeOK, callers
<1>2. Started' = Started
  BY DEF FlightInv, TypeOK, Started, Done
<1>3. Numbered'
  BY <1>2 DEF FlightInv, Numbered
<1>4. \A g \in Flights : g \notin stopping => (Live(g)' <=> Live(g))
  BY DEF FlightInv, TypeOK, Live
<1>5. \A k \in Keys : inflight'[k] = owner'[k]
  BY DEF FlightInv, Paired
<1>6. ASSUME NEW k \in Keys, inflight'[k] # None
      PROVE  (Live(inflight[k]) /\ inflight[k] \notin stopping /\ keyOf[inflight[k]] = k)'
  <2>1. /\ inflight[k] \in Flights /\ Live(inflight[k]) /\ inflight[k] \notin stopping
        /\ keyOf[inflight[k]] = k
    BY <1>6, RegisteredIs DEF Started
  <2> QED BY <1>4, <2>1
<1>7. ASSUME NEW g \in Flights, (Live(g) /\ g \notin stopping)'
      PROVE  (keyOf[g] \in Keys /\ inflight[keyOf[g]] = g)'
  BY <1>4, <1>7, LiveIsRegistered
<1>8. stopping' \subseteq Started' /\ (\A g \in Started' : keyOf'[g] \in Keys) /\ \A c \in Callers : waitsFor'[c] # None => waitsFor'[c] \in Started'
  BY <1>2 DEF FlightInv, Paired, callers
<1> QED BY <1>1, <1>3, <1>5, <1>6, <1>7, <1>8 DEF Paired

LEMMA RunKeeps ==
  ASSUME FlightInv, NEW f \in Flights, Run(f) PROVE FlightInv'
<1>1. /\ runner[f] = "created" /\ f \notin stopping /\ Live(f) /\ factory[f] = "none"
      /\ UNCHANGED <<inflight, owner, keyOf, stopping, told, phase, owned, callers>>
  BY DEF Run, Live, FlightInv, Inside
<1>2. phase = "open"
  <2>1. keyOf[f] \in Keys /\ inflight[keyOf[f]] = f /\ f # None
    BY <1>1, LiveIsRegistered DEF Flights, None
  <2> QED BY <2>1 DEF FlightInv, Closing
<1>3. /\ runner' = [runner EXCEPT ![f] = "running"] /\ factory' = [factory EXCEPT ![f] = "running"]
  BY <1>2 DEF Run
<1>4. TypeOK' /\ Numbered' /\ Paired'
  BY <1>1, <1>3, TaskMoves
<1>5. Inside' /\ Closing'
  BY <1>1, <1>2, <1>3 DEF FlightInv, TypeOK, Inside, Closing
<1> QED BY <1>4, <1>5 DEF FlightInv

LEMMA DropRunnerKeeps ==
  ASSUME FlightInv, NEW f \in Flights, DropRunner(f) PROVE FlightInv'
<1>1. /\ runner[f] = "created" /\ f \in stopping /\ runner' = [runner EXCEPT ![f] = "cancelled"]
      /\ UNCHANGED <<inflight, owner, keyOf, factory, stopping, told, phase, owned, callers>>
  BY DEF DropRunner
<1>2. factory' = [factory EXCEPT ![f] = factory[f]] /\ factory[f] \in {"none", "running"} \cup Done
  BY <1>1 DEF FlightInv, TypeOK
<1>3. TypeOK' /\ Numbered' /\ Paired'
  BY <1>1, <1>2, TaskMoves DEF Done
<1>4. Inside' /\ Closing'
  BY <1>1 DEF FlightInv, TypeOK, Inside, Closing
<1> QED BY <1>3, <1>4 DEF FlightInv

LEMMA EndFactoryKeeps ==
  ASSUME FlightInv, NEW f \in Flights, EndFactory(f) PROVE FlightInv'
<1>1. PICK o \in Done : factory' = [factory EXCEPT ![f] = o]
  BY DEF EndFactory, Done
<1>2. /\ factory[f] = "running" /\ UNCHANGED <<inflight, owner, keyOf, runner, stopping, told, phase, owned, callers>>
  BY DEF EndFactory
<1>3. /\ runner' = [runner EXCEPT ![f] = runner[f]] /\ runner[f] \in {"created", "running"} \cup Done
      /\ Live(f) <=> runner[f] \in {"created", "running"}
  BY <1>2 DEF FlightInv, TypeOK, Inside, Live
<1>4. TypeOK' /\ Numbered' /\ Paired'
  BY <1>1, <1>2, <1>3, TaskMoves DEF Done
<1>5. Inside' /\ Closing'
  BY <1>1, <1>2 DEF FlightInv, TypeOK, Inside, Closing, Done
<1> QED BY <1>4, <1>5 DEF FlightInv

\* A runner that ends unregisters its own flight and no other; one that was told
\* to stop is registered no more.
LEMMA EndRunnerUnregisters ==
  ASSUME FlightInv, NEW f \in Flights, EndRunner(f)
  PROVE  /\ keyOf[f] \in Keys /\ owner[keyOf[f]] = inflight[keyOf[f]]
         /\ f \in stopping => inflight[keyOf[f]] # f /\ UNCHANGED <<inflight, owner>>
         /\ f \notin stopping =>
              /\ inflight[keyOf[f]] = f
              /\ inflight' = [inflight EXCEPT ![keyOf[f]] = None]
              /\ owner' = [owner EXCEPT ![keyOf[f]] = None]
<1>1. f # None /\ Live(f) /\ Unregister(f) /\ f \in Started
  BY DEF Flights, None, EndRunner, Live, Started
<1>2. keyOf[f] \in Keys /\ owner[keyOf[f]] = inflight[keyOf[f]]
  BY <1>1, Zenon DEF FlightInv, Paired
<1>3. CASE f \in stopping
  <2>1. inflight[keyOf[f]] # f
    BY <1>1, <1>2, <1>3, RegisteredIs
  <2> QED BY <1>1, <1>2, <1>3, <2>1 DEF Unregister
<1>4. CASE f \notin stopping
  <2>1. inflight[keyOf[f]] = f
    BY <1>1, <1>4, LiveIsRegistered
  <2> QED BY <1>1, <1>2, <1>4, <2>1 DEF Unregister
<1> QED BY <1>3, <1>4, <1>2

LEMMA EndRunnerKeeps ==
  ASSUME FlightInv, NEW f \in Flights, EndRunner(f) PROVE FlightInv'
<1> DEFINE k == keyOf[f]
           r == IF f \in stopping THEN "cancelled" ELSE factory[f]
<1>1. /\ runner[f] = "running" /\ runner' = [runner EXCEPT ![f] = r] /\ r \in Done
      /\ f \notin stopping => factory[f] \in Done
      /\ UNCHANGED <<keyOf, factory, stopping, told, phase, owned, waitsFor, answer>>
  BY DEF EndRunner, callers, Done
<1>2. /\ k \in Keys /\ owner[k] = inflight[k]
      /\ f \in stopping => inflight[k] # f /\ UNCHANGED <<inflight, owner>>
      /\ f \notin stopping => /\ inflight[k] = f
                             /\ inflight' = [inflight EXCEPT ![k] = None]
                             /\ owner' = [owner EXCEPT ![k] = None]
  BY EndRunnerUnregisters
<1>3. TypeOK'
  <2>1. inflight' \in [Keys -> Flights \cup {None}] /\ owner' \in [Keys -> Flights \cup {None}]
    BY <1>2 DEF FlightInv, TypeOK
  <2>2. runner' \in [Flights -> {"none", "created", "running"} \cup Done]
    BY <1>1 DEF FlightInv, TypeOK
  <2> QED BY <1>1, <2>1, <2>2 DEF FlightInv, TypeOK
<1>4. Started' = Started
  BY <1>1 DEF FlightInv, TypeOK, Started, Done
<1>5. Numbered'
  BY <1>4 DEF FlightInv, Numbered
<1>6. \A g \in Flights \ {f} : runner'[g] = runner[g]
  BY <1>1 DEF FlightInv, TypeOK
<1>7. ~Live(f)'
  BY <1>1 DEF FlightInv, TypeOK, Live, Done
<1>8. \A j \in Keys : inflight'[j] # None => inflight'[j] = inflight[j] /\ inflight[j] # f
  <2> SUFFICES ASSUME NEW j \in Keys, inflight'[j] # None
               PROVE  inflight'[j] = inflight[j] /\ inflight[j] # f
    OBVIOUS
  <2>1. inflight'[j] = inflight[j]
    BY <1>2 DEF FlightInv, TypeOK
  <2>2. ASSUME inflight[j] = f PROVE FALSE
    <3>1. keyOf[f] = j /\ f \notin stopping
      BY <2>1, <2>2, RegisteredIs
    <3> QED BY <1>2, <2>1, <2>2, <3>1 DEF FlightInv, TypeOK
  <2> QED BY <2>1, <2>2
<1>9. Paired'
  <2>1. \A j \in Keys : inflight'[j] = owner'[j]
    <3>1. \A j \in Keys : inflight[j] = owner[j]
      BY DEF FlightInv, Paired
    <3>2. CASE f \in stopping
      BY <1>2, <3>1, <3>2
    <3>3. CASE f \notin stopping
      <4>1. inflight' = [inflight EXCEPT ![k] = None] /\ owner' = [owner EXCEPT ![k] = None]
        BY <1>2, <3>3
      <4>2. inflight \in [Keys -> Flights \cup {None}] /\ owner \in [Keys -> Flights \cup {None}]
        BY DEF FlightInv, TypeOK
      <4> QED BY <3>1, <4>1, <4>2
    <3> QED BY <3>2, <3>3
  <2>2. ASSUME NEW j \in Keys, inflight'[j] # None
        PROVE  (Live(inflight[j]) /\ inflight[j] \notin stopping /\ keyOf[inflight[j]] = j)'
    <3>1. inflight'[j] = inflight[j] /\ inflight[j] # None /\ inflight[j] # f
      BY <1>8, <2>2
    <3>2. /\ inflight[j] \in Flights /\ Live(inflight[j]) /\ inflight[j] \notin stopping
          /\ keyOf[inflight[j]] = j
      BY <3>1, RegisteredIs DEF Started
    <3> QED BY <1>1, <1>6, <3>1, <3>2 DEF Live
  <2>3. ASSUME NEW g \in Flights, (Live(g) /\ g \notin stopping)'
        PROVE  (keyOf[g] \in Keys /\ inflight[keyOf[g]] = g)'
    <3>1. g # f /\ Live(g) /\ g \notin stopping
      BY <1>1, <1>6, <1>7, <2>3 DEF Live
    <3>2. keyOf[g] \in Keys /\ inflight[keyOf[g]] = g
      BY <3>1, LiveIsRegistered
    <3>3. f \notin stopping => keyOf[g] # k
      BY <1>2, <3>1, <3>2
    <3> QED BY <1>1, <1>2, <3>2, <3>3 DEF FlightInv, TypeOK
  <2>4. (\A g \in Started' : keyOf'[g] \in Keys) /\ stopping' \subseteq Started'
        /\ \A c \in Callers : waitsFor'[c] # None => waitsFor'[c] \in Started'
    BY <1>1, <1>4 DEF FlightInv, Paired
  <2> QED BY <2>1, <2>2, <2>3, <2>4 DEF Paired
<1>10. Inside'
  <2> SUFFICES ASSUME NEW g \in Flights
               PROVE  (/\ factory[g] = "running" /\ g \notin stopping => runner[g] = "running"
                       /\ runner[g] \in {"none", "created"} => factory[g] = "none"
                       /\ runner[g] = "running" => factory[g] # "none"
                       /\ runner[g] \in {"ok", "failed"} => g \notin stopping)'
    BY DEF Inside
  <2>1. CASE g = f
    BY <1>1, <2>1 DEF FlightInv, TypeOK, Inside, Done
  <2>2. CASE g # f
    BY <1>1, <1>6, <2>2 DEF FlightInv, Inside
  <2> QED BY <2>1, <2>2
<1>11. Closing'
  BY <1>1, <1>2 DEF FlightInv, TypeOK, Closing
<1> QED BY <1>3, <1>5, <1>9, <1>10, <1>11 DEF FlightInv

\* Some live flights are told to stop and unregistered with their keys.
LEMMA ToldToStop ==
  ASSUME FlightInv, NEW K \in SUBSET Keys,
         inflight' = [k \in Keys |-> IF k \in K THEN None ELSE inflight[k]],
         owner' = [k \in Keys |-> IF k \in K THEN None ELSE owner[k]],
         stopping' = stopping \cup ({inflight[k] : k \in K} \ {None}),
         UNCHANGED <<keyOf, runner, factory, waitsFor, answer>>
  PROVE  /\ Numbered' /\ Paired' /\ Inside' /\ stopping' \subseteq Flights
         /\ inflight' \in [Keys -> Flights \cup {None}] /\ owner' \in [Keys -> Flights \cup {None}]
<1>1. \A k \in Keys : inflight[k] = owner[k] /\ inflight[k] \in Flights \cup {None}
  BY DEF FlightInv, Paired, TypeOK
<1>2. Started' = Started /\ \A f \in Flights : Live(f)' <=> Live(f)
  BY DEF Started, Live
<1>3. stopping' \subseteq Started
  BY RegisteredIs DEF FlightInv, Paired
<1>4. ASSUME NEW k \in Keys, inflight'[k] # None
      PROVE  (Live(inflight[k]) /\ inflight[k] \notin stopping /\ keyOf[inflight[k]] = k)'
  <2>1. k \notin K /\ inflight'[k] = inflight[k] /\ inflight[k] # None
    BY <1>4
  <2>2. /\ inflight[k] \in Flights /\ Live(inflight[k]) /\ inflight[k] \notin stopping
        /\ keyOf[inflight[k]] = k
    BY <2>1, RegisteredIs DEF Started
  <2>3. ASSUME NEW j \in K, inflight[j] = inflight[k] PROVE FALSE
    BY <2>1, <2>2, <2>3, RegisteredIs
  <2>4. inflight[k] \notin stopping'
    BY <2>2, <2>3
  <2> QED BY <1>2, <2>1, <2>2, <2>4
<1>5. ASSUME NEW f \in Flights, (Live(f) /\ f \notin stopping)'
      PROVE  (keyOf[f] \in Keys /\ inflight[keyOf[f]] = f)'
  <2>1. Live(f) /\ f \notin stopping /\ f # None
    BY <1>2, <1>5 DEF Flights, None
  <2>2. keyOf[f] \in Keys /\ inflight[keyOf[f]] = f
    BY <2>1, LiveIsRegistered
  <2>3. keyOf[f] \notin K
    BY <1>5, <2>1, <2>2
  <2> QED BY <2>2, <2>3
<1>6. Paired'
  <2>1. \A k \in Keys : inflight'[k] = owner'[k]
    BY <1>1
  <2>2. (\A g \in Started' : keyOf'[g] \in Keys) /\ stopping' \subseteq Started'
        /\ \A c \in Callers : waitsFor'[c] # None => waitsFor'[c] \in Started'
    BY <1>2, <1>3 DEF FlightInv, Paired
  <2> QED BY <1>4, <1>5, <2>1, <2>2 DEF Paired
<1>7. Inside'
  <2>1. ASSUME NEW f \in Flights, runner[f] \in {"ok", "failed"}, f \in stopping' PROVE FALSE
    <3>1. \A k \in K : inflight[k] # None => Live(inflight[k])
      BY RegisteredIs
    <3>2. ~Live(f) /\ f \notin stopping
      BY <2>1 DEF FlightInv, Inside, Live
    <3> QED BY <2>1, <3>1, <3>2
  <2> QED BY <2>1 DEF FlightInv, Inside
<1>8. Numbered'
  BY <1>2 DEF FlightInv, Numbered
<1> QED BY <1>1, <1>3, <1>6, <1>7, <1>8 DEF Started

LEMMA CancelKeeps ==
  ASSUME FlightInv, NEW k \in Keys, Cancel(k) PROVE FlightInv'
<1>1. /\ inflight[k] # None /\ stopping' = stopping \cup {inflight[k]}
      /\ inflight' = [inflight EXCEPT ![k] = None] /\ owner' = [owner EXCEPT ![k] = None]
      /\ UNCHANGED <<keyOf, runner, factory, told, phase, owned, waitsFor, answer>>
  BY RegisteredIs DEF Cancel, callers
<1>2. /\ inflight' = [j \in Keys |-> IF j \in {k} THEN None ELSE inflight[j]]
      /\ owner' = [j \in Keys |-> IF j \in {k} THEN None ELSE owner[j]]
      /\ stopping' = stopping \cup ({inflight[j] : j \in {k}} \ {None})
  BY <1>1 DEF FlightInv, TypeOK
<1>3. /\ Numbered' /\ Paired' /\ Inside' /\ stopping' \subseteq Flights
      /\ inflight' \in [Keys -> Flights \cup {None}] /\ owner' \in [Keys -> Flights \cup {None}]
  <2>1. {k} \in SUBSET Keys /\ UNCHANGED <<keyOf, runner, factory, waitsFor, answer>>
    BY <1>1
  <2> QED BY <1>2, <2>1, ToldToStop, Zenon
<1>4. TypeOK'
  BY <1>1, <1>3 DEF FlightInv, TypeOK
<1>5. Closing'
  BY <1>1 DEF FlightInv, TypeOK, Closing
<1> QED BY <1>3, <1>4, <1>5 DEF FlightInv

LEMMA ShutdownKeeps ==
  ASSUME FlightInv, Shutdown PROVE FlightInv'
<1>1. /\ phase' = "closing" /\ inflight' = [k \in Keys |-> None] /\ owner' = [k \in Keys |-> None]
      /\ owned' = [runners |-> {inflight[k] : k \in Keys} \ {None}, factories |-> FactoryTasks]
      /\ told' = told \cup FactoryTasks
      /\ UNCHANGED <<keyOf, runner, factory, waitsFor, answer>>
  BY DEF Shutdown, callers
<1>2. stopping' = stopping \cup ({inflight[k] : k \in Keys} \ {None})
  <2>1. \A f \in {inflight[k] : k \in Keys} \ {None} : Live(f)
    BY RegisteredIs
  <2> QED BY <2>1 DEF Shutdown
<1>3. /\ Numbered' /\ Paired' /\ Inside' /\ stopping' \subseteq Flights
      /\ inflight' \in [Keys -> Flights \cup {None}] /\ owner' \in [Keys -> Flights \cup {None}]
  <2>1. /\ inflight' = [k \in Keys |-> IF k \in Keys THEN None ELSE inflight[k]]
        /\ owner' = [k \in Keys |-> IF k \in Keys THEN None ELSE owner[k]]
    BY <1>1
  <2> QED BY <1>1, <1>2, <2>1, ToldToStop
<1>4. TypeOK'
  <2>1. owned' \in [runners : SUBSET Flights, factories : SUBSET Flights]
    BY <1>1 DEF FlightInv, TypeOK, FactoryTasks
  <2>2. told' \subseteq Flights
    BY <1>1 DEF FlightInv, TypeOK, FactoryTasks
  <2> QED BY <1>1, <1>3, <2>1, <2>2 DEF FlightInv, TypeOK
<1>5. Closing'
  BY <1>1 DEF Closing, FactoryTasks
<1> QED BY <1>3, <1>4, <1>5 DEF FlightInv

LEMMA CompleteKeeps ==
  ASSUME FlightInv, Complete PROVE FlightInv'
<1>1. /\ phase = "closing" /\ phase' = "complete" /\ Gathered
      /\ UNCHANGED <<inflight, owner, keyOf, runner, factory, stopping, told, owned, waitsFor, answer>>
  BY DEF Complete, tasks, callers
<1>2. Closing'
  <2>1. \A f \in Flights : factory[f] # "running"
    BY <1>1 DEF FlightInv, Closing, Gathered, Done
  <2> QED BY <1>1, <2>1 DEF FlightInv, Closing
<1>3. TypeOK' /\ Numbered' /\ Inside'
  BY <1>1 DEF FlightInv, TypeOK, Numbered, Inside, Started
<1>4. Paired'
  BY <1>1, Zenon DEF FlightInv, Paired, Live, Started
<1> QED BY <1>2, <1>3, <1>4 DEF FlightInv

LEMMA InitKeeps == Init => FlightInv
<1> SUFFICES ASSUME Init PROVE FlightInv
  OBVIOUS
<1>1. Started = {} /\ MaxFlights \in Nat
  BY FlightAssumption DEF Init, Started
<1>2. TypeOK
  BY DEF Init, TypeOK
<1>3. Numbered
  <2>1. Started = 1 .. 0 /\ 0 \in 0 .. MaxFlights
    BY <1>1
  <2> QED BY <2>1 DEF Numbered
<1>4. Paired
  BY <1>1 DEF Init, Paired, Live
<1>5. Inside /\ Closing
  BY DEF Init, Inside, Closing
<1> QED BY <1>2, <1>3, <1>4, <1>5 DEF FlightInv

LEMMA StutterKeeps == FlightInv /\ UNCHANGED vars => FlightInv'
<1> SUFFICES ASSUME FlightInv, UNCHANGED vars PROVE FlightInv'
  OBVIOUS
<1>1. UNCHANGED <<inflight, owner, keyOf, runner, factory, stopping, told, phase, owned, waitsFor, answer>>
  BY DEF vars
<1>2. TypeOK' /\ Numbered' /\ Inside' /\ Closing'
  BY <1>1 DEF FlightInv, TypeOK, Numbered, Inside, Closing, Started
<1>3. Paired'
  BY <1>1, Zenon DEF FlightInv, Paired, Live, Started
<1> QED BY <1>2, <1>3 DEF FlightInv

LEMMA NextKeeps == FlightInv /\ [Next]_vars => FlightInv'
<1> SUFFICES ASSUME FlightInv, [Next]_vars PROVE FlightInv'
  OBVIOUS
<1>1. CASE \E c \in Callers : Refuse(c) \/ Answer(c) \/ GiveUp(c)
  BY <1>1, CallersKeep
<1>2. CASE \E c \in Callers, k \in Keys : Join(c, k) \/ Start(c, k)
  BY <1>2, JoinKeeps, StartKeeps
<1>3. CASE \E f \in Flights : Run(f) \/ DropRunner(f) \/ EndFactory(f) \/ EndRunner(f)
  BY <1>3, RunKeeps, DropRunnerKeeps, EndFactoryKeeps, EndRunnerKeeps
<1>4. CASE (\E k \in Keys : Cancel(k)) \/ Shutdown \/ Complete
  BY <1>4, CancelKeeps, ShutdownKeeps, CompleteKeeps
<1>5. CASE UNCHANGED vars
  BY <1>5, StutterKeeps
<1> QED BY <1>1, <1>2, <1>3, <1>4, <1>5 DEF Next

\* The inductive invariant holds in every state of every behaviour.
THEOREM FlightInvHolds == Spec => []FlightInv
<1> QED BY InitKeeps, NextKeeps, PTL DEF Spec

\* Every variable keeps its type.
THEOREM TypesHold == Spec => []TypeOK
<1>1. FlightInv => TypeOK
  BY DEF FlightInv
<1> QED BY <1>1, FlightInvHolds, PTL

\* Two factories of one key run together only if cancel(key) or the shutdown took
\* the runner of one away, whatever order runners, factories and callers come in.
THEOREM OneFactoryHolds == Spec => []OneFactory
<1>1. FlightInv => OneFactory
  <2> SUFFICES ASSUME FlightInv, NEW f \in Flights, NEW g \in Flights,
                      factory[f] = "running", f \notin stopping,
                      factory[g] = "running", g \notin stopping, keyOf[f] = keyOf[g]
               PROVE  f = g
    BY DEF OneFactory
  <2>1. Live(f) /\ Live(g)
    BY DEF FlightInv, Inside, Live
  <2> QED BY <2>1, LiveIsRegistered
<1> QED BY <1>1, FlightInvHolds, PTL

\* When shutdown() has returned no factory of the instance runs, and what runner
\* is left has been told to stop.
THEOREM QuietAfterShutdownHolds == Spec => []QuietAfterShutdown
<1>1. FlightInv => QuietAfterShutdown
  <2> SUFFICES ASSUME FlightInv, phase = "complete", NEW f \in Started
               PROVE  factory[f] # "running" /\ (Live(f) => f \in stopping)
    BY DEF QuietAfterShutdown
  <2>1. f \in Flights /\ f # None
    BY DEF Started, Flights, None
  <2>2. factory[f] # "running"
    BY <2>1 DEF FlightInv, Closing
  <2>3. ASSUME Live(f), f \notin stopping PROVE FALSE
    BY <2>1, <2>3, LiveIsRegistered DEF FlightInv, Closing
  <2> QED BY <2>2, <2>3
<1> QED BY <1>1, FlightInvHolds, PTL

-----------------------------------------------------------------------------
(* The flights implement SharedJob: a registered runner is the current job of  *)
(* its key, and what happens to tasks its callers cannot see is a stutter.      *)

Results == [f \in Flights |-> Outcome(f)]

\* The outcome of a flight changes with its runner and the requests to stop only.
LEMMA SameResults ==
  ASSUME NEW f \in Flights,
         \A g \in Flights \ {f} : runner'[g] = runner[g] /\ (g \in stopping' <=> g \in stopping),
         Outcome(f)' = Outcome(f)
  PROVE  Results' = Results
<1>1. \A g \in Flights : Outcome(g)' = Outcome(g)
  BY DEF Outcome, Live
<1> QED BY <1>1 DEF Results

LEMMA InitImplements == Init => Coalescing!Init
<1> SUFFICES ASSUME Init PROVE Coalescing!Init
  OBVIOUS
<1>1. Results = [f \in Flights |-> "unborn"]
  BY DEF Init, Results, Outcome
<1> QED BY <1>1 DEF Init, Coalescing!Init, Results, None, Coalescing!NoJob, Flights, Coalescing!Jobs

LEMMA CallersImplement ==
  ASSUME FlightInv, NEW c \in Callers,
         Refuse(c) \/ Answer(c) \/ GiveUp(c) \/ \E k \in Keys : Join(c, k)
  PROVE  Coalescing!Next
<1>1. inflight' = inflight /\ Results' = Results
  BY DEF Refuse, Answer, GiveUp, Join, tasks, Results, Outcome, Live
<1>2. CASE Refuse(c)
  <2>1. waitsFor' = [waitsFor EXCEPT ![c] = None]
    BY <1>2 DEF FlightInv, TypeOK, Refuse
  <2>2. Coalescing!Leave(c)
    BY <1>1, <1>2, <2>1 DEF Refuse, Coalescing!Leave, Results, None, Coalescing!NoJob
  <2> QED BY <2>2 DEF Coalescing!Next
<1>3. CASE Answer(c)
  <2>1. waitsFor[c] \in Flights /\ Outcome(waitsFor[c]) = runner[waitsFor[c]]
    <3>1. waitsFor[c] \in Flights
      BY <1>3 DEF FlightInv, TypeOK, Answer
    <3> QED BY <1>3, <3>1 DEF FlightInv, Inside, Answer, Outcome, Live, Done
  <2>2. Results[waitsFor[c]] = runner[waitsFor[c]]
    BY <2>1 DEF Results
  <2>3. Coalescing!Tell(c)
    BY <1>1, <1>3, <2>2 DEF Answer, Coalescing!Tell, Results, None, Coalescing!NoJob, Done, Coalescing!Outcomes
  <2> QED BY <2>3 DEF Coalescing!Next
<1>4. CASE GiveUp(c)
  <2>1. Coalescing!Leave(c)
    BY <1>1, <1>4 DEF GiveUp, Coalescing!Leave, Results, None, Coalescing!NoJob
  <2> QED BY <2>1 DEF Coalescing!Next
<1>5. ASSUME NEW k \in Keys, Join(c, k) PROVE Coalescing!Next
  <2>1. GetTask(k) = inflight[k]
    BY GetTaskIs
  <2>2. Coalescing!Join(c, k)
    BY <1>1, <1>5, <2>1 DEF Join, Coalescing!Join, Results, None, Coalescing!NoJob
  <2> QED BY <2>2 DEF Coalescing!Next
<1> QED BY <1>2, <1>3, <1>4, <1>5

LEMMA StartImplements ==
  ASSUME FlightInv, NEW c \in Callers, NEW k \in Keys, Start(c, k) PROVE Coalescing!Next
<1>1. PICK f \in Flights :
        /\ f = Cardinality(Started) + 1
        /\ inflight' = [inflight EXCEPT ![k] = f] /\ owner' = [owner EXCEPT ![k] = f]
        /\ keyOf' = [keyOf EXCEPT ![f] = k] /\ runner' = [runner EXCEPT ![f] = "created"]
        /\ waitsFor' = [waitsFor EXCEPT ![c] = f]
  BY DEF Start
<1>2. runner[f] = "none" /\ f \notin stopping
  <2>1. runner[f] = "none" /\ f \notin Started
    BY <1>1, NextFlight
  <2> QED BY <2>1 DEF FlightInv, Paired
<1>3. inflight[k] = None /\ waitsFor[c] = None /\ stopping' = stopping
      /\ answer' = [answer EXCEPT ![c] = "nothing"]
  BY GetTaskIs DEF Start
<1>4. runner'[f] = "created" /\ \A g \in Flights \ {f} : runner'[g] = runner[g]
  BY <1>1 DEF FlightInv, TypeOK
<1>5. Results[f] = "unborn" /\ Results' = [Results EXCEPT ![f] = "running"]
  BY <1>2, <1>3, <1>4 DEF Results, Outcome, Live
<1>6. Coalescing!Start(c, k)
  BY <1>1, <1>3, <1>5 DEF Coalescing!Start, Results, None, Coalescing!NoJob, Flights, Coalescing!Jobs
<1> QED BY <1>6 DEF Coalescing!Next

\* The flights of some keys end with one outcome.
LEMMA EndImplements ==
  ASSUME FlightInv, NEW K \in SUBSET Keys, NEW o \in Done, K # {},
         \A k \in K : inflight[k] # None,
         inflight' = [k \in Keys |-> IF k \in K THEN None ELSE inflight[k]],
         \A f \in Flights : Outcome(f)' = IF \E k \in K : inflight[k] = f THEN o ELSE Outcome(f),
         UNCHANGED callers
  PROVE  Coalescing!Next
<1> DEFINE all == [k \in K |-> o]
<1>1. all \in [K -> Done]
  OBVIOUS
<1>2. \A f \in Flights : (\E k \in K : inflight[k] = f) =>
        all[CHOOSE k \in K : inflight[k] = f] = o
  OBVIOUS
<1>3. Results' = [f \in Flights |-> IF \E k \in K : inflight[k] = f
                                    THEN all[CHOOSE k \in K : inflight[k] = f] ELSE Results[f]]
  BY <1>2 DEF Results
<1>4. Coalescing!End(K)
  BY <1>1, <1>3 DEF Coalescing!End, Results, None, Coalescing!NoJob, Flights, Coalescing!Jobs,
     Done, Coalescing!Outcomes, callers
<1> QED BY <1>4 DEF Coalescing!Next

\* A runner ends for its callers when it is unregistered, by itself or by cancel().
LEMMA EndRunnerImplements ==
  ASSUME FlightInv, NEW f \in Flights, EndRunner(f)
  PROVE  Coalescing!Next \/ UNCHANGED Coalescing!vars
<1> DEFINE k == keyOf[f]
           r == IF f \in stopping THEN "cancelled" ELSE factory[f]
<1>1. /\ runner[f] = "running" /\ runner' = [runner EXCEPT ![f] = r] /\ r \in Done
      /\ UNCHANGED <<stopping, callers>>
  BY DEF EndRunner, Done
<1>2. runner'[f] = r /\ \A g \in Flights \ {f} : runner'[g] = runner[g]
  BY <1>1 DEF FlightInv, TypeOK
<1>3. \A g \in Flights \ {f} : Outcome(g)' = Outcome(g)
  BY <1>1, <1>2 DEF Outcome, Live
<1>4. Outcome(f)' = r
  BY <1>1, <1>2 DEF Outcome, Live, Done
<1>5. CASE f \in stopping
  <2>1. Outcome(f) = "cancelled"
    BY <1>1, <1>5 DEF Outcome
  <2>2. Results' = Results
    BY <1>3, <1>4, <1>5, <2>1 DEF Results
  <2>3. inflight' = inflight
    BY <1>5, EndRunnerUnregisters
  <2> QED BY <1>1, <2>2, <2>3 DEF Coalescing!vars, Results, callers
<1>6. CASE f \notin stopping
  <2>1. k \in Keys /\ inflight[k] = f /\ f # None
    BY <1>6, EndRunnerUnregisters DEF Flights, None
  <2>2. inflight' = [j \in Keys |-> IF j \in {k} THEN None ELSE inflight[j]]
    BY <1>6, <2>1, EndRunnerUnregisters DEF FlightInv, TypeOK
  <2>3. \A g \in Flights : Outcome(g)' = IF \E j \in {k} : inflight[j] = g THEN r ELSE Outcome(g)
    BY <1>3, <1>4, <2>1
  <2>4. {k} \in SUBSET Keys /\ {k} # {} /\ \A j \in {k} : inflight[j] # None
    BY <2>1
  <2>5. r \in Done /\ UNCHANGED callers
    BY <1>1
  <2> HIDE DEF r, k
  <2> QED BY <2>2, <2>3, <2>4, <2>5, EndImplements, Zenon
<1> QED BY <1>5, <1>6

LEMMA CancelImplements ==
  ASSUME FlightInv, NEW k \in Keys, Cancel(k) PROVE Coalescing!Next
<1>1. /\ inflight[k] # None /\ stopping' = stopping \cup {inflight[k]} /\ runner' = runner
      /\ UNCHANGED callers
  BY RegisteredIs DEF Cancel
<1>2. inflight' = [j \in Keys |-> IF j \in {k} THEN None ELSE inflight[j]]
  BY DEF Cancel, FlightInv, TypeOK
<1>3. runner[inflight[k]] # "none"
  BY <1>1, RegisteredIs DEF Live
<1>4. \A g \in Flights : Outcome(g)' = IF \E j \in {k} : inflight[j] = g THEN "cancelled" ELSE Outcome(g)
  BY <1>1, <1>3 DEF Outcome, Live
<1>5. {k} \in SUBSET Keys /\ {k} # {} /\ (\A j \in {k} : inflight[j] # None) /\ "cancelled" \in Done
  BY <1>1 DEF Done
<1> QED BY <1>1, <1>2, <1>4, <1>5, EndImplements, Zenon

\* The shutdown ends all current jobs at once, or none if there is none.
LEMMA ShutdownImplements ==
  ASSUME FlightInv, Shutdown PROVE Coalescing!Next \/ UNCHANGED Coalescing!vars
<1> DEFINE K == {k \in Keys : inflight[k] # None}
<1>1. /\ inflight' = [k \in Keys |-> IF k \in K THEN None ELSE inflight[k]]
      /\ runner' = runner /\ UNCHANGED callers
  BY DEF Shutdown
<1>2. stopping' = stopping \cup {inflight[k] : k \in K}
  <2>1. \A f \in {inflight[k] : k \in Keys} \ {None} : Live(f)
    BY RegisteredIs
  <2> QED BY <2>1 DEF Shutdown
<1>3. \A k \in K : runner[inflight[k]] # "none"
  BY RegisteredIs DEF Live
<1>4. \A g \in Flights : Outcome(g)' = IF \E k \in K : inflight[k] = g THEN "cancelled" ELSE Outcome(g)
  BY <1>1, <1>2, <1>3 DEF Outcome, Live
<1>5. CASE K = {}
  <2>1. inflight' = inflight
    BY <1>1, <1>5 DEF FlightInv, TypeOK
  <2>2. Results' = Results
    BY <1>4, <1>5 DEF Results
  <2> QED BY <1>1, <2>1, <2>2 DEF Coalescing!vars, Results, callers
<1>6. CASE K # {}
  <2>1. K \in SUBSET Keys /\ (\A k \in K : inflight[k] # None) /\ "cancelled" \in Done
    BY DEF Done
  <2> HIDE DEF K
  <2> QED BY <1>1, <1>4, <1>6, <2>1, EndImplements, Zenon
<1> QED BY <1>5, <1>6

\* What the tasks do before they end is not seen by the callers.
LEMMA TasksStutter ==
  ASSUME FlightInv,
         Complete \/ (\E f \in Flights : Run(f) \/ DropRunner(f) \/ EndFactory(f)) \/ UNCHANGED vars
  PROVE  UNCHANGED Coalescing!vars
<1>1. inflight' = inflight /\ stopping' = stopping /\ UNCHANGED callers
  BY DEF Complete, Run, DropRunner, EndFactory, vars, tasks, callers
<1>2. Results' = Results
  <2>1. CASE Complete \/ (\E f \in Flights : EndFactory(f)) \/ UNCHANGED vars
    BY <2>1 DEF Complete, EndFactory, vars, tasks, Results, Outcome, Live
  <2>2. ASSUME NEW f \in Flights, Run(f) PROVE Results' = Results
    <3>1. runner[f] = "created" /\ f \notin stopping /\ Live(f)
      BY <2>2 DEF Run, Live
    <3>2. phase = "open"
      <4>1. keyOf[f] \in Keys /\ inflight[keyOf[f]] = f /\ f # None
        BY <3>1, LiveIsRegistered DEF Flights, None
      <4> QED BY <4>1 DEF FlightInv, Closing
    <3>3. runner' = [runner EXCEPT ![f] = "running"]
      BY <2>2, <3>2 DEF Run
    <3>4. \A g \in Flights : Outcome(g)' = Outcome(g)
      BY <1>1, <3>1, <3>3 DEF FlightInv, TypeOK, Outcome, Live
    <3> QED BY <3>4 DEF Results
  <2>3. ASSUME NEW f \in Flights, DropRunner(f) PROVE Results' = Results
    <3>1. \A g \in Flights : Outcome(g)' = Outcome(g)
      BY <1>1, <2>3 DEF DropRunner, FlightInv, TypeOK, Outcome, Live
    <3> QED BY <3>1 DEF Results
  <2> QED BY <2>1, <2>2, <2>3
<1> QED BY <1>1, <1>2 DEF Coalescing!vars, Results, callers

LEMMA NextImplements == FlightInv /\ [Next]_vars => [Coalescing!Next]_(Coalescing!vars)
<1> SUFFICES ASSUME FlightInv, [Next]_vars PROVE Coalescing!Next \/ UNCHANGED Coalescing!vars
  OBVIOUS
<1>1. CASE \E c \in Callers : Refuse(c) \/ Answer(c) \/ GiveUp(c)
  BY <1>1, CallersImplement
<1>2. CASE \E c \in Callers, k \in Keys : Join(c, k) \/ Start(c, k)
  BY <1>2, CallersImplement, StartImplements
<1>3. CASE Complete \/ (\E f \in Flights : Run(f) \/ DropRunner(f) \/ EndFactory(f)) \/ UNCHANGED vars
  BY <1>3, TasksStutter
<1>4. CASE (\E f \in Flights : EndRunner(f)) \/ (\E k \in Keys : Cancel(k)) \/ Shutdown
  BY <1>4, EndRunnerImplements, CancelImplements, ShutdownImplements
<1> QED BY <1>1, <1>2, <1>3, <1>4 DEF Next

\* The flights implement the coalescing contract of SharedJob: one current job per
\* key, every caller told the outcome of the job it joined.
THEOREM ImplementsSharedJobHolds == Spec => ImplementsSharedJob
<1>1. Spec => Coalescing!Init /\ [][Coalescing!Next]_(Coalescing!vars)
  BY InitImplements, NextImplements, FlightInvHolds, PTL DEF Spec
<1> QED BY <1>1 DEF ImplementsSharedJob, Coalescing!Spec

=============================================================================
