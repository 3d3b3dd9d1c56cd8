-------------------------- MODULE DirectSourceProof --------------------------
(* Proofs about DirectSource, for any tasks, tiers and URLs: one extraction    *)
(* serves a kind, a URL that was found dead is in no cache, and whoever waits  *)
(* waits for something that is under way.                                      *)
EXTENDS DirectSource, TLAPS

\* A prewarm is registered under its key for as long as it lives, is the only one
\* of its kind, and waits for no other.
Prewarms ==
    /\ \A k \in Keys : warming[k] # None =>
          /\ task[warming[k]].prewarm /\ task[warming[k]].key = k
          /\ task[warming[k]].at \notin {"idle", "joined"}
    /\ \A k \in Keys : \A l \in Kin(k) : warming[k] # None /\ warming[l] # None => k = l
    /\ \A t \in Tasks : task[t].prewarm => task[t].key \in Keys /\ warming[task[t].key] = t

\* Every URL in use has been minted.
Known ==
    /\ promoted \in minted \cup {None}
    /\ \A k \in Keys : cache[k] \in minted \cup {None}
    /\ \A t \in Tasks : task[t].url \in minted \cup {None}

\* A URL that a call proves for itself after a 403 is known to nobody else.
Private ==
    \A t \in Tasks : At(t, "proving") =>
        /\ task[t].url \in Urls /\ task[t].url \notin found /\ promoted # task[t].url
        /\ \A k \in Keys : cache[k] # task[t].url
        /\ \A s \in Tasks \ {t} : task[s].url # task[t].url

\* The two halves of NobodyWaitsInVain.
Joins ==
    \A t \in Tasks : At(t, "joined") =>
        \E w \in Tasks \ {t} : task[t].on = w /\ task[w].prewarm /\ ~At(w, "joined")
Flies ==
    /\ \A t \in Tasks : At(t, "flying") => task[t].on \in Keys /\ Running(task[t].on)
    /\ \A k \in Keys : Running(k) => inflight[k].at # "none"

\* Whoever is busy is busy with some key.
Keyed == \A t \in Tasks : ~At(t, "idle") => task[t].key \in Keys

DirectInv == TypeOK /\ OneFlight /\ Keyed /\ Prewarms /\ Joins /\ Flies /\ Known /\ Private /\ DeadIsDropped

-----------------------------------------------------------------------------
(* Who waits for whom.                                                         *)

\* A prewarm joins nothing.
LEMMA PrewarmJoinsNone ==
  ASSUME DirectInv, NEW t \in Tasks, task[t].prewarm
  PROVE  /\ task[t].key \in Keys /\ warming[task[t].key] = t /\ task[t].at \notin {"idle", "joined"}
         /\ \A k \in Kin(task[t].key) : warming[k] \in {t, None}
<1>1. task[t].key \in Keys /\ warming[task[t].key] = t /\ t # None
  BY DirectAssumption DEF DirectInv, Prewarms
<1>2. task[t].at \notin {"idle", "joined"}
  BY <1>1 DEF DirectInv, Prewarms
<1>3. \A k \in Kin(task[t].key) : warming[k] \in {t, None}
  BY <1>1 DEF DirectInv, Prewarms, Kin
<1> QED BY <1>1, <1>2, <1>3

\* The tasks of S end, the others keep their parts; whoever joined one of S goes on.
LEMMA PartsKeep ==
  ASSUME DirectInv, NEW S \in SUBSET Tasks,
         \A k \in Keys : warming'[k] = IF warming[k] \in S THEN None ELSE warming[k],
         \A s \in S : task'[s] = Idle,
         \A s \in Tasks \ S :
           /\ task'[s].prewarm = task[s].prewarm
           /\ task[s].prewarm => task'[s].key = task[s].key /\ task'[s].at \notin {"idle", "joined"}
           /\ task'[s].at = "joined" => /\ task[s].at = "joined" /\ task'[s].on = task[s].on
                                        /\ task[s].on \notin S
  PROVE  Prewarms' /\ Joins'
<1>1. Idle.prewarm = FALSE /\ Idle.at = "idle" /\ None \notin S
  BY DirectAssumption DEF Idle
<1>2. ASSUME NEW k \in Keys, warming'[k] # None
      PROVE  /\ warming'[k] = warming[k] /\ warming[k] \in Tasks \ S
             /\ task[warming[k]].prewarm /\ task[warming[k]].key = k
  <2>1. warming'[k] = warming[k] /\ warming[k] \notin S /\ warming[k] # None
    BY <1>2
  <2>2. warming[k] \in Tasks
    BY <2>1 DEF DirectInv, TypeOK
  <2> QED BY <2>1, <2>2 DEF DirectInv, Prewarms
<1>3. \A k \in Keys : warming'[k] # None =>
        task'[warming'[k]].prewarm /\ task'[warming'[k]].key = k /\ task'[warming'[k]].at \notin {"idle", "joined"}
  BY <1>2
<1>4. \A k \in Keys : \A l \in Kin(k) : warming'[k] # None /\ warming'[l] # None => k = l
  BY <1>2 DEF DirectInv, Prewarms, Kin
<1>5. ASSUME NEW t \in Tasks, task'[t].prewarm PROVE task'[t].key \in Keys /\ warming'[task'[t].key] = t
  <2>1. t \notin S /\ task[t].prewarm /\ task'[t].key = task[t].key
    BY <1>1, <1>5
  <2> QED BY <2>1, PrewarmJoinsNone
<1>6. Prewarms'
  BY <1>3, <1>4, <1>5 DEF Prewarms, Kin, Video
<1>7. ASSUME NEW t \in Tasks, task'[t].at = "joined"
      PROVE  \E w \in Tasks \ {t} : task'[t].on = w /\ task'[w].prewarm /\ task'[w].at # "joined"
  <2>1. t \notin S /\ task[t].at = "joined" /\ task'[t].on = task[t].on /\ task[t].on \notin S
    BY <1>1, <1>7
  <2>2. PICK w \in Tasks \ {t} : task[t].on = w /\ task[w].prewarm
    BY <2>1 DEF DirectInv, Joins, At
  <2> QED BY <2>1, <2>2
<1>8. Joins'
  BY <1>7 DEF Joins, At
<1> QED BY <1>6, <1>8

\* Whoever still awaits an extraction awaits one that still runs.
LEMMA FliesKeep ==
  ASSUME DirectInv,
         \A s \in Tasks : task'[s].at = "flying" =>
           task[s].at = "flying" /\ task'[s].on = task[s].on /\ inflight'[task[s].on] # NoRace,
         \A k \in Keys : inflight'[k] # NoRace => inflight[k] # NoRace /\ inflight'[k].at # "none"
  PROVE  Flies' /\ OneFlight'
<1>1. Flies'
  BY DEF DirectInv, Flies, At, Running
<1>2. OneFlight'
  BY DEF DirectInv, OneFlight, Running, Kin, Video
<1> QED BY <1>1, <1>2

-----------------------------------------------------------------------------
(* What is known of the URLs.                                                  *)

\* No URL is minted, found dead or proven: what is used was in a cache before.
LEMMA UrlsKeep ==
  ASSUME DirectInv, UNCHANGED <<minted, found>>,
         promoted' \in {promoted, None}, \A k \in Keys : cache'[k] \in {cache[k], None},
         \A s \in Tasks :
           /\ \/ task'[s].url \in {task[s].url, None, promoted}
              \/ \E k \in Keys : task'[s].url = cache[k]
           /\ task'[s].at = "proving" => task[s].at = "proving" /\ task'[s].url = task[s].url
  PROVE  Known' /\ Private' /\ DeadIsDropped'
<1>1. None \notin Urls /\ found \subseteq Urls /\ minted \subseteq Urls
  BY DirectAssumption DEF DirectInv, TypeOK
<1>2. Known'
  BY DEF DirectInv, Known
<1>3. Private'
  BY <1>1 DEF DirectInv, Private, At
<1>4. DeadIsDropped'
  BY <1>1 DEF DirectInv, DeadIsDropped
<1> QED BY <1>2, <1>3, <1>4

\* A URL is found dead: it goes from every cache with all others.
LEMMA UrlsDropped ==
  ASSUME DirectInv, NEW t \in Tasks, found' = found \cup {task[t].url}, UNCHANGED minted,
         promoted' = None, \A k \in Keys : cache'[k] = None,
         \A s \in Tasks :
           /\ task'[s].url \in {task[s].url, None}
           /\ task'[s].at = "proving" => s # t /\ task[s].at = "proving" /\ task'[s].url = task[s].url
  PROVE  Known' /\ Private' /\ (task[t].url # None => DeadIsDropped')
<1>1. None \notin Urls /\ found \subseteq Urls /\ minted \subseteq Urls
  BY DirectAssumption DEF DirectInv, TypeOK
<1>2. Known'
  BY DEF DirectInv, Known
<1>3. Private'
  BY <1>1 DEF DirectInv, Private, At
<1>4. task[t].url # None => DeadIsDropped'
  BY <1>1 DEF DirectInv, DeadIsDropped
<1> QED BY <1>2, <1>3, <1>4

-----------------------------------------------------------------------------
(* Calls that end.                                                             *)

\* What the tasks are when those of S return.
LEMMA ReturnedIs ==
  ASSUME NEW T \in [Tasks -> TaskState], NEW S \in SUBSET Tasks, NEW u
  PROVE  /\ Returned(T, S, u) \in [Tasks -> TaskState]
         /\ \A s \in S : Returned(T, S, u)[s] = Idle
         /\ \A s \in Tasks \ S :
              \/ s \notin Joined(S) /\ Returned(T, S, u)[s] = T[s]
              \/ s \in Joined(S) /\ Returned(T, S, u)[s] \in {Idle, [T[s] EXCEPT !.at = "missed", !.on = None]}
<1>1. Idle \in TaskState
  BY DEF Idle, TaskState, Sources, RaceState, NoRace
<1>2. \A s \in Tasks : [T[s] EXCEPT !.at = "missed", !.on = None] \in TaskState
  BY DEF TaskState
<1> QED BY <1>1, <1>2 DEF Returned

\* Those of S end; some that have joined nothing take a step of their own.
LEMMA EndsKeep ==
  ASSUME DirectInv, NEW S \in SUBSET Tasks, NEW T \in [Tasks -> TaskState], NEW u,
         \A s \in Tasks \ S :
           \/ T[s] = task[s]
           \/ /\ task[s].at # "joined" /\ T[s].at \notin {"idle", "joined"}
              /\ task[s].at # "idle"
              /\ T[s].prewarm = task[s].prewarm /\ T[s].key = task[s].key,
         task' = Returned(T, S, u), warming' = Left(warming, S)
  PROVE  /\ task' \in [Tasks -> TaskState] /\ warming' \in [Keys -> Tasks \cup {None}]
         /\ Prewarms' /\ Joins' /\ Keyed'
         /\ \A s \in S : task'[s] = Idle
         /\ \A s \in Tasks \ S :
              \/ task'[s] = T[s]
              \/ /\ task[s].at = "joined" /\ task'[s].at \in {"idle", "missed"}
                 /\ task'[s].url \in {task[s].url, None}
<1>1. /\ task' \in [Tasks -> TaskState] /\ \A s \in S : task'[s] = Idle
      /\ \A s \in Tasks \ S :
           \/ s \notin Joined(S) /\ task'[s] = T[s]
           \/ s \in Joined(S) /\ task'[s] \in {Idle, [T[s] EXCEPT !.at = "missed", !.on = None]}
  <2>1. /\ Returned(T, S, u) \in [Tasks -> TaskState]
        /\ \A s \in S : Returned(T, S, u)[s] = Idle
        /\ \A s \in Tasks \ S :
             \/ s \notin Joined(S) /\ Returned(T, S, u)[s] = T[s]
             \/ s \in Joined(S) /\ Returned(T, S, u)[s] \in {Idle, [T[s] EXCEPT !.at = "missed", !.on = None]}
    BY ReturnedIs
  <2>2. task' = Returned(T, S, u)
    OBVIOUS
  <2> QED BY <2>1, <2>2
<1>2. ASSUME NEW s \in Tasks \ S
      PROVE  \/ task'[s] = T[s] /\ ~(task[s].at = "joined" /\ task[s].on \in S)
             \/ /\ task[s].at = "joined" /\ task'[s].at \in {"idle", "missed"}
                /\ task'[s].url \in {task[s].url, None} /\ task'[s].prewarm = FALSE
  <2>1. CASE s \notin Joined(S)
    BY <1>1, <2>1 DEF Joined, At
  <2>2. CASE s \in Joined(S)
    <3>1. task[s].at = "joined" /\ T[s] = task[s] /\ task[s].prewarm = FALSE
      <4>1. task[s].at = "joined"
        BY <2>2 DEF Joined, At
      <4>2. T[s] = task[s] /\ task[s] \in TaskState
        BY <4>1 DEF DirectInv, TypeOK
      <4>3. ~task[s].prewarm
        BY <4>1, PrewarmJoinsNone
      <4>4. task[s].prewarm \in BOOLEAN
        BY <4>2 DEF TaskState
      <4> QED BY <4>1, <4>2, <4>3, <4>4
    <3>2. task[s] \in TaskState
      BY DEF DirectInv, TypeOK
    <3>3. task'[s] \in {Idle, [task[s] EXCEPT !.at = "missed", !.on = None]}
      BY <1>1, <2>2, <3>1
    <3>4. CASE task'[s] = Idle
      BY <3>1, <3>4 DEF Idle
    <3>5. CASE task'[s] = [task[s] EXCEPT !.at = "missed", !.on = None]
      BY <3>1, <3>2, <3>5 DEF TaskState
    <3> QED BY <3>3, <3>4, <3>5
  <2> QED BY <2>1, <2>2
<1>3. warming' \in [Keys -> Tasks \cup {None}]
      /\ \A k \in Keys : warming'[k] = IF warming[k] \in S THEN None ELSE warming[k]
  BY DEF Left, DirectInv, TypeOK
<1>4. ASSUME NEW s \in Tasks \ S
      PROVE  /\ task'[s].prewarm = task[s].prewarm
             /\ task[s].prewarm => task'[s].key = task[s].key /\ task'[s].at \notin {"idle", "joined"}
             /\ task'[s].at = "joined" => /\ task[s].at = "joined" /\ task'[s].on = task[s].on
                                          /\ task[s].on \notin S
  <2>1. CASE task'[s] = T[s] /\ ~(task[s].at = "joined" /\ task[s].on \in S)
    BY <2>1, PrewarmJoinsNone
  <2>2. CASE /\ task[s].at = "joined" /\ task'[s].at \in {"idle", "missed"} /\ task'[s].prewarm = FALSE
    <3>1. task[s].prewarm \in BOOLEAN /\ ~task[s].prewarm
      <4>1. task[s] \in TaskState
        BY DEF DirectInv, TypeOK
      <4> QED BY <2>2, <4>1, PrewarmJoinsNone DEF TaskState
    <3> QED BY <2>2, <3>1
  <2> QED BY <1>2, <2>1, <2>2
<1>5. Prewarms' /\ Joins'
  BY <1>1, <1>3, <1>4, PartsKeep
<1>6. ASSUME NEW s \in Tasks \ S, task'[s].at # "idle" PROVE task'[s].key \in Keys
  <2>1. task[s] \in TaskState /\ task'[s].key = task[s].key /\ task[s].at # "idle"
    <3>1. task[s] \in TaskState
      BY DEF DirectInv, TypeOK
    <3>2. CASE s \notin Joined(S)
      BY <1>1, <1>6, <3>1, <3>2
    <3>3. CASE s \in Joined(S)
      <4>1. T[s] = task[s] /\ task[s].at = "joined"
        BY <3>3 DEF Joined, At
      <4>2. task'[s] # Idle
        BY <1>6 DEF Idle
      <4>3. task'[s] = [task[s] EXCEPT !.at = "missed", !.on = None]
        BY <1>1, <3>3, <4>1, <4>2
      <4> QED BY <3>1, <4>1, <4>3 DEF TaskState
    <3> QED BY <3>2, <3>3
  <2> QED BY <2>1 DEF DirectInv, Keyed, At
<1>7. \A s \in S : task'[s].at = "idle"
  <2>1. Idle.at = "idle" /\ \A s \in S : task'[s] = Idle
    BY <1>1 DEF Idle
  <2> QED BY <2>1
<1>8. Keyed'
  BY <1>6, <1>7 DEF Keyed, At
<1> QED BY <1>1, <1>2, <1>3, <1>5, <1>8

\* The tasks of S end, and nobody else takes a step.
LEMMA SomeEnd ==
  ASSUME DirectInv, NEW S \in SUBSET Tasks, NEW u, task' = Returned(task, S, u),
         warming' = Left(warming, S)
  PROVE  /\ task' \in [Tasks -> TaskState] /\ warming' \in [Keys -> Tasks \cup {None}]
         /\ Prewarms' /\ Joins' /\ Keyed'
         /\ \A s \in S : task'[s] = Idle
         /\ \A s \in Tasks \ S :
              \/ task'[s] = task[s]
              \/ /\ task[s].at = "joined" /\ task'[s].at \in {"idle", "missed"}
                 /\ task'[s].url \in {task[s].url, None}
<1>1. \A s \in Tasks \ S :
           \/ task[s] = task[s]
           \/ /\ task[s].at # "joined" /\ task[s].at \notin {"idle", "joined"}
              /\ task[s].at # "idle"
              /\ task[s].prewarm = task[s].prewarm /\ task[s].key = task[s].key
  OBVIOUS
<1>2. task \in [Tasks -> TaskState]
  BY DEF DirectInv, TypeOK
<1> QED BY <1>1, <1>2, EndsKeep

\* One task ends.
LEMMA OneEnds ==
  ASSUME DirectInv, NEW t \in Tasks, NEW u, task' = Returned(task, {t}, u),
         warming' = Left(warming, {t})
  PROVE  /\ task' \in [Tasks -> TaskState] /\ warming' \in [Keys -> Tasks \cup {None}]
         /\ Prewarms' /\ Joins' /\ Keyed'
         /\ task'[t] = Idle
         /\ \A s \in Tasks \ {t} :
              \/ task'[s] = task[s]
              \/ /\ task[s].at = "joined" /\ task'[s].at \in {"idle", "missed"}
                 /\ task'[s].url \in {task[s].url, None}
<1>1. {t} \in SUBSET Tasks /\ t \in {t}
  OBVIOUS
<1> QED BY <1>1, SomeEnd

\* One task takes a step that neither ends it nor makes it wait for a prewarm.
LEMMA StepKeeps ==
  ASSUME DirectInv, NEW t \in Tasks, NEW r \in TaskState, task' = [task EXCEPT ![t] = r],
         UNCHANGED warming, r.prewarm = task[t].prewarm, r.key \in Keys,
         task[t].prewarm => r.key = task[t].key, r.at \notin {"idle", "joined"}
  PROVE  /\ task' \in [Tasks -> TaskState] /\ Prewarms' /\ Joins' /\ Keyed'
         /\ task'[t] = r /\ \A s \in Tasks \ {t} : task'[s] = task[s]
<1>1. /\ task' \in [Tasks -> TaskState]
      /\ task'[t] = r /\ \A s \in Tasks \ {t} : task'[s] = task[s]
  BY DEF DirectInv, TypeOK
<1> PICK S \in SUBSET Tasks : S = {}
  OBVIOUS
<1>2. \A k \in Keys : warming'[k] = IF warming[k] \in S THEN None ELSE warming[k]
  OBVIOUS
<1>3. \A s \in Tasks \ S :
           /\ task'[s].prewarm = task[s].prewarm
           /\ task[s].prewarm => task'[s].key = task[s].key /\ task'[s].at \notin {"idle", "joined"}
           /\ task'[s].at = "joined" => /\ task[s].at = "joined" /\ task'[s].on = task[s].on
                                        /\ task[s].on \notin S
  BY <1>1, PrewarmJoinsNone
<1>4. Prewarms' /\ Joins'
  BY <1>2, <1>3, PartsKeep
<1>5. Keyed'
  BY <1>1 DEF Keyed, At, DirectInv
<1> QED BY <1>1, <1>4, <1>5

\* No extraction begins or ends, and nobody begins to wait for one.
LEMMA SameRaces ==
  ASSUME DirectInv, UNCHANGED inflight,
         \A s \in Tasks : task'[s].at = "flying" => task'[s].on = task[s].on /\ task[s].at = "flying"
  PROVE  Flies' /\ OneFlight'
<1>1. \A s \in Tasks : task'[s].at = "flying" =>
         task[s].at = "flying" /\ task'[s].on = task[s].on /\ inflight'[task[s].on] # NoRace
  BY DEF DirectInv, Flies, At, Running
<1>2. \A k \in Keys : inflight'[k] # NoRace => inflight[k] # NoRace /\ inflight'[k].at # "none"
  BY DEF DirectInv, Flies, Running
<1> QED BY <1>1, <1>2, FliesKeep

\* No URL goes from hand to hand.
LEMMA SameUrls ==
  ASSUME DirectInv, UNCHANGED <<minted, found>>,
         promoted' \in {promoted, None}, \A k \in Keys : cache'[k] \in {cache[k], None},
         \A s \in Tasks :
           /\ task'[s].url \in {task[s].url, None}
           /\ task'[s].at = "proving" => task'[s].url = task[s].url /\ task[s].at = "proving"
  PROVE  Known' /\ Private' /\ DeadIsDropped'
<1>1. \A s \in Tasks :
           /\ \/ task'[s].url \in {task[s].url, None, promoted}
              \/ \E k \in Keys : task'[s].url = cache[k]
           /\ task'[s].at = "proving" => task[s].at = "proving" /\ task'[s].url = task[s].url
  OBVIOUS
<1> QED BY <1>1, UrlsKeep

\* Lookups that a task makes on its own.
LEMMA TypesOfOthers ==
  ASSUME DirectInv, task' \in [Tasks -> TaskState], warming' \in [Keys -> Tasks \cup {None}],
         UNCHANGED <<caches, inflight, exact, challenged, world>>
  PROVE  TypeOK'
  BY DEF DirectInv, TypeOK, caches, world

\* A task has a state of its own to go on from.
LEMMA TaskIs ==
  ASSUME DirectInv, NEW t \in Tasks
  PROVE  /\ task[t] \in TaskState /\ task[t].prewarm \in BOOLEAN /\ task[t].exact \in BOOLEAN
         /\ task[t].at # "idle" => task[t].key \in Keys
         /\ task[t].url \in Sources /\ task[t].race \in RaceState
  BY DEF DirectInv, TypeOK, TaskState, Keyed, At

-----------------------------------------------------------------------------
(* The steps.                                                                  *)

LEMMA CallKeeps == ASSUME DirectInv, NEW t \in Tasks, Call(t) PROVE DirectInv'
<1>1. PICK k \in Keys : task' = [task EXCEPT ![t].at = "begun", ![t].key = k]
  BY DEF Call
<1>2. PICK r : r = [task[t] EXCEPT !.at = "begun", !.key = k]
  OBVIOUS
<1>3. /\ r \in TaskState /\ r.prewarm = task[t].prewarm /\ r.key = k /\ r.at = "begun"
      /\ r.url = task[t].url
  BY <1>2, TaskIs DEF TaskState
<1>4. ~task[t].prewarm
  BY PrewarmJoinsNone DEF Call, At
<1>5. task' = [task EXCEPT ![t] = r]
  BY <1>1, <1>2, TaskIs DEF DirectInv, TypeOK
<1>6. UNCHANGED <<caches, warming, inflight, exact, challenged, minted, dead, found>> /\ calls' = calls + 1
  BY DEF Call
<1>7. /\ task' \in [Tasks -> TaskState] /\ Prewarms' /\ Joins' /\ Keyed'
      /\ task'[t] = r /\ \A s \in Tasks \ {t} : task'[s] = task[s]
  BY <1>3, <1>4, <1>5, <1>6, StepKeeps
<1>8. TypeOK'
  BY <1>6, <1>7 DEF DirectInv, TypeOK, caches
<1>9. Flies' /\ OneFlight'
  BY <1>3, <1>6, <1>7, SameRaces DEF caches
<1>10. Known' /\ Private' /\ DeadIsDropped'
  BY <1>3, <1>6, <1>7, SameUrls DEF caches
<1> QED BY <1>7, <1>8, <1>9, <1>10 DEF DirectInv

LEMMA PrewarmKeeps == ASSUME DirectInv, NEW t \in Tasks, Prewarm(t) PROVE DirectInv'
<1>1. PICK k \in Keys :
        /\ \A l \in Kin(k) : warming[l] = None
        /\ task' = [task EXCEPT ![t].at = "begun", ![t].key = k, ![t].prewarm = TRUE]
        /\ warming' = [warming EXCEPT ![k] = t]
  BY DEF Prewarm
<1>2. /\ UNCHANGED <<caches, inflight, exact, challenged, minted, dead, found>> /\ calls' = calls + 1
      /\ task[t].at = "idle" /\ t # None
  BY DirectAssumption DEF Prewarm, At
<1>3. /\ task' \in [Tasks -> TaskState] /\ warming' \in [Keys -> Tasks \cup {None}]
      /\ task'[t].at = "begun" /\ task'[t].key = k /\ task'[t].prewarm = TRUE
      /\ task'[t].url = task[t].url
      /\ \A s \in Tasks \ {t} : task'[s] = task[s]
      /\ warming'[k] = t /\ \A l \in Keys \ {k} : warming'[l] = warming[l]
  <2>1. PICK r : r = [task[t] EXCEPT !.at = "begun", !.key = k, !.prewarm = TRUE]
    OBVIOUS
  <2>2. /\ r \in TaskState /\ r.at = "begun" /\ r.key = k /\ r.prewarm = TRUE
        /\ r.url = task[t].url
    BY <2>1, TaskIs DEF TaskState
  <2>3. task' = [task EXCEPT ![t] = r]
    BY <1>1, <2>1, TaskIs DEF DirectInv, TypeOK
  <2>4. /\ task' \in [Tasks -> TaskState] /\ task'[t] = r
        /\ \A s \in Tasks \ {t} : task'[s] = task[s]
    BY <2>2, <2>3 DEF DirectInv, TypeOK
  <2>5. /\ warming' \in [Keys -> Tasks \cup {None}]
        /\ warming'[k] = t /\ \A l \in Keys \ {k} : warming'[l] = warming[l]
    BY <1>1 DEF DirectInv, TypeOK
  <2> QED BY <2>2, <2>4, <2>5
<1>4. TypeOK'
  BY <1>2, <1>3 DEF DirectInv, TypeOK, caches
<1>5. ~task[t].prewarm /\ \A l \in Keys : warming[l] # t
  <2>1. ~task[t].prewarm
    BY <1>2, PrewarmJoinsNone
  <2> QED BY <1>2, <2>1 DEF DirectInv, Prewarms
<1>6. Prewarms'
  <2>1. \A l \in Keys : warming'[l] # None =>
          /\ task'[warming'[l]].prewarm /\ task'[warming'[l]].key = l
          /\ task'[warming'[l]].at \notin {"idle", "joined"}
    <3>1. \A l \in Keys \ {k} : warming'[l] # None => warming[l] \in Tasks \ {t}
      BY <1>3, <1>5 DEF DirectInv, TypeOK
    <3>2. \A l \in Keys \ {k} : warming'[l] # None =>
          /\ task'[warming'[l]].prewarm /\ task'[warming'[l]].key = l
          /\ task'[warming'[l]].at \notin {"idle", "joined"}
      BY <1>3, <3>1 DEF DirectInv, Prewarms
    <3> QED BY <1>3, <3>2
  <2>2. \A l \in Keys : \A m \in Kin(l) : warming'[l] # None /\ warming'[m] # None => l = m
    BY <1>1, <1>3 DEF DirectInv, Prewarms, Kin
  <2>3. \A s \in Tasks : task'[s].prewarm => task'[s].key \in Keys /\ warming'[task'[s].key] = s
    <3>1. ASSUME NEW s \in Tasks \ {t}, task[s].prewarm
          PROVE  task[s].key \in Keys \ {k} /\ warming[task[s].key] = s
      <4>1. task[s].key \in Keys /\ warming[task[s].key] = s /\ s # None
        BY <3>1, PrewarmJoinsNone, DirectAssumption
      <4>2. warming[k] = None
        BY <1>1 DEF Kin
      <4> QED BY <4>1, <4>2
    <3> QED BY <1>3, <3>1
  <2> QED BY <2>1, <2>2, <2>3 DEF Prewarms, Kin, Video
<1>7. Joins'
  <2>1. ASSUME NEW s \in Tasks, task'[s].at = "joined"
        PROVE  \E w \in Tasks \ {s} : task'[s].on = w /\ task'[w].prewarm /\ task'[w].at # "joined"
    <3>1. s # t /\ task'[s] = task[s] /\ task[s].at = "joined"
      BY <1>3, <2>1
    <3>2. PICK w \in Tasks \ {s} : task[s].on = w /\ task[w].prewarm /\ task[w].at # "joined"
      BY <3>1 DEF DirectInv, Joins, At
    <3> QED BY <1>3, <1>5, <3>1, <3>2
  <2> QED BY <2>1 DEF Joins, At
<1>8. Keyed'
  BY <1>3 DEF DirectInv, Keyed, At
<1>9. Flies' /\ OneFlight'
  BY <1>2, <1>3, SameRaces
<1>10. Known' /\ Private' /\ DeadIsDropped'
  BY <1>2, <1>3, SameUrls DEF caches
<1> QED BY <1>4, <1>6, <1>7, <1>8, <1>9, <1>10 DEF DirectInv

LEMMA TryPromotedKeeps == ASSUME DirectInv, NEW t \in Tasks, TryPromoted(t) PROVE DirectInv'
<1>1. PICK r : r = [task[t] EXCEPT !.at = "probing", !.url = promoted, !.exact = TRUE]
  OBVIOUS
<1>2. /\ r \in TaskState /\ r.prewarm = task[t].prewarm /\ r.key = task[t].key /\ r.key \in Keys
      /\ r.at = "probing" /\ r.url = promoted
  BY <1>1, TaskIs DEF TaskState, TryPromoted, At, DirectInv, TypeOK
<1>3. /\ task' = [task EXCEPT ![t] = r]
      /\ UNCHANGED <<caches, warming, inflight, exact, challenged, world>>
  BY <1>1, TaskIs DEF TryPromoted, DirectInv, TypeOK
<1>4. /\ task' \in [Tasks -> TaskState] /\ Prewarms' /\ Joins' /\ Keyed'
      /\ task'[t] = r /\ \A s \in Tasks \ {t} : task'[s] = task[s]
  BY <1>2, <1>3, StepKeeps
<1>5. TypeOK'
  BY <1>3, <1>4, TypesOfOthers DEF DirectInv, TypeOK
<1>6. Flies' /\ OneFlight'
  BY <1>2, <1>3, <1>4, SameRaces
<1>7. Known' /\ Private' /\ DeadIsDropped'
  BY <1>2, <1>3, <1>4, UrlsKeep DEF caches, world
<1> QED BY <1>4, <1>5, <1>6, <1>7 DEF DirectInv

LEMMA TakeWarmKeeps == ASSUME DirectInv, NEW t \in Tasks, TakeWarm(t) PROVE DirectInv'
<1>1. PICK k \in WarmFor(t) :
          /\ warm' = Handed([warm EXCEPT ![k] = None], {t}, warm[k])
          /\ task' = Returned(task, {t}, warm[k])
          /\ warming' = Left(warming, {t})
  BY DEF TakeWarm
<1>2. UNCHANGED <<cache, promoted, inflight, exact, challenged, world>>
  BY DEF TakeWarm
<1>3. k \in Keys
  <2>1. task[t].at # "idle"
    BY DEF TakeWarm, Looks, At
  <2> QED BY <2>1, TaskIs DEF WarmFor, Kin
<1>4. /\ task' \in [Tasks -> TaskState] /\ warming' \in [Keys -> Tasks \cup {None}]
      /\ Prewarms' /\ Joins' /\ Keyed'
      /\ task'[t] = Idle
      /\ \A s \in Tasks \ {t} :
              \/ task'[s] = task[s]
              \/ /\ task[s].at = "joined" /\ task'[s].at \in {"idle", "missed"}
                 /\ task'[s].url \in {task[s].url, None}
  BY <1>1, OneEnds
<1>5. TypeOK'
  <2>1. warm[k] \in Sources /\ [warm EXCEPT ![k] = None] \in [Keys -> Sources]
    BY <1>3 DEF DirectInv, TypeOK, Sources
  <2>2. warm' \in [Keys -> Sources]
    BY <1>1, <2>1 DEF Handed
  <2> QED BY <1>2, <1>4, <2>2 DEF DirectInv, TypeOK, world
<1>6. Idle.at = "idle" /\ Idle.url = None
  BY DEF Idle
<1>7. Flies' /\ OneFlight'
  BY <1>2, <1>4, <1>6, SameRaces
<1>8. Known' /\ Private' /\ DeadIsDropped'
  BY <1>2, <1>4, <1>6, SameUrls DEF world
<1> QED BY <1>4, <1>5, <1>7, <1>8 DEF DirectInv

LEMMA JoinWarmKeeps == ASSUME DirectInv, NEW t \in Tasks, JoinWarm(t) PROVE DirectInv'
<1>1. PICK w \in OthersPrewarm(t) : task' = [task EXCEPT ![t].at = "joined", ![t].on = w]
  BY DEF JoinWarm
<1>2. /\ UNCHANGED <<caches, warming, inflight, exact, challenged, world>>
      /\ task[t].at \in {"looking", "begun"}
  BY DEF JoinWarm, Looks, At
<1>3. ~task[t].prewarm /\ w \in Tasks \ {t} /\ task[w].prewarm /\ task[w].at # "joined"
  <2>1. task[t].prewarm => OthersPrewarm(t) = {}
    BY PrewarmJoinsNone DEF OthersPrewarm
  <2>2. PICK k \in Keys : w = warming[k] /\ w \notin {None, t}
    BY DEF OthersPrewarm, Kin
  <2> QED BY <2>1, <2>2 DEF DirectInv, Prewarms, TypeOK
<1>4. /\ task' \in [Tasks -> TaskState]
      /\ task'[t].at = "joined" /\ task'[t].on = w /\ task'[t].key = task[t].key
      /\ task'[t].url = task[t].url /\ task'[t].prewarm = task[t].prewarm
      /\ \A s \in Tasks \ {t} : task'[s] = task[s]
  <2>1. PICK r : r = [task[t] EXCEPT !.at = "joined", !.on = w]
    OBVIOUS
  <2>2. /\ r \in TaskState /\ r.at = "joined" /\ r.on = w /\ r.key = task[t].key
        /\ r.prewarm = task[t].prewarm /\ r.url = task[t].url
    BY <1>3, <2>1, TaskIs DEF TaskState
  <2>3. task' = [task EXCEPT ![t] = r]
    BY <1>1, <2>1, TaskIs DEF DirectInv, TypeOK
  <2> QED BY <2>2, <2>3 DEF DirectInv, TypeOK
<1>5. TypeOK'
  BY <1>2, <1>4, TypesOfOthers DEF DirectInv, TypeOK
<1>6. Prewarms'
  <2>1. \A s \in Tasks : task'[s].prewarm = task[s].prewarm /\ (task[s].prewarm => task'[s] = task[s])
    BY <1>3, <1>4
  <2>2. \A k \in Keys : warming'[k] # None =>
          /\ task'[warming'[k]].prewarm /\ task'[warming'[k]].key = k
          /\ task'[warming'[k]].at \notin {"idle", "joined"}
    BY <1>2, <2>1 DEF DirectInv, Prewarms, TypeOK
  <2>3. \A s \in Tasks : task'[s].prewarm => task'[s].key \in Keys /\ warming'[task'[s].key] = s
    BY <1>2, <2>1 DEF DirectInv, Prewarms
  <2> QED BY <1>2, <2>2, <2>3 DEF DirectInv, Prewarms, Kin, Video
<1>7. Joins'
  <2>1. ASSUME NEW s \in Tasks, task'[s].at = "joined"
        PROVE  \E v \in Tasks \ {s} : task'[s].on = v /\ task'[v].prewarm /\ task'[v].at # "joined"
    <3>1. CASE s = t
      BY <1>3, <1>4, <3>1
    <3>2. CASE s # t
      <4>1. PICK v \in Tasks \ {s} : task[s].on = v /\ task[v].prewarm /\ task[v].at # "joined"
        BY <1>4, <2>1, <3>2 DEF DirectInv, Joins, At
      <4> QED BY <1>3, <1>4, <3>2, <4>1
    <3> QED BY <3>1, <3>2
  <2> QED BY <2>1 DEF Joins, At
<1>8. Keyed'
  BY <1>2, <1>4 DEF DirectInv, Keyed, At
<1>9. Flies' /\ OneFlight'
  BY <1>2, <1>4, SameRaces
<1>10. Known' /\ Private' /\ DeadIsDropped'
  BY <1>2, <1>4, SameUrls DEF caches, world
<1> QED BY <1>5, <1>6, <1>7, <1>8, <1>9, <1>10 DEF DirectInv

LEMMA TryCachedKeeps == ASSUME DirectInv, NEW t \in Tasks, TryCached(t) PROVE DirectInv'
<1>1. PICK u \in CachedFor(t) : Probe(t, u)
  BY DEF TryCached
<1>2. /\ UNCHANGED <<caches, warming, inflight, exact, challenged, world>>
      /\ task[t].at # "idle"
  BY DEF TryCached, Further, Looks, At
<1>3. PICK k \in Keys : u = cache[k]
  BY DEF CachedFor, Kin
<1>4. PICK r : r = [task[t] EXCEPT !.at = "probing", !.url = u]
  OBVIOUS
<1>5. /\ r \in TaskState /\ r.prewarm = task[t].prewarm /\ r.key = task[t].key /\ r.key \in Keys
      /\ r.at = "probing" /\ r.url = cache[k]
  BY <1>2, <1>3, <1>4, TaskIs DEF TaskState, DirectInv, TypeOK
<1>6. task' = [task EXCEPT ![t] = r]
  BY <1>1, <1>4, TaskIs DEF Probe, DirectInv, TypeOK
<1>7. /\ task' \in [Tasks -> TaskState] /\ Prewarms' /\ Joins' /\ Keyed'
      /\ task'[t] = r /\ \A s \in Tasks \ {t} : task'[s] = task[s]
  BY <1>2, <1>5, <1>6, StepKeeps
<1>8. TypeOK'
  BY <1>2, <1>7, TypesOfOthers DEF DirectInv, TypeOK
<1>9. Flies' /\ OneFlight'
  BY <1>2, <1>5, <1>7, SameRaces
<1>10. Known' /\ Private' /\ DeadIsDropped'
  BY <1>2, <1>5, <1>7, UrlsKeep DEF caches, world
<1> QED BY <1>7, <1>8, <1>9, <1>10 DEF DirectInv

\* What an extraction starts with.
LEMMA RaceIs ==
  ASSUME DirectInv, NEW b \in BOOLEAN
  PROVE  Race(b) \in RaceState /\ Race(b).at # "none" /\ NoRace \in RaceState /\ NoRace.at = "none"
  BY DEF Race, NoRace, RaceState

\* A lane that misses leaves an extraction under way.
LEMMA MissesAre ==
  ASSUME NEW r \in RaceState, NEW q \in Misses(r)
  PROVE  q \in RaceState /\ (r.at # "none" => q.at # "none")
<1>1. PICK l \in r.lanes : q = [r EXCEPT !.lanes = @ \ {l},
                        !.at = IF r.lanes = {l} /\ r.robust THEN "robust" ELSE @]
  BY DEF Misses
<1> QED BY <1>1 DEF RaceState

LEMMA FlyKeeps == ASSUME DirectInv, NEW t \in Tasks, Fly(t) PROVE DirectInv'
<1>1. PICK k : k = task[t].key
  OBVIOUS
<1>2. PICK R : R = {l \in Compatible(k) : Running(l)}
  OBVIOUS
<1>3. PICK l \in IF R = {} THEN {k} ELSE R :
              /\ task' = [task EXCEPT ![t].at = "flying", ![t].on = l]
              /\ inflight' = IF R = {} THEN [inflight EXCEPT ![k] = Race(TRUE)] ELSE inflight
  BY <1>1, <1>2 DEF Fly
<1>4. /\ UNCHANGED <<caches, warming, exact, challenged, world>>
      /\ task[t].at # "idle" /\ k \in Keys
  BY <1>1, TaskIs DEF Fly, Further, Looks, At
<1>5. R \subseteq Keys /\ l \in Keys /\ (R # {} => Running(l))
  BY <1>2, <1>3, <1>4 DEF Compatible, Kin
<1>6. PICK r : r = [task[t] EXCEPT !.at = "flying", !.on = l]
  OBVIOUS
<1>7. /\ r \in TaskState /\ r.prewarm = task[t].prewarm /\ r.key = task[t].key /\ r.key \in Keys
      /\ r.at = "flying" /\ r.on = l /\ r.url = task[t].url
  BY <1>1, <1>4, <1>5, <1>6, TaskIs DEF TaskState
<1>8. task' = [task EXCEPT ![t] = r]
  BY <1>3, <1>6, TaskIs DEF DirectInv, TypeOK
<1>9. /\ task' \in [Tasks -> TaskState] /\ Prewarms' /\ Joins' /\ Keyed'
      /\ task'[t] = r /\ \A s \in Tasks \ {t} : task'[s] = task[s]
  BY <1>4, <1>7, <1>8, StepKeeps
<1>10. /\ inflight' \in [Keys -> RaceState]
       /\ \A m \in Keys : inflight'[m] = IF R = {} /\ m = k THEN Race(TRUE) ELSE inflight[m]
  BY <1>3, <1>4, RaceIs DEF DirectInv, TypeOK
<1>11. TypeOK'
  BY <1>4, <1>9, <1>10 DEF DirectInv, TypeOK, caches, world
<1>12. Race(TRUE) # NoRace /\ Race(TRUE).at # "none"
  BY RaceIs
<1>13. Flies'
  <2>1. \A s \in Tasks : task'[s].at = "flying" => task'[s].on \in Keys /\ inflight'[task'[s].on] # NoRace
    <3>1. ASSUME NEW s \in Tasks \ {t}, task'[s].at = "flying"
          PROVE  task'[s].on \in Keys /\ inflight'[task'[s].on] # NoRace
      <4>1. task'[s] = task[s] /\ task[s].on \in Keys /\ inflight[task[s].on] # NoRace
        BY <1>9, <3>1 DEF DirectInv, Flies, At, Running
      <4> QED BY <1>10, <1>12, <4>1
    <3>2. l \in Keys /\ inflight'[l] # NoRace
      <4>1. CASE R = {}
        BY <1>3, <1>5, <1>10, <1>12, <4>1
      <4>2. CASE R # {}
        BY <1>5, <1>10, <4>2 DEF Running
      <4> QED BY <4>1, <4>2
    <3> QED BY <1>7, <1>9, <3>1, <3>2
  <2>2. \A m \in Keys : inflight'[m] # NoRace => inflight'[m].at # "none"
    BY <1>10, <1>12 DEF DirectInv, Flies, Running
  <2> QED BY <2>1, <2>2 DEF Flies, At, Running
<1>14. OneFlight'
  <2>1. CASE R = {}
    <3>1. \A m \in Kin(k) : inflight[m] = NoRace
      BY <1>2, <2>1 DEF Compatible, Running
    <3> QED BY <1>10, <3>1, <2>1 DEF DirectInv, OneFlight, Running, Kin, Video
  <2>2. CASE R # {}
    BY <1>10, <2>2 DEF DirectInv, OneFlight, Running, Kin, Video
  <2> QED BY <2>1, <2>2
<1>15. Known' /\ Private' /\ DeadIsDropped'
  BY <1>4, <1>7, <1>9, SameUrls DEF caches, world
<1> QED BY <1>9, <1>11, <1>13, <1>14, <1>15 DEF DirectInv

\* Only the extractions change.
LEMMA LaneMissesKeeps == ASSUME DirectInv, NEW k \in Keys, LaneMisses(k) PROVE DirectInv'
<1>1. PICK r \in Misses(inflight[k]) : inflight' = [inflight EXCEPT ![k] = r]
  BY DEF LaneMisses
<1>2. UNCHANGED <<caches, warming, exact, challenged, task, world>> /\ Running(k)
  BY DEF LaneMisses
<1>3. r \in RaceState /\ r.at # "none" /\ r # NoRace
  <2>1. inflight[k] \in RaceState /\ inflight[k].at # "none"
    BY <1>2 DEF DirectInv, TypeOK, Flies
  <2> QED BY <2>1, MissesAre DEF NoRace
<1>4. /\ inflight' \in [Keys -> RaceState]
      /\ \A m \in Keys : inflight'[m] = IF m = k THEN r ELSE inflight[m]
  BY <1>1, <1>3 DEF DirectInv, TypeOK
<1>5. TypeOK'
  BY <1>2, <1>4 DEF DirectInv, TypeOK, caches, world
<1>6. Flies' /\ OneFlight'
  <2>1. \A s \in Tasks : task'[s].at = "flying" =>
           task[s].at = "flying" /\ task'[s].on = task[s].on /\ inflight'[task[s].on] # NoRace
    BY <1>2, <1>3, <1>4 DEF DirectInv, Flies, At, Running
  <2>2. \A m \in Keys : inflight'[m] # NoRace => inflight[m] # NoRace /\ inflight'[m].at # "none"
    BY <1>2, <1>3, <1>4 DEF DirectInv, Flies, Running
  <2> QED BY <2>1, <2>2, FliesKeep
<1>7. Known' /\ Private' /\ DeadIsDropped'
  BY <1>2, SameUrls DEF caches, world
<1>8. Prewarms' /\ Joins' /\ Keyed'
  BY <1>2 DEF DirectInv, Prewarms, Joins, Keyed, At, Kin, Video
<1> QED BY <1>5, <1>6, <1>7, <1>8 DEF DirectInv

\* A URL that was just minted is no other.
LEMMA UrlMinted ==
  ASSUME DirectInv, NEW u \in Fresh, minted' = minted \cup {u}, UNCHANGED found,
         promoted' \in {promoted, None, u}, \A k \in Keys : cache'[k] \in {cache[k], None, u},
         \A s \in Tasks :
           /\ task'[s].url \in {task[s].url, None}
           /\ task'[s].at = "proving" => task'[s].url = task[s].url /\ task[s].at = "proving"
  PROVE  Known' /\ Private' /\ DeadIsDropped'
<1>1. None \notin Urls /\ found \subseteq minted /\ minted \subseteq Urls /\ u \in Urls \ minted
  BY DirectAssumption DEF DirectInv, TypeOK, Fresh
<1>2. Known'
  BY DEF DirectInv, Known
<1>3. \A s \in Tasks : At(s, "proving") => task[s].url # u /\ task[s].url # None
  BY <1>1 DEF DirectInv, Private, Known
<1>4. Private'
  BY <1>1, <1>3 DEF DirectInv, Private, At
<1>5. DeadIsDropped'
  BY <1>1 DEF DirectInv, DeadIsDropped
<1> QED BY <1>2, <1>4, <1>5

\* What is cached for the keys of K.
LEMMA CachedIs ==
  ASSUME DirectInv, NEW K, NEW u
  PROVE  \A k \in Keys : Cached(K, u)[k] \in {cache[k], u}
  BY DEF Cached

LEMMA LandsKeeps == ASSUME DirectInv, NEW k \in Keys, Lands(k) PROVE DirectInv'
<1>1. PICK u \in Sources : Land(k, u)
  BY DEF Lands
<1>2. PICK S \in SUBSET Tasks : S = Waiting(k)
  BY DEF Waiting
<1>3. /\ task' = Returned(task, S, u) /\ warming' = Left(warming, S) /\ warm' = Handed(warm, S, u)
      /\ inflight' = [inflight EXCEPT ![k] = NoRace]
      /\ UNCHANGED <<promoted, exact, dead, found, calls>>
  BY <1>1, <1>2 DEF Land, Return
<1>4. /\ task' \in [Tasks -> TaskState] /\ warming' \in [Keys -> Tasks \cup {None}]
      /\ Prewarms' /\ Joins' /\ Keyed'
      /\ \A s \in S : task'[s] = Idle
      /\ \A s \in Tasks \ S :
              \/ task'[s] = task[s]
              \/ /\ task[s].at = "joined" /\ task'[s].at \in {"idle", "missed"}
                 /\ task'[s].url \in {task[s].url, None}
  BY <1>3, SomeEnd
<1>5. Idle.at = "idle" /\ Idle.url = None
  BY DEF Idle
<1>6. inflight' \in [Keys -> RaceState] /\ \A m \in Keys : inflight'[m] = IF m = k THEN NoRace ELSE inflight[m]
  <2>1. NoRace \in RaceState
    BY DEF NoRace, RaceState
  <2> QED BY <1>3, <2>1 DEF DirectInv, TypeOK
<1>7. warm' \in [Keys -> Sources]
  BY <1>3 DEF Handed, DirectInv, TypeOK
<1>8. Flies' /\ OneFlight'
  <2>1. \A s \in Tasks : task'[s].at = "flying" =>
           task[s].at = "flying" /\ task'[s].on = task[s].on /\ inflight'[task[s].on] # NoRace
    <3>1. ASSUME NEW s \in Tasks, task'[s].at = "flying"
          PROVE  s \notin S /\ task'[s] = task[s]
      BY <1>4, <1>5, <3>1
    <3>2. \A s \in Tasks \ S : task[s].at = "flying" => task[s].on \in Keys \ {k} /\ inflight[task[s].on] # NoRace
      BY <1>2 DEF Waiting, At, DirectInv, Flies, Running
    <3> QED BY <1>6, <3>1, <3>2
  <2>2. \A m \in Keys : inflight'[m] # NoRace => inflight[m] # NoRace /\ inflight'[m].at # "none"
    BY <1>6 DEF DirectInv, Flies, Running
  <2> QED BY <2>1, <2>2, FliesKeep
<1>9. \A s \in Tasks :
         /\ task'[s].url \in {task[s].url, None}
         /\ task'[s].at = "proving" => task'[s].url = task[s].url /\ task[s].at = "proving"
  BY <1>4, <1>5
<1>10. challenged' \in BOOLEAN
  BY <1>1 DEF Land, Lost, Won, DirectInv, TypeOK
<1>11. CASE u = None
  <2>1. cache' = cache /\ minted' = minted
    BY <1>1, <1>11 DEF Land, Lost
  <2>2. TypeOK'
    BY <1>3, <1>4, <1>6, <1>7, <1>10, <2>1 DEF DirectInv, TypeOK
  <2>3. Known' /\ Private' /\ DeadIsDropped'
    BY <1>3, <1>9, <2>1, SameUrls
  <2> QED BY <1>4, <1>8, <2>2, <2>3 DEF DirectInv
<1>12. CASE u # None
  <2>1. u \in Fresh /\ minted' = minted \cup {u} /\ u \in Urls
    BY <1>1, <1>12 DEF Land, Won, Fresh
  <2>2. PICK K : K = {task[s].key : s \in Waiting(k)}
    OBVIOUS
  <2>3. cache' = Cached(K, u)
    BY <1>1, <1>12, <2>2 DEF Land
  <2>4. cache' \in [Keys -> Sources] /\ \A m \in Keys : cache'[m] \in {cache[m], u}
    BY <2>1, <2>3, CachedIs DEF Cached, DirectInv, TypeOK, Sources
  <2>5. TypeOK'
    BY <1>3, <1>4, <1>6, <1>7, <1>10, <2>1, <2>4 DEF DirectInv, TypeOK
  <2>6. Known' /\ Private' /\ DeadIsDropped'
    BY <1>3, <1>9, <2>1, <2>4, UrlMinted
  <2> QED BY <1>4, <1>8, <2>5, <2>6 DEF DirectInv
<1> QED BY <1>11, <1>12

LEMMA ProbePassesKeeps == ASSUME DirectInv, NEW t \in Tasks, ProbePasses(t) PROVE DirectInv'
<1>1. PICK u : u = task[t].url
  OBVIOUS
<1>2. /\ task' = Returned(task, {t}, u) /\ warming' = Left(warming, {t}) /\ warm' = Handed(warm, {t}, u)
      /\ UNCHANGED <<cache, promoted, inflight, exact, challenged, world>> /\ u \in Sources
  BY <1>1, TaskIs DEF ProbePasses, Return
<1>3. /\ task' \in [Tasks -> TaskState] /\ warming' \in [Keys -> Tasks \cup {None}]
      /\ Prewarms' /\ Joins' /\ Keyed'
      /\ task'[t] = Idle
      /\ \A s \in Tasks \ {t} :
              \/ task'[s] = task[s]
              \/ /\ task[s].at = "joined" /\ task'[s].at \in {"idle", "missed"}
                 /\ task'[s].url \in {task[s].url, None}
  BY <1>2, OneEnds
<1>4. TypeOK'
  <2>1. warm' \in [Keys -> Sources]
    BY <1>2 DEF Handed, DirectInv, TypeOK
  <2> QED BY <1>2, <1>3, <2>1 DEF DirectInv, TypeOK, world
<1>5. Idle.at = "idle" /\ Idle.url = None
  BY DEF Idle
<1>6. Flies' /\ OneFlight'
  BY <1>2, <1>3, <1>5, SameRaces
<1>7. Known' /\ Private' /\ DeadIsDropped'
  BY <1>2, <1>3, <1>5, SameUrls DEF world
<1> QED BY <1>3, <1>4, <1>6, <1>7 DEF DirectInv

\* What a 403 leaves: nothing cached, and nothing to wait for.
LEMMA InvalidateLeaves ==
  ASSUME DirectInv, NEW t \in Tasks, task[t].url \in dead, Invalidate(t)
  PROVE  /\ cache' \in [Keys -> Sources] /\ inflight' \in [Keys -> RaceState]
         /\ promoted' \in Sources /\ exact' \in BOOLEAN /\ found' \subseteq dead
         /\ promoted' = None /\ found' = found \cup {task[t].url}
         /\ \A k \in Keys : cache'[k] = None /\ inflight'[k] = NoRace
<1>1. NoRace \in RaceState
  BY DEF NoRace, RaceState
<1> QED BY <1>1 DEF Invalidate, Dropped, Sources, DirectInv, TypeOK

\* Nobody waits for an extraction, and none runs.
LEMMA NothingFlies ==
  ASSUME \A k \in Keys : inflight'[k] = NoRace, \A s \in Tasks : task'[s].at # "flying"
  PROVE  Flies' /\ OneFlight'
  BY DEF Flies, OneFlight, Running, At, Kin

LEMMA ProbeFailsKeeps == ASSUME DirectInv, NEW t \in Tasks, ProbeFails(t) PROVE DirectInv'
<1>1. /\ Invalidate(t) /\ task[t].url \in dead /\ task[t].at = "probing"
      /\ UNCHANGED <<warm, challenged, minted, dead, calls>>
      /\ warming' = Left(warming, Cut(t))
  BY DEF ProbeFails, At
<1>2. PICK S \in SUBSET Tasks : S = Cut(t)
  BY DEF Cut
<1>3. PICK r : r = [task[t] EXCEPT !.at = "again", !.url = None, !.race = Race(Video(task[t].key))]
  OBVIOUS
<1>4. /\ r \in TaskState /\ r.prewarm = task[t].prewarm /\ r.key = task[t].key
      /\ r.at = "again" /\ r.url = None
  <2>1. Video(task[t].key) \in BOOLEAN
    BY DEF Video
  <2>2. Race(Video(task[t].key)) \in RaceState
    BY <2>1, RaceIs
  <2> QED BY <1>3, <2>2, TaskIs DEF TaskState, Sources
<1>5. PICK T : T = [task EXCEPT ![t] = r]
  OBVIOUS
<1>6. task' = Returned(T, S, None) /\ warming' = Left(warming, S)
  <2>1. T = [task EXCEPT ![t].at = "again", ![t].url = None,
                         ![t].race = Race(Video(task[t].key))]
    BY <1>3, <1>5, TaskIs DEF DirectInv, TypeOK
  <2> QED BY <1>1, <1>2, <2>1 DEF ProbeFails
<1>7. T \in [Tasks -> TaskState] /\ T[t] = r /\ \A s \in Tasks \ {t} : T[s] = task[s]
  BY <1>4, <1>5 DEF DirectInv, TypeOK
<1>8. t \notin S /\ \A s \in Tasks \ S : task[s].at # "flying"
  BY <1>1, <1>2 DEF Cut, At
<1>9. \A s \in Tasks \ S :
           \/ T[s] = task[s]
           \/ /\ task[s].at # "joined" /\ T[s].at \notin {"idle", "joined"}
              /\ task[s].at # "idle"
              /\ T[s].prewarm = task[s].prewarm /\ T[s].key = task[s].key
  BY <1>1, <1>4, <1>7
<1>10. /\ task' \in [Tasks -> TaskState] /\ warming' \in [Keys -> Tasks \cup {None}]
       /\ Prewarms' /\ Joins' /\ Keyed'
       /\ \A s \in S : task'[s] = Idle
       /\ \A s \in Tasks \ S :
              \/ task'[s] = T[s]
              \/ /\ task[s].at = "joined" /\ task'[s].at \in {"idle", "missed"}
                 /\ task'[s].url \in {task[s].url, None}
  BY <1>6, <1>7, <1>9, EndsKeep
<1>11. Idle.at = "idle" /\ Idle.url = None
  BY DEF Idle
<1>12. /\ cache' \in [Keys -> Sources] /\ inflight' \in [Keys -> RaceState]
       /\ promoted' \in Sources /\ exact' \in BOOLEAN /\ found' \subseteq dead
       /\ promoted' = None /\ found' = found \cup {task[t].url}
       /\ \A k \in Keys : cache'[k] = None /\ inflight'[k] = NoRace
  BY <1>1, InvalidateLeaves
<1>13. TypeOK'
  BY <1>1, <1>10, <1>12 DEF DirectInv, TypeOK
<1>14. \A s \in Tasks : s # t => \/ task'[s] = task[s] /\ s \notin S
                                 \/ task'[s].at \in {"idle", "missed"} /\ task'[s].url \in {task[s].url, None}
  BY <1>7, <1>10, <1>11
<1>15. task'[t].at \in {"again", "idle", "missed"} /\ task'[t].url \in {task[t].url, None}
  BY <1>4, <1>7, <1>8, <1>10
<1>16. Flies' /\ OneFlight'
  BY <1>8, <1>12, <1>14, <1>15, NothingFlies
<1>17. Known' /\ Private' /\ DeadIsDropped'
  <2>1. task[t].url # None
    BY <1>1, DirectAssumption DEF DirectInv, TypeOK
  <2>2. \A s \in Tasks :
           /\ task'[s].url \in {task[s].url, None}
           /\ task'[s].at = "proving" => s # t /\ task[s].at = "proving" /\ task'[s].url = task[s].url
    BY <1>14, <1>15
  <2> QED BY <1>1, <1>12, <2>1, <2>2, UrlsDropped
<1> QED BY <1>10, <1>13, <1>16, <1>17 DEF DirectInv

LEMMA AgainMissesKeeps == ASSUME DirectInv, NEW t \in Tasks, AgainMisses(t) PROVE DirectInv'
<1>1. PICK q \in Misses(task[t].race) : task' = [task EXCEPT ![t].race = q]
  BY DEF AgainMisses
<1>2. UNCHANGED <<caches, warming, inflight, exact, challenged, world>> /\ task[t].at = "again"
  BY DEF AgainMisses, At
<1>3. PICK r : r = [task[t] EXCEPT !.race = q]
  OBVIOUS
<1>4. /\ r \in TaskState /\ r.prewarm = task[t].prewarm /\ r.key = task[t].key /\ r.key \in Keys
      /\ r.at = "again" /\ r.url = task[t].url
  BY <1>2, <1>3, TaskIs, MissesAre DEF TaskState
<1>5. task' = [task EXCEPT ![t] = r]
  BY <1>1, <1>3, TaskIs DEF DirectInv, TypeOK
<1>6. /\ task' \in [Tasks -> TaskState] /\ Prewarms' /\ Joins' /\ Keyed'
      /\ task'[t] = r /\ \A s \in Tasks \ {t} : task'[s] = task[s]
  BY <1>2, <1>4, <1>5, StepKeeps
<1>7. TypeOK'
  BY <1>2, <1>6, TypesOfOthers DEF DirectInv, TypeOK
<1>8. Flies' /\ OneFlight'
  BY <1>2, <1>4, <1>6, SameRaces
<1>9. Known' /\ Private' /\ DeadIsDropped'
  BY <1>2, <1>4, <1>6, SameUrls DEF caches, world
<1> QED BY <1>6, <1>7, <1>8, <1>9 DEF DirectInv

\* A call that fails ends, or looks further if it was the promoted URL that failed.
LEMMA FailKeeps ==
  ASSUME DirectInv, NEW t \in Tasks, task[t].at \notin {"idle", "joined", "flying"},
         NEW S \in SUBSET Tasks, t \notin S, Fail(t, S)
  PROVE  /\ task' \in [Tasks -> TaskState] /\ warming' \in [Keys -> Tasks \cup {None}]
         /\ Prewarms' /\ Joins' /\ Keyed' /\ UNCHANGED warm
         /\ task'[t].at \in {"idle", "looking"} /\ task'[t].url = None
         /\ \A s \in S : task'[s].at = "idle" /\ task'[s].url = None
         /\ \A s \in Tasks \ S : s # t =>
              \/ task'[s] = task[s]
              \/ /\ task[s].at = "joined" /\ task'[s].at \in {"idle", "missed"}
                 /\ task'[s].url \in {task[s].url, None}
<1>1. PICK E \in SUBSET Tasks : E = IF task[t].exact THEN S ELSE S \cup {t}
  OBVIOUS
<1>2. PICK r : r = [Idle EXCEPT !.at = "looking", !.key = task[t].key, !.prewarm = task[t].prewarm]
  OBVIOUS
<1>3. /\ Idle.at = "idle" /\ Idle.url = None /\ r \in TaskState /\ r.at = "looking" /\ r.url = None
      /\ r.prewarm = task[t].prewarm /\ r.key = task[t].key
  <2>1. Idle \in TaskState
    BY DEF Idle, TaskState, Sources, RaceState, NoRace
  <2>2. Idle.at = "idle" /\ Idle.url = None
    BY DEF Idle
  <2> QED BY <1>2, <2>1, <2>2, TaskIs DEF TaskState
<1>4. PICK T : T = IF t \in E THEN task ELSE [task EXCEPT ![t] = r]
  OBVIOUS
<1>5. T \in [Tasks -> TaskState] /\ \A s \in Tasks : T[s] = IF s = t /\ t \notin E THEN r ELSE task[s]
  BY <1>3, <1>4 DEF DirectInv, TypeOK
<1>6. task' = Returned(T, E, None) /\ warming' = Left(warming, E) /\ UNCHANGED warm
  <2>1. CASE t \in E
    <3>1. task' = Returned(task, E, None) /\ warming' = Left(warming, E) /\ UNCHANGED warm
      BY <1>1, <2>1 DEF Fail
    <3> QED BY <1>4, <2>1, <3>1
  <2>2. CASE t \notin E
    <3>1. /\ task' = [Returned(task, E, None) EXCEPT ![t] = r]
          /\ warming' = Left(warming, E) /\ UNCHANGED warm
      BY <1>1, <1>2, <2>2 DEF Fail
    <3>2. t \notin Joined(E)
      BY DEF Joined, At
    <3>3. T = [task EXCEPT ![t] = r]
      BY <1>4, <2>2
    <3>4. \A s \in Tasks \ {t} : Returned(task, E, None)[s] = Returned(T, E, None)[s]
      BY <1>5 DEF Returned
    <3>5. Returned(T, E, None)[t] = r
      BY <1>5, <2>2, <3>2 DEF Returned
    <3>6. /\ Returned(task, E, None) = [s \in Tasks |-> Returned(task, E, None)[s]]
          /\ Returned(T, E, None) = [s \in Tasks |-> Returned(T, E, None)[s]]
      BY DEF Returned
    <3>7. [Returned(task, E, None) EXCEPT ![t] = r] = Returned(T, E, None)
      BY <3>4, <3>5, <3>6
    <3> QED BY <3>1, <3>7
  <2> QED BY <2>1, <2>2
<1>7. \A s \in Tasks \ E :
           \/ T[s] = task[s]
           \/ /\ task[s].at # "joined" /\ T[s].at \notin {"idle", "joined"}
              /\ task[s].at # "idle"
              /\ T[s].prewarm = task[s].prewarm /\ T[s].key = task[s].key
  BY <1>3, <1>5
<1>8. /\ task' \in [Tasks -> TaskState] /\ warming' \in [Keys -> Tasks \cup {None}]
      /\ Prewarms' /\ Joins' /\ Keyed'
      /\ \A s \in E : task'[s] = Idle
      /\ \A s \in Tasks \ E :
              \/ task'[s] = T[s]
              \/ /\ task[s].at = "joined" /\ task'[s].at \in {"idle", "missed"}
                 /\ task'[s].url \in {task[s].url, None}
  BY <1>5, <1>6, <1>7, EndsKeep
<1>9. \A s \in S : task'[s].at = "idle" /\ task'[s].url = None
  BY <1>1, <1>3, <1>8
<1>10. task'[t].at \in {"idle", "looking"} /\ task'[t].url = None
  BY <1>3, <1>5, <1>8
<1>11. \A s \in Tasks \ S : s # t =>
              \/ task'[s] = task[s]
              \/ /\ task[s].at = "joined" /\ task'[s].at \in {"idle", "missed"}
                 /\ task'[s].url \in {task[s].url, None}
  BY <1>1, <1>5, <1>8
<1> QED BY <1>6, <1>8, <1>9, <1>10, <1>11

LEMMA AgainLandsKeeps == ASSUME DirectInv, NEW t \in Tasks, AgainLands(t) PROVE DirectInv'
<1>1. UNCHANGED <<cache, inflight, exact, dead, found, calls>> /\ task[t].at = "again"
  BY DEF AgainLands, At
<1>2. CASE \E u \in Urls :
             /\ Won(task[t].race, u)
             /\ task' = [task EXCEPT ![t].at = "proving", ![t].url = u, ![t].race = NoRace]
             /\ UNCHANGED <<promoted, warm, warming>>
  <2>1. PICK u \in Urls :
             /\ Won(task[t].race, u)
             /\ task' = [task EXCEPT ![t].at = "proving", ![t].url = u, ![t].race = NoRace]
             /\ UNCHANGED <<promoted, warm, warming>>
    BY <1>2
  <2>2. u \in Urls \ minted /\ minted' = minted \cup {u} /\ challenged' = FALSE
    BY <2>1 DEF Won, Fresh
  <2>3. PICK r : r = [task[t] EXCEPT !.at = "proving", !.url = u, !.race = NoRace]
    OBVIOUS
  <2>4. /\ r \in TaskState /\ r.prewarm = task[t].prewarm /\ r.key = task[t].key /\ r.key \in Keys
        /\ r.at = "proving" /\ r.url = u
    <3>1. NoRace \in RaceState
      BY DEF NoRace, RaceState
    <3> QED BY <1>1, <2>3, <3>1, TaskIs DEF TaskState, Sources
  <2>5. task' = [task EXCEPT ![t] = r]
    BY <2>1, <2>3, TaskIs DEF DirectInv, TypeOK
  <2>6. /\ task' \in [Tasks -> TaskState] /\ Prewarms' /\ Joins' /\ Keyed'
        /\ task'[t] = r /\ \A s \in Tasks \ {t} : task'[s] = task[s]
    BY <2>1, <2>4, <2>5, StepKeeps
  <2>7. TypeOK'
    BY <1>1, <2>1, <2>2, <2>6 DEF DirectInv, TypeOK
  <2>8. Flies' /\ OneFlight'
    BY <1>1, <2>4, <2>6, SameRaces
  <2>9. None \notin Urls /\ found \subseteq minted /\ u \notin found /\ u # None
    BY <2>2, DirectAssumption DEF DirectInv, TypeOK
  <2>10. Known' /\ DeadIsDropped'
    BY <1>1, <2>1, <2>2, <2>4, <2>6 DEF DirectInv, Known, DeadIsDropped
  <2>11. \A s \in Tasks : task[s].url # u
    BY <2>2, <2>9 DEF DirectInv, Known
  <2>12. promoted # u /\ \A k \in Keys : cache[k] # u
    BY <2>2, <2>9 DEF DirectInv, Known
  <2>13. Private'
    <3>1. ASSUME NEW s \in Tasks, task'[s].at = "proving"
          PROVE  /\ task'[s].url \in Urls /\ task'[s].url \notin found' /\ promoted' # task'[s].url
                 /\ \A k \in Keys : cache'[k] # task'[s].url
                 /\ \A x \in Tasks \ {s} : task'[x].url # task'[s].url
      <4>1. CASE s = t
        BY <1>1, <2>1, <2>4, <2>6, <2>9, <2>11, <2>12, <4>1
      <4>2. CASE s # t
        <5>1. task'[s] = task[s] /\ task[s].at = "proving"
          BY <2>6, <3>1, <4>2
        <5>2. /\ task[s].url \in Urls /\ task[s].url \notin found /\ promoted # task[s].url
              /\ \A k \in Keys : cache[k] # task[s].url
              /\ \A x \in Tasks \ {s} : task[x].url # task[s].url
          BY <5>1 DEF DirectInv, Private, At
        <5> QED BY <1>1, <2>1, <2>4, <2>6, <2>11, <5>1, <5>2
      <4> QED BY <4>1, <4>2
    <3> QED BY <3>1 DEF Private, At
  <2> QED BY <2>6, <2>7, <2>8, <2>10, <2>13 DEF DirectInv
<1>3. CASE /\ Lost(task[t].race) /\ Fail(t, {})
           /\ promoted' = IF task[t].exact THEN None ELSE promoted
  <2>1. PICK S \in SUBSET Tasks : S = {}
    OBVIOUS
  <2>2. Fail(t, S) /\ t \notin S /\ task[t].at \notin {"idle", "joined", "flying"}
    BY <1>1, <1>3, <2>1
  <2>3. /\ task' \in [Tasks -> TaskState] /\ warming' \in [Keys -> Tasks \cup {None}]
        /\ Prewarms' /\ Joins' /\ Keyed' /\ UNCHANGED warm
        /\ task'[t].at \in {"idle", "looking"} /\ task'[t].url = None
        /\ \A s \in Tasks \ S : s # t =>
              \/ task'[s] = task[s]
              \/ /\ task[s].at = "joined" /\ task'[s].at \in {"idle", "missed"}
                 /\ task'[s].url \in {task[s].url, None}
    BY <2>2, FailKeeps
  <2>4. minted' = minted /\ challenged' \in BOOLEAN
    BY <1>3 DEF Lost, DirectInv, TypeOK
  <2>5. TypeOK'
    BY <1>1, <1>3, <2>3, <2>4 DEF DirectInv, TypeOK, Sources
  <2>6. Flies' /\ OneFlight'
    BY <1>1, <2>1, <2>3, SameRaces
  <2>7. Known' /\ Private' /\ DeadIsDropped'
    BY <1>1, <1>3, <2>1, <2>3, <2>4, SameUrls
  <2> QED BY <2>3, <2>5, <2>6, <2>7 DEF DirectInv
<1> QED BY <1>2, <1>3 DEF AgainLands

LEMMA ProvedKeeps == ASSUME DirectInv, NEW t \in Tasks, Proved(t) PROVE DirectInv'
<1>1. PICK u : u = task[t].url
  OBVIOUS
<1>2. /\ task' = Returned(task, {t}, u) /\ warming' = Left(warming, {t}) /\ warm' = Handed(warm, {t}, u)
      /\ UNCHANGED <<promoted, inflight, exact, challenged, world>>
      /\ cache' = Cached({task[t].key}, u)
  BY <1>1 DEF Proved, Return
<1>3. /\ u \in Urls /\ u \notin found /\ u \in minted
      /\ \A s \in Tasks \ {t} : task[s].url # u
  BY <1>1, DirectAssumption DEF Proved, At, DirectInv, Private, Known
<1>4. /\ task' \in [Tasks -> TaskState] /\ warming' \in [Keys -> Tasks \cup {None}]
      /\ Prewarms' /\ Joins' /\ Keyed'
      /\ task'[t] = Idle
      /\ \A s \in Tasks \ {t} :
              \/ task'[s] = task[s]
              \/ /\ task[s].at = "joined" /\ task'[s].at \in {"idle", "missed"}
                 /\ task'[s].url \in {task[s].url, None}
  BY <1>2, OneEnds
<1>5. cache' \in [Keys -> Sources] /\ \A k \in Keys : cache'[k] \in {cache[k], u}
  BY <1>2, <1>3 DEF Cached, DirectInv, TypeOK, Sources
<1>6. TypeOK'
  <2>1. warm' \in [Keys -> Sources]
    BY <1>2, <1>3 DEF Handed, DirectInv, TypeOK, Sources
  <2> QED BY <1>2, <1>4, <1>5, <2>1 DEF DirectInv, TypeOK, world
<1>7. Idle.at = "idle" /\ Idle.url = None
  BY DEF Idle
<1>8. Flies' /\ OneFlight'
  BY <1>2, <1>4, <1>7, SameRaces
<1>9. Known' /\ DeadIsDropped'
  <2>1. UNCHANGED <<promoted, minted, found>>
    BY <1>2 DEF world
  <2>2. \A s \in Tasks : task'[s].url \in {task[s].url, None}
    BY <1>4, <1>7
  <2>3. Known'
    BY <1>3, <1>5, <2>1, <2>2 DEF DirectInv, Known
  <2>4. DeadIsDropped'
    BY <1>3, <1>5, <2>1 DEF DirectInv, DeadIsDropped
  <2> QED BY <2>3, <2>4
<1>10. Private'
  <2>1. ASSUME NEW s \in Tasks, task'[s].at = "proving"
        PROVE  /\ task'[s].url \in Urls /\ task'[s].url \notin found' /\ promoted' # task'[s].url
               /\ \A k \in Keys : cache'[k] # task'[s].url
               /\ \A x \in Tasks \ {s} : task'[x].url # task'[s].url
    <3>1. s # t /\ task'[s] = task[s] /\ task[s].at = "proving"
      BY <1>4, <1>7, <2>1
    <3>2. /\ task[s].url \in Urls /\ task[s].url \notin found /\ promoted # task[s].url
          /\ \A k \in Keys : cache[k] # task[s].url
          /\ \A x \in Tasks \ {s} : task[x].url # task[s].url
      BY <3>1 DEF DirectInv, Private, At
    <3>3. None # task[s].url /\ task[s].url # u
      BY <1>3, <3>1, <3>2, DirectAssumption
    <3>4. \A x \in Tasks \ {s} : task'[x].url \in {task[x].url, None}
      BY <1>4, <1>7
    <3> QED BY <1>2, <1>5, <3>1, <3>2, <3>3, <3>4 DEF world
  <2> QED BY <2>1 DEF Private, At
<1> QED BY <1>4, <1>6, <1>8, <1>9, <1>10 DEF DirectInv

LEMMA ProofFailsKeeps == ASSUME DirectInv, NEW t \in Tasks, ProofFails(t) PROVE DirectInv'
<1>1. /\ Invalidate(t) /\ task[t].url \in dead /\ task[t].at = "proving"
      /\ UNCHANGED <<challenged, minted, dead, calls>>
  BY DEF ProofFails, At
<1>2. PICK S \in SUBSET Tasks : S = Cut(t)
  BY DEF Cut
<1>3. Fail(t, S) /\ t \notin S /\ \A s \in Tasks \ S : task[s].at # "flying"
  BY <1>1, <1>2 DEF ProofFails, Cut, At
<1>4. /\ task' \in [Tasks -> TaskState] /\ warming' \in [Keys -> Tasks \cup {None}]
      /\ Prewarms' /\ Joins' /\ Keyed' /\ UNCHANGED warm
      /\ task'[t].at \in {"idle", "looking"} /\ task'[t].url = None
      /\ \A s \in S : task'[s].at = "idle" /\ task'[s].url = None
      /\ \A s \in Tasks \ S : s # t =>
              \/ task'[s] = task[s]
              \/ /\ task[s].at = "joined" /\ task'[s].at \in {"idle", "missed"}
                 /\ task'[s].url \in {task[s].url, None}
  BY <1>1, <1>3, FailKeeps
<1>5. /\ cache' \in [Keys -> Sources] /\ inflight' \in [Keys -> RaceState]
      /\ promoted' \in Sources /\ exact' \in BOOLEAN /\ found' \subseteq dead
      /\ promoted' = None /\ found' = found \cup {task[t].url}
      /\ \A k \in Keys : cache'[k] = None /\ inflight'[k] = NoRace
  BY <1>1, InvalidateLeaves
<1>6. TypeOK'
  BY <1>1, <1>4, <1>5 DEF DirectInv, TypeOK
<1>7. Flies' /\ OneFlight'
  BY <1>3, <1>4, <1>5, NothingFlies
<1>8. Known' /\ Private' /\ DeadIsDropped'
  <2>1. task[t].url # None
    BY <1>1, DirectAssumption DEF DirectInv, TypeOK
  <2>2. \A s \in Tasks :
           /\ task'[s].url \in {task[s].url, None}
           /\ task'[s].at = "proving" => s # t /\ task[s].at = "proving" /\ task'[s].url = task[s].url
    BY <1>4
  <2> QED BY <1>1, <1>5, <2>1, <2>2, UrlsDropped
<1> QED BY <1>4, <1>6, <1>7, <1>8 DEF DirectInv

\* What no coroutine does leaves what they wait for.
LEMMA TasksStay ==
  ASSUME DirectInv, UNCHANGED <<warming, inflight, task>>
  PROVE  Prewarms' /\ Joins' /\ Keyed' /\ Flies' /\ OneFlight'
<1>1. Prewarms' /\ Joins' /\ Keyed'
  BY DEF DirectInv, Prewarms, Joins, Keyed, At, Kin, Video
<1>2. Flies' /\ OneFlight'
  BY SameRaces
<1> QED BY <1>1, <1>2

LEMMA Land140Keeps == ASSUME DirectInv, Land140 PROVE DirectInv'
<1>1. UNCHANGED <<cache, warm, warming, inflight, task, dead, found, calls>> /\ exact' = FALSE
  BY DEF Land140
<1>2. Prewarms' /\ Joins' /\ Keyed' /\ Flies' /\ OneFlight'
  BY <1>1, TasksStay
<1>3. CASE \E u \in Fresh : promoted' = u /\ minted' = minted \cup {u} /\ challenged' = FALSE
  <2>1. PICK u \in Fresh : promoted' = u /\ minted' = minted \cup {u} /\ challenged' = FALSE
    BY <1>3
  <2>2. TypeOK'
    BY <1>1, <2>1 DEF DirectInv, TypeOK, Fresh, Sources
  <2>3. Known' /\ Private' /\ DeadIsDropped'
    BY <1>1, <2>1, UrlMinted
  <2> QED BY <1>2, <2>2, <2>3 DEF DirectInv
<1>4. CASE UNCHANGED <<promoted, minted>> /\ challenged' \in {challenged, TRUE}
  <2>1. TypeOK'
    BY <1>1, <1>4 DEF DirectInv, TypeOK
  <2>2. Known' /\ Private' /\ DeadIsDropped'
    BY <1>1, <1>4, SameUrls
  <2> QED BY <1>2, <2>1, <2>2 DEF DirectInv
<1> QED BY <1>3, <1>4 DEF Land140

LEMMA CancelKeeps == ASSUME DirectInv, NEW t \in Tasks, Cancel(t) PROVE DirectInv'
<1>1. PICK r : r = IF At(t, "joined") THEN [task[t] EXCEPT !.at = "missed", !.on = None] ELSE Idle
  OBVIOUS
<1>2. /\ task' = [task EXCEPT ![t] = r] /\ ~task[t].prewarm /\ task[t].at # "idle"
      /\ UNCHANGED <<caches, warming, inflight, exact, challenged, world>>
  BY <1>1 DEF Cancel, At, DirectInv, TypeOK
<1>3. /\ r \in TaskState /\ r.prewarm = FALSE /\ r.at \in {"idle", "missed"}
      /\ r.at = "missed" => r.key = task[t].key
      /\ r.url \in {task[t].url, None}
  <2>1. CASE At(t, "joined")
    BY <1>1, <1>2, <2>1, TaskIs DEF TaskState
  <2>2. CASE ~At(t, "joined")
    BY <1>1, <2>2 DEF Idle, TaskState, Sources, RaceState, NoRace
  <2> QED BY <2>1, <2>2
<1>4. /\ task' \in [Tasks -> TaskState] /\ task'[t] = r
      /\ \A s \in Tasks \ {t} : task'[s] = task[s]
  BY <1>2, <1>3 DEF DirectInv, TypeOK
<1>5. TypeOK'
  BY <1>2, <1>4, TypesOfOthers DEF DirectInv, TypeOK
<1>6. Prewarms' /\ Joins'
  <2>1. PICK S \in SUBSET Tasks : S = {}
    OBVIOUS
  <2>2. \A s \in Tasks \ S :
           /\ task'[s].prewarm = task[s].prewarm
           /\ task[s].prewarm => task'[s].key = task[s].key /\ task'[s].at \notin {"idle", "joined"}
           /\ task'[s].at = "joined" => /\ task[s].at = "joined" /\ task'[s].on = task[s].on
                                        /\ task[s].on \notin S
    BY <1>2, <1>3, <1>4, <2>1, PrewarmJoinsNone, TaskIs
  <2>3. /\ \A k \in Keys : warming'[k] = IF warming[k] \in S THEN None ELSE warming[k]
        /\ \A s \in S : task'[s] = Idle
    BY <1>2, <2>1
  <2> QED BY <2>2, <2>3, PartsKeep
<1>7. Keyed'
  BY <1>2, <1>3, <1>4 DEF DirectInv, Keyed, At
<1>8. Flies' /\ OneFlight'
  BY <1>2, <1>3, <1>4, SameRaces
<1>9. Known' /\ Private' /\ DeadIsDropped'
  BY <1>2, <1>3, <1>4, SameUrls DEF caches, world
<1> QED BY <1>5, <1>6, <1>7, <1>8, <1>9 DEF DirectInv

LEMMA TimeKeeps == ASSUME DirectInv, Warm140 \/ Die \/ Expire \/ UNCHANGED vars PROVE DirectInv'
<1>1. UNCHANGED <<warming, inflight, task, minted, found>>
  BY DEF Warm140, Die, Expire, vars, caches, world
<1>2. Prewarms' /\ Joins' /\ Keyed' /\ Flies' /\ OneFlight'
  BY <1>1, TasksStay
<1>3. promoted' \in {promoted, None} /\ \A k \in Keys : cache'[k] \in {cache[k], None}
  <2>1. CASE Warm140 \/ Die \/ UNCHANGED vars
    BY <2>1 DEF Warm140, Die, vars, caches
  <2>2. CASE Expire
    BY <2>2 DEF Expire, caches, DirectInv, TypeOK
  <2> QED BY <2>1, <2>2
<1>4. Known' /\ Private' /\ DeadIsDropped'
  BY <1>1, <1>3, SameUrls
<1>5. TypeOK'
  <2>1. CASE Warm140
    BY <2>1 DEF Warm140, DirectInv, TypeOK, caches, world
  <2>2. CASE Die
    BY <2>2 DEF Die, DirectInv, TypeOK, caches
  <2>3. CASE Expire
    BY <2>3 DEF Expire, DirectInv, TypeOK, caches, world, Sources
  <2>4. CASE UNCHANGED vars
    BY <2>4 DEF vars, DirectInv, TypeOK, caches, world
  <2> QED BY <2>1, <2>2, <2>3, <2>4
<1> QED BY <1>2, <1>4, <1>5 DEF DirectInv

-----------------------------------------------------------------------------
LEMMA InitKeeps == Init => DirectInv
<1> SUFFICES ASSUME Init PROVE DirectInv
  OBVIOUS
<1>1. /\ Idle \in TaskState /\ Idle.at = "idle" /\ Idle.prewarm = FALSE /\ Idle.url = None
      /\ NoRace \in RaceState
  BY DEF Idle, TaskState, Sources, RaceState, NoRace
<1>2. TypeOK
  BY <1>1 DEF Init, TypeOK, Sources
<1>3. OneFlight /\ Flies /\ Keyed
  BY <1>1 DEF Init, OneFlight, Flies, Keyed, Running, At, Kin
<1>4. Prewarms /\ Joins
  BY <1>1 DEF Init, Prewarms, Joins, At, Kin
<1>5. Known /\ Private /\ DeadIsDropped
  BY <1>1 DEF Init, Known, Private, DeadIsDropped, At
<1> QED BY <1>2, <1>3, <1>4, <1>5 DEF DirectInv

LEMMA NextKeeps == ASSUME DirectInv, [Next]_vars PROVE DirectInv'
<1>1. ASSUME NEW t \in Tasks, Call(t) \/ Prewarm(t) \/ Step(t) \/ Cancel(t) PROVE DirectInv'
  <2>1. CASE Step(t)
    BY <2>1, TryPromotedKeeps, TakeWarmKeeps, JoinWarmKeeps, TryCachedKeeps, FlyKeeps,
       ProbePassesKeeps, ProbeFailsKeeps, AgainMissesKeeps, AgainLandsKeeps, ProvedKeeps,
       ProofFailsKeeps DEF Step
  <2> QED BY <1>1, <2>1, CallKeeps, PrewarmKeeps, CancelKeeps
<1>2. ASSUME NEW k \in Keys, Extract(k) PROVE DirectInv'
  BY <1>2, LaneMissesKeeps, LandsKeeps DEF Extract
<1>3. CASE Land140
  BY <1>3, Land140Keeps
<1>4. CASE Warm140 \/ Die \/ Expire \/ UNCHANGED vars
  BY <1>4, TimeKeeps
<1> QED BY <1>1, <1>2, <1>3, <1>4 DEF Next

\* All the parts together are inductive, whatever the lanes and the network do.
THEOREM DirectInvHolds == Spec => []DirectInv
<1>1. DirectInv /\ [Next]_vars => DirectInv'
  BY NextKeeps
<1> QED BY InitKeeps, <1>1, PTL DEF Spec

\* One extraction serves all tiers of a kind, whoever asks for which.
THEOREM OneFlightHolds == Spec => []OneFlight
<1>1. DirectInv => OneFlight
  BY DEF DirectInv
<1> QED BY DirectInvHolds, <1>1, PTL

\* A URL that a probe has found dead is neither among the cached results of a key
\* nor promoted.
THEOREM DeadIsDroppedHolds == Spec => []DeadIsDropped
<1>1. DirectInv => DeadIsDropped
  BY DEF DirectInv
<1> QED BY DirectInvHolds, <1>1, PTL

\* Whoever waits, waits for a prewarm or an extraction that is under way; no two
\* wait for each other.
THEOREM NobodyWaitsInVainHolds == Spec => []NobodyWaitsInVain
<1>1. DirectInv => NobodyWaitsInVain
  BY DEF DirectInv, NobodyWaitsInVain, Joins, Flies
<1> QED BY DirectInvHolds, <1>1, PTL

=============================================================================
