---------------------------- MODULE DirectSource ----------------------------
(* How the bot gets the direct URL of one YouTube video (core/youtube.py): the *)
(* calls of resolve_direct_stream_source() and the prewarm tasks that the      *)
(* search starts, what they share, and what a 403 of the CDN undoes.  A key is *)
(* the kind, audio or video, and for video the quality tier.  A URL is minted  *)
(* by an extraction, proven when it is minted, and may be dead later.  What a  *)
(* coroutine does without waiting for the network or a worker is one step: all *)
(* who wait for an extraction go on in the step that ends it.                  *)
EXTENDS Integers, FiniteSets

CONSTANTS Audio,       \* the key of the audio
          Tiers,       \* the keys of the video, one for each tier
          Untiered,    \* the one of them that stands for no tier
          Tasks,       \* the coroutines under way at once
          Urls,        \* the bound on the URLs that are minted
          Lanes,       \* the lanes that race at the start of an extraction
          None,
          CookieFree,  \* config.COOKIE_FREE_MODE
          MayCancel,   \* BOOLEAN: a call may be cancelled
          MaxCalls     \* the bound on the calls and prewarms

Keys        == {Audio} \cup Tiers
Video(k)    == k # Audio
Kin(k)      == {l \in Keys : Video(l) <=> Video(k)}
Sources     == Urls \cup {None}

ASSUME DirectAssumption ==
    /\ Audio \notin Tiers /\ Untiered \in Tiers
    /\ None \notin Urls \cup Tasks \cup Keys
    /\ Lanes # {}
    /\ CookieFree \in BOOLEAN /\ MayCancel \in BOOLEAN
    /\ MaxCalls \in Nat

VARIABLES cache,       \* _direct_stream_source_cache
          promoted,    \* _direct_audio140_cache
          warm,        \* _direct_warm_results
          warming,     \* _direct_warm_tasks
          inflight,    \* _direct_stream_inflight: the extraction of each key
          exact,       \* the background extraction of _direct_audio140_tasks runs
          challenged,  \* the video is in _auth_challenge_videos
          task,        \* what each coroutine is doing
          minted,      \* the URLs minted so far
          dead,        \* those that the CDN answers with 403 by now
          found,       \* history: those that a probe has found dead
          calls        \* the calls and prewarms so far

caches == <<cache, promoted, warm>>
world  == <<minted, dead, found, calls>>
vars   == <<caches, warming, inflight, exact, challenged, task, world>>

\* An extraction: the lanes still racing, and whether a robust profile follows.
\* A video that asked for a login is not tried, unless cookies are never used.
NoRace       == [at |-> "none", lanes |-> {}, robust |-> FALSE]
Race(robust) == IF challenged /\ ~CookieFree THEN [NoRace EXCEPT !.at = "refused"]
                ELSE [at |-> "racing", lanes |-> Lanes, robust |-> robust]
RaceState    == [at : {"none", "refused", "racing", "robust"}, lanes : SUBSET Lanes,
                 robust : BOOLEAN]

Idle == [at |-> "idle",        \* how far it is
         key |-> None,
         prewarm |-> FALSE,    \* it is a task of _direct_warm_tasks
         on |-> None,          \* the prewarm or the key of the extraction it awaits
         url |-> None,         \* the URL that it is probing
         exact |-> FALSE,      \* that URL is the promoted one
         race |-> NoRace]      \* its own extraction after a 403

TaskState == [at : {"idle", "begun", "looking", "joined", "missed", "flying", "probing",
                    "again", "proving"},
              key : Keys \cup {None}, prewarm : BOOLEAN, on : Tasks \cup Keys \cup {None},
              url : Sources, exact : BOOLEAN, race : RaceState]

At(t, phase) == task[t].at = phase
Running(k)   == inflight[k] # NoRace

Init ==
    /\ cache = [k \in Keys |-> None] /\ promoted = None
    /\ warm = [k \in Keys |-> None] /\ warming = [k \in Keys |-> None]
    /\ inflight = [k \in Keys |-> NoRace] /\ exact = FALSE
    /\ challenged = FALSE
    /\ task = [t \in Tasks |-> Idle]
    /\ minted = {} /\ dead = {} /\ found = {} /\ calls = 0

-----------------------------------------------------------------------------
(* The end of a call.  A prewarm leaves its URL for the next call of its key;  *)
(* those who joined it answer with it, or look further if there is none.       *)

Joined(S) == {t \in Tasks : At(t, "joined") /\ task[t].on \in S}

\* The coroutines of S return u; T says what the others do.
Returned(T, S, u) ==
    [t \in Tasks |-> IF t \in S THEN Idle
                     ELSE IF t \notin Joined(S) THEN T[t]
                     ELSE IF u = None THEN [T[t] EXCEPT !.at = "missed", !.on = None] ELSE Idle]
Left(w, S)   == [k \in Keys |-> IF w[k] \in S THEN None ELSE w[k]]
Handed(w, S, u) == [k \in Keys |-> IF u # None /\ warming[k] \in S THEN u ELSE w[k]]

Return(S, u) ==
    /\ task' = Returned(task, S, u)
    /\ warming' = Left(warming, S)
    /\ warm' = Handed(warm, S, u)

\* A source is cached for its key and for no tier.
Slots(k)     == IF Video(k) THEN {k, Untiered} ELSE {k}
Cached(K, u) == [l \in Keys |-> IF l \in UNION {Slots(k) : k \in K} THEN u ELSE cache[l]]

-----------------------------------------------------------------------------
(* resolve_direct_stream_source                                                *)

Probe(t, u)  == task' = [task EXCEPT ![t].at = "probing", ![t].url = u]

\* A call, from play_media.
Call(t) ==
    /\ At(t, "idle") /\ calls < MaxCalls
    /\ calls' = calls + 1
    /\ \E k \in Keys : task' = [task EXCEPT ![t].at = "begun", ![t].key = k]
    /\ UNCHANGED <<caches, warming, inflight, exact, challenged, minted, dead, found>>

\* warm_direct_stream_source: a search has found the video.  Nothing is begun
\* beside a cached source or an extraction of any tier of that kind.
Prewarm(t) ==
    /\ At(t, "idle") /\ calls < MaxCalls
    /\ \E k \in Keys :
          /\ ~Video(k) => promoted = None
          /\ cache[k] = None
          /\ \A l \in Kin(k) : warming[l] = None /\ ~Running(l)
          /\ task' = [task EXCEPT ![t].at = "begun", ![t].key = k, ![t].prewarm = TRUE]
          /\ warming' = [warming EXCEPT ![k] = t]
    /\ calls' = calls + 1
    /\ UNCHANGED <<caches, inflight, exact, challenged, minted, dead, found>>

\* An audio URL that was minted in the background is probed first.
Promoted(t) == ~Video(task[t].key) /\ promoted # None

TryPromoted(t) ==
    /\ At(t, "begun") /\ Promoted(t)
    /\ task' = [task EXCEPT ![t].at = "probing", ![t].url = promoted, ![t].exact = TRUE]
    /\ UNCHANGED <<caches, warming, inflight, exact, challenged, world>>

Looks(t) == At(t, "looking") \/ (At(t, "begun") /\ ~Promoted(t))

\* Mutants: a call looks at its own key only, or may take its own prewarm for
\* another's.
OwnKey(k)       == {k}
AnyPrewarm(t)   == {warming[k] : k \in Kin(task[t].key)} \ {None}

\* Those whose work serves key k: for video, any tier.
Compatible(k)   == Kin(k)
OthersPrewarm(t) == {warming[k] : k \in Kin(task[t].key)} \ {None, t}
WarmFor(t)      == IF warm[task[t].key] # None THEN {task[t].key}
                   ELSE {k \in Kin(task[t].key) : warm[k] # None}

\* The result of a prewarm is handed over once.
TakeWarm(t) ==
    /\ Looks(t)
    /\ \E k \in WarmFor(t) :
          /\ warm' = Handed([warm EXCEPT ![k] = None], {t}, warm[k])
          /\ task' = Returned(task, {t}, warm[k])
          /\ warming' = Left(warming, {t})
    /\ UNCHANGED <<cache, promoted, inflight, exact, challenged, world>>

\* A prewarm that is under way is awaited, behind a shield.
JoinWarm(t) ==
    /\ Looks(t) /\ WarmFor(t) = {}
    /\ \E w \in OthersPrewarm(t) :
          task' = [task EXCEPT ![t].at = "joined", ![t].on = w]
    /\ UNCHANGED <<caches, warming, inflight, exact, challenged, world>>

Further(t) == At(t, "missed") \/ (Looks(t) /\ WarmFor(t) = {} /\ OthersPrewarm(t) = {})
CachedFor(t) == {cache[k] : k \in Kin(task[t].key)} \ {None}

\* A cached URL of any tier is probed.
TryCached(t) ==
    /\ Further(t)
    /\ \E u \in CachedFor(t) : Probe(t, u)
    /\ UNCHANGED <<caches, warming, inflight, exact, challenged, world>>

\* An extraction of any tier is joined, or one is begun.
Fly(t) ==
    /\ Further(t) /\ CachedFor(t) = {}
    /\ LET k == task[t].key
           R == {l \in Compatible(k) : Running(l)}
       IN  \E l \in IF R = {} THEN {k} ELSE R :
              /\ task' = [task EXCEPT ![t].at = "flying", ![t].on = l]
              /\ inflight' = IF R = {} THEN [inflight EXCEPT ![k] = Race(TRUE)] ELSE inflight
    /\ UNCHANGED <<caches, warming, exact, challenged, world>>

-----------------------------------------------------------------------------
(* _resolve_direct_stream_source_uncached: lanes race, each with a probe of    *)
(* its own, and the first valid URL wins; after them the robust profile, if it *)
(* is allowed.  A lane that loses goes on unheard.                             *)

Fresh == Urls \ minted

\* The lanes of r that have not answered may miss.
Misses(r) == {[r EXCEPT !.lanes = @ \ {l},
                        !.at = IF r.lanes = {l} /\ r.robust THEN "robust" ELSE @] : l \in r.lanes}

\* r ends with a URL, or with none.
Won(r, u) ==
    /\ r.at = "robust" \/ r.lanes # {}
    /\ u \in Fresh
    /\ minted' = minted \cup {u}
    /\ challenged' = FALSE

Lost(r) ==
    /\ \/ r.at = "robust" /\ challenged' \in {challenged, TRUE}
       \/ r.at \in {"racing", "refused"} /\ r.lanes = {} /\ UNCHANGED challenged
    /\ UNCHANGED minted

LaneMisses(k) ==
    /\ Running(k)
    /\ \E r \in Misses(inflight[k]) : inflight' = [inflight EXCEPT ![k] = r]
    /\ UNCHANGED <<caches, warming, exact, challenged, task, world>>

Waiting(k) == {t \in Tasks : At(t, "flying") /\ task[t].on = k}

\* The extraction of key k ends.  It was proven, so nobody probes it again.
Land(k, u) ==
    /\ IF u = None THEN Lost(inflight[k]) ELSE Won(inflight[k], u)
    /\ inflight' = [inflight EXCEPT ![k] = NoRace]
    /\ cache' = IF u = None THEN cache ELSE Cached({task[t].key : t \in Waiting(k)}, u)
    /\ Return(Waiting(k), u)
    /\ UNCHANGED <<promoted, exact, dead, found, calls>>

Lands(k) == Running(k) /\ \E u \in Sources : Land(k, u)

-----------------------------------------------------------------------------
(* _validated_direct_source                                                    *)

\* Mutant: a 403 drops the cached URL of one key.
DroppedKey(t)  == [cache EXCEPT ![task[t].key] = None]

\* invalidate_direct_stream: every cached URL of the video goes, and so do the
\* extractions under way, with those who wait for them.
Dropped(t)     == [k \in Keys |-> None]
Cut(t)         == {s \in Tasks : At(s, "flying")}

Invalidate(t) ==
    /\ cache' = Dropped(t)
    /\ promoted' = None
    /\ inflight' = [k \in Keys |-> NoRace]
    /\ exact' = FALSE
    /\ found' = found \cup {task[t].url}

\* The call fails, and those of S with it; but a promoted URL that fails is not
\* the end of a call.
Fail(t, S) ==
    LET E == IF task[t].exact THEN S ELSE S \cup {t}
        T == Returned(task, E, None)
    IN  /\ task' = IF t \in E THEN T
                   ELSE [T EXCEPT ![t] = [Idle EXCEPT !.at = "looking", !.key = task[t].key,
                                                      !.prewarm = task[t].prewarm]]
        /\ warming' = Left(warming, E)
        /\ UNCHANGED warm

\* The answer is not 403, or there is none in time.
ProbePasses(t) ==
    /\ At(t, "probing")
    /\ Return({t}, task[t].url)
    /\ UNCHANGED <<cache, promoted, inflight, exact, challenged, world>>

\* 403: everything is dropped, and one extraction of its own follows.
ProbeFails(t) ==
    /\ At(t, "probing") /\ task[t].url \in dead
    /\ Invalidate(t)
    /\ task' = Returned([task EXCEPT ![t].at = "again", ![t].url = None,
                                     ![t].race = Race(Video(task[t].key))], Cut(t), None)
    /\ warming' = Left(warming, Cut(t))
    /\ UNCHANGED <<warm, challenged, minted, dead, calls>>

AgainMisses(t) ==
    /\ At(t, "again")
    /\ \E r \in Misses(task[t].race) : task' = [task EXCEPT ![t].race = r]
    /\ UNCHANGED <<caches, warming, inflight, exact, challenged, world>>

AgainLands(t) ==
    /\ At(t, "again")
    /\ \/ \E u \in Urls :
             /\ Won(task[t].race, u)
             /\ task' = [task EXCEPT ![t].at = "proving", ![t].url = u, ![t].race = NoRace]
             /\ UNCHANGED <<promoted, warm, warming>>
       \/ /\ Lost(task[t].race)
          /\ Fail(t, {})
          /\ promoted' = IF task[t].exact THEN None ELSE promoted
    /\ UNCHANGED <<cache, inflight, exact, dead, found, calls>>

Proved(t) ==
    /\ At(t, "proving")
    /\ cache' = Cached({task[t].key}, task[t].url)
    /\ Return({t}, task[t].url)
    /\ UNCHANGED <<promoted, inflight, exact, challenged, world>>

\* A second 403 is the last.
ProofFails(t) ==
    /\ At(t, "proving") /\ task[t].url \in dead
    /\ Invalidate(t)
    /\ Fail(t, Cut(t))
    /\ UNCHANGED <<challenged, minted, dead, calls>>

-----------------------------------------------------------------------------
(* warm_audio140_source                                                        *)

Warm140 ==
    /\ ~exact /\ promoted = None
    /\ exact' = TRUE
    /\ UNCHANGED <<caches, warming, inflight, challenged, task, world>>

Land140 ==
    /\ exact /\ exact' = FALSE
    /\ \/ \E u \in Fresh :
             promoted' = u /\ minted' = minted \cup {u} /\ challenged' = FALSE
       \/ UNCHANGED <<promoted, minted>> /\ challenged' \in {challenged, TRUE}
    /\ UNCHANGED <<cache, warm, warming, inflight, task, dead, found, calls>>

-----------------------------------------------------------------------------
(* The owner of a call cancels it.  One that waits for a prewarm takes this    *)
(* for a failure of the prewarm.                                               *)

Cancel(t) ==
    /\ MayCancel
    /\ ~At(t, "idle") /\ ~task[t].prewarm
    /\ task' = [task EXCEPT ![t] = IF At(t, "joined") THEN [@ EXCEPT !.at = "missed", !.on = None]
                                   ELSE Idle]
    /\ UNCHANGED <<caches, warming, inflight, exact, challenged, world>>

(* Time.                                                                       *)

Die ==
    /\ \E u \in minted \ dead : dead' = dead \cup {u}
    /\ UNCHANGED <<caches, warming, inflight, exact, challenged, task, minted, found, calls>>

Expire ==
    /\ \/ \E k \in Keys : cache[k] # None /\ cache' = [cache EXCEPT ![k] = None]
                          /\ UNCHANGED <<promoted, warm, challenged>>
       \/ \E k \in Keys : warm[k] # None /\ warm' = [warm EXCEPT ![k] = None]
                          /\ UNCHANGED <<cache, promoted, challenged>>
       \/ promoted # None /\ promoted' = None /\ UNCHANGED <<cache, warm, challenged>>
       \/ challenged /\ challenged' = FALSE /\ UNCHANGED caches
    /\ UNCHANGED <<warming, inflight, exact, task, world>>

-----------------------------------------------------------------------------
Step(t) == TryPromoted(t) \/ TakeWarm(t) \/ JoinWarm(t) \/ TryCached(t) \/ Fly(t)
           \/ ProbePasses(t) \/ ProbeFails(t) \/ AgainMisses(t) \/ AgainLands(t)
           \/ Proved(t) \/ ProofFails(t)
Extract(k) == LaneMisses(k) \/ Lands(k)

Next == \/ \E t \in Tasks : Call(t) \/ Prewarm(t) \/ Step(t) \/ Cancel(t)
        \/ \E k \in Keys : Extract(k)
        \/ Warm140 \/ Land140 \/ Die \/ Expire

Spec == Init /\ [][Next]_vars

FairSpec == /\ Spec
            /\ \A t \in Tasks : WF_vars(Step(t))
            /\ \A k \in Keys : WF_vars(Extract(k))

-----------------------------------------------------------------------------
TypeOK ==
    /\ cache \in [Keys -> Sources] /\ promoted \in Sources /\ warm \in [Keys -> Sources]
    /\ warming \in [Keys -> Tasks \cup {None}]
    /\ inflight \in [Keys -> RaceState] /\ exact \in BOOLEAN /\ challenged \in BOOLEAN
    /\ task \in [Tasks -> TaskState]
    /\ minted \subseteq Urls /\ dead \subseteq minted /\ found \subseteq dead
    /\ calls \in Nat

\* One extraction serves all tiers of a kind: no change of the tier between the
\* search and the start begins a second one beside it.
OneFlight == \A k \in Keys : \A l \in Kin(k) : Running(k) /\ Running(l) => k = l

\* A URL that a probe has found dead is neither among the cached results of a key
\* nor promoted; the kept results of prewarms (warm) are not purged by the code.
DeadIsDropped == \A u \in found : promoted # u /\ \A k \in Keys : cache[k] # u

\* Whoever waits, waits for a prewarm or an extraction that is under way, and no
\* two wait for each other.
NobodyWaitsInVain ==
    \A t \in Tasks :
       /\ At(t, "joined") => \E w \in Tasks \ {t} : /\ task[t].on = w
                                                   /\ task[w].prewarm /\ ~At(w, "joined")
       /\ At(t, "flying") => \E k \in Keys : task[t].on = k /\ Running(k)

\* Every call ends, whatever it joined.
CallsEnd == \A t \in Tasks : ~At(t, "idle") ~> At(t, "idle")

\* Nobody is handed a URL that a probe has found dead.
NoDeadHandedOver ==
    [][\A t \in Tasks : TakeWarm(t) => \A u \in found : \E k \in WarmFor(t) : warm[k] # u]_vars

\* The 403 of one call ends no other call.
CutsNobody ==
    [][\A t \in Tasks : ProbeFails(t) \/ ProofFails(t) =>
          \A s \in Cut(t) : task[s].prewarm]_vars

\* A cancelled call is over.
CancelEnds == [][\A t \in Tasks : Cancel(t) => task'[t] = Idle]_vars
=============================================================================
