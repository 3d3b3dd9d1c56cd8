# Verification of AnonX_3

TLA+ models of the parts of AnonX_3 whose correctness depends on the order in
which coroutines, tasks and processes run; the TLC configurations that check
them on small instances; and proofs, checked by TLAPS, of what matters most in
them. AnonX_3 is a Telegram bot that plays media in group voice chats. It is one
asyncio program (with worker threads for blocking I/O), kept alive by a watchdog
script, optionally several bot processes that share a Redis server, and a
separate downloader service (`AnonX_3/downloader_api`, FastAPI).

Paths below are relative to `src/AnonX_3/`, but `start`, `docs/` and
`RELEASE_NOTES.md`, which are directly under `src/`.

To run: `tlc -config X.cfg MCModule` model-checks, `tlapm XProof.tla` proves.

Contents: 1 the parts of the system, 2 the modules, 3 the runs, 4 the
properties, 5 fairness, 6 where the code departs from what it says, 7 proofs,
8 plan, 9 not modelled.

## 1. The parts of the system

| Part | State | Operations | What is hard | What makes it correct |
|---|---|---|---|---|
| Dynamic capacity lanes, `core/dynamic_capacity.py` — **CapacityLanes** | per lane: capacity, active permits, two deques of futures; a foreground counter; the `degraded` latch | acquire, release, promote, recompute, degrade | capacity moves while permits are out; queued futures are promoted and cancelled; one lane pauses another | no permit lost or invented, ceilings hold, nobody stranded beside a free permit, foreground first |
| Process-local single flight, `core/downloader/singleflight.py` — **SingleFlight**, contract **SharedJob** | registry of runners and owners, factory tasks, shutdown flags | do, cancel, shutdown | a runner is cancelled while its shielded factory goes on; late `finally` blocks | one factory per key, callers learn the outcome of the job they joined, quiet after shutdown |
| Redis single flight, `core/downloader/redis_singleflight.py` — **RedisSingleFlight** | lock and result key, a heartbeat per owner | do, owner run, publish, unlock, wait loop | crash of an owner, expiry, failing commands, deadlines | live owners exclude each other, only the owner takes its lock away, nobody waits for ever |
| Downloader job queue, `downloader_api/queue`, `api/v1` — **DownloadJobs** | jobs, two bounded priority queues, two workers, an event per job, cache files | GET /download, POST /jobs, cancel, worker stages, save | admission measured before an await, cancellation under way, failures in each stage | a job is in one place, an ended job wakes its waiters, files are kept |
| Stream slots and starts, `core/resource_manager.py`, `core/calls.py`, `plugins/startup_fastpath.py`, `plugins/zz_sub3_tail_recovery.py` — **StreamSlots** | streams by chat, reservations, the call table, per-chat locks | lease, preconnect, adopt, roll back, play, retry, fall back, restart, stop | failure or cancellation at any await of a start; retries around it | no slot leaks, nobody waits for ever; a release frees only what it took and first plays of a chat are serialized (section 6: neither always) |
| Playback queue, `helpers/_queue.py` — **Playback** | a deque of tracks per chat | add, remove_request, force_add, get_next, clear | index 0 is the track that plays | no track is passed over, requests stay before recommendations |
| Track advance, `core/calls.py`, `plugins/skip.py`, `loop.py`, `callbacks.py` — **Playback** | the `play_next` lock and depth, ending marks, time windows, the current stream | play_next, replay, stop, the StreamEnded handler, failover, commands | updates name no track; the lock is not reentrant; two updates for one end | each end is answered, once |
| Startup gate, `core/playback_orchestrator.py`, `core/stream_watch.py` — **Playback**, **MediaCache** | a session per chat, the watch of a direct stream | begin, accept, proof, fatal signal, end, consume | signals of an older start | a signal decides only its own start; counts follow sessions |
| Prefetch, `core/prefetch.py` — **Prefetch** | three slots of tasks per chat, remembered outcomes, one-shot marks on tracks | start_next, start_current_cache, join_or_download, await..., cancel | copies of tracks, displaced tasks, timeouts | a track is given up only when nobody downloads it |
| The turn of a track, `core/calls.py` play_media — **PlayMedia** | the source of the track, the retries, the early placeholder | ten ways to a file or stream, each with its fallbacks | failure of every one of them | no placeholder stays, every turn ends |
| Cache catalogue and local CDN, `core/cache`, `core/cdn` — **MediaCache** | rows with status and count, files, sessions | ensure_ready, publish, acquire, release, the collector | rows and files are named differently; the process dies | counts are sessions, a held row stays, no row promises a lost file for ever |
| YouTube direct sources, `core/youtube.py` — **DirectSource** | four caches of URLs, prewarm and extraction tasks | resolve, prewarm, probe, invalidate, mint in the background | tiers change, URLs die, calls share tasks behind shields | one extraction at a time, dead URLs leave the caches, nobody waits in vain |
| Lifecycle, `start`, `__main__.py`, `__init__.py`, `core/lifecycle.py`, `plugins/restart.py` — **Lifecycle** | the instance lock, the shutdown state, the heartbeat file, the watchdog's child | claim, boot, crash, restart, signal, stop, exec, recycle | everyone may stop everyone; exec keeps the pid | one owner of the session, services stopped once, the bot comes back |
| Status card of a request, `helpers/_utilities.py`, `core/playback.py`, `helpers/_play.py`, `plugins/callbacks.py` — **StatusCard** | what the message shows, a lock per message in a weak dictionary, the set of closed messages | progress hooks and watchers, claim, queue, give up, Cancel | every edit is an await; writers wait for a lock that may be popped and made anew | whoever has passed the barrier writes last |
| Delivery of messages, `core/bot_api.py`, `helpers/_utilities.py` — **Delivery** | the attempt, the flood waits, the variant of the entities | requests, read-back, fallbacks, `*_formatted` | four loops of retries around each other, over two transports | a limit ends the call, transient errors are not the caller's |
| Keyword replies, `core/mongo.py`, `plugins/auto_reply.py` — **AutoReply** | three fields of a document, the cached switch, cooldowns | observe, learn, tell, forget, use, sweep, switch | each operation reads field by field and writes back whole | learned answers were taught twice |
| Social sources, `core/tiktok.py`, `core/facebook.py` — **SocialCache** | files, a cache task per chat, a flight per media | resolve, cache, wait, download, shutdown | threads that no cancellation ends; audio and video share a prefix | one thread writes under a prefix |
| Telegram files, `core/telegram.py` — **TelegramFiles** | the list of active files, events, tasks, a flight | /song download, refuse, cancel, play download, shutdown | a refusal shares the cleanup of a download | a mark is backed by a download |
| YouTube downloads, search, cookies, yt-dlp runtimes (`core/youtube.py`, `core/ytdlp_runtime.py`), resolver and source health, resource budget, settings in the database, moderation plugins, transport patches, presentation, the downloader's cache cleanup, rate limiter, engine and dynamic resources, deployment | | | | not modelled: section 9 |

How they interact. A `/play` (`helpers/_play.py`) takes the lease of its chat,
begins a preconnect (`core/calls.py`) that reserves a stream slot
(`resource_manager.py`), and meanwhile searches; the search prewarms a direct
source. The track that starts is the head of the chat's queue. Its turn
(`play_media`) tries a direct URL, a prefetched or cached file, a download. A
download joins a flight, whose factory takes permits of the lanes; prefetches do
so in `background_scope()`, and a foreground caller that joins one promotes its
queued permit. A finished file is published to the local CDN, and while a chat
plays, its gate session holds the catalogue row. When the stream ends,
`play_next` advances. All of it is torn down by one ordered `stop()`.

How the modules compose. `PlayMedia` extends `Prefetch` and runs the play
coroutine beside the download tasks. `RedisSingleFlight` stands on what
`SharedJob` promises of the local flight, which `SingleFlight` is shown to
implement. `MediaCache` composes hub, store, CDN, collector and gate sessions.
`Playback` takes a turn of `PlayMedia` as one start with its outcomes; `PlayMedia`
in return runs the turns of a chat one after another. `StreamSlots` refines a
start down to its reservations and awaits.

Concurrency. The bot is one event loop: a coroutine runs without interruption
from one await to the next. Hence one action per uninterrupted run of a handler,
a split at each await that really suspends, and no interleaving inside an
action. Where an `await` cannot suspend (an uncontended lock around code without
awaits) there is no split. Processes (Redis, watchdog, interpreters) interleave
at every command.

## 2. Modules

| Module | Role | Proofs |
|---|---|---|
| `CapacityLanes` | the lane controller and DynamicSemaphore | `CapacityLanesProof` |
| `LaneHistory` | the same with a count of the waiters cancelled in each lane | `CapacityLanesProof` |
| `SharedJob` | abstract contract of call coalescing | |
| `SingleFlight` | the local flights; implements SharedJob | `SingleFlightProof` |
| `RedisSingleFlight` | flights across processes | `MachinesProof` |
| `DownloadJobs` | the downloader's requests, queues, workers and files | `DownloadJobsProof` |
| `StreamSlots` | slots, starts, retries, rollbacks, stops | |
| `SlotHistory` | the same with the chats that were thrown out of their voice chat | `StreamSlotsProof` |
| `Playback` | one chat from track to track | `ChatProof` |
| `Prefetch`, `PlayMedia` | how the tracks of a chat get their files and streams | `MachinesProof` |
| `MediaCache` | files, catalogue, collector, sessions | `ChatProof` |
| `DirectSource` | the direct URL of a video | `DirectSourceProof` |
| `Lifecycle` | processes, lock, watchdog, restarts | `LifecycleProof` |
| `StatusCard` | the status message of a play request | `MachinesProof` |
| `Delivery` | one message on its way to Telegram | `MachinesProof` |
| `AutoReply` | the keyword replies of a chat | `MachinesProof` |
| `SocialCache` | the files of TikTok and Facebook | `MachinesProof` |
| `TelegramFiles` | the files of Telegram | `MachinesProof` |
| `Machines` | the sum of the last five, `RedisSingleFlight` and `PlayMedia`, for one run | `MachinesProof` |
| `MC...` | instances of each for TLC | |

Operators that no action uses and whose comment calls them a mutant are
plausible mistakes in the definition that follows them. Each property of a run
has one that breaks it (`PROJECT.json`, `mutants`), which shows that the
property depends on the code it is about.

### CapacityLanes

`capacity`, `active`, `waiters` are `LaneState`; `foregroundWaiting` and
`degraded` fields of the controller; `fut` and `waiter` the future and `_Waiter`
of the `acquire()` a task is in; `permit` what `DynamicSemaphore._modes`
remembers. `Route` is the nesting of `async with` blocks, as a video download
nests the download lane in the video lane.

The controller's handlers call each other (`acquire` re-plans, a re-plan wakes
every lane, a wake changes futures), so they are operators on a record
`Controller`, and an action composes the calls of its handler. `acquire()` has
one await: `AcquireFast` and `AcquireSlow` are what precedes it, `Resume` what
follows; a task that gives up waiting for a fixed permit is `AbandonFixed`.
`release()` has none, so leaving nested blocks is one run. `_plan()`'s arithmetic is
abstracted to any capacity between floor and ceiling at any call. The lanes that
are not pausable (`streams`) do not queue and are left out, as is the timeout of
`acquire()`, which no caller passes. `MaxStale` bounds the cancelled futures left
in a deque. `acquire()` takes a cancelled future for an admission, so a permit may
be used that no lane counts: `LaneHistory` adds the history variable `strays`, how
many waiters were cancelled in the deques of a lane, and says what then still
holds.

### SharedJob and SingleFlight

`SharedJob` says what a caller may rely on: one current job for a key, sharers
are told that job's outcome. In `SingleFlight` a flight is a runner task and the
factory task it shields. `stopping` and `told` are cancellations requested and
not yet delivered, since `task.cancel()` acts when the task next runs. The
refinement: `current` is `_inflight`, a job's result is its runner's, and a
runner told to stop counts as cancelled from that moment (its key is free at
once, as in `cancel()`).

### RedisSingleFlight

One key. An action is one Redis command and what the coroutine does with the
reply. Expiry and the death of a process are actions of the environment; a lock
without a heartbeat may expire at any moment, one with a heartbeat does not.
`Close` follows Python 3.8 and later: `CancelledError` is no `Exception`. A command
that fails may have been done by the server all the same. `Unlock`, `Compare` and
`Delete` are `_unlock()`: the script, and the GET and the DELETE that follow it
when it raises. The DELETE compares nothing; `robbed` is a history variable that
records the owners with a live heartbeat whose lock it took.

### DownloadJobs

A job's number is its time of creation. `request` is the HTTP request of a job,
`worker` what each worker holds, `file` who wrote each cache file. The queue
manager's locks never suspend, so each of its methods is one step. Extractor,
download and validator are choices.

### StreamSlots

A request is one start: `early` (a preconnect that joins before the search has
ended), `plain` (a first play from a ready source) or `restart`. `holder` is
`resource_manager`'s table with, in addition, whose reservation took the slot;
`called` is `db.active_calls`, `stopped` `_stopped_chats`, `playing` what the
native call knows; `lead` and `own` are the `created` flags of the two
reservations. `stop()` removes the chat's lock from its dictionary, so `stops`
counts generations of the lock. A play call's phases are the awaits of
`_play_with_startup_slot` and of the wrappers around it. The capacity of the
streams lane is a constant. Stops, rollbacks and starts of a chat overlap in any
way; every `leave_call` may fail, which is swallowed (`Leave`, `Left`). A start
whose monitor `stop()` has cancelled goes no further (`Cut`, `Doomed`). All of
them leave the voice chat by chat id, and one may throw out a start that is not
its own: `SlotHistory` adds the history variable `ousted`, the chats whose slot is
taken and whose voice chat was left by a step of somebody else, since when nobody
has joined.

### Playback

`queue` is the chat's deque; `stream` and `alive` are the truth about what
sounds, which the code cannot see; `ends` the StreamEnded updates on their way,
which name the chat and no track. `gen`, `line`, `depth` are the `play_next` lock
(dropped by `stop()`), its waiters and `_play_next_depth`. `ending`,
`switching`, `debounced` are `_ending_media_id`, `_stream_switch_until` and
`_stream_end_at`: the two windows are open or over, and end at any time after
they were opened. `gate` and `watched` are the proof window and the watchdog's
arm. `task` says how far each coroutine is and which nested frames it has.
`HearNothing`, `HearFatal` and `HearEnd` are the three ways of the update
handler; `Begin`, `Pop`, `Recommend`, `Ready`, `Unplayable` the body of
`play_next`; `PlayLocal`, `PlayDetached`, `PlayDirect`, `ProofHolds`,
`ProofFails`, `Refuse`, `GiveUp`, `Raise` a start; `Failover...` the failover of
a direct stream; `StopCleans`, `StopLeaves` the two halves of `stop()`.
`MaxDepth` stands for the limit 12. `Faults` names what may go wrong.

### Prefetch and PlayMedia

A track is a member of `Tracks`, its file a member of `Media`. `job` are the
tasks of `PrefetchManager`, `current`, `ahead`, `second` its slots, `outcome` its
remembered outcomes; `marked`, `spent`, `local`, `file` the attributes of the
track (`_cache_one_shot`, `_cache_one_shot_attempted`, `local_path`,
`file_path`); `flight` the downloads of `core/youtube.py` that all callers share.
A copy of a track has its own attributes, kept in the job. `turn` is the play
coroutine with the step of `play_media` it has reached, `source` is
`media.source`, `early` the placeholder that holds the voice chat. A `Setup`
says what the tracks are, which switches of `config.py` are on and what may go
wrong, and stays for good. `MaxRetries` stands for the limit 5, `MaxFloods`
bounds Telegram's requests to wait.

### MediaCache

A key is what `core/cache/keys.py` makes of a track: its media id, the name its
source goes by, the tier. `row` is the catalogue on disk, `hub` the counts in
memory, `session` the keys that the startup gate holds, `files` the complete
files by directory. `Hold` is release and acquire in one run of `begin()`.
`Ensure`/`JobEnds` are `ensure_ready` and its job, `Round` one round of the
collector with its four phases, which do not suspend in between; which rows are
old enough is its choice. `Die` is a kill and a new process: memory is gone,
files and catalogue stay. `left` remembers what a dead process left counted.

### DirectSource

One video; a key is audio or a tier of the video. `cache`, `promoted`, `warm`
are the caches, `warming` the prewarm tasks, `inflight` the shared extractions,
`exact` the background mint. `task` is a call or a prewarm. A URL is minted by an
extraction and may be dead later (`Die`), which a probe finds out (`ProbeFails`),
upon which everything is invalidated and one private extraction follows. Expiry
of the caches is an action. `MaxCalls` bounds the calls, `Urls` the URLs.

### Lifecycle

`proc` is each process and the interpreter that runs in it (exec keeps the pid
and gives a fresh one), with the calls of `stop()` that are queued, hold the
shutdown lock or are through; `pos` the closers that are over. `lock` is the
instance lock, `watch` the watchdog, `young` its startup grace, `beat` the
heartbeat file. `MaxFaults` bounds crashes, deaths, stalls and slow boots,
`MaxAsks` restarts, signals and launches by hand.

### StatusCard

`shown` is what the message shows, `posted` and `recorded` the now-playing cards
beside it; `table` is the message's entry of `_download_progress_locks`, a weak
dictionary: it forgets a lock that no coroutine refers to (`Forgets`), which is
why the lock's identity is kept. `Enter`, `Proceed`, `Written` are the three runs
of `edit_download_progress()`; `Claim`/`Take`, `GivesUp`/`SaysWhy`,
`Tap`/`Cancels` the three users of `close_download_progress()`. `Faults` says
what Telegram may do to an edit.

### Delivery

One call. `attempt` is the loop of `_request()`, `floods` that of
`retry_flood_wait()`, `ents` the variant that `retry_entity_text_invalid()` has
reached, `again` the second call of `*_formatted()`. `copies` counts how often
Telegram did what was asked, which the program cannot see. The handlers of an
exception are ordered from the inside out; `Handled` says that an inner one
takes it.

### AutoReply

`rules`, `meta`, `cands` are the three fields of the chat's document; an actor is
a handler with what it has read. Each await reads or writes one field or, in the
write, all. `seen` and `said` remember who taught what. A rule is the set of its
answers; times are left to `Ages`, `CoolsDown` and the choice of what makes room.

### SocialCache and TelegramFiles

In `SocialCache` a coroutine is a request or a cache task; a flight is a
`SingleFlight` of its key with the thread it runs, which `shutdown()` cannot end
(`ThreadEnds`). In `TelegramFiles` there is one file; `active` is its entry in the
list, `events` the status messages whose event is kept.

## 3. Runs

| Run | cfg | Distinct states | What it shows |
|---|---|---|---|
| `lanes_safety` | `Lanes_safety` | 150,016 | permit accounting and hard ceilings with cancelled waiters counted, foreground before background, over nested lanes, with plans that fail and latch the fixed limits and tasks that give up |
| `lanes_fair` | `Lanes_fair` | 2,833 | the pause counter, nobody stranded, every foreground waiter served, with cancelled waiters and failing plans |
| `flights` | `Flights` | 150,017 | one factory, quiet after shutdown, the refinement, every caller answered |
| `jobs` | `Jobs` | 393,833 | one place, wake-ups, the queue drains |
| `slots` | `Slots` | 471,482 | no leak and every request ends, in whatever order starts, stops, retries and rollbacks overtake each other |
| `playback_goes_on` | `Playback_goes_on` | 98,326 | each end is answered, no track is passed over, one advance for one end |
| `playback_commands` | `Playback_commands` | 373,921 | requests before recommendations, under all commands |
| `media` | `Media` | 281,612 | a track is given up only when nobody downloads it, every turn ends |
| `cache` | `Cache` | 91,413 | counts are sessions, held rows stay, dangling rows go, across deaths of the process |
| `direct` | `Direct` | 548,682 | one extraction for all tiers, dead URLs leave the caches, nobody waits in vain |
| `lifecycle` | `Life` | 261,242 | one bot, services stopped once, the bot comes back |
| `machines` | `Machines` | 366,139 | live owners of the Redis lock exclude each other unless a DELETE of the fallback robbed one, locks are kept otherwise and every caller returns, under all faults at once; the final writer of a card; a limit is final; learned answers were taught twice; one thread writes a prefix; a mark is backed; no placeholder of an early connect stays |

Bounds, and why they are enough to be interesting:

- Lanes. Two nested lanes with capacities that move between 1 and 2 reach every
  relation of permits and capacity and the foreground reserve both in force and
  not; four tasks put two of each priority in one deque, and one of each priority
  may be cancelled there (`MaxCancels`: one in each lane). `lanes_fair` has three
  tasks and one lane that they contend for, beside the video lane of a single
  foreground download: where background takes nested lanes too, a foreground waiter
  may wait for ever (`paused_prefetch`, section 6).
- Flights. Two flights are an old and a new one of one key, or of two keys; two
  callers are the one that starts and one that joins.
- Redis. Two callers in one process share its local flight while the third
  competes from the other process. The factory succeeds or fails; one that returns
  no path (`"empty"`) differs for what later callers are told and is left to the
  instances of section 6 and to the proofs.
- Jobs. Two jobs may be of one media (competing for a queue of length one, a
  worker and a file) or of two, posted or downloaded, forced or not.
- Slots. Two chats and one slot make admission refuse; two starts are a start and
  its rival or its replacement; two retries exhaust a wrapper. A chat is stopped by
  a user once (`MaxStops`), and by each start that gives up. `MayAsk` lets the first
  start be a `/play` of the first chat only: nothing plays before a `/play`, so one
  comes first, and requests and chats are interchangeable. `NoLeak` was also
  checked without it, and on one chat with `MaxStops = 2` (about 3 million states
  each).
- Playback. Three requests are the track that plays, the one that must come next
  and the one that must not; two share a media id, which the ending mark
  compares. Two coroutines at once are an update's and a command's. `MaxDepth` 1
  lets the limit of nested advances be hit with one recommendation or two
  unplayable tracks. A track sends one update or two.
- Media. Eight setups cover each service, audio and video, each option of
  `config.py` that selects a way, with the faults that can meet on it; two tracks
  are the one that plays and the one prefetched, three fill all three slots.
- Cache. Two chats, one song under two names: the name it was downloaded under
  and the one its track takes once it plays a local file.
- Direct. Three tasks are two calls and a prewarm, or a call and two prewarms;
  two tiers are the one of the search and the one of the start; two URLs are the
  dead one and its replacement. One lane of extraction and its robust retry.
- Lifecycle. A second process is the one launched by hand; three faults and three
  requests let a crash meet a restart while a stop is under way.

- Machines. `AllNext` moves one of seven machines and the others stay where they
  begin, so their graphs are explored side by side, not multiplied: the states
  are the sum. The Redis flight alone has a fairness (`AllFairSpec`): where it
  begins nothing fair is enabled, so the behaviours of the others satisfy it. Two progress
  writers and the Cancel button are three that want the lock; two locks are the one
  that was forgotten and its replacement. Two handlers
  of the replies and two answers are what an overlap needs; three messages let a
  pair be taught twice beside a command or the sweep. Two social requests, a
  cache task and two permits; three calls for a Telegram file are the one that
  downloads, the one refused and the one after; the turns of two tracks, a
  song or a video first, connect early and lose their source on each way. The faults
  of both connects are few here: `media` runs the turns with all of them.

Deadlock is checked where the program goes on for ever (lanes, flights). The
other instances use up their callers, jobs, requests or calls and then stand
still, so these configurations turn it off.

## 4. Properties

In the runs, those worth a comment:

- `ForegroundCount`, `NobodyStranded`: a lost wake-up or a drifting counter
  freezes background work for good; they relate futures in deques, the counter
  and the free permits after every composition of calls.
- `ImplementsSharedJob`: catches a caller told the outcome of another flight.
- `LockKept`, `OneOwner`: a late unlock must not take a rival's lock, and does so
  only by the DELETE of its fallback (`late_delete`), whose victim is exempt;
  nothing else does: no SET, no expiry, no script.
- `PermitAccounting`, `BoundedAlways`: each waiter cancelled in a deque costs the
  lane at most one task beside its permits, and nothing else costs it anything.
- `InOnePlace`: over cancellation, since a cancelled job stays in
  the heap and is processed.
- `NoLeak`: relates slot table and voice chats once nothing is under way, with
  stops amid starts; a retried start that is rolled back is exempt (`retry_leaks`),
  and so is one that somebody else threw out (`thrown_out_holding`).
- `RequestsEnd`: over every path of a start; a `/play` that waits for a lock which
  `stop()` has dropped is woken by its holder all the same.
- `EndIsAnswered`, `EndsAdvanceOnce`: two sides of one filter of four time
  windows and marks: too weak and a track is skipped, too strong and the chat
  stays silent.
- `KeepsManualFirst`: requests are inserted before recommendations by walking
  the queue, while commands take tracks out of its middle.
- `GivesUpWhenOver`: relates the play coroutine's decision to what every other
  task is doing for the track, with the two documented exceptions (a join that
  was cut, Play Now).
- `DanglingCleaned`, `HeldRowKept`: what the collector must do, and must not.
- `NobodyWaitsInVain`: the tasks await each other behind shields; the property
  says that the awaited one is under way and that the relation has no cycle.
- `FinalWriter`: relates the writers that wait for or hold the lock of the card,
  the entry of a weak dictionary that may be replaced under them, and the closer.
- `ConfirmedTwice`: over every overlap of reads and writes of the same document,
  failures and restarts.
- `OneWriter`: the threads outlive their flights at the shutdown only.
- `OneBot`, `StopsOnce`: two safety properties over the
  interplay of lock, shutdown lock, exec and watchdog that no unit test runs.

Properties outside the runs. The modules state further properties that TLC was
found to confirm under the configurations of section 3 with the property added,
and that are kept for reading and for instances of one's own:
`FileKept` (DownloadJobs), `StoppedStays` (Lifecycle), `DepthCounts` (Playback), `FirstComeFirstServed` (CapacityLanes), `BoundedAfterDegrade` (LaneHistory) and `QueuedOnce` (CapacityLanes), both proved,
`Registered` (SingleFlight), `ReadyHasFile` (DownloadJobs), `SpentIsFinal`
(PlayMedia), `HoldsAreRecorded` (MediaCache), `TransientIsQuiet` (Delivery),
`ManualSurvives` (AutoReply) and a `TypeOK` in each module. On other
instances: `CallsEnd` (DirectSource: `FairSpec`, `MaxCalls = 2`, no symmetry).
The rest of what the modules state is what section 6 is about.

## 5. Fairness

Weak fairness of the steps the event loop or the operating system takes by
itself, and of the ends of awaits that have a time limit. None of the arrival of
commands, callers, cancellations, faults or of the choices of users.

- Lanes: `Resume`, `Finish` (work under permits has time limits), `GoesOn` (a
  task inside one block asks for the next). `ForegroundServed` is for a controller
  that is dynamic: `_degrade` wakes nobody, so a task that queues at that moment
  depends on releases of permits taken earlier.
- Flights: runners, factories, answers, the shutdown's end.
- Redis: the coroutines, the owner's steps, expiry in the server.
- Jobs: each worker's step; extraction and download have time limits.
- Slots: play calls (Telegram and the native call answer or raise; a start whose
  monitor was cancelled ends), the search's end, `leave_call`; strong fairness of `Lock`, since `asyncio.Lock` serves its
  waiters in order.
- Playback: the coroutines, the two time windows, the delivery of updates that
  were sent. Not that a track ends.
- Media: the play coroutine, the tasks, the end of a download.
- Cache: the collector's round, which the supervisor restarts.
- Lifecycle: the steps of a process, of the watchdog and the passing of time.

`direct`, `lanes_safety` and `playback_commands` check safety only; the `FairSpec` of DirectSource is for `CallsEnd`.

## 6. Where the code departs from what it says, or from what one would expect

Each line was reproduced by TLC: the module of the named configuration, with its
cfg changed as said and the one property, is violated; a configuration of its own
gives the constants named (the others are model values), `CHECK_DEADLOCK FALSE`
and the property. They mark the borders of
the properties that hold: `NoLeak` holds while a retried start is not rolled back
and nobody throws out the start of another, `OneOwner` and `LockKept` exempt
the victims of the fallback's DELETE, `BoundedAlways` counts the cancelled waiters that `HardCeiling`
does not, `FinalWriter` the late edits that `LastWord` does not;
`ForegroundServed` holds with one contended lane, `NoTrackSkipped` without Play Now,
`EndsAdvanceOnce` without a skip, `EndIsAnswered` without autoplay, proofs of
later tracks and tracks shorter than the switch window.

| Name | cfg, specification | Module: constants changed | Property violated | What happens |
|---|---|---|---|---|
| cancel_bound | `Lanes_safety`, HistorySpec | `MCLaneHistory`: `Tasks <- ThreeTasks`, `Background <- OneBackground`, `Lanes <- OneLane`, `Route <- FlatRoute`, `Cancellable <- ThreeTasks`, `Abandoning <- Nobody`, `MayFail = FALSE` | `HardCeiling` | `core/dynamic_capacity.py:863`: a task cancelled in `acquire()` finds its own future done, counts as admitted and later returns a permit it never had; line 20 says "Bounded always. Every lane has a hard ceiling" |
| paused_prefetch | `Lanes_fair`, FairSpec | `MCCapacityLanes`: `Lanes <- TwoLanes`, `Route <- VideoRoute`, `Cancellable <- Nobody` | `ForegroundServed` | `core/dynamic_capacity.py:788`: a background video download holds the video permit and is paused in the download lane by the foreground download that waits for that permit; `core/prefetch.py:602` says a paused prefetch "can never hold playback back" |
| leaked_lock | of its own, Spec | `MCRedisSingleFlight`: `Processes <- TwoBots`, `Callers <- Three`, `Home <- HomeOfThree`, `Results = {"ok", "empty"}`, `MayFail = FALSE`, `MayCrash = FALSE`, `MayTimeout = FALSE` | `UnlockedWhenDone` | `core/downloader/redis_singleflight.py:167`: `contextlib.suppress(Exception)` lets the CancelledError of the awaited heartbeat through: no unlock, and the callers get the cancellation; `docs/hardening-gate-failover-redis.md:61` says "Lock + heartbeat + Lua unlock + result key/publish." |
| failed_owner | of its own, Spec | `MCRedisSingleFlight`: `Processes <- TwoBots`, `Callers <- Three`, `Home <- HomeOfThree`, `Results = {"ok", "empty", "failed"}`, `MayFail = FALSE`, `MayCrash = FALSE`, `MayTimeout = FALSE` | `OneFactory` | `core/downloader/redis_singleflight.py:194`: after an owner's failure every process that waited runs the factory without the lock |
| late_delete | of its own, Spec | `MCRedisSingleFlight`: `Processes <- TwoBots`, `Callers <- Three`, `Home <- HomeOfThree`, `Results = {"ok"}`, `MayFail = TRUE`, `MayCrash = FALSE`, `MayTimeout = FALSE` | `NobodyRobbed` | `core/downloader/redis_singleflight.py:83`: when the script raises, the token is compared by a GET and the lock deleted by a DELETE of its own: if it expires in between, a rival's live lock goes and a third process takes it; line 27 says "delete key only if value matches owner token" |
| cancelled_runs | `Jobs`, Spec | `MCDownloadJobs`: `Exts <- OneExt`, `Keys <- OneSong`, `Media <- Audio`, `MediaOf <- MediaOfSong`, `MayPost = FALSE`, `MayCancel = TRUE` | `CancelledIsFinal` | `downloader_api/queue/worker.py:88`: a cancelled job is processed all the same and leaves CANCELLED, from which `job_states.py:20` allows no transition |
| never_hit | `Jobs`, Spec | `MCDownloadJobs`: `Exts <- OneExt`, `Keys <- OneSong`, `Media <- Audio`, `MediaOf <- MediaOfSong`, `MayPost = FALSE`, `MayCancel = FALSE` | `PresentIsHit` | `downloader_api/queue/worker.py:168`: nothing registers a saved file with the cache (`cache_manager.put` has no caller), so the next request downloads it again |
| ready_waits | `Jobs`, Spec | `MCDownloadJobs`: `Exts <- OneExt`, `Keys <- OneSong`, `Media <- Audio`, `MediaOf <- MediaOfSong`, `MayPost = FALSE`, `MayCancel = FALSE` | `ExpiredIsUnfinished` | `downloader_api/queue/worker.py:177`: READY does not set the event: a request that waits for its download sleeps until its time is up |
| told_queued | `Jobs`, Spec | `MCDownloadJobs`: `Exts <- OneExt`, `Keys <- OneSong`, `Media <- Audio`, `MediaOf <- MediaOfSong`, `MayPost = TRUE`, `MayCancel = FALSE` | `ToldQueuedIsQueued` | `downloader_api/api/v1/jobs.py:127`: POST /jobs ignores that a full queue refused the job and answers "queued"; the job stays CREATED |
| dropped_lock | `Slots`, HistorySpec | `MCStreamSlots`: `Chats <- OneChat`, `MaxTries = 0` | `OneInitialPlay` | `core/calls.py:3782`: `stop()` drops a lock that is held, and the next command creates another: two first plays of the chat are under way |
| released_live | `Slots`, HistorySpec | `MCStreamSlots`: `Chats <- OneChat`, `Requests <- OneRequest`, `MaxTries = 0`, `MaxStops = 0`, `MayRollBack = FALSE` | `LeftFirst` | `core/calls.py:1045`: a start that fails after it has joined gives the slot back without leaving the voice chat; `resource_manager.py:214` says that a live voice chat "never loses its slot" |
| release_other | `Slots`, HistorySpec | `MCStreamSlots`: `Chats <- OneChat`, `MaxTries = 0` | `ReleasesItsOwn` | `core/resource_manager.py:85`: a late rollback releases, by chat id, the slot of the chat's next start |
| retry_leaks | `Slots`, HistorySpec | `MCStreamSlots`: `Chats <- OneChat`, `Requests <- OneRequest`, `MaxStops = 0`, `MaxTries = 1` | `NeverLeaks` | `plugins/startup_fastpath.py:417`: the retry reserves a slot of its own, which the rollback of the first does not know |
| stop_elsewhere | `Slots`, HistorySpec | `MCStreamSlots`: `Capacity = 2`, `MaxTries = 0`, `MayRollBack = FALSE` | `StopIsLocal` | `core/calls.py:3799`: the cleanup of one chat cancels the unmute attempts of all chats |
| stopped_start | `Slots`, HistorySpec | `MCStreamSlots`: `Chats <- OneChat`, `Requests <- OneRequest`, `MaxTries = 0`, `MayRollBack = FALSE` | `LiveKeepsSlot` | `core/calls.py:3842`: `/stop` unregisters the chat of a start that is under way and does not stop it; `resource_manager.py:214` says that a live voice chat never loses its slot |
| thrown_out | `Slots`, HistorySpec | `MCStreamSlots`: `Chats <- OneChat`, `MaxTries = 0`, `MayRollBack = FALSE` | `CalledIsPlaying` | `core/calls.py:3882`: `stop()` awaits `leave_call` after its cleanup; a start of the chat that joined meanwhile is thrown out and stays recorded as playing |
| thrown_out_holding | `Slots`, HistorySpec | `MCStreamSlots`: `Chats <- OneChat`, `MaxTries = 0`, `MayRollBack = FALSE` | `NeverLeaks` | `core/calls.py:3882`: the same, or the rollback of another start of the chat, leaves the slot with a chat whose assistant is gone |
| self_wait | `Playback_goes_on`, Spec | `MCPlayback`: `Commands = {}`, `Faults = {"gives up"}`, `MaxCommands = 2`, `Requests = {x1, x2}`, `Sources = {}` | `NoSelfWait` | `core/calls.py:6954`: `play_next` is awaited while its own lock is held (after a failed start, and from `play_media`): the chat waits for ever; line 6914 knows: "Already holding the per-chat lock — call body, not play_next." |
| late_failover | `Playback_goes_on`, Spec | `MCPlayback`: `Commands = {"skip"}`, `Faults = {"dies early"}` | `HeadPlays` | `core/calls.py:7151`: a failover that awaited its file plays the track that was current before, after a skip has moved the queue on or stopped the chat |
| skip_in_failover | `Playback_goes_on`, Spec | `MCPlayback`: `Commands = {"skip"}`, `Faults = {}`, `Sources = {}` | `EndsAdvanceOnce` | `core/calls.py:7280`: an end, a skip while its failover is decided, and then the `play_next` of the end: it pops the track that the skip has just started |
| stale_force | `Playback_goes_on`, Spec | `MCPlayback`: `Commands = {"force", "stop"}`, `Faults = {}`, `Sources = {}` | `NoTrackSkipped` | `plugins/callbacks.py:251`: Play Now removes by an index it read before it awaited the deletion of the cards: another track is gone |
| autoplay_silence | `Playback_goes_on`, FairSpec | `MCPlayback`: `Commands = {}`, `Faults = {"unplayable"}`, `MaxCommands = 2`, `Recommended = {dj}`, `Sources = {}` | `EndIsAnswered` | `core/calls.py:6804`: a `/play` that comes while the advance of an end looks for a recommendation starts at once; autoplay finds nothing, and the stop that follows leaves the voice chat under the new track, whose chat stays recorded as in a call |
| died_in_proof | `Playback_goes_on`, FairSpec | `MCPlayback`: `Commands = {}`, `Faults = {"dies early"}`, `MaxCommands = 2`, `Sources = {"proved"}` | `EndIsAnswered` | `core/calls.py:7208`: the direct stream of a later track is proved under the `play_next` lock, and while that is held the handler drops every end as "play_next busy": the window passes without a fatal signal and a dead stream counts as proved |
| short_track | `Playback_goes_on`, FairSpec | `MCPlayback`: `Commands = {}`, `Faults = {"short"}`, `MaxCommands = 2`, `Sources = {}` | `EndIsAnswered` | `core/calls.py:7226`: a track that ends within the 3 s after a switch is taken for the residue of the previous one |
| acquired_again | `Media`, Spec | `MCPlayMedia`: `Setups <- Failing` | `OneAcquisition` | `core/prefetch.py:148`: the background download of a stream's file is spent on a copy; the failing stream's fallback starts yt-dlp again |
| busy | `Media`, Spec | `MCPlayMedia`: `Setups <- Busy` | `BusyDelays` | `core/prefetch.py:560`: a background job refused under load marks the track's single shot as spent, so that its own turn gives it up untried; `resource_manager.py:479` says "a busy moment delays a song by seconds rather than failing it" |
| escape | `Media`, Spec | `MCPlayMedia`: `Setups <- Clips` | `NoEscape` | `core/calls.py:6319`: the Facebook fallback logs `ex` in a handler without `as ex`: the error leaves `play_media` |
| join_cut | `Media`, Spec | `MCPlayMedia`: `Setups <- JoinCuts` | `KeepsPrefetch` | `core/prefetch.py:649`: the 4 s that `play_next` gives a prefetch are over; the copy of the shot counts as spent and the track is given up while its file downloads |
| play_now | `Media`, Spec | `MCPlayMedia`: `Setups <- PlayNow` | `KeepsPrefetch` | `plugins/callbacks.py:250`: Play Now cancels the tasks of the chat, among them the one that downloads the chosen track |
| silent_placeholder | `Media`, Spec | `MCPlayMedia`: `Setups <- Decoder` | `NoEscape` | `core/calls.py:4440`: an exception between the early connect and the source leaves the silent placeholder in the voice chat |
| played_file | `Cache`, CacheSpec | `MCMediaCache`: `MayDie = FALSE` | `PlayedFileKept` | `core/calls.py:5999`: the chat holds the key of the name its track has by now, the file's row has the name of its download: the collector unlinks the file that plays; line 5997 says "Protect active playback cache entry" |
| moved_start | `Cache`, CacheSpec | `MCMediaCache`: `MayDie = FALSE` | `StartFinds` | `core/cdn/manager.py:374`: publishing moves the file out of `downloads/` after a start of another chat has chosen its path |
| dead_holds | `Cache`, FairCacheSpec | `MCMediaCache`: none | `HoldsEnd` | `core/cdn/store.py:462`: the count that a killed process left in the catalogue is never reset: its row is never collected |
| stuck_row | `Cache`, CacheSpec | `MCMediaCache`: `MayDie = FALSE` | `DownloadingIsTrue` | `core/cdn/manager.py:349`: a publishing job whose download came to nothing leaves its row at `downloading` |
| dead_handed_over | `Direct`, Spec | `MCDirectSource`: none | `NoDeadHandedOver` | `core/youtube.py:2822`: `invalidate_direct_stream` drops "every cached direct URL" but those of `_direct_warm_results` |
| cuts_others | `Direct`, Spec | `MCDirectSource`: none | `CutsNobody` | `core/youtube.py:2829`: the 403 of one call cancels the extraction that another call awaits, which fails with it |
| cancel_swallowed | `Direct`, Spec | `MCDirectSource`: none | `CancelEnds` | `core/youtube.py:3091`: a call cancelled while it awaits a prewarm goes on with an extraction of its own |
| open_services | `Life`, Spec | `MCLifecycle`: none | `ClosedFirst` | `__main__.py:185`: `finally` replaces the interpreter also when the daily restart is cancelled while another caller's `stop()` goes on; `__init__.py:403` says "Stop the singleton service graph once, in reverse dependency order." |
| signal_lost | `Life`, Spec | `MCLifecycle`: none | `ToldIsFinal` | `__main__.py:185`: a process told to end by a signal is replaced by a fresh one all the same; line 552 says "only crashes replace the interpreter" |
| killed_in_stop | `Life`, Spec | `MCLifecycle`: none | `LetsItStop` | `start:20`: the watchdog allows 25 s (TERM_GRACE_SEC), `stop()` may take 45 s (PROCESS_STOP_TIMEOUT_SEC): it is killed amid closing |
| late_edit | of its own, Spec | `StatusCard`: `Writers = {w1, w2}`, `Locks = {l1, l2, l3}`, `Faults = {"late"}` | `LastWord` | `helpers/_utilities.py:1857`: an edit that the client gave up on is applied by the server after the card has become the player; line 1819 says that the play edit will "be the final writer" |
| doubled_card | of its own, Spec | `StatusCard`: `Writers = {w1, w2}`, `Locks = {l1, l2, l3}`, `Faults = {"refused", "doubled"}` | `OneNowPlaying` | `core/playback.py:158`: the send of a now-playing card is repeated without entities after an error that came after Telegram had sent it: two cards, one of them recorded |
| over_queued | of its own, Spec | `StatusCard`: `Writers = {w1, w2}`, `Locks = {l1, l2, l3}`, `Faults = {"busy"}` | `QueuedIsFinal` | `helpers/_play.py:1552`: the callback of the search looks for an active stream, awaits the templates and writes its progress over the card that says queued by then; line 1550 says "never race it with DOWNLOADING" |
| sent_twice | of its own, Spec | `Delivery`: `MaxAttempts = 3`, `MaxFloods = 2`, `Ops = {"send"}` | `SentOnce` | `core/bot_api.py:270`: a sendMessage whose answer is lost is repeated: the chat gets the message twice |
| edit_unread | of its own, Spec | `Delivery`: `MaxAttempts = 3`, `MaxFloods = 2`, `Ops = {"text"}` | `EditIsDone` | `core/bot_api.py:311`: an edit whose gateway fails at every attempt comes back as no result, and its message is read back and returned as if it had been edited |
| flood_again | of its own, Spec | `Delivery`: `MaxAttempts = 3`, `MaxFloods = 2`, `Ops = {"send"}` | `FloodIsFinal` | `helpers/_utilities.py:2222`: an exhausted budget of MTProto flood waits is no quiet error: the message is at once sent again as plain text |
| edit_limit | of its own, Spec | `Delivery`: `MaxAttempts = 3`, `MaxFloods = 2`, `Ops = {"text"}` | `EditLimitIsFinal` | `helpers/_utilities.py:2167`: a rate limit is quiet for sends only: an edit that was told to wait is at once repeated as plain text |
| overwritten | of its own, Spec | `AutoReply`: `Actors = {a1, a2}`, `Keys = {k1}`, `Texts = {t1, t2}`, `MaxEntries = 1`, `MaxKeys = 1`, `MaxAsks = 3`, `Ops = {"observe", "tell", "use"}` | `AdminIsObeyed` | `core/mongo.py:782`: an observer or a touch that read the rules before an admin's `/reply` writes its copy back after it; line 698 says "Existing manual or legacy rules are never modified by automatic learning" |
| flag_apart | of its own, Spec | `AutoReply`: `Actors = {a1, a2}`, `Keys = {k1}`, `Texts = {t1, t2}`, `MaxEntries = 1`, `MaxKeys = 1`, `MaxAsks = 3`, `Ops = {"switch", "all"}` | `FlagAgrees` | `core/mongo.py:636`: `/autoreply` sets the cache and then the document, the global switch the documents and then the cache: overlapping, they leave the two different |
| dropped_video | of its own, Spec | `SocialCache`: `Ids = {i1}`, `Chats = {c1}`, `Players = {p1, p2}`, `Tasks = {t1}`, `MaxDownloads = 2` | `ServedAsAsked` | `core/tiktok.py:494`: the flight joined after an audio result may be one more audio flight, and its result is returned unchecked |
| purged_in_use | of its own, Spec | `SocialCache`: `Ids = {i1}`, `Chats = {c1}`, `Players = {p1, p2}`, `Tasks = {t1}`, `MaxDownloads = 2` | `InUseIsKept` | `core/tiktok.py:123`: a download purges what does not suit it, among it the audio file that another request plays |
| task_left | of its own, Spec | `SocialCache`: `Ids = {i1, i2}`, `Chats = {c1}`, `Players = {p1, p2}`, `Tasks = {t1, t2}`, `MaxDownloads = 2` | `NoTaskLeft` | `core/tiktok.py:525`: a cache task whose entry was replaced is in no table: the shutdown that promises to "Cancel and await every cache/download task" (line 516) does neither |
| unmarked | of its own, Spec | `TelegramFiles`: `Calls = {d1, d2, d3}`, `Requests = {}`, `Attempts = 1` | `OneDownload` | `core/telegram.py:922`: a call that was refused because the file is on its way removes the mark of the call that downloads it; a third one starts beside it |
| kept_event | of its own, Spec | `TelegramFiles`: `Calls = {d1, d2, d3}`, `Requests = {}`, `Attempts = 1` | `NothingKept` | `core/telegram.py:787`: a file that is too long or too large returns before the block that drops its event and its last edit |

Also noticed, and not modelled: `OneFlight` is what `RELEASE_NOTES.md:83` says of
the direct resolver, while the private extraction after a 403 is not registered,
so a call that comes meanwhile starts a second one (the property speaks of the
registered ones); a `.publishing` temporary file left by a crash beside a ready
file is never collected, since the collector looks for it in the tmp directory
(`core/cdn/cleaner.py:170`, `core/cdn/publisher.py:53`); the refill of the
downloader's token bucket is truncated (`downloader_api/security/rate_limiter.py:51`).

## 7. Proofs

Eight modules hold proofs, each of the state machine that TLC runs, for every
value of its constants that the module's assumption allows (`LanesAssumption`,
`FlightAssumption`, `RedisAssumption`, `MachinesAssumption`, `SlotsAssumption`, `JobsAssumption`, `CacheAssumption`,
`DirectAssumption`, `LifecycleAssumption`: shapes of the constants, finiteness
where a cardinality is taken, names that are not members of each other's sets;
TLC evaluates them in every run). None of the invariants proved is inductive;
each proof states the inductive one, shows `Init => Inv` and, with a step for
each action, `Inv /\ [Next]_vars => Inv'`, and combines the two with PTL.

| Module | Inductive invariant | What follows |
|---|---|---|
| `CapacityLanesProof` | `Inv`: `ControllerState`, `Records`, `Permits`, `QueueOK` (an entry that is not cancelled is of a task whose future is pending and whose record names that lane and priority; no task is twice in a deque), `WaitOK`, `CountOK` (`active` is at most the number of a lane's users, and with `strays` at least that of those who use or will use it), `LimitOK`; with it `FixedInv` (the plain semaphore of a lane has at most `Fixed` users) | `PermitAccountingHolds`, `BoundedAlwaysHolds`, `BoundedAfterDegradeHolds` |
| the same, who waits | `DemandInv`: types, `QueueOK`, `Listed` (whoever waits has a live entry in the deque that its record names), `Paused` (`foregroundWaiting` is the number of foreground acquisitions that have not resumed), `AllSettled` (until a degrade no lane would admit anybody who is live in its deques) | `TypesHold`, `ForegroundCountHolds`, `NobodyStrandedHolds`, `QueuedOnceHolds`, `ForegroundFirstHolds` |
| `SingleFlightProof` | `FlightInv`: `TypeOK`, `Numbered` (flights are used in order), `Paired` (a key and its registered flight belong together, and a runner that nobody told to stop is registered as long as it lives), `Inside` (a factory runs inside its runner unless that was told to stop, and a runner that ends of itself has its factory's outcome), `Closing` (once the shutdown has begun nothing is registered, and it awaits what runs) | `OneFactoryHolds`, `QuietAfterShutdownHolds`, `ImplementsSharedJobHolds` |
| `MachinesProof`, Redis | `OwnerInv`: `TypeOK`, `OwnTokens` (a run that holds a token was started by a caller of its own process), `Heartbeats` (while a heartbeat runs, the lock is the token of a run that has not reached its unlock, or the run was robbed) | `OneOwnerHolds`, `LockKeptHolds` |
| card | `CardInv`: `CardTypes`, `WriterLocks` (who edits holds the table's lock; until the card is closed, so does who is next), `Barriers` (a closer waits for the lock under which anybody edits, and when it has passed it nobody does) | `FinalWriterHolds` |
| delivery | `LimitInv`: whoever was told of a limit has returned or is about to raise it | `LimitIsFinalHolds` |
| replies | `ReplyInv`: `ReplyTypes`, `EarnedRules` (of the document), `Backed` (of what an operation has read and will write), `Behind` (no count of the document, nor one that an operation read, is ahead of the lessons; with a lesson still to be counted on top of it, there were two), `Lessons` | `ConfirmedTwiceHolds` |
| social | `WriterInv`: `FlightTypes`, `ThreadOfFlight` (a media has a thread exactly while its flight runs, until the shutdown), `Permitted` (the media with a thread are no more than the permits) | `OneWriterHolds` |
| files | `MarkInv`: `MarkIsBacked` with types | `MarkIsBackedHolds` |
| turn | `EarlyInv`: `EarlySettled`, and a placeholder is there only on the way of a first start to its direct stream, or where an exception escaped | `EarlySettledHolds` |
| `DownloadJobsProof` | `JobsInv`: `TypeOK`, `Workers`, and for each job `WellPlaced` (its state, its place and its request agree) | `TypesHold`, `InOnePlaceHolds`, `EndedIsWokenHolds`, `FileKeptHolds` |
| `StreamSlotsProof` | `SlotsInv`: `TypeOK`, for each start `Proper` (what its phase says of its own record) and for each chat `Slot` (the start that holds its slot is over, or under way in that chat and not cut off, and then the release it will call is one that frees the slot; and if it has joined, or ended well, the chat plays or is in `ousted`) | `NoLeakHolds` |
| `ChatProof`, files | `CacheInv`: `Shape`, `CountsAreSessions`, `RowsAreReal` | `CountsAreSessionsHolds`, `HeldRowKeptHolds` |
| queue | `QueueInv`: the queue consists of tracks of the chat, and a coroutine that is about to force deals with one and an index that a queue had | `KeepsManualFirstHolds` |
| `DirectSourceProof` | `DirectInv`: `TypeOK`, `OneFlight`, `Keyed`, `Prewarms` (a prewarm is registered as long as it lives), `Joins` and `Flies` (whom a task waits for), `Known` and `Private` (which URLs are whose), `DeadIsDropped` | `OneFlightHolds`, `DeadIsDroppedHolds`, `NobodyWaitsInVainHolds` |
| `LifecycleProof` | `LifeInv`: for each process that its record is `AllGood`, `Locked` (the lock is held by the process that boots, runs, stops or waits after a crash, and by no other), `Watched` (the watchdog launches a child only where there is none), `Rest` (types) | `OneBotHolds`, `StopsOnceHolds`, `StoppedStaysHolds` |

The argument in each, in short:

- Lanes. What `_wake` pops is a prefix of the deque, serves at most its budget,
  and serves tasks that were waiting there; from these lemmas every operation on
  the controller preserves the state invariant, and an action is a composition of
  operations. A waiter cancelled in a deque becomes one more claimant of the lane
  and one more of its `strays`, so `CountOK` is kept; it runs beside
  the permits, if at all, and its release takes one off those of the others.
- Lanes, who waits. These theorems hold with cancelled waiters, failing plans and
  a degrade. A wake stops at a lane for one of two reasons (`WakeSettles`): its
  budget was used up, or nobody live is left in the deque. A budget can only
  shrink when `active` or `foregroundWaiting` grows, so a step that makes neither
  smaller, nor a capacity larger, leaves settled lanes settled, and every other
  step of the code wakes the lanes concerned, all of them when the last foreground
  waiter goes. Whoever leaves the foreground count (resumed, cancelled, abandoned)
  is taken off it in the same step, whichever of `acquire`'s paths it takes.
  Background is served by a budget that is zero while `foregroundWaiting` is
  positive, from which `ForegroundFirst` follows for each action that serves.
- Flights. The refinement maps initial states to initial states, and each action
  to a step of `SharedJob` or a stutter; `Inside` and `Paired` say which.
- Redis. The script compares the token in the command that deletes, and a run's
  token is not given to another run as long as it lives, so a late script deletes
  nothing of others. A DELETE of the fallback does, and enters its victim in
  `robbed`; whoever else has a heartbeat has the lock.
- Card. While the card is open every writer that is inside has the table's lock,
  so the lock a closer takes its turn on is the one that is edited under; when the
  turn comes nobody edits, and who waits behind it sees the card closed. An edit
  that its client gave up may still land: the theorem counts those (`late`) and
  says that no other progress comes onto the card.
- Delivery. Each handler of an exception passes the error of a limit on; the one
  that swallows it returns.
- Replies. A count is written from the document's, which was read before other
  awaits; the invariant says what may have happened meanwhile. A count of one with
  a lesson to be counted on it means a second lesson, so the rule is earned
  whatever the order of the writes. `seen` and `said` are only compared with.
- Social. A thread begins in the flight of its key and the flight ends after it,
  so the threads under a prefix are one; a bijection between the running flights
  and the media with a thread carries the permits over.
- Files. A call marks before it downloads and every way out of the download
  removes the mark, so whoever finds the mark finds the call.
- Queue. Lemmas give the entries of `InsertAt`, `RemoveAt`, `deque.rotate` and the
  rotation there and back of `force_add` (the track at the index is removed, the
  others keep their order: modular arithmetic with a negative operand). Each of
  these maps the entries behind the head in their order, or puts a request before
  the first AI DJ track, so `ManualFirst` is kept; the steps of the chat use
  nothing else (`QueueMoves`) but a force.
- Turn. `play_media` connects early in `Enter` only; from there a turn is in
  `Resolve`, `Dispatch` and `Start`, each of which hands the placeholder on, takes
  it down or raises past the code that does. From every other phase no step brings
  one (`BareKeeps`).
- Machines. `MachinesHold`: a step of the sum that TLC runs is a step of one
  machine and a stutter of the others, so each theorem carries over.
- Jobs. Each action moves one job between the phases that `WellPlaced` lists.
- Slots. The invariant follows the holder of each slot: releases, rollbacks and stops
  of others may free the slot at any moment, which the invariant allows, but nobody
  can make the holder forget the release that is its own. Who else leaves the voice
  chat enters the chat in `ousted`. Nothing is assumed of the order of stops and
  starts.
- Cache. `Hold` changes one session and the counts of two keys; a lemma counts
  the sets before and after, from the theorems on finite cardinalities. A row
  that is held has a count, so the collector's choice does not include it.
- Direct. When a probe fails, all caches drop the URL but `warm`, and calls that
  wait for a cut extraction return in the same step; what is left to show is that
  no other task has that URL in hand (`Known`, `Private`).
- Lifecycle. The instance lock is taken before the boot and given up in the exec
  or by the death; only the holder of the shutdown lock moves through the
  closers.

Only model-checked: liveness (`...Served`, `...Answered`, `...Return(s)`, `...End(s)`,
`QueueDrains`, `DanglingCleaned`, `ComesBack`: fairness and ENABLED are out of the
prover's reach), and three action properties that hold on the instance of their
run and not for every value of the constants: `NoTrackSkipped` and
`EndsAdvanceOnce` (of the commands and faults left out of `playback_goes_on`,
Play Now and a skip refute them, section 6) and `GivesUpWhenOver` (its exception
is for a track whose wait was cut; with one song queued twice, TLC finds that Play
Now cuts the wait of the one and the turn of the other gives up).

## 8. Plan

1. Proofs: `NoTrackSkipped` and `EndsAdvanceOnce` of `Playback` and
   `GivesUpWhenOver` of `PlayMedia`, each under the restriction it needs.
2. `MediaDownload`: `download()` of `core/youtube.py` (6011–6951), the one worker
   of a file, its owner, watchers and direct-source events, as an implementation
   of the shared downloads that `Prefetch` assumes. Questions for it: an owner
   cancelled in the one await of its `finally` leaves the registry entry behind;
   an early exit of another caller wakes the waiters of a running owner; a join
   lifts a permit only if it is queued at that moment.
3. `StreamAdmission`: `try_admit` and the probe of a stream over a capacity that
   moves, composed with `StreamSlots`' table.
4. `SourceHealth` (circuit breaker) and `RateLimiter` (token bucket in integers).

## 9. Not modelled

- YouTube downloads (see the plan; `Prefetch` has the contract they offer),
  search, cookie jars and the persistent yt-dlp runtimes; the resolver, the
  resolution of social links: network and subprocess I/O, whose outcomes are choices in
  the models.
- Resource budget, stream profiles and the plan's arithmetic: functions of live
  measurements; the lanes are checked for every result between floor and ceiling.
- Database (`core/mongo.py`): a write-through cache of settings; the one table
  that matters here, the active calls, is in `StreamSlots` and `Playback`.
- The play command's parsing and search; pause, seek and the
  moderation plugins: they call what is modelled and keep no state that actors
  share.
- Transport patches of the decoder hand-off; presentation; the AI assistant;
  configuration; deployment scripts: formatting, constants, messages.
- The downloader's cleanup by disk pressure, rate limiter, engine and thresholds.

More than half of the source is of these kinds (configuration, texts and
thumbnails, Telegram plumbing, parsing, subprocess options), and a state machine
has nothing to say about it; the map of `PROJECT.json` names the lines that the
modules stand for and no others.
