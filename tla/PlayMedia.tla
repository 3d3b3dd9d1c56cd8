----------------------------- MODULE PlayMedia -----------------------------
(* One turn of a track: what play_next() does to have it ready, play_media()   *)
(* from its admission to a stream that plays, the fallback of a direct stream  *)
(* that fails (core/calls.py), beside the downloads of Prefetch. The turns of  *)
(* the chat come one after another here; Playback interleaves them.            *)
EXTENDS Prefetch

CONSTANTS MaxRetries,  \* attempts at a voice chat that cannot be reached (5)
          MaxFloods    \* the bound on how often Telegram asks to wait

ASSUME PlayMediaAssumption ==
    /\ MaxRetries \in Nat \ {0}
    /\ MaxFloods \in Nat

VARIABLES turn,      \* how far the play coroutine is, and with which track
          source,    \* media.source: where the file of a track comes from
          early      \* a placeholder holds the voice chat ahead of the source

vars == <<prefetchVars, turn, source, early>>

Idle == [at |-> "idle", track |-> None, first |-> FALSE, then |-> "none", got |-> FALSE,
         direct |-> FALSE, cached |-> FALSE, tried |-> {}, retries |-> 0, floods |-> 0]

Waits   == {"joining", "awaiting owner", "fetching", "failing owner"}
Settled == {"idle", "playing", "escaped"}
Phases  == Settled \cup Waits \cup
           {"preparing", "entering", "resolving", "dispatching", "starting", "remote", "local",
            "catalog", "awaiting", "fetched", "late", "shot", "substitute", "attaching",
            "again", "failing", "giving up", "over"}

TurnState == [at : Phases, track : Tracks \cup {None}, first : BOOLEAN,
              then : {"none", "joined", "local", "late", "shot", "redo", "failover"},
              got : BOOLEAN, direct : BOOLEAN, cached : BOOLEAN,
              tried : SUBSET {"service", "cdn", "no audio", "substitute"},
              retries : 0..MaxRetries, floods : 0..MaxFloods]

Init ==
    /\ PrefetchInit
    /\ turn = Idle
    /\ source = SourceOf
    /\ early = FALSE

Options     == setup.options
On(at)      == turn.at = at
T           == turn.track
Go(at)      == turn' = [turn EXCEPT !.at = at]
May(fault)  == fault \in Faults
Remote(t)   == source[t] \in {"tiktok", "facebook", "telegram"}
AudioOnly(t) == "direct only" \in Options /\ t \notin Videos
mediaVars   == <<turn, source, early>>

\* The file of the track is known: it takes the place of the source.
Ready(from) ==
    /\ file' = file \cup {T}
    /\ local' = local \cup {T}
    /\ source' = [source EXCEPT ![T] = from]
    /\ Go("attaching")

Keeps == UNCHANGED <<queueVars, fileVars, jobVars, marked, spent, outcome, shots, cutShort>>
Still == UNCHANGED <<prefetchVars, source>>

-----------------------------------------------------------------------------
(* The commands, and the end of a turn.                                        *)

Begin(t, first, at) ==
    /\ turn' = [Idle EXCEPT !.at = at, !.track = t, !.first = first]
    /\ UNCHANGED <<source, early>>

\* /play: on a chat that plays nothing what is left of a queue is dropped.
Ask(t) ==
    /\ t \in Wanted \ asked
    /\ turn.at \in Settled \cup Waits
    /\ asked' = asked \cup {t}
    /\ IF On("idle") THEN queue' = <<t>> /\ Begin(t, TRUE, "entering")
                     ELSE queue' = Append(queue, t) /\ UNCHANGED mediaVars
    /\ UNCHANGED <<setup, trackVars, fileVars, jobVars>>

\* The search of a request that begins the chat has a result: its file is
\* fetched while the request is still being set up.
Warm(t) ==
    /\ t \in Wanted \ (asked \cup Videos) /\ YouTube(t)
    /\ On("idle")
    /\ \A j \in Jobs : job[j].owner # t
    /\ CurrentCache(t, FALSE)
    /\ UNCHANGED <<queueVars, fileVars, mediaVars>>

\* Play Now on a track that waits.
Force(t) ==
    /\ May("force") /\ On("playing")
    /\ \E n \in 2..Len(queue) :
         /\ queue[n] = t
         /\ queue' = <<t>> \o Tail(RemoveAt(queue, n))
    /\ CancelAll
    /\ Begin(t, FALSE, "entering")
    /\ UNCHANGED <<setup, asked, fileVars, marked, spent, local, file, shots>>

\* play_next: the next track, or an empty chat that is cleaned up.
Advance ==
    /\ On("over")
    /\ queue' = Tail(queue)
    /\ IF Len(queue) > 1
       THEN Begin(queue[2], FALSE, "preparing") /\ UNCHANGED <<outcome, jobVars, cutShort>>
       ELSE turn' = Idle /\ early' = FALSE /\ CancelAll /\ UNCHANGED source
    /\ UNCHANGED <<setup, asked, fileVars, marked, spent, local, file, shots>>

TrackEnds == On("playing") /\ Go("over") /\ Still /\ UNCHANGED early

\* The card says that there is no file, and play_next follows.
GivesUp == On("giving up") /\ Go("over") /\ Still /\ UNCHANGED early

\* A stream that does not fit ends the turn and leaves the queue as it is.
Refused == May("refused") /\ turn' = Idle /\ early' = FALSE /\ Still

\* stop(): the queue is cleared and the tasks of the chat are cancelled.
Stopped ==
    /\ queue' = <<>>
    /\ turn' = Idle /\ early' = FALSE
    /\ CancelAll
    /\ UNCHANGED <<setup, asked, fileVars, marked, spent, local, file, shots, source>>

-----------------------------------------------------------------------------
(* play_next() before it calls play_media(): a soft wait for the file.         *)

Known(t)  == outcome[t] # "none"
Has(t)    == t \in local \cup file \/ outcome[t] = "got"
SlotAhead(t) == IF Live(ahead) /\ Owns(ahead, t) THEN ahead ELSE None
Slot(t)   == IF Live(ahead) /\ Owns(ahead, t) THEN ahead
             ELSE IF Live(second) /\ Owns(second, t) THEN second ELSE None

Prepare ==
    /\ On("preparing")
    /\ \/ (T \in file \/ source[T] \in {"soundcloud", "telegram"}) /\ Go("entering")
          /\ UNCHANGED <<prefetchVars, source>>
       \/ T \notin file /\ source[T] \in {"tiktok", "facebook"}
          /\ \/ disk' = disk \cup {MediaOf[T]} /\ file' = file \cup {T}
             \/ May("no file") /\ UNCHANGED <<disk, file>>
          /\ Go("entering")
          /\ UNCHANGED <<queueVars, marked, spent, local, outcome, shots, cutShort, flight, jobVars, source>>
    /\ UNCHANGED early

\* The turn asks yt.download for the file, at foreground priority.
Acquire(then) ==
    \/ OnDisk(T) /\ turn' = [turn EXCEPT !.at = "fetched", !.then = then, !.got = TRUE]
       /\ UNCHANGED <<flight, shots>>
    \/ Downloading(T) /\ turn' = [turn EXCEPT !.at = "fetching", !.then = then]

\* join_or_download
Join ==
    /\ On("preparing") /\ T \notin file /\ YouTube(T)
    /\ \/ /\ Has(T)
          /\ file' = file \cup {T} /\ local' = local \cup {T}
          /\ IF Known(T) THEN marked' = marked \cup {T} /\ spent' = spent \cup {T}
                         ELSE UNCHANGED <<marked, spent>>
          /\ Go("entering")
          /\ UNCHANGED <<outcome, shots, fileVars, jobVars>>
       \/ /\ ~Has(T) /\ Slot(T) # None
          /\ marked' = marked \cup {T}
          /\ joined' = Slot(T)
          /\ Go("joining")
          /\ UNCHANGED <<spent, local, file, outcome, shots, fileVars, job, current, ahead, second>>
       \/ /\ ~Has(T) /\ Slot(T) = None /\ (Known(T) \/ T \in spent)
          /\ marked' = IF Known(T) THEN marked \cup {T} ELSE marked
          /\ spent' = spent \cup {T}
          /\ Go("entering")
          /\ UNCHANGED <<local, file, outcome, shots, fileVars, jobVars>>
       \/ /\ ~Has(T) /\ Slot(T) = None /\ ~Known(T) /\ T \notin spent
          /\ marked' = marked \cup {T} /\ spent' = spent \cup {T}
          /\ Acquire("joined")
          /\ UNCHANGED <<local, file, outcome, disk, jobVars>>
    /\ UNCHANGED <<queueVars, cutShort, source, early>>

Unjoined(js) == Swept(js, {current, ahead, second})

JoinEnds ==
    /\ On("joining") /\ ~Live(joined)
    /\ spent' = IF Tried(joined) THEN spent \cup {T} ELSE spent
    /\ LET got == Got(joined)
       IN  /\ local' = IF got THEN local \cup {T} ELSE local
           /\ file' = IF got THEN file \cup {T} ELSE file
    /\ joined' = None
    /\ job' = Unjoined(job)
    /\ Go("entering")
    /\ UNCHANGED <<queueVars, marked, outcome, shots, fileVars, current, ahead, second,
                   source, early, cutShort>>

\* The 4 s that play_next allows are over: the task or download goes on.
JoinCut ==
    /\ May("cut")
    /\ On("joining") \/ (On("fetching") /\ turn.then = "joined")
    /\ joined' = None
    /\ job' = Unjoined(job)
    /\ cutShort' = cutShort \cup {T}
    /\ Go("entering")
    /\ UNCHANGED <<queueVars, marked, spent, local, file, outcome, shots, fileVars,
                   current, ahead, second, source, early>>

-----------------------------------------------------------------------------
(* play_media() up to a file or a direct stream.                               *)

Direct == "direct" \in Options /\ T \notin file /\ source[T] = "youtube"

Enter ==
    /\ On("entering")
    /\ \/ turn.first /\ Refused
       \/ ~Direct /\ (T \in file \/ OnDisk(T))
          /\ Ready(IF Remote(T) /\ T \in file THEN source[T] ELSE "local")
          /\ Keeps /\ UNCHANGED early
       \/ ~Direct /\ T \notin file /\ ~OnDisk(T) /\ Go("remote") /\ Still /\ UNCHANGED early
       \/ Direct /\ Go("resolving") /\ Still
          /\ early' \in IF turn.first /\ "early" \in Options
                        THEN {TRUE} \cup (IF May("early fails") THEN {FALSE} ELSE {})
                        ELSE {FALSE}

\* No source: the placeholder leaves the voice chat before a download begins.
KeepEarly  == UNCHANGED early
CloseEarly == early' = FALSE

Resolve ==
    /\ On("resolving")
    /\ \/ Go("dispatching") /\ UNCHANGED early
       \/ May("build raises") /\ early /\ T \in Videos /\ Go("escaped") /\ UNCHANGED early
       \/ May("no url") /\ Go("local") /\ CloseEarly
    /\ Still

\* A first start is handed to a task of its own; the others wait for it here.
Dispatch ==
    /\ On("dispatching")
    /\ \/ turn.first /\ Go("starting") /\ UNCHANGED early
       \/ turn.first /\ ~early /\ Refused
       \/ ~turn.first /\ turn' = [turn EXCEPT !.at = "playing", !.direct = TRUE] /\ UNCHANGED early
       \/ ~turn.first /\ May("direct fails") /\ UNCHANGED early
          /\ Go(IF AudioOnly(T) THEN "over" ELSE "local")
    /\ Still

Start ==
    /\ On("starting")
    /\ \/ turn' = [turn EXCEPT !.at = "playing", !.direct = TRUE]
       \/ May("direct fails") /\ Go(IF AudioOnly(T) THEN "over" ELSE "failing")
    /\ early' = FALSE
    /\ Still

Only       == "remote only" \in Options
Streams(t) == \/ source[t] = "soundcloud" /\ t \notin Videos
              \/ Remote(t) /\ "remote direct" \in Options
Loads(t)   == \/ source[t] = "soundcloud" /\ Streams(t)
              \/ source[t] \in {"tiktok", "facebook"} /\ Streams(t) /\ ~Only

\* The service has the file, or it has not.
Loaded == Ready(IF Remote(T) THEN source[T] ELSE "local") /\ disk' = disk \cup {MediaOf[T]}
          /\ UNCHANGED <<queueVars, flight, jobVars, marked, spent, outcome, shots, cutShort>>
Misses(at) == May("no file") /\ Go(at) /\ Still

\* The direct streams of the other services, then the file that they download.
Remotely ==
    /\ On("remote")
    /\ \/ Streams(T) /\ turn' = [turn EXCEPT !.at = "playing", !.direct = TRUE] /\ Still
       \/ Streams(T) /\ turn.first /\ Refused
       \/ Streams(T) /\ May("direct fails") /\ Only /\ source[T] # "telegram" /\ Go("over") /\ Still
       \/ Loads(T) /\ May("direct fails") /\ (Loaded \/ Misses("catalog"))
       \/ (Streams(T) => May("direct fails")) /\ ~Loads(T) /\ Go("catalog") /\ Still
    /\ UNCHANGED early

\* The direct stream is lost: a complete file, or the download beside it.
Local ==
    /\ On("local")
    /\ \/ OnDisk(T) /\ Ready("local") /\ Keeps
       \/ ~OnDisk(T) /\ turn' = [turn EXCEPT !.at = "awaiting", !.then = "local"] /\ Still
    /\ UNCHANGED early

\* The slot current_cache has a live task for the track.
Cached == Live(current) /\ Owns(current, T)

\* The track is told not to begin another acquisition.
OneShot(t)      == t \in marked \/ Known(t)

\* await_current_cache_or_download: the task of the slot is awaited, and taken
\* out of it, whatever comes of it.
AwaitOwner ==
    /\ On("awaiting") /\ Cached
    /\ joined' = current
    /\ Go("awaiting owner")
    /\ IF Known(T) THEN Adopts(T) ELSE UNCHANGED <<marked, spent, local>>
    /\ UNCHANGED <<queueVars, file, outcome, shots, fileVars, job, current, ahead, second,
                   source, early, cutShort>>

Await ==
    /\ \/ On("awaiting") /\ ~Cached
       \/ On("awaiting owner") /\ ~Live(joined)
    /\ LET owner == IF On("awaiting owner") THEN joined
                    ELSE IF current # None /\ Owns(current, T) THEN current ELSE None
           got == Has(T) \/ (owner # None /\ (Got(owner) \/ OnDisk(T)))
       IN  /\ spent' = IF Known(T) \/ (owner # None /\ Tried(owner)) THEN spent \cup {T} ELSE spent
           /\ local' = IF got THEN local \cup {T} ELSE local
           /\ marked' = IF Known(T) THEN marked \cup {T} ELSE marked
           /\ joined' = None
           /\ current' = IF owner # None THEN None ELSE current
           /\ job' = Swept(job, {current', ahead, second})
           /\ \/ (got \/ OneShot(T) \/ OnDisk(T))
                 /\ turn' = [turn EXCEPT !.at = "fetched", !.got = got \/ (~OneShot(T) /\ OnDisk(T))]
                 /\ UNCHANGED <<flight, shots>>
              \/ ~got /\ ~OneShot(T) /\ Downloading(T) /\ Go("fetching")
    /\ UNCHANGED <<queueVars, file, outcome, disk, ahead, second, source, early, cutShort>>

\* The turn goes on where it asked for the file.
Fetched ==
    /\ On("fetched")
    /\ turn' = [turn EXCEPT !.then = "none", !.got = FALSE, !.at =
                  CASE turn.then = "joined"                     -> "entering"
                    [] turn.then # "joined" /\ (turn.got \/ (turn.then = "local" /\ OnDisk(T)))
                                                                -> "attaching"
                    [] turn.then = "local" /\ ~OnDisk(T) /\ ~turn.got -> "catalog"
                    [] turn.then = "late" /\ ~turn.got          -> "shot"
                    [] turn.then = "shot" /\ ~turn.got          -> "substitute"
                    [] turn.then \in {"redo", "failover"} /\ ~turn.got -> "over"]
    /\ LET got == turn.got \/ (turn.then = "local" /\ OnDisk(T))
       IN  /\ file' = IF got THEN file \cup {T} ELSE file
           /\ local' = IF got THEN local \cup {T} ELSE local
           /\ source' = IF got /\ turn.then # "joined" THEN [source EXCEPT ![T] = "local"]
                                                       ELSE source
           /\ IF turn.then = "joined" THEN Remember(T, got) ELSE UNCHANGED outcome
    /\ UNCHANGED <<queueVars, marked, spent, shots, fileVars, jobVars, early, cutShort>>

\* The CDN: for YouTube only what is ready, for the others a job of its own.
Catalog ==
    /\ On("catalog")
    /\ LET asks == "cdn" \in Options /\ source[T] # "telegram"
       IN  \/ asks /\ source[T] = "youtube" /\ OnDisk(T) /\ Ready("local")
              /\ Keeps
           \/ asks /\ source[T] \in {"soundcloud", "tiktok", "facebook"}
              /\ Ready("cdn") /\ disk' = disk \cup {MediaOf[T]}
              /\ UNCHANGED <<queueVars, flight, jobVars, marked, spent, outcome, shots, cutShort>>
           \/ (asks => (IF source[T] = "youtube" THEN ~OnDisk(T) ELSE May("no file")))
              /\ Still
              /\ turn' = [turn EXCEPT !.at = IF source[T] = "youtube" THEN "awaiting" ELSE "late",
                                      !.then = IF source[T] = "youtube" THEN "late" ELSE "none"]
    /\ UNCHANGED early

\* The last download of the other services.
Late ==
    /\ On("late")
    /\ Loaded \/ Misses("giving up")
    /\ UNCHANGED early

\* The single shot of a YouTube track that has not been marked before.
Shoot ==
    /\ On("shot")
    /\ \/ T \in marked /\ Go("substitute") /\ UNCHANGED <<prefetchVars>>
       \/ T \notin marked
          /\ marked' = marked \cup {T} /\ spent' = spent \cup {T}
          /\ Acquire("shot")
          /\ UNCHANGED <<queueVars, local, file, outcome, disk, jobVars, cutShort>>
    /\ UNCHANGED <<source, early>>

\* Another upload of the song, from SoundCloud, once and for audio only.
Substitute ==
    /\ On("substitute")
    /\ \/ T \notin Videos /\ "substitute" \notin turn.tried
          /\ file' = file \cup {T} /\ local' = local \cup {T}
          /\ source' = [source EXCEPT ![T] = "local"]
          /\ turn' = [turn EXCEPT !.at = "attaching", !.tried = @ \cup {"substitute"}]
          /\ Keeps
       \/ (T \in Videos \/ May("no file")) /\ Go("giving up") /\ Still
    /\ UNCHANGED early

-----------------------------------------------------------------------------
(* The loop that plays the file, and the stream that plays.                    *)

RetryRound(n) == turn' = [turn EXCEPT !.retries = (@ + n) % MaxRetries]
Retry(n) == IF turn.retries + 1 >= MaxRetries
            THEN turn' = [turn EXCEPT !.at = "over", !.retries = MaxRetries]
            ELSE turn' = [turn EXCEPT !.retries = @ + n]

\* The file of the service in place of its stream, once.
Swap == Remote(T) /\ "service" \notin turn.tried /\ "remote only" \notin Options
Swapped == turn' = [turn EXCEPT !.tried = @ \cup {"service"}]

Unreachable ==
    /\ May("unreachable")
    /\ \/ Swap /\ Swapped /\ UNCHANGED source
       \/ source[T] = "cdn" /\ "cdn" \notin turn.tried
          /\ turn' = [turn EXCEPT !.tried = @ \cup {"cdn"}]
          /\ source' = [source EXCEPT ![T] = "local"]
       \/ (Swap => May("no file")) /\ (source[T] = "cdn" => "cdn" \in turn.tried)
          /\ Retry(1) /\ UNCHANGED source
    /\ UNCHANGED prefetchVars

Refetch == T \notin marked \cup Videos /\ YouTube(T) /\ "no audio" \notin turn.tried

NoAudio ==
    /\ May("no audio")
    /\ \/ Swap /\ source[T] = "facebook" /\ Go("escaped") /\ Still
       \/ Swap /\ source[T] = "tiktok" /\ Swapped /\ Still
       \/ Refetch
          /\ disk' = disk \ {MediaOf[T]}
          /\ file' = file \ {T} /\ local' = local \ {T}
          /\ flight' = flight \cup {MediaOf[T]}
          /\ shots' = [shots EXCEPT ![T] = @ + 1]
          /\ turn' = [turn EXCEPT !.at = "fetching", !.then = "redo",
                                  !.tried = @ \cup {"no audio"}]
          /\ UNCHANGED <<queueVars, marked, spent, outcome, jobVars, source, cutShort>>
       \/ Swap /\ source[T] = "tiktok" /\ Misses("over")
       \/ ~Refetch /\ (Swap => source[T] = "telegram") /\ Go("over") /\ Still

Attach ==
    /\ On("attaching")
    /\ \/ turn' = [turn EXCEPT !.at = "playing", !.direct = FALSE] /\ Still /\ UNCHANGED early
       \/ turn.first /\ Refused
       \/ Unreachable /\ UNCHANGED early
       \/ NoAudio /\ UNCHANGED early
       \/ May("no call") /\ Go("again") /\ Still /\ UNCHANGED early
       \/ May("flood") /\ turn.floods < MaxFloods /\ Still /\ UNCHANGED early
          /\ turn' = [turn EXCEPT !.floods = @ + 1]
       \/ May("unsupported") /\ Stopped
       \/ May("breaks") /\ Go("over") /\ Still /\ UNCHANGED early

\* The voice chat was gone: one more attempt after 2 s, then the chat stops.
Again ==
    /\ On("again")
    /\ \/ turn' = [turn EXCEPT !.at = "playing", !.direct = FALSE] /\ Still /\ UNCHANGED early
       \/ turn.first /\ Refused
       \/ May("breaks") /\ Go("escaped") /\ Still /\ UNCHANGED early
       \/ Stopped

\* Beside a direct stream its file is fetched for a copy of the track.
Background ==
    /\ On("playing") /\ turn.direct /\ ~turn.cached /\ YouTube(T)
    /\ turn' = [turn EXCEPT !.cached = TRUE]
    /\ IF OnDisk(T) THEN local' = local \cup {T}
                         /\ UNCHANGED <<marked, spent, file, outcome, shots, cutShort, jobVars>>
                    ELSE CurrentCache(T, T \in spent)
    /\ UNCHANGED <<queueVars, fileVars, source, early>>

WarmNext == On("playing") /\ StartNext /\ UNCHANGED mediaVars

\* _try_direct_local_failover
Fails ==
    /\ May("dies") /\ On("playing") /\ turn.direct /\ YouTube(T)
    /\ Go("failing") /\ Still /\ UNCHANGED early

FailOver ==
    /\ \/ On("failing") /\ ~Cached
       \/ On("failing owner") /\ ~Live(joined)
    /\ joined' = None
    /\ job' = Unjoined(job)
    /\ \/ OnDisk(T) /\ Ready("local")
       \/ ~OnDisk(T) /\ UNCHANGED <<file, local, source>>
          /\ IF AudioOnly(T) THEN Go("over")
             ELSE turn' = [turn EXCEPT !.at = "awaiting", !.then = "failover"]
    /\ UNCHANGED <<queueVars, fileVars, marked, spent, outcome, shots, current, ahead, second,
                   early, cutShort>>

FailOwner ==
    /\ On("failing") /\ Cached
    /\ joined' = current
    /\ Go("failing owner")
    /\ UNCHANGED <<queueVars, trackVars, fileVars, job, current, ahead, second, source, early>>

-----------------------------------------------------------------------------
Resume(m, got) ==
    /\ FlightEnds(m, got)
    /\ turn' = IF On("fetching") /\ MediaOf[T] = m
               THEN [turn EXCEPT !.at = "fetched", !.got = got] ELSE turn
    /\ UNCHANGED <<source, early>>

RunJob(j) == JobStarts(j) /\ UNCHANGED mediaVars

Turn == \/ Prepare \/ Join \/ JoinEnds \/ Enter \/ Resolve \/ Dispatch \/ Start \/ Remotely
        \/ Local \/ AwaitOwner \/ Await \/ Fetched \/ Catalog \/ Late \/ Shoot \/ Substitute
        \/ Attach \/ Again \/ FailOwner \/ FailOver \/ GivesUp \/ Advance

\* A task that was just created runs before anything that waits for the network.
Calm == \A j \in Jobs : job[j].at # "new"
Runs == Calm /\ Turn

Next ==
    \/ Runs
    \/ \E j \in Jobs : RunJob(j)
    \/ /\ Calm
       /\ \/ JoinCut \/ TrackEnds \/ Fails \/ Background \/ WarmNext
          \/ \E t \in Tracks : Ask(t) \/ Warm(t) \/ Force(t) \/ (Forget(t) /\ UNCHANGED mediaVars)
          \/ \E m \in Media, got \in BOOLEAN : Resume(m, got)

Spec == Init /\ [][Next]_vars

\* The event loop runs a coroutine that can go on, and a download ends.
FairSpec ==
    /\ Spec
    /\ WF_vars(Runs)
    /\ \A j \in Jobs : WF_vars(RunJob(j))
    /\ \A m \in Media : WF_vars(Calm /\ \E got \in BOOLEAN : Resume(m, got))

-----------------------------------------------------------------------------
TypeOK ==
    /\ setup \in Setups
    /\ queue \in Seq(Tracks) /\ asked \subseteq Tracks
    /\ marked \subseteq Tracks /\ spent \subseteq Tracks
    /\ local \subseteq Tracks /\ file \subseteq Tracks
    /\ disk \subseteq Media /\ flight \subseteq Media
    /\ outcome \in [Tracks -> {"none", "got", "failed"}]
    /\ job \in [Jobs -> JobState]
    /\ {current, ahead, second, joined} \subseteq Jobs \cup {None}
    /\ shots \in [Tracks -> Nat]
    /\ turn \in TurnState
    /\ source \in [Tracks -> Services \cup {"local", "cdn"}]
    /\ early \in BOOLEAN
    /\ cutShort \subseteq Tracks

\* A track is given up for want of a file only when its file is not there and
\* nobody downloads it, save one whose wait was cut off.
GivesUpWhenOver ==
    [][(turn'.at = "giving up" /\ ~On("giving up") /\ T \notin cutShort)
         => MediaOf[T] \notin flight' \cup disk']_vars

\* No exception: "It is only ever delayed, never cancelled" (prefetch.py:600).
KeepsPrefetch ==
    [][turn'.at = "giving up" /\ ~On("giving up") => MediaOf[T] \notin flight']_vars

\* "a busy moment delays a song by seconds rather than failing it"
\* (resource_manager.py:479): no track is given up before it was tried.
BusyDelays ==
    [][turn'.at = "giving up" /\ ~On("giving up") /\ YouTube(T) => shots[T] > 0]_vars

\* The shot of a track that is marked and spent brings no further yt-dlp.
SpentIsFinal ==
    [][\A t \in marked \cap spent : shots'[t] = shots[t]]_vars

\* One track, one acquisition by yt-dlp.
OneAcquisition == \A t \in Tracks : shots[t] <= 1

\* No turn that ends leaves a silent placeholder in the voice chat, save one that
\* an exception takes out of play_media.
EarlySettled == early => turn.at \in {"resolving", "dispatching", "starting", "escaped"}

\* Nothing that can go wrong is left to the caller of play_media.
NoEscape == turn.at # "escaped"

\* Every turn plays, gives way to the next track or ends.
TurnEnds == ~(turn.at \in Settled) ~> turn.at \in Settled
=============================================================================
