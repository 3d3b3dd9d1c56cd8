---------------------------- MODULE SocialCache ----------------------------
(* The yt-dlp providers of social links, core/tiktok.py and core/facebook.py: a *)
(* request resolves a remote stream while a cache task of its chat downloads    *)
(* the file beside it; when the remote stream fails, the request waits for that *)
(* task and then downloads on its own. All downloads of a media id share one    *)
(* flight, because audio and video write the same prefix downloads/<id>.*, and  *)
(* run in a thread that no cancellation reaches.                                *)
EXTENDS Naturals, FiniteSets

CONSTANTS
  Ids,          \* media ids
  Chats,
  Players,      \* play requests
  Tasks,        \* background tasks of current_cache
  None,
  MaxDownloads  \* permits of the download semaphore

VARIABLES
  files,    \* [Ids -> SUBSET {"audio", "video"}]: <id>.m4a and <id>.mp4, whole
  entry,    \* current_cache: [Chats -> the task, or None]
  co,       \* [Players \cup Tasks -> the coroutine]
  flight,   \* [Ids \X BOOLEAN -> where the flight of that key is]
  threads,  \* [Ids -> the worker threads that write under the prefix]
  closing   \* shutdown() has run

vars == <<files, entry, co, flight, threads, closing>>

Coros == Players \cup Tasks

Unborn == [at |-> "idle", chat |-> None, id |-> None, video |-> FALSE, of |-> None,
           got |-> "none", again |-> FALSE]
NoFlight == [at |-> "none", video |-> FALSE]

Init ==
  /\ files = [i \in Ids |-> {}]
  /\ entry = [c \in Chats |-> None]
  /\ co = [x \in Coros |-> Unborn]
  /\ flight = [k \in Ids \X BOOLEAN |-> NoFlight]
  /\ threads = [i \in Ids |-> 0]
  /\ closing = FALSE

\* A mutant: audio and video have flights of their own.
KeyOfEach(id, video) == <<id, video>>

\* "Audio and video use one media-ID flight because both yt-dlp branches write
\* the same output prefix."
Key(id, video) == <<id, FALSE>>

\* is_playable_media(): a video file serves both.
Playable(have, video) == IF video THEN have \cap {"video"} ELSE have

Ended(x) == co[x].at \in {"done", "cancelled"}

Cancels(f, x) ==
  IF f[x].at \in {"look", "join", "riding", "check"} THEN [f EXCEPT ![x].at = "done"] ELSE f

\* The callback of the task removes its own entry and no other.
WithoutEntryOf(t) == [c \in Chats |-> IF entry[c] = t THEN None ELSE entry[c]]

-----------------------------------------------------------------------------
(* The request.                                                                *)

Arrives(p, c, id, v) ==
  /\ co[p].at = "idle"
  /\ co' = [co EXCEPT ![p] = [Unborn EXCEPT !.at = "resolving", !.chat = c, !.id = id, !.video = v]]
  /\ UNCHANGED <<files, entry, flight, threads, closing>>

\* start_current_cache(): nothing while the task of this media runs; the entry
\* of another media is replaced, and its task goes on.
StartCache(p, t) ==
  /\ co[p].at = "resolving" /\ ~closing /\ co[t].at = "idle"
  /\ LET c == co[p].chat
         old == entry[c] IN
     /\ ~(old # None /\ co[old].of = p /\ ~Ended(old))
     /\ entry' = [entry EXCEPT ![c] = t]
     /\ co' = [co EXCEPT ![t] = [co[p] EXCEPT !.at = "look", !.of = p]]
  /\ UNCHANGED <<files, flight, threads, closing>>

\* resolve_direct_stream() has found a stream, and it plays.
PlaysRemote(p) ==
  /\ co[p].at = "resolving"
  /\ co' = [co EXCEPT ![p].at = "done", ![p].got = "remote"]
  /\ UNCHANGED <<files, entry, flight, threads, closing>>

\* await_current_cache_or_download()
NeedsFile(p) ==
  /\ co[p].at = "resolving"
  /\ LET t == entry[co[p].chat] IN
     co' = [co EXCEPT ![p].at = IF t # None /\ co[t].of = p THEN "waiting" ELSE "look"]
  /\ UNCHANGED <<files, entry, flight, threads, closing>>

TaskOf(p) == {t \in Tasks : co[t].of = p}

\* The task has ended, or is cancelled when the wait is over; the entry of the
\* chat is removed, whosever it is by now.
Waited(p) ==
  /\ co[p].at = "waiting"
  /\ \E t \in TaskOf(p) :
       LET cut == Cancels(co, t) IN
       co' = [cut EXCEPT ![p].at = "look"]
  /\ entry' = [entry EXCEPT ![co[p].chat] = None]
  /\ UNCHANGED <<files, flight, threads, closing>>

\* The request is cancelled; wait_for() cancels the task that it waits for.
CancelRequest(p) ==
  /\ co[p].at \in {"resolving", "waiting", "look", "join", "riding", "check"}
  /\ LET mine == IF co[p].at = "waiting" THEN TaskOf(p) ELSE {} IN
     /\ co' = [x \in Coros |->
                 IF x = p THEN [co[x] EXCEPT !.at = "cancelled"]
                 ELSE IF x \in mine /\ ~Ended(x) THEN [co[x] EXCEPT !.at = "done"] ELSE co[x]]
     /\ entry' = [c \in Chats |-> IF entry[c] \in mine THEN None ELSE entry[c]]
  /\ UNCHANGED <<files, flight, threads, closing>>

-----------------------------------------------------------------------------
(* download()                                                                  *)

Over(x, f, what) ==
  /\ co' = [f EXCEPT ![x].at = "done", ![x].got = what]
  /\ entry' = IF x \in Tasks THEN WithoutEntryOf(x) ELSE entry

\* A thread looks for a file that is there already.
Look(x) ==
  /\ co[x].at = "look"
  /\ LET fit == Playable(files[co[x].id], co[x].video) IN
     \/ \E f \in fit : Over(x, co, f)
     \/ fit = {} /\ co' = [co EXCEPT ![x].at = "join"] /\ UNCHANGED entry
  /\ UNCHANGED <<files, flight, threads, closing>>

\* The flight of the media is joined, or a new one is started.
Join(x) ==
  /\ co[x].at = "join"
  /\ LET k == Key(co[x].id, co[x].video) IN
     IF closing THEN Over(x, co, "none") /\ UNCHANGED flight
     ELSE /\ co' = [co EXCEPT ![x].at = "riding"]
          /\ flight' = IF flight[k].at # "none" THEN flight
                       ELSE [flight EXCEPT ![k] = [at |-> "queued", video |-> co[x].video]]
          /\ UNCHANGED entry
  /\ UNCHANGED <<files, threads, closing>>

Running == {k \in DOMAIN flight : flight[k].at = "running"}

\* The worker has a permit and its thread begins: _purge_bad_artifacts() removes
\* what is not playable as the owner of the flight wants it.
Begins(k) ==
  /\ flight[k].at = "queued" /\ Cardinality(Running) < MaxDownloads
  /\ flight' = [flight EXCEPT ![k].at = "running"]
  /\ threads' = [threads EXCEPT ![k[1]] = @ + 1]
  /\ files' = [files EXCEPT ![k[1]] = Playable(@, flight[k].video)]
  /\ UNCHANGED <<entry, co, closing>>

\* What the thread leaves: the file, or nothing after all formats. The muxed
\* formats of the audio branch write over the .mp4 and drop it once extracted.
Leaves(have, video) ==
  IF video THEN {have, have \cup {"video"}}
  ELSE {have, have \cup {"audio"}, {"audio"}, {}}

Riders(k) == {x \in Coros : co[x].at = "riding" /\ Key(co[x].id, co[x].video) = k}

\* Every rider is told; a second flight is not looked at again.
Lands(k) ==
  /\ flight[k].at = "running"
  /\ \E left \in Leaves(files[k[1]], flight[k].video) :
       LET kind == IF flight[k].video THEN "video" ELSE "audio"
           got == IF kind \in left THEN kind ELSE "none" IN
       /\ files' = [files EXCEPT ![k[1]] = left]
       /\ co' = [x \in Coros |->
                   IF x \notin Riders(k) THEN co[x]
                   ELSE [co[x] EXCEPT !.got = got, !.at = IF co[x].again THEN "done" ELSE "check"]]
       /\ entry' = [c \in Chats |->
                      IF entry[c] \in Riders(k) /\ co'[entry[c]].at = "done" THEN None ELSE entry[c]]
  /\ flight' = [flight EXCEPT ![k] = NoFlight]
  /\ threads' = [threads EXCEPT ![k[1]] = @ - 1]
  /\ UNCHANGED closing

\* The result of a flight of the other kind is followed by one more flight.
Check(x) ==
  /\ co[x].at = "check"
  /\ IF co[x].got = "none" \/ co[x].got \in Playable(files[co[x].id], co[x].video)
     THEN Over(x, co, co[x].got)
     ELSE co' = [co EXCEPT ![x].at = "join", ![x].again = TRUE, ![x].got = "none"] /\ UNCHANGED entry
  /\ UNCHANGED <<files, flight, threads, closing>>

\* A thread whose flight was cancelled by the shutdown ends on its own.
ThreadEnds(i) ==
  /\ closing /\ threads[i] > 0
  /\ threads' = [threads EXCEPT ![i] = @ - 1]
  /\ \E v \in BOOLEAN : files' \in {[files EXCEPT ![i] = left] : left \in Leaves(files[i], v)}
  /\ UNCHANGED <<entry, co, flight, closing>>

\* shutdown(): the tasks of the entries, the requests registered while they
\* download, and the flights.
Shutdown ==
  /\ ~closing /\ closing' = TRUE
  /\ LET owned == {t \in Tasks : \E c \in Chats : entry[c] = t} IN
     co' = [x \in Coros |-> IF (x \in owned /\ ~Ended(x)) \/ co[x].at = "riding"
                            THEN [co[x] EXCEPT !.at = "done"] ELSE co[x]]
  /\ entry' = [c \in Chats |-> None]
  /\ flight' = [k \in DOMAIN flight |-> NoFlight]
  /\ UNCHANGED <<files, threads>>

Next ==
  \/ \E p \in Players, c \in Chats, i \in Ids, v \in BOOLEAN : Arrives(p, c, i, v)
  \/ \E p \in Players, t \in Tasks : StartCache(p, t)
  \/ \E p \in Players : PlaysRemote(p) \/ NeedsFile(p) \/ Waited(p) \/ CancelRequest(p)
  \/ \E x \in Coros : Look(x) \/ Join(x) \/ Check(x)
  \/ \E k \in DOMAIN flight : Begins(k) \/ Lands(k)
  \/ \E i \in Ids : ThreadEnds(i)
  \/ Shutdown

Spec == Init /\ [][Next]_vars

-----------------------------------------------------------------------------
TypeOK ==
  /\ files \in [Ids -> SUBSET {"audio", "video"}]
  /\ entry \in [Chats -> Tasks \cup {None}]
  /\ \A x \in Coros :
       /\ co[x].at \in {"idle", "resolving", "waiting", "look", "join", "riding", "check", "done", "cancelled"}
       /\ co[x].got \in {"none", "remote", "audio", "video"}
  /\ \A k \in DOMAIN flight : flight[k].at \in {"none", "queued", "running"}
  /\ threads \in [Ids -> Nat] /\ closing \in BOOLEAN

\* "A waiter cancellation cannot release ownership while yt-dlp's worker thread
\* is still writing its .part file": under one prefix one thread writes, whoever
\* asked, was cancelled or timed out, and the permits bound them all, though the
\* shutdown gives permits back before the threads have ended.
OneWriter ==
  /\ \A i \in Ids : threads[i] <= 1
  /\ ~closing => Cardinality({i \in Ids : threads[i] > 0}) <= MaxDownloads

Serves(x) == ~Ended(x) /\ co'[x].at = "done" /\ co'[x].got \in {"audio", "video"}

\* A request is given a file that is there and has what it wants.
ServedAsAsked ==
  [][\A p \in Players : Serves(p) => co'[p].got \in Playable(files'[co[p].id], co[p].video)]_vars

\* The file of a request that plays it stays.
InUseIsKept ==
  [][\A p \in Players :
       co[p].at = "done" /\ co[p].got \in files[co[p].id] => co[p].got \in files'[co[p].id]]_vars

\* "Cancel and await every cache/download task owned by this provider."
NoTaskLeft == closing => \A t \in Tasks : co[t].at \in {"idle", "done"}
=============================================================================
