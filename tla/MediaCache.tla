----------------------------- MODULE MediaCache -----------------------------
(* The files that YouTube songs are played from and the catalogue that keeps   *)
(* them: rows by cache key (core/cache/keys.py), the counts of the hub and     *)
(* their copies in the rows (core/cache/hub.py, core/cdn/store.py), the        *)
(* publishing of a download under ready/ (core/cdn/manager.py), the collector  *)
(* (core/cdn/cleaner.py) and the sessions that hold a key while a chat plays   *)
(* (core/playback_orchestrator.py). One quality, audio; the process may die.   *)
EXTENDS Integers, FiniteSets

CONSTANTS Chats, Songs,
          Nothing,       \* no key, no file
          Labels,     \* what detect_source() says of a track: how it came to its source
          Tiers,      \* the tiers of the profiles; rows of songs are written under "best"
          MayDie      \* the process may be killed and started again

Key    == [media : Songs, label : Labels, tier : Tiers]

ASSUME CacheAssumption ==
    /\ MayDie \in BOOLEAN /\ IsFiniteSet(Chats)
    /\ Labels \subseteq {"youtube", "youtube_remote", "local"} /\ {"youtube", "local"} \subseteq Labels
    /\ Tiers \subseteq {"best", "good"} /\ "best" \in Tiers
    /\ Nothing \notin Chats \cup Songs \cup Key

Paths  == [media : Songs, dir : {"downloads", "ready", "tmp", "publishing"}]
File(m, dir) == [media |-> m, dir |-> dir]
Named(m, label, tier) == [media |-> m, label |-> label, tier |-> tier]

VARIABLES row,       \* the catalogue, on disk
          files,     \* the complete files
          loading,   \* the songs that yt-dlp downloads
          job,       \* the keys with a download-and-publish job in flight
          hub,       \* _refcounts of the hub
          session,   \* _active of the startup gate: the key that a chat holds
          chat,      \* what a chat does, and with which file
          left       \* history: the rows whose count a dead process left behind

cacheVars == <<row, files, loading, job, hub, session, chat, left>>

NoRow == [status |-> "none", path |-> Nothing, count |-> 0, durable |-> FALSE]
NoChat == [at |-> "idle", media |-> Nothing, path |-> Nothing]

RowState  == [status : {"none", "ready", "downloading", "failed"},
              path : Paths \cup {Nothing}, count : 0..Cardinality(Chats), durable : BOOLEAN]
ChatState == [at : {"idle", "streaming", "starting", "playing"},
              media : Songs \cup {Nothing}, path : Paths \cup {Nothing}]

CacheInit ==
    /\ row = [k \in Key |-> NoRow]
    /\ files = {} /\ loading = {} /\ job = {}
    /\ hub = [k \in Key |-> 0]
    /\ session = [c \in Chats |-> Nothing]
    /\ chat = [c \in Chats |-> NoChat]
    /\ left = {}

-----------------------------------------------------------------------------
(* The counts.                                                                 *)

\* The row of a key learns its count if there is such a row.
Stored(rows, k, n) == IF rows[k] = NoRow THEN rows ELSE [rows EXCEPT ![k].count = n]

\* A session of c for the key k in place of the one it has; Nothing for none.
MovedOnly(h, old, new) ==
    IF new # Nothing THEN [h EXCEPT ![new] = @ + 1]
    ELSE IF old = Nothing THEN h ELSE [h EXCEPT ![old] = @ - 1]
Moved(h, old, new) ==
    LET released == IF old = Nothing THEN h ELSE [h EXCEPT ![old] = @ - 1]
    IN  IF new = Nothing THEN released ELSE [released EXCEPT ![new] = @ + 1]

Hold(c, new) ==
    LET old == session[c]
        released == IF old = Nothing THEN row ELSE Stored(row, old, hub[old] - 1)
        counted == Moved(hub, old, new)
    IN  /\ session' = [session EXCEPT ![c] = new]
        /\ hub' = counted
        /\ row' = IF new = Nothing THEN released ELSE Stored(released, new, counted[new])
        /\ left' = left \ {old, new}

-----------------------------------------------------------------------------
(* What a chat plays.                                                          *)

\* No file: the stream itself, held under the tier of its profile. The track
\* counts as youtube_remote once the stream has started.
StreamDirect(c, m) ==
    /\ chat[c].at = "idle"
    /\ files \cap {File(m, "downloads"), File(m, "ready")} = {}
    /\ \E tier \in Tiers : Hold(c, Named(m, "youtube", tier))
    /\ chat' = [chat EXCEPT ![c] = [at |-> "streaming", media |-> m, path |-> Nothing]]
    /\ UNCHANGED <<files, loading, job>>

\* The file that the cache resolver finds first is the one that will be played;
\* the track counts as a local one from here on, and what it holds has that name.
PickLocal(c, m) ==
    /\ chat[c].at = "idle" \/ (chat[c].at = "streaming" /\ chat[c].media = m)
    /\ \E path \in files :
         /\ path = File(m, "downloads")
            \/ (path = File(m, "ready") /\ File(m, "downloads") \notin files)
         /\ chat' = [chat EXCEPT ![c] = [at |-> "starting", media |-> m, path |-> path]]
    /\ \E tier \in Tiers : Hold(c, Named(m, "local", tier))
    /\ UNCHANGED <<files, loading, job>>

\* The voice chat is joined after some awaits; the file is opened only then.
AttachFile(c) ==
    /\ chat[c].at = "starting" /\ chat[c].path \in files
    /\ chat' = [chat EXCEPT ![c].at = "playing"]
    /\ UNCHANGED <<row, files, loading, job, hub, session, left>>

\* The end of the track, a stop, or a file that is not there any more.
Leave(c) ==
    /\ chat[c].at \in {"streaming", "playing"}
       \/ (chat[c].at = "starting" /\ chat[c].path \notin files)
    /\ Hold(c, Nothing)
    /\ chat' = [chat EXCEPT ![c] = NoChat]
    /\ UNCHANGED <<files, loading, job>>

-----------------------------------------------------------------------------
(* Downloads and publishing.                                                   *)

\* yt.download is asked for a song that has no file.
Load(m) ==
    /\ m \notin loading /\ files \cap {File(m, "downloads"), File(m, "ready")} = {}
    /\ loading' = loading \cup {m}
    /\ UNCHANGED <<row, files, job, hub, session, chat, left>>

\* The row of a finished download stays until the disk is short of space.
Recorded(rows, k, path) ==
    [rows EXCEPT ![k] = [status |-> "ready", path |-> path, count |-> @.count, durable |-> TRUE]]

\* A row that is published has an age, save one that was a download before.
Published(rows, k) ==
    [rows EXCEPT ![k] = [status |-> "ready", path |-> File(k.media, "ready"),
                         count |-> @.count, durable |-> @.durable]]

Downloading(rows, k) == [rows EXCEPT ![k].status = "downloading"]
Fails(rows, k)       == [rows EXCEPT ![k].status = "failed"]

\* The file moves through tmp/ to ready/, or is there already.
MovedFile(m) ==
    (files \ {File(m, dir) : dir \in {"downloads", "tmp", "publishing"}}) \cup {File(m, "ready")}

\* The waiting owner records the download under the name its track has.
Loaded(m, got) ==
    /\ m \in loading
    /\ loading' = loading \ {m}
    /\ IF got
       THEN /\ files' = files \cup {File(m, "downloads")}
            /\ \E label \in Labels \ {"local"} :
                 row' = Recorded(row, Named(m, label, "best"), File(m, "downloads"))
       ELSE UNCHANGED <<files, row>>
    /\ UNCHANGED <<job, hub, session, chat, left>>

\* A file that exists is recorded again by whoever asks for the download.
Record(m) ==
    /\ \E path \in files \cap {File(m, "downloads"), File(m, "ready")}, label \in Labels :
         row' = Recorded(row, Named(m, label, "best"), path)
    /\ UNCHANGED <<files, loading, job, hub, session, chat, left>>

\* ensure_ready for a key: nothing to do when ready/ has the song or the row of
\* the key a file; else its job publishes the download that is there, or asks
\* for one.
Valid(k) == row[k].path # Nothing /\ row[k].path \in files

Ensure(k) ==
    /\ k.tier = "best" /\ k \notin job
    /\ File(k.media, "ready") \notin files /\ ~Valid(k)
    /\ IF File(k.media, "downloads") \in files
       THEN /\ files' = MovedFile(k.media)
            /\ row' = Published(Downloading(row, k), k)
            /\ UNCHANGED <<loading, job>>
       ELSE /\ row' = Downloading(row, k)
            /\ loading' = loading \cup {k.media}
            /\ job' = job \cup {k}
            /\ UNCHANGED files
    /\ UNCHANGED <<hub, session, chat, left>>

\* The download that the job waited for is over; whoever comes second finds
\* that the file has moved.
JobEnds(k) ==
    /\ k \in job /\ k.media \notin loading
    /\ job' = job \ {k}
    /\ \/ File(k.media, "downloads") \in files
          /\ files' = MovedFile(k.media)
          /\ row' = Published(row, k)
       \/ File(k.media, "downloads") \notin files
          /\ UNCHANGED files
          /\ \/ File(k.media, "ready") \in files /\ row' = Published(row, k)
             \/ File(k.media, "ready") \notin files /\ row' = Fails(row, k)
             \/ UNCHANGED row
    /\ UNCHANGED <<loading, hub, session, chat, left>>

-----------------------------------------------------------------------------
(* The collector: one round, without a pause between its phases.               *)

ActiveRow(k) == row[k].count > 0
Active(k) == hub[k] > 0 \/ row[k].count > 0

\* Rows of an age, those without a file, and under pressure the least used; a
\* file that a dead process left in tmp/ goes after two hours.
Aged             == {k \in Key : row[k] # NoRow /\ ~row[k].durable /\ ~Active(k)}
PathsOf(keys)    == {row[k].path : k \in keys}
UnfiledAged(gone) == {k \in Key : row[k].status = "ready" /\ ~Active(k) /\ ~row[k].durable
                                  /\ row[k].path \notin files \ PathsOf(gone)}
Unfiled(gone)    == {k \in Key : row[k].status = "ready" /\ ~Active(k)
                                 /\ row[k].path \notin files \ PathsOf(gone)}
Spare(gone)      == {k \in Key \ gone : row[k].status = "ready" /\ ~Active(k)}

Collect(aged, parts) ==
    LET gone == aged \cup Unfiled(aged)
    IN  \E spare \in SUBSET Spare(gone) :
          /\ row' = [k \in Key |-> IF k \in gone \cup spare THEN NoRow ELSE row[k]]
          /\ files' = (files \ PathsOf(aged \cup spare)) \ parts
          /\ left' = left \ (gone \cup spare)
          /\ UNCHANGED <<loading, job, hub, session, chat>>

\* The process dies, perhaps while it moves a file, and starts again.
Die ==
    /\ MayDie
    /\ \/ UNCHANGED <<files, row>>
       \/ \E f \in files : f.dir = "downloads"
            /\ \E dir \in {"tmp", "publishing", "ready"} :
                 files' = (files \ {f}) \cup {File(f.media, dir)}
            /\ UNCHANGED row
    /\ left' = {k \in Key : row[k].count > 0}
    /\ loading' = {} /\ job' = {}
    /\ hub' = [k \in Key |-> 0]
    /\ session' = [c \in Chats |-> Nothing]
    /\ chat' = [c \in Chats |-> NoChat]

-----------------------------------------------------------------------------
Round ==
    \E aged \in SUBSET Aged, parts \in {{}, {f \in files : f.dir = "tmp"}} :
        Collect(aged, parts)

CacheNext ==
    \/ \E c \in Chats : AttachFile(c) \/ Leave(c)
    \/ \E c \in Chats, m \in Songs : StreamDirect(c, m) \/ PickLocal(c, m)
    \/ \E m \in Songs : Load(m) \/ Record(m) \/ \E got \in BOOLEAN : Loaded(m, got)
    \/ \E k \in Key : Ensure(k) \/ JobEnds(k)
    \/ Round \/ Die

CacheSpec == CacheInit /\ [][CacheNext]_cacheVars

\* The collector is spawned by the supervisor and never stops.
FairCacheSpec == CacheSpec /\ WF_cacheVars(Round)

-----------------------------------------------------------------------------
CacheTypeOK ==
    /\ row \in [Key -> RowState]
    /\ files \subseteq Paths /\ loading \subseteq Songs /\ job \subseteq Key
    /\ hub \in [Key -> 0..Cardinality(Chats)]
    /\ session \in [Chats -> Key \cup {Nothing}]
    /\ chat \in [Chats -> ChatState]
    /\ left \subseteq Key

\* The count of a key is the number of chats that hold it, through every change
\* of track, stop and switch from a stream to its file.
CountsAreSessions == \A k \in Key : hub[k] = Cardinality({c \in Chats : session[c] = k})

\* A count in the catalogue is the live one, save what a dead process left.
HoldsAreRecorded == \A k \in Key \ left : row[k].count \in {0, hub[k]}

\* "GC skips active refcounts" (PROJECT_STATE.md:299): the row of a key that a
\* chat holds stays, even one that was written after the chat took hold of it.
HeldRowKept ==
    [][\A c \in Chats : LET k == session[c] IN
         k # Nothing /\ session'[c] = k => (row[k] # NoRow => row'[k] # NoRow)]_cacheVars

\* A row that promises a file that is gone is removed, or written anew.
Dangling(k)     == row[k].status = "ready" /\ row[k].path \notin files
DanglingCleaned == \A k \in Key : Dangling(k) ~> ~Dangling(k) \/ Active(k)

\* "Protect active playback cache entry" (calls.py:5997): the collector leaves a
\* chat the file that it plays.
PlayedFileKept ==
    [][\A c \in Chats : chat[c].at = "playing" /\ chat'[c] = chat[c] /\ chat[c].path \in files
         => {chat[c].path, File(chat[c].media, "ready")} \cap files' # {}]_cacheVars

\* The file that a start has chosen is there when the stream opens it.
StartFinds == \A c \in Chats : chat[c].at = "starting" => chat[c].path \in files

\* What a dead process held is given back some time.
HoldsEnd == \A k \in Key : k \in left ~> k \notin left

\* A row says that a download is under way only while one is.
DownloadingIsTrue == \A k \in Key : row[k].status = "downloading" => k \in job
=============================================================================
