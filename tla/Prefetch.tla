------------------------------ MODULE Prefetch ------------------------------
(* How the tracks of one chat get their files: the downloads that              *)
(* core/prefetch.py starts ahead of a track or beside it, the single shot that *)
(* each track has at yt-dlp, and the shared downloads of core/youtube.py they  *)
(* join. A track that is copied (a warm search, the silent cache of a direct   *)
(* stream) shares its request scope with the copy and nothing else.            *)
EXTENDS Integers, Sequences, FiniteSets, SequencesExt

CONSTANTS Tracks,       \* what a chat may ask for, each once
          Media,        \* the media ids
          MediaOf,      \* the media id of a track; a queue may repeat one
          Setups,       \* what the tracks are, how the bot is configured and what may go wrong
          Jobs,         \* the download tasks of the chat under way at once
          None,         \* no track, no job
          Depth         \* config.PRELOAD_DEPTH

Services  == {"youtube", "soundcloud", "tiktok", "facebook", "telegram"}
AllFaults == {"no file", "busy", "cut", "forgets", "force",
              "no url", "direct fails", "dies", "early fails", "build raises", "refused",
              "no call", "no audio", "unreachable", "flood", "unsupported", "breaks"}

\* The switches of config.py that select the ways of a track to its stream.
AllOptions == {"direct", "direct only", "remote direct", "remote only", "cdn", "early"}

ASSUME PrefetchAssumption ==
    /\ MediaOf \in [Tracks -> Media]
    /\ Setups \subseteq [wanted : SUBSET Tracks, service : [Tracks -> Services],
                          videos : SUBSET Tracks, options : SUBSET AllOptions, faults : SUBSET AllFaults]
    /\ None \notin Tracks \cup Media \cup Jobs
    /\ Depth \in 1..2

VARIABLES setup,     \* one of Setups, for good
          queue,     \* the tracks of the chat; the head is the current one
          asked,     \* the tracks that a command came with so far
          marked,    \* the tracks with _cache_one_shot
          spent,     \* the tracks with _cache_one_shot_attempted
          local,     \* the tracks with a local_path
          file,      \* the tracks with a file_path
          disk,      \* the media whose file is complete
          flight,    \* the media that yt-dlp downloads, for all who ask
          outcome,   \* _terminal_outcomes: what came of a track's shot
          job,       \* the download tasks
          current,   \* the slot current_cache of the chat
          ahead,     \* the slot prefetch
          second,    \* the slot secondary
          joined,    \* the task that the play coroutine awaits
          shots,     \* history: how often a track had yt-dlp started or joined
          cutShort   \* history: the tracks that lost the task that downloads for them

trackVars == <<marked, spent, local, file, outcome, shots, cutShort>>
fileVars  == <<disk, flight>>
jobVars   == <<job, current, ahead, second, joined>>
queueVars == <<setup, queue, asked>>
prefetchVars == <<queueVars, trackVars, fileVars, jobVars>>

NoJob == [at |-> "none", owner |-> None, copy |-> FALSE, tried |-> FALSE, got |-> FALSE]

JobState == [at : {"none", "new", "fetching", "done"},
             owner : Tracks \cup {None},
             copy : BOOLEAN,        \* its owner is a copy of the track
             tried : BOOLEAN,       \* that copy has spent its shot
             got : BOOLEAN]         \* and has its file

Wanted     == setup.wanted    \* the tracks that the chat asks for
SourceOf   == setup.service   \* the service that a track comes from
Videos     == setup.videos    \* the tracks that are videos
Faults     == setup.faults
YouTube(t) == SourceOf[t] = "youtube"
OnDisk(t)  == MediaOf[t] \in disk
Current    == IF queue = <<>> THEN None ELSE Head(queue)

Live(j)   == j # None /\ job[j].at \in {"new", "fetching"}
Owns(j, t) == j # None /\ job[j].owner # None /\ MediaOf[job[j].owner] = MediaOf[t]
                       /\ (job[j].owner \in Videos <=> t \in Videos)
Tried(j)  == IF job[j].copy THEN job[j].tried ELSE job[j].owner \in spent
Got(j)    == IF job[j].copy THEN job[j].got ELSE job[j].owner \in local

\* The first live task of the chat for the media of t, if there is one.
ActiveOwner(t) ==
    LET mine == SelectSeq(<<current, ahead, second>>, LAMBDA j : Live(j) /\ Owns(j, t))
    IN  IF mine = <<>> THEN None ELSE Head(mine)

FreeJobs == {j \in Jobs : job[j] = NoJob}
Fresh    == CHOOSE j \in FreeJobs : TRUE

PrefetchInit ==
    /\ setup \in Setups
    /\ queue = <<>> /\ asked = {}
    /\ marked = {} /\ spent = {} /\ local = {} /\ file = {}
    /\ disk = {} /\ flight = {}
    /\ outcome = [t \in Tracks |-> "none"]
    /\ job = [j \in Jobs |-> NoJob]
    /\ current = None /\ ahead = None /\ second = None /\ joined = None
    /\ shots = [t \in Tracks |-> 0]
    /\ cutShort = {}

-----------------------------------------------------------------------------
(* What a track takes from the slots.                                          *)

\* A task that is over leaves no trace when no slot and no waiter points at it.
Swept(js, slots) ==
    [j \in Jobs |-> IF js[j].at = "done" /\ j \notin slots THEN NoJob ELSE js[j]]

\* The attributes of t once it has taken the result of j, or what the chat
\* remembers of an earlier owner of the same request.
Takes(t, j) ==
    /\ spent' = IF Tried(j) THEN spent \cup {t} ELSE spent
    /\ local' = IF Got(j) THEN local \cup {t} ELSE local

Adopts(t) ==
    /\ outcome[t] # "none"
    /\ marked' = marked \cup {t}
    /\ spent' = spent \cup {t}
    /\ local' = IF outcome[t] = "got" THEN local \cup {t} ELSE local

\* yt.download for t: the file is there, or there is none to be had (the video
\* is known to be gone; a background task under load), or it joins or starts
\* the shared download.
Downloading(t) ==
    /\ ~OnDisk(t)
    /\ flight' = flight \cup {MediaOf[t]}
    /\ shots' = [shots EXCEPT ![t] = @ + 1]

Remember(t, got) == outcome' = [outcome EXCEPT ![t] = IF got THEN "got" ELSE "failed"]

-----------------------------------------------------------------------------
(* The tasks.                                                                  *)

\* The end of the task j: a copy keeps its own result, a queued track has it on
\* itself; a prefetch leaves its slot, the current owner stays until consumed.
Ended(js, j, got) == [js EXCEPT ![j].at = "done", ![j].got = got]

Slots == {current, joined}   \* a task that is over stays in these

JobStarts(j) ==
    LET t == job[j].owner
        started == [job EXCEPT ![j].at = "fetching", ![j].tried = job[j].copy]
        skips   == ~job[j].copy /\ (~YouTube(t) \/ t \in spent)
        shot    == IF job[j].copy \/ skips THEN UNCHANGED spent ELSE spent' = spent \cup {t}
        over(got) ==
            /\ job' = Swept(Ended(started, j, got), Slots)
            /\ Remember(t, got \/ (skips /\ t \in local))
            /\ local' = IF got /\ ~job[j].copy THEN local \cup {t} ELSE local
            /\ file' = IF got /\ ~job[j].copy THEN file \cup {t} ELSE file
            /\ ahead' = IF ahead = j THEN None ELSE ahead
            /\ second' = IF second = j THEN None ELSE second
            /\ UNCHANGED <<flight, shots>>
    IN  /\ job[j].at = "new"
        /\ shot
        /\ \/ skips /\ over(FALSE)
           \/ ~skips /\ OnDisk(t) /\ over(TRUE)
           \/ ~skips /\ ~OnDisk(t) /\ ~job[j].copy /\ "busy" \in Faults
                     /\ MediaOf[t] \notin flight /\ over(FALSE)
           \/ /\ ~skips /\ Downloading(t)
              /\ job' = started
              /\ UNCHANGED <<local, file, outcome, ahead, second>>
        /\ UNCHANGED <<queueVars, marked, disk, current, joined, cutShort>>

\* All who wait for a download of the media m resume when it ends.
Waiting(m)   == {j \in Jobs : job[j].at = "fetching" /\ MediaOf[job[j].owner] = m}
Served(m)    == {job[j].owner : j \in Waiting(m)}
Queued(m)    == {job[j].owner : j \in {k \in Waiting(m) : ~job[k].copy}}

FlightEnds(m, got) ==
    /\ m \in flight
    /\ got \/ "no file" \in Faults
    /\ flight' = flight \ {m}
    /\ disk' = IF got THEN disk \cup {m} ELSE disk
    /\ job' = Swept([j \in Jobs |-> IF j \in Waiting(m)
                                    THEN [job[j] EXCEPT !.at = "done", !.got = got]
                                    ELSE job[j]], Slots)
    /\ outcome' = [t \in Tracks |-> IF t \notin Served(m) THEN outcome[t]
                                    ELSE IF got THEN "got" ELSE "failed"]
    /\ local' = IF got THEN local \cup Queued(m) ELSE local
    /\ file' = IF got THEN file \cup Queued(m) ELSE file
    /\ ahead' = IF ahead \in Waiting(m) THEN None ELSE ahead
    /\ second' = IF second \in Waiting(m) THEN None ELSE second
    /\ UNCHANGED <<queueVars, marked, spent, current, joined, shots, cutShort>>

-----------------------------------------------------------------------------
(* Starting and cancelling them.                                               *)

\* A live task that another one takes the place of in current_cache is found by
\* nobody any more, save in a slot of its own.
Displaced(j) ==
    IF current # j /\ Live(current) /\ current \notin {ahead, second}
    THEN {job[current].owner} ELSE {}

\* start_current_cache for a copy of t that has spent its shot or not: no task
\* when its request has an outcome, its shot is spent or the file is there.
CurrentCache(t, tried) ==
    LET active == ActiveOwner(t)
    IN  \/ /\ outcome[t] # "none" \/ (active = None /\ tried)
           /\ UNCHANGED <<trackVars, jobVars>>
        \/ /\ outcome[t] = "none" /\ active # None
           /\ marked' = IF job[active].copy THEN marked ELSE marked \cup {job[active].owner}
           /\ current' = active
           /\ job' = Swept(job, {active, joined})
           /\ cutShort' = cutShort \cup Displaced(active)
           /\ UNCHANGED <<spent, local, file, outcome, shots, ahead, second, joined>>
        \/ /\ outcome[t] = "none" /\ active = None /\ ~tried /\ OnDisk(t)
           /\ Remember(t, TRUE)
           /\ UNCHANGED <<marked, spent, local, file, shots, cutShort, jobVars>>
        \/ /\ outcome[t] = "none" /\ active = None /\ ~tried /\ ~OnDisk(t)
           /\ FreeJobs # {}
           /\ job' = Swept([job EXCEPT ![Fresh] =
                                [NoJob EXCEPT !.at = "new", !.owner = t, !.copy = TRUE]],
                           {Fresh, joined})
           /\ current' = Fresh
           /\ cutShort' = cutShort \cup Displaced(Fresh)
           /\ UNCHANGED <<marked, spent, local, file, outcome, shots, ahead, second, joined>>

\* A task that is cancelled before it first runs does nothing; one that waits
\* for its download has spent the shot, and the shared download goes on.
Cancelled(js, j) ==
    IF j = None \/ js[j].at \in {"none", "done"} THEN js
    ELSE IF js[j].at = "new" THEN [js EXCEPT ![j] = NoJob] ELSE Ended(js, j, FALSE)

Failed(out, j) ==
    IF j # None /\ job[j].at = "fetching" THEN [out EXCEPT ![job[j].owner] = "failed"] ELSE out

Lost(slots) == {job[j].owner : j \in {k \in slots \cap Jobs : job[k].at = "fetching"}}

CancelAll ==
    /\ cutShort' = cutShort \cup Lost({current, ahead, second})
    /\ job' = Swept(Cancelled(Cancelled(Cancelled(job, current), ahead), second), {joined})
    /\ outcome' = Failed(Failed(Failed(outcome, current), ahead), second)
    /\ current' = None /\ ahead' = None /\ second' = None
    /\ UNCHANGED joined

\* The tracks that wait and have no file_path yet, as far as PRELOAD_DEPTH.
Unresolved == SelectSeq(SubSeq(queue, 2, IF Len(queue) > Depth THEN Depth + 1 ELSE Len(queue)),
                        LAMBDA t : t \notin file)

\* A task for the queued track t in place of the one that slot holds.
FreshIn(js)        == CHOOSE j \in Jobs : js[j] = NoJob
Replaced(js, slot, t) ==
    [Cancelled(js, slot) EXCEPT ![FreshIn(js)] = [NoJob EXCEPT !.at = "new", !.owner = t]]

\* start_next: the first track that waits joins the task for its media, or gets
\* one of its own; then the second one that waits gets one as well.
StartNext ==
    /\ Unresolved # <<>>
    /\ LET t == Unresolved[1]
           active == ActiveOwner(t)
           first == Replaced(job, ahead, t)
           more == Len(Unresolved) > 1
                   /\ ~(Live(second) /\ Owns(second, Unresolved[2]))
       IN  \/ /\ active # None
              /\ marked' = marked \cup {t} \cup
                           (IF job[active].copy THEN {} ELSE {job[active].owner})
              /\ Takes(t, active)
              /\ UNCHANGED <<file, outcome, shots, cutShort, jobVars>>
           \/ /\ active = None /\ Cardinality(FreeJobs) > 1
              /\ marked' = marked \cup {t}
              /\ job' = Swept(IF more THEN Replaced(first, second, Unresolved[2]) ELSE first,
                              Slots)
              /\ outcome' = Failed(IF more THEN Failed(outcome, second) ELSE outcome, ahead)
              /\ ahead' = FreshIn(job)
              /\ second' = IF more THEN FreshIn(first) ELSE second
              /\ cutShort' = cutShort \cup Lost({ahead} \cup (IF more THEN {second} ELSE {}))
              /\ UNCHANGED <<spent, local, file, shots, current, joined>>
    /\ UNCHANGED <<queueVars, fileVars>>

\* What the chat remembers of a request is dropped after 180 s.
Forget(t) ==
    /\ "forgets" \in Faults
    /\ outcome[t] # "none"
    /\ outcome' = [outcome EXCEPT ![t] = "none"]
    /\ UNCHANGED <<queueVars, marked, spent, local, file, shots, cutShort, fileVars, jobVars>>
=============================================================================
