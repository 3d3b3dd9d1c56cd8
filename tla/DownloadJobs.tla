---------------------------- MODULE DownloadJobs ----------------------------
(* The job queue of the downloader API: the requests that create jobs          *)
(* (api/v1/download.py, api/v1/jobs.py), the queue manager with its two        *)
(* bounded priority queues, the audio and the video worker, and the saving of  *)
(* the file under its cache key.  Jobs are numbered in the order in which they *)
(* are created, so a job's number is also its timestamp.  The locks of the     *)
(* queue manager never suspend their holder, so each of its methods is one     *)
(* step; a step of a worker or a request ends at the await of an extractor, of *)
(* the download, of the validator, of the resource monitor or of the event.    *)
EXTENDS Integers, FiniteSets

CONSTANTS MaxJobs,     \* the bound on the jobs that requests create
          Media,       \* the kinds of media: one queue and one worker for each
          Keys,        \* the cache keys
          MediaOf,     \* the kind of media of each key, which is part of the key
          Exts,        \* the extensions a download of a key may come with
          MaxQueue,    \* settings.max_queue_size
          MayPost,     \* BOOLEAN: clients use POST /jobs too
          MayCancel    \* BOOLEAN: the administrator cancels jobs

ASSUME JobsAssumption ==
    /\ MaxJobs \in Nat
    /\ Keys # {}
    /\ MediaOf \in [Keys -> Media]
    /\ MaxQueue \in Nat \ {0}
    /\ MayPost \in BOOLEAN
    /\ MayCancel \in BOOLEAN

VARIABLES request,   \* the request of each job: what it asks for and where it is
          state,     \* Job.state of the jobs registered with the queue manager
          event,     \* the jobs whose event is set
          queue,     \* the jobs in each priority queue
          worker,    \* the job each worker processes, and how far it is
          file       \* for each file name of the cache, the job that wrote it

vars == <<request, state, event, queue, worker, file>>

Jobs   == 1 .. MaxJobs
NoJob  == 0
Short  == 0
Normal == 1
Files  == Keys \X Exts
Stages == {"extracting", "downloading", "validating_file"}
States == {"unregistered", "created", "queued", "ready", "failed", "cancelled"}
              \cup Stages
Terminal == {"failed", "cancelled"}
Idle     == [job |-> NoJob, stage |-> "idle"]
Replies  == {"queued", "full", "busy", "failed", "file"}
Phases   == {"none", "extracting", "deciding", "waiting"} \cup Replies
Blank    == [at |-> "none", key |-> CHOOSE k \in Keys : TRUE, force |-> FALSE,
             wait |-> FALSE, priority |-> Normal, expired |-> FALSE]
MediaFor(j) == MediaOf[request[j].key]
Queued      == UNION {queue[m] : m \in Media}
NextJob(j)  == request[j].at = "none" /\ \A i \in 1 .. (j - 1) : request[i].at # "none"

Init ==
    /\ request = [j \in Jobs |-> Blank]
    /\ state = [j \in Jobs |-> "unregistered"]
    /\ event = {}
    /\ queue = [m \in Media |-> {}]
    /\ worker = [m \in Media |-> Idle]
    /\ file = [f \in Files |-> NoJob]

-----------------------------------------------------------------------------
(* Requests.                                                                   *)

\* The keys with an entry in the cache database: nothing in the program calls
\* cache_manager.put, the only writer of entries.
Registered == {}

\* GET /download: the cache is looked up unless forced; then a job is created
\* and the request awaits the metadata.
Download(j) ==
    /\ NextJob(j)
    /\ \E k \in Keys, f \in BOOLEAN, w \in BOOLEAN :
          /\ f \/ k \notin Registered
          /\ request' = [request EXCEPT ![j] =
                [at |-> "extracting", key |-> k, force |-> f, wait |-> w,
                 priority |-> Normal, expired |-> FALSE]]
    /\ UNCHANGED <<state, event, queue, worker, file>>

\* Extraction failed, or the media is too long.
Reject(j) ==
    /\ request[j].at = "extracting"
    /\ request' = [request EXCEPT ![j].at = "failed"]
    /\ UNCHANGED <<state, event, queue, worker, file>>

\* The duration sets the priority, the queues are measured, and the request
\* awaits the decision engine.  It refuses for want of resources or of room.
Measure(j) ==
    /\ request[j].at = "extracting"
    /\ \E p \in {Short, Normal}, verdict \in {"deciding", "busy"} :
          /\ verdict = "deciding" => Cardinality(Queued) < MaxQueue
          /\ request' = [request EXCEPT ![j].at = verdict, ![j].priority = p]
    /\ UNCHANGED <<state, event, queue, worker, file>>

\* add_job: the job is registered, then put into the queue of its media; when
\* the queue is full it stays registered in the state CREATED.
AddJob(j, m) ==
    LET full == Cardinality(queue[m]) >= MaxQueue
    IN  /\ state' = [state EXCEPT ![j] = IF full THEN "created" ELSE "queued"]
        /\ queue' = IF full THEN queue ELSE [queue EXCEPT ![m] = @ \cup {j}]
        /\ UNCHANGED <<event, worker, file>>

Admit(j) ==
    /\ request[j].at = "deciding"
    /\ AddJob(j, MediaFor(j))
    /\ request' = [request EXCEPT ![j].at =
          CASE state'[j] = "created" -> "full"
            [] request[j].wait       -> "waiting"
            [] OTHER                 -> "queued"]

\* POST /jobs: no cache, no metadata, no decision, and the answer is "queued"
\* whatever add_job returned.
Post(j) ==
    /\ MayPost
    /\ NextJob(j)
    /\ \E k \in Keys :
          /\ AddJob(j, MediaOf[k])
          /\ request' = [request EXCEPT ![j] = [Blank EXCEPT !.at = "queued", !.key = k]]

\* What a request that waited answers, from the state of its job.
ReplyFor(j) == IF state[j] = "ready" THEN "file" ELSE "failed"

\* wait_for_job: the event is set, or the 900 s have passed.
Wake(j) ==
    /\ request[j].at = "waiting"
    /\ j \in event
    /\ request' = [request EXCEPT ![j].at = ReplyFor(j)]
    /\ UNCHANGED <<state, event, queue, worker, file>>

Expire(j) ==
    /\ request[j].at = "waiting"
    /\ j \notin event
    /\ request' = [request EXCEPT ![j].at = ReplyFor(j), ![j].expired = TRUE]
    /\ UNCHANGED <<state, event, queue, worker, file>>

-----------------------------------------------------------------------------
(* The administrator and the workers.                                          *)

\* POST /admin/jobs/{id}/cancel.  PriorityQueue.remove forgets the job's id but
\* leaves its item in the heap.
Cancel(j) ==
    /\ MayCancel
    /\ state[j] \notin Terminal \cup {"unregistered"}
    /\ state' = [state EXCEPT ![j] = "cancelled"]
    /\ event' = event \cup {j}
    /\ UNCHANGED <<request, queue, worker, file>>

\* The heap's order: priority, then time of creation.
Before(i, j) ==
    \/ request[i].priority < request[j].priority
    \/ request[i].priority = request[j].priority /\ i <= j

IsFirst(m, j) == j \in queue[m] /\ \A i \in queue[m] : Before(j, i)

\* A mutant: The worker peeks at the head of the heap and never removes it.
TakeKeeps(m) ==
    /\ worker[m] = Idle
    /\ \E j \in queue[m] :
          /\ IsFirst(m, j)
          /\ worker' = [worker EXCEPT ![m] = [job |-> j, stage |-> "extracting"]]
          /\ state' = [state EXCEPT ![j] = "extracting"]
    /\ UNCHANGED <<request, event, queue, file>>

\* Worker._run_loop: the item at the head of the heap is processed, whatever
\* the state of its job.
Take(m) ==
    /\ worker[m] = Idle
    /\ \E j \in queue[m] :
          /\ IsFirst(m, j)
          /\ queue' = [queue EXCEPT ![m] = @ \ {j}]
          /\ worker' = [worker EXCEPT ![m] = [job |-> j, stage |-> "extracting"]]
          /\ state' = [state EXCEPT ![j] = "extracting"]
    /\ UNCHANGED <<request, event, file>>

StageAfter == [extracting |-> "downloading", downloading |-> "validating_file"]

\* The metadata are there, or the download has succeeded.
Proceed(m) ==
    /\ worker[m].stage \in DOMAIN StageAfter
    /\ worker' = [worker EXCEPT ![m].stage = StageAfter[@]]
    /\ state' = [state EXCEPT ![worker[m].job] = worker'[m].stage]
    /\ UNCHANGED <<request, event, queue, file>>

\* A mutant: set_job_error without fail_job.
GiveUpSilently(m, j) ==
    /\ state' = [state EXCEPT ![j] = "failed"]
    /\ worker' = [worker EXCEPT ![m] = Idle]
    /\ UNCHANGED <<request, event, queue>>

\* A mutant: the worker does not let go of the job that failed.
GiveUpKeeps(m, j) ==
    /\ state' = [state EXCEPT ![j] = "failed"]
    /\ event' = event \cup {j}
    /\ worker' = [worker EXCEPT ![m] = [job |-> j, stage |-> "idle"]]
    /\ UNCHANGED <<request, queue>>

\* set_job_error and fail_job, after which the worker looks for the next job.
GiveUp(m, j) ==
    /\ state' = [state EXCEPT ![j] = "failed"]
    /\ event' = event \cup {j}
    /\ worker' = [worker EXCEPT ![m] = Idle]
    /\ UNCHANGED <<request, queue>>

Fail(m) ==
    /\ worker[m] # Idle
    /\ GiveUp(m, worker[m].job)
    /\ UNCHANGED file

\* atomic_move refuses to replace a file unless the job is forced.
Movable(j, f) == file[f] = NoJob \/ request[j].force

\* The file is valid and is moved into the cache; READY is not a terminal
\* state, so the event is left alone.
Save(m) ==
    /\ worker[m].stage = "validating_file"
    /\ \E x \in Exts :
          LET j == worker[m].job
              f == <<request[j].key, x>>
          IN  \/ /\ Movable(j, f)
                 /\ file' = [file EXCEPT ![f] = j]
                 /\ state' = [state EXCEPT ![j] = "ready"]
                 /\ worker' = [worker EXCEPT ![m] = Idle]
                 /\ UNCHANGED <<request, event, queue>>
              \/ /\ ~Movable(j, f)
                 /\ GiveUp(m, j)
                 /\ UNCHANGED file

-----------------------------------------------------------------------------

ClientStep(j) ==
    \/ Download(j) \/ Reject(j) \/ Measure(j) \/ Admit(j) \/ Post(j)
    \/ Wake(j) \/ Expire(j) \/ Cancel(j)

WorkerStep(m) == Take(m) \/ Proceed(m) \/ Fail(m) \/ Save(m)

Next == (\E j \in Jobs : ClientStep(j)) \/ (\E m \in Media : WorkerStep(m))

Spec == Init /\ [][Next]_vars

\* The worker's loop takes the next job whenever it is free, and what it awaits
\* ends: the extractor and the download have timeouts.
FairSpec == Spec /\ \A m \in Media : WF_vars(WorkerStep(m))

-----------------------------------------------------------------------------
(* Properties.                                                                 *)

\* The shape of the state, and the bound of the queues: a queue never holds
\* more than its maximum although the room was measured before an await.
TypeOK ==
    /\ request \in [Jobs -> [at : Phases, key : Keys, force : BOOLEAN, wait : BOOLEAN,
                             priority : {Short, Normal}, expired : BOOLEAN]]
    /\ state \in [Jobs -> States]
    /\ event \subseteq Jobs
    /\ queue \in [Media -> SUBSET Jobs]
    /\ worker \in [Media -> [job : Jobs \cup {NoJob}, stage : Stages \cup {"idle"}]]
    /\ file \in [Files -> Jobs \cup {NoJob}]
    /\ \A m \in Media : Cardinality(queue[m]) <= MaxQueue

\* No job is lost or processed twice: one that waits is in the queue of its
\* media, one that is being processed is in the hands of that media's worker at
\* that very stage, and no worker holds a job that is still queued.
InOnePlace ==
    \A j \in Jobs :
        LET m == MediaFor(j) IN
        /\ state[j] = "queued" => j \in queue[m]
        /\ state[j] \in Stages => worker[m] = [job |-> j, stage |-> state[j]]
        /\ j \in Queued => state[j] \in {"queued", "cancelled"}
        /\ \A n \in Media : worker[n].job = j => n = m /\ j \notin Queued

\* Whoever waits for a job that failed or was cancelled has been woken, in
\* whichever stage it failed: every error path of the worker sets the event.
EndedIsWoken == \A j \in Jobs : state[j] \in Terminal => j \in event

\* A job that is ready has its file in the cache: what it wrote is still there,
\* or a later forced job has written the same name again.
ReadyHasFile ==
    \A j \in Jobs : state[j] = "ready" =>
        \E x \in Exts :
            LET w == file[<<request[j].key, x>>]
            IN  w = j \/ (w # NoJob /\ request[w].force)

\* A file in the cache is never replaced by a job that was not forced.
FileKept ==
    [][\A f \in Files : file[f] # NoJob /\ file'[f] # file[f] =>
           file'[f] # NoJob /\ request[file'[f]].force]_vars

\* Every job that is queued leaves the worker in the end, whatever fails before
\* it: the queue drains.
QueueDrains ==
    \A j \in Jobs : state[j] = "queued" ~> state[j] \in {"ready"} \cup Terminal

\* What job_states.py says: no transition leads out of CANCELLED.
CancelledIsFinal ==
    [][\A j \in Jobs : state[j] = "cancelled" => state'[j] = "cancelled"]_vars

\* What the endpoint's error "Download timed out" says of a wait that ran to its
\* end: the download had not finished.
ExpiredIsUnfinished ==
    \A j \in Jobs : request[j].expired => request[j].at # "file"

\* What cache_manager.py says: a validated file that is present is a hit, so a
\* request that is not forced starts no job for it.
PresentIsHit ==
    [][\A j \in Jobs : \A x \in Exts :
          (request[j].at = "none" /\ request'[j].at = "extracting" /\ ~request'[j].force)
             => file[<<request'[j].key, x>>] = NoJob]_vars

\* What the answer "status": "queued" says: the job has been queued.
ToldQueuedIsQueued ==
    \A j \in Jobs : request[j].at = "queued" => state[j] # "created"
=============================================================================
