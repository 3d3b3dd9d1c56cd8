-------------------------- MODULE DownloadJobsProof --------------------------
(* Proofs about DownloadJobs, for any number of jobs, keys, media and queue    *)
(* sizes: the queues keep their bound, every job is in one place, whoever waits *)
(* for a job that has failed is woken, and no file is replaced unless forced.   *)
EXTENDS DownloadJobs, FiniteSetTheorems, TLAPS

Requests == [at : Phases, key : Keys, force : BOOLEAN, wait : BOOLEAN,
             priority : {Short, Normal}, expired : BOOLEAN]
Early == {"none", "extracting", "deciding"}

\* A worker that is not idle is at a stage of a job.
Workers == \A m \in Media : worker[m] = Idle \/ (worker[m].job \in Jobs /\ worker[m].stage \in Stages)

\* A job is registered after its decision, is only ever in the queue of its own
\* media, and is in one place; when it has ended its event is set.
WellPlaced(j) ==
    /\ request[j].at \in Early => state[j] = "unregistered"
    /\ state[j] = "unregistered" => \A m \in Media : worker[m].job # j /\ j \notin queue[m]
    /\ \A m \in Media : j \in queue[m] => m = MediaFor(j) /\ state[j] \in {"queued", "cancelled"}
    /\ state[j] = "queued" => j \in queue[MediaFor(j)]
    /\ state[j] \in Stages => worker[MediaFor(j)] = [job |-> j, stage |-> state[j]]
    /\ \A n \in Media : worker[n].job = j => n = MediaFor(j) /\ \A m \in Media : j \notin queue[m]
    /\ state[j] \in Terminal => j \in event

JobsInv == TypeOK /\ Workers /\ \A j \in Jobs : WellPlaced(j)

-----------------------------------------------------------------------------
LEMMA JobTypes ==
  ASSUME JobsInv, NEW j \in Jobs
  PROVE  request[j] \in Requests /\ state[j] \in States /\ MediaFor(j) \in Media
<1>1. request[j] \in Requests /\ state[j] \in States
  BY DEF JobsInv, TypeOK, Requests
<1> QED BY <1>1, JobsAssumption DEF MediaFor, Requests

LEMMA InitKeeps == Init => JobsInv
<1> SUFFICES ASSUME Init PROVE JobsInv
  OBVIOUS
<1>1. Blank \in Requests /\ Blank.at = "none"
  BY JobsAssumption DEF Blank, Requests, Phases, Short, Normal
<1>2. MaxQueue >= 0 /\ Cardinality({}) = 0
  BY JobsAssumption, FS_EmptySet
<1>3. TypeOK
  BY <1>1, <1>2 DEF Init, TypeOK, Requests, States, Idle, NoJob, Stages
<1> QED BY <1>1, <1>3 DEF JobsInv, Workers, Init, Idle, NoJob, Jobs, Early, Stages, Terminal, WellPlaced

\* A request changes; its key is fixed when it begins.
LEMMA RequestKeeps ==
  ASSUME JobsInv, NEW j \in Jobs, NEW r \in Requests,
         request' = [request EXCEPT ![j] = r],
         request[j].at # "none" => r.key = request[j].key,
         r.at \in Early => request[j].at \in Early,
         UNCHANGED <<state, event, queue, worker, file>>
  PROVE  JobsInv'
<1>1. TypeOK'
  BY DEF JobsInv, TypeOK, Requests
<1>2. \A i \in Jobs : request'[i] = IF i = j THEN r ELSE request[i]
  BY DEF JobsInv, TypeOK
<1>0. \A i \in Jobs : WellPlaced(i)
  BY DEF JobsInv
<1>3. \A i \in Jobs : state[i] # "unregistered" => MediaFor(i)' = MediaFor(i)
  <2> SUFFICES ASSUME NEW i \in Jobs, state[i] # "unregistered" PROVE request'[i].key = request[i].key
    BY DEF MediaFor
  <2>1. request[i].at # "none"
    BY <1>0 DEF WellPlaced, Early
  <2> QED BY <1>2, <2>1
<1>4. Workers'
  BY DEF JobsInv, Workers
<1>5. ASSUME NEW i \in Jobs
      PROVE  WellPlaced(i)'
  <2>0. WellPlaced(i) /\ state' = state /\ event' = event /\ queue' = queue /\ worker' = worker
    BY <1>0
  <2>3. request'[i].at \in Early => request[i].at \in Early
    BY <1>2
  <2>1. CASE state[i] = "unregistered"
    BY <2>0, <2>1 DEF Stages, Terminal, WellPlaced
  <2>2. CASE state[i] # "unregistered"
    <3>1. MediaFor(i)' = MediaFor(i)
      BY <1>3, <2>2
    <3> QED BY <2>0, <2>3, <2>2, <3>1 DEF WellPlaced
  <2> QED BY <2>1, <2>2
<1> QED BY <1>1, <1>4, <1>5 DEF JobsInv

LEMMA RequestsKeep ==
  ASSUME JobsInv, NEW j \in Jobs, Download(j) \/ Reject(j) \/ Measure(j) \/ Wake(j) \/ Expire(j)
  PROVE  JobsInv'
<1>1. request[j] \in Requests /\ UNCHANGED <<state, event, queue, worker, file>>
  BY JobTypes DEF Download, Reject, Measure, Wake, Expire
<1>2. ReplyFor(j) \in {"file", "failed"}
  BY DEF ReplyFor
<1>3. CASE Download(j)
  <2>1. PICK k \in Keys, f \in BOOLEAN, w \in BOOLEAN :
          request' = [request EXCEPT ![j] = [at |-> "extracting", key |-> k, force |-> f, wait |-> w,
                                             priority |-> Normal, expired |-> FALSE]]
    BY <1>3 DEF Download
  <2>2. [at |-> "extracting", key |-> k, force |-> f, wait |-> w,
         priority |-> Normal, expired |-> FALSE] \in Requests
    BY DEF Requests, Phases
  <2>3. request[j].at = "none"
    BY <1>3 DEF Download, NextJob
  <2> QED BY <1>1, <2>1, <2>2, <2>3, RequestKeeps DEF Early
<1>4. CASE Reject(j)
  <2>1. request' = [request EXCEPT ![j] = [request[j] EXCEPT !.at = "failed"]]
    BY <1>4 DEF Reject
  <2> QED BY <1>1, <2>1, RequestKeeps DEF Requests, Phases, Replies, Early
<1>5. CASE Measure(j)
  <2>1. PICK p \in {Short, Normal}, v \in {"deciding", "busy"} :
          request' = [request EXCEPT ![j].at = v, ![j].priority = p]
    BY <1>5 DEF Measure
  <2>2. request' = [request EXCEPT ![j] = [request[j] EXCEPT !.at = v, !.priority = p]]
    BY <1>1, <2>1 DEF JobsInv, TypeOK
  <2>3. request[j].at \in Early
    BY <1>5 DEF Measure, Early
  <2> QED BY <1>1, <2>2, <2>3, RequestKeeps DEF Requests, Phases, Replies
<1>6. CASE Wake(j)
  <2>1. request' = [request EXCEPT ![j] = [request[j] EXCEPT !.at = ReplyFor(j)]]
    BY <1>6 DEF Wake
  <2> QED BY <1>1, <1>2, <2>1, RequestKeeps DEF Requests, Phases, Replies, Early
<1>7. CASE Expire(j)
  <2>1. request' = [request EXCEPT ![j] = [request[j] EXCEPT !.at = ReplyFor(j), !.expired = TRUE]]
    BY <1>1, <1>7 DEF Expire, JobsInv, TypeOK
  <2> QED BY <1>1, <1>2, <2>1, RequestKeeps DEF Requests, Phases, Replies, Early
<1> QED BY <1>3, <1>4, <1>5, <1>6, <1>7

\* A job that a step does not touch stays where it is.
LEMMA Untouched ==
  ASSUME JobsInv, NEW i \in Jobs,
         request'[i] = request[i], state'[i] = state[i], i \in event => i \in event',
         \A m \in Media : i \in queue'[m] <=> i \in queue[m],
         \A m \in Media : worker'[m].job = i <=> worker[m].job = i,
         \A m \in Media : worker[m].job = i => worker'[m] = worker[m]
  PROVE  WellPlaced(i)'
<1>1. WellPlaced(i) /\ MediaFor(i)' = MediaFor(i) /\ MediaFor(i) \in Media
  BY JobTypes DEF JobsInv, MediaFor
<1>2. state[i] \in Stages => worker[MediaFor(i)].job = i
  BY <1>1 DEF WellPlaced
<1> QED BY <1>1, <1>2 DEF WellPlaced

\* A queue with room takes one job more.
LEMMA RoomForOne ==
  ASSUME NEW Q \in SUBSET Jobs, NEW j \in Jobs, Cardinality(Q) < MaxQueue
  PROVE  Cardinality(Q \cup {j}) <= MaxQueue
<1>1. IsFiniteSet(Q) /\ MaxQueue \in Nat
  <2>1. IsFiniteSet(1 .. MaxJobs)
    BY JobsAssumption, FS_Interval
  <2> QED BY <2>1, FS_Subset, JobsAssumption DEF Jobs
<1>2. Cardinality(Q) \in Nat /\ (Cardinality(Q \cup {j}) = Cardinality(Q) \/ Cardinality(Q \cup {j}) = Cardinality(Q) + 1)
  BY <1>1, FS_AddElement, FS_CardinalityType
<1> QED BY <1>1, <1>2

\* A job is registered by add_job, with the request that asked for it.
LEMMA AddKeeps ==
  ASSUME JobsInv, NEW j \in Jobs, NEW r \in Requests, NEW m \in Media,
         request' = [request EXCEPT ![j] = r], m = MediaOf[r.key], r.at \notin Early,
         request[j].at \in Early, AddJob(j, m)
  PROVE  JobsInv'
<1> DEFINE full == Cardinality(queue[m]) >= MaxQueue
<1>1. /\ state' = [state EXCEPT ![j] = IF full THEN "created" ELSE "queued"]
      /\ queue' = IF full THEN queue ELSE [queue EXCEPT ![m] = @ \cup {j}]
      /\ UNCHANGED <<event, worker, file>>
  BY DEF AddJob
<1>2. state[j] = "unregistered" /\ \A n \in Media : worker[n].job # j /\ j \notin queue[n]
  BY DEF JobsInv, WellPlaced
<1>3. TypeOK'
  <2>1. /\ request' \in [Jobs -> Requests] /\ state' \in [Jobs -> States]
    BY <1>1 DEF JobsInv, TypeOK, Requests, States
  <2>2. queue \in [Media -> SUBSET Jobs] /\ \A n \in Media : Cardinality(queue[n]) <= MaxQueue
    BY DEF JobsInv, TypeOK
  <2>3. ~full => Cardinality(queue[m] \cup {j}) <= MaxQueue
    <3>1. queue[m] \in SUBSET Jobs
      BY <2>2
    <3>2. IsFiniteSet(queue[m])
      <4>1. IsFiniteSet(1 .. MaxJobs)
        BY JobsAssumption, FS_Interval
      <4> QED BY <3>1, <4>1, FS_Subset, JobsAssumption DEF Jobs
    <3>3. Cardinality(queue[m]) \in Nat /\ MaxQueue \in Nat
      BY <3>2, FS_CardinalityType, JobsAssumption
    <3> QED BY <3>1, <3>3, RoomForOne
  <2>4. queue' \in [Media -> SUBSET Jobs] /\ \A n \in Media : Cardinality(queue'[n]) <= MaxQueue
    BY <1>1, <2>2, <2>3
  <2> QED BY <1>1, <2>1, <2>4 DEF JobsInv, TypeOK, Requests
<1>4. Workers'
  BY <1>1 DEF JobsInv, Workers
<1>5. \A i \in Jobs \ {j} : \A n \in Media : i \in queue'[n] <=> i \in queue[n]
  BY <1>1 DEF JobsInv, TypeOK
<1>6. ASSUME NEW i \in Jobs, i # j PROVE WellPlaced(i)'
  <2>1. request'[i] = request[i] /\ state'[i] = state[i]
    BY <1>1, <1>6 DEF JobsInv, TypeOK
  <2> QED BY <1>1, <1>5, <1>6, <2>1, Untouched
<1>7. WellPlaced(j)'
  <2>1. request'[j] = r /\ MediaFor(j)' = m
    BY DEF JobsInv, TypeOK, MediaFor
  <2>2. state'[j] = IF full THEN "created" ELSE "queued"
    BY <1>1 DEF JobsInv, TypeOK
  <2>3. \A n \in Media : j \in queue'[n] <=> (n = m /\ ~full)
    BY <1>1, <1>2 DEF JobsInv, TypeOK
  <2> HIDE DEF full
  <2> QED BY <1>1, <1>2, <2>1, <2>2, <2>3 DEF WellPlaced, Stages, Terminal
<1> QED BY <1>3, <1>4, <1>6, <1>7 DEF JobsInv

LEMMA AddsKeep ==
  ASSUME JobsInv, NEW j \in Jobs, Admit(j) \/ Post(j) PROVE JobsInv'
<1>1. request[j] \in Requests /\ MediaFor(j) \in Media
  BY JobTypes
<1>2. CASE Admit(j)
  <2> DEFINE a == CASE state'[j] = "created" -> "full" [] request[j].wait -> "waiting" [] OTHER -> "queued"
  <2>1. a \in {"full", "waiting", "queued"}
    OBVIOUS
  <2>2. request' = [request EXCEPT ![j] = [request[j] EXCEPT !.at = a]] /\ AddJob(j, MediaFor(j))
        /\ request[j].at = "deciding"
    BY <1>2 DEF Admit
  <2>3. [request[j] EXCEPT !.at = a] \in Requests /\ [request[j] EXCEPT !.at = a].at = a
        /\ [request[j] EXCEPT !.at = a].key = request[j].key
    BY <1>1, <2>1 DEF Requests, Phases, Replies
  <2> HIDE DEF a
  <2> QED BY <1>1, <2>1, <2>2, <2>3, AddKeeps DEF Early, MediaFor
<1>3. CASE Post(j)
  <2>1. PICK k \in Keys : /\ AddJob(j, MediaOf[k])
                         /\ request' = [request EXCEPT ![j] = [Blank EXCEPT !.at = "queued", !.key = k]]
    BY <1>3 DEF Post
  <2>2. /\ [Blank EXCEPT !.at = "queued", !.key = k] \in Requests
        /\ [Blank EXCEPT !.at = "queued", !.key = k].at = "queued"
        /\ [Blank EXCEPT !.at = "queued", !.key = k].key = k
    BY DEF Requests, Phases, Replies, Blank
  <2>3. request[j].at = "none" /\ MediaOf[k] \in Media
    BY <1>3, JobsAssumption DEF Post, NextJob
  <2> QED BY <2>1, <2>2, <2>3, AddKeeps DEF Early
<1> QED BY <1>2, <1>3

LEMMA CancelKeeps ==
  ASSUME JobsInv, NEW j \in Jobs, Cancel(j) PROVE JobsInv'
<1>1. /\ state' = [state EXCEPT ![j] = "cancelled"] /\ event' = event \cup {j} /\ state[j] # "unregistered"
      /\ UNCHANGED <<request, queue, worker, file>>
  BY DEF Cancel
<1>2. TypeOK' /\ Workers'
  BY <1>1 DEF JobsInv, TypeOK, Workers, States
<1>3. ASSUME NEW i \in Jobs, i # j PROVE WellPlaced(i)'
  <2>1. state'[i] = state[i]
    BY <1>1, <1>3 DEF JobsInv, TypeOK
  <2> QED BY <1>1, <2>1, Untouched
<1>4. WellPlaced(j)'
  <2>1. state'[j] = "cancelled" /\ WellPlaced(j) /\ MediaFor(j)' = MediaFor(j)
    BY <1>1 DEF JobsInv, TypeOK, MediaFor
  <2> QED BY <1>1, <2>1 DEF WellPlaced, Stages
<1> QED BY <1>2, <1>3, <1>4 DEF JobsInv

\* A worker takes a job out of its queue; a cancelled one too.
LEMMA TakingKeeps ==
  ASSUME JobsInv, NEW m \in Media, Take(m) PROVE JobsInv'
<1>1. PICK j \in queue[m] :
        /\ queue' = [queue EXCEPT ![m] = @ \ {j}]
        /\ worker' = [worker EXCEPT ![m] = [job |-> j, stage |-> "extracting"]]
        /\ state' = [state EXCEPT ![j] = "extracting"]
  BY DEF Take
<1>2. j \in Jobs /\ worker[m] = Idle /\ UNCHANGED <<request, event, file>>
  BY DEF Take, JobsInv, TypeOK
<1>3. /\ m = MediaFor(j) /\ state[j] \in {"queued", "cancelled"} /\ request[j].at \notin Early
      /\ \A n \in Media : worker[n].job # j /\ (j \in queue[n] => n = m)
  <2>1. WellPlaced(j)
    BY <1>2 DEF JobsInv
  <2> QED BY <1>1, <1>2, <2>1 DEF WellPlaced
<1>4. TypeOK'
  <2>1. queue' \in [Media -> SUBSET Jobs] /\ \A n \in Media : Cardinality(queue'[n]) <= MaxQueue
    <3>1. queue[m] \in SUBSET Jobs /\ queue \in [Media -> SUBSET Jobs]
          /\ \A n \in Media : Cardinality(queue[n]) <= MaxQueue
      BY DEF JobsInv, TypeOK
    <3>2. IsFiniteSet(queue[m]) /\ MaxQueue \in Nat
      <4>1. IsFiniteSet(1 .. MaxJobs)
        BY JobsAssumption, FS_Interval
      <4> QED BY <3>1, <4>1, FS_Subset, JobsAssumption DEF Jobs
    <3>3. Cardinality(queue[m]) \in Nat /\ Cardinality(queue[m] \ {j}) = Cardinality(queue[m]) - 1
      BY <1>1, <3>2, FS_RemoveElement, FS_CardinalityType
    <3>4. \A n \in Media : n # m => queue'[n] = queue[n]
      BY <1>1, <3>1
    <3>5. queue'[m] = queue[m] \ {j}
      BY <1>1, <3>1
    <3> QED BY <1>1, <3>1, <3>2, <3>3, <3>4, <3>5
  <2>2. worker' \in [Media -> [job : Jobs \cup {NoJob}, stage : Stages \cup {"idle"}]]
    BY <1>1, <1>2 DEF JobsInv, TypeOK, Stages
  <2>3. state' \in [Jobs -> States]
    BY <1>1 DEF JobsInv, TypeOK, States, Stages
  <2> QED BY <1>2, <2>1, <2>2, <2>3 DEF JobsInv, TypeOK
<1>5. /\ worker'[m] = [job |-> j, stage |-> "extracting"]
      /\ \A n \in Media : n # m => worker'[n] = worker[n]
  BY <1>1 DEF JobsInv, TypeOK
<1>6. Workers'
  BY <1>2, <1>5 DEF JobsInv, Workers, Stages
<1>7. ASSUME NEW i \in Jobs, i # j PROVE WellPlaced(i)'
  <2>1. state'[i] = state[i] /\ \A n \in Media : i \in queue'[n] <=> i \in queue[n]
    BY <1>1, <1>7 DEF JobsInv, TypeOK
  <2>2. worker[m].job # i
    BY <1>2 DEF Idle, NoJob, Jobs
  <2> QED BY <1>2, <1>5, <1>7, <2>1, <2>2, Untouched
<1>8. WellPlaced(j)'
  <2>1. state'[j] = "extracting" /\ MediaFor(j)' = MediaFor(j)
    BY <1>1, <1>2 DEF JobsInv, TypeOK, MediaFor
  <2>2. \A n \in Media : j \notin queue'[n]
    BY <1>1, <1>3 DEF JobsInv, TypeOK
  <2> QED BY <1>2, <1>3, <1>5, <2>1, <2>2 DEF WellPlaced, Stages, Terminal
<1> QED BY <1>4, <1>6, <1>7, <1>8 DEF JobsInv

\* What a worker that is at work holds.
LEMMA AtWork ==
  ASSUME JobsInv, NEW m \in Media, worker[m] # Idle
  PROVE  /\ worker[m].job \in Jobs /\ worker[m].stage \in Stages /\ m = MediaFor(worker[m].job)
         /\ state[worker[m].job] # "unregistered" /\ request[worker[m].job].at \notin Early
         /\ \A n \in Media : worker[m].job \notin queue[n] /\ (worker[n].job = worker[m].job => n = m)
<1>1. worker[m].job \in Jobs /\ worker[m].stage \in Stages
  BY DEF JobsInv, Workers
<1>2. WellPlaced(worker[m].job)
  BY <1>1 DEF JobsInv
<1> QED BY <1>1, <1>2 DEF WellPlaced

\* The job of a worker moves on, or is let go.
LEMMA WorkKeeps ==
  ASSUME JobsInv, NEW m \in Media, worker[m] # Idle, NEW s \in Stages \cup {"ready", "failed"},
         state' = [state EXCEPT ![worker[m].job] = s],
         worker' = [worker EXCEPT ![m] = IF s \in Stages THEN [job |-> worker[m].job, stage |-> s] ELSE Idle],
         event' = event \cup (IF s = "failed" THEN {worker[m].job} ELSE {}),
         file' \in [Files -> Jobs \cup {NoJob}], UNCHANGED <<request, queue>>
  PROVE  JobsInv'
<1>0. PICK j \in Jobs : j = worker[m].job
  BY AtWork
<1>1. /\ j \in Jobs /\ worker[m].stage \in Stages /\ m = MediaFor(j)
      /\ state[j] # "unregistered" /\ request[j].at \notin Early
      /\ \A n \in Media : j \notin queue[n] /\ (worker[n].job = j => n = m)
  BY <1>0, AtWork
<1>2. /\ worker'[m] = IF s \in Stages THEN [job |-> j, stage |-> s] ELSE Idle
      /\ \A n \in Media : n # m => worker'[n] = worker[n]
  BY <1>0 DEF JobsInv, TypeOK
<1>3. state'[j] = s /\ \A i \in Jobs : i # j => state'[i] = state[i]
  BY <1>0 DEF JobsInv, TypeOK
<1>4. TypeOK'
  <2>1. worker' \in [Media -> [job : Jobs \cup {NoJob}, stage : Stages \cup {"idle"}]]
    BY <1>0 DEF JobsInv, TypeOK, Idle
  <2>2. state' \in [Jobs -> States] /\ event' \subseteq Jobs
    BY <1>0 DEF JobsInv, TypeOK, States
  <2> QED BY <2>1, <2>2 DEF JobsInv, TypeOK
<1>5. Workers'
  BY <1>1, <1>2 DEF JobsInv, Workers
<1>6. ASSUME NEW i \in Jobs, i # j PROVE WellPlaced(i)'
  <2>1. worker[m].job # i /\ worker'[m].job # i
    BY <1>0, <1>2, <1>6 DEF Idle, NoJob, Jobs
  <2> QED BY <1>2, <1>3, <1>6, <2>1, Untouched
<1>7. WellPlaced(j)'
  <2>1. MediaFor(j)' = MediaFor(j)
    BY DEF MediaFor
  <2>2. s = "failed" => j \in event'
    BY <1>0
  <2>3. worker'[m].job = j => s \in Stages
    BY <1>1, <1>2 DEF Idle, NoJob, Jobs
  <2> QED BY <1>1, <1>2, <1>3, <2>1, <2>2, <2>3 DEF WellPlaced, Stages, Terminal
<1> QED BY <1>4, <1>5, <1>6, <1>7 DEF JobsInv

LEMMA WorkersKeep ==
  ASSUME JobsInv, NEW m \in Media, WorkerStep(m) PROVE JobsInv'
<1>1. CASE Proceed(m)
  <2>1. /\ worker[m].stage \in DOMAIN StageAfter
        /\ worker' = [worker EXCEPT ![m].stage = StageAfter[worker[m].stage]]
        /\ state' = [state EXCEPT ![worker[m].job] = worker'[m].stage]
        /\ UNCHANGED <<request, event, queue, file>>
    BY <1>1 DEF Proceed
  <2>2. StageAfter[worker[m].stage] \in Stages /\ worker[m] # Idle
    BY <2>1 DEF StageAfter, Stages, Idle
  <2>3. worker[m] \in [job : Jobs \cup {NoJob}, stage : Stages \cup {"idle"}]
    BY DEF JobsInv, TypeOK
  <2>4. worker' = [worker EXCEPT ![m] = [job |-> worker[m].job, stage |-> StageAfter[worker[m].stage]]]
    <3>1. worker' = [worker EXCEPT ![m] = [worker[m] EXCEPT !.stage = StageAfter[worker[m].stage]]]
      BY <2>1
    <3>2. [worker[m] EXCEPT !.stage = StageAfter[worker[m].stage]]
             = [job |-> worker[m].job, stage |-> StageAfter[worker[m].stage]]
      BY <2>3
    <3> QED BY <3>1, <3>2
  <2>5. worker'[m].stage = StageAfter[worker[m].stage]
    BY <2>4 DEF JobsInv, TypeOK
  <2>6. StageAfter[worker[m].stage] # "failed"
    BY <2>2 DEF Stages
  <2>7. file' \in [Files -> Jobs \cup {NoJob}]
    BY <2>1 DEF JobsInv, TypeOK
  <2> QED BY <2>1, <2>2, <2>4, <2>5, <2>6, <2>7, WorkKeeps
<1>2. ASSUME worker[m] # Idle, GiveUp(m, worker[m].job), UNCHANGED file PROVE JobsInv'
  <2>1. file' \in [Files -> Jobs \cup {NoJob}] /\ "failed" \notin Stages
    BY <1>2 DEF JobsInv, TypeOK, Stages
  <2> QED BY <1>2, <2>1, WorkKeeps DEF GiveUp
<1>3. CASE Fail(m)
  BY <1>2, <1>3 DEF Fail
<1>4. CASE Save(m)
  <2>1. PICK x \in Exts :
          \/ /\ file' = [file EXCEPT ![<<request[worker[m].job].key, x>>] = worker[m].job]
             /\ state' = [state EXCEPT ![worker[m].job] = "ready"]
             /\ worker' = [worker EXCEPT ![m] = Idle]
             /\ UNCHANGED <<request, event, queue>>
          \/ GiveUp(m, worker[m].job) /\ UNCHANGED file
    BY <1>4 DEF Save
  <2>2. worker[m] # Idle /\ "ready" \notin Stages
    BY <1>4 DEF Save, Idle, Stages
  <2>3. worker[m].job \in Jobs
    BY <2>2, AtWork
  <2>4. file' \in [Files -> Jobs \cup {NoJob}]
    BY <2>1, <2>3 DEF JobsInv, TypeOK
  <2> QED BY <1>2, <2>1, <2>2, <2>4, WorkKeeps
<1> QED BY <1>1, <1>3, <1>4, TakingKeeps DEF WorkerStep

LEMMA NextKeeps == JobsInv /\ [Next]_vars => JobsInv'
<1> SUFFICES ASSUME JobsInv, [Next]_vars PROVE JobsInv'
  OBVIOUS
<1>1. CASE UNCHANGED vars
  <2>1. UNCHANGED <<request, state, event, queue, worker, file>>
    BY <1>1 DEF vars
  <2>2. TypeOK' /\ Workers'
    BY <2>1 DEF JobsInv, TypeOK, Workers
  <2>3. ASSUME NEW j \in Jobs PROVE WellPlaced(j)'
    BY <2>1, Untouched
  <2> QED BY <2>2, <2>3 DEF JobsInv
<1>2. ASSUME NEW j \in Jobs, ClientStep(j) PROVE JobsInv'
  BY <1>2, RequestsKeep, AddsKeep, CancelKeeps DEF ClientStep
<1>3. ASSUME NEW m \in Media, WorkerStep(m) PROVE JobsInv'
  BY <1>3, WorkersKeep
<1> QED BY <1>1, <1>2, <1>3 DEF Next

\* The inductive invariant holds in every state of every behaviour.
THEOREM JobsInvHolds == Spec => []JobsInv
  BY InitKeeps, NextKeeps, PTL DEF Spec

\* Every variable keeps its type, and no queue grows past max_queue_size although
\* the room is measured before an await.
THEOREM TypesHold == Spec => []TypeOK
<1>1. JobsInv => TypeOK
  BY DEF JobsInv
<1> QED BY <1>1, JobsInvHolds, PTL

\* No job is lost or processed twice, whatever fails and whenever it is cancelled.
THEOREM InOnePlaceHolds == Spec => []InOnePlace
<1>1. JobsInv => InOnePlace
  <2> SUFFICES ASSUME JobsInv, NEW j \in Jobs
               PROVE  /\ state[j] = "queued" => j \in queue[MediaFor(j)]
                      /\ state[j] \in Stages => worker[MediaFor(j)] = [job |-> j, stage |-> state[j]]
                      /\ j \in Queued => state[j] \in {"queued", "cancelled"}
                      /\ \A n \in Media : worker[n].job = j => n = MediaFor(j) /\ j \notin Queued
    BY DEF InOnePlace
  <2>1. WellPlaced(j)
    BY DEF JobsInv
  <2>2. j \in Queued <=> \E m \in Media : j \in queue[m]
    BY DEF Queued
  <2> QED BY <2>1, <2>2 DEF WellPlaced
<1> QED BY <1>1, JobsInvHolds, PTL

\* A job that has failed or was cancelled has its event set, so whoever waits for
\* it goes on.
THEOREM EndedIsWokenHolds == Spec => []EndedIsWoken
<1>1. JobsInv => EndedIsWoken
  BY DEF JobsInv, WellPlaced, EndedIsWoken
<1> QED BY <1>1, JobsInvHolds, PTL

\* A file of the cache is replaced by a forced job only.
THEOREM FileKeptHolds == Spec => FileKept
<1>1. JobsInv /\ [Next]_vars =>
        [\A f \in Files : file[f] # NoJob /\ file'[f] # file[f] =>
           file'[f] # NoJob /\ request[file'[f]].force]_vars
  <2> SUFFICES ASSUME JobsInv, Next, NEW f \in Files, file[f] # NoJob, file'[f] # file[f]
               PROVE  file'[f] # NoJob /\ request[file'[f]].force
    OBVIOUS
  <2>1. PICK m \in Media : Save(m)
    <3>1. \A j \in Jobs : ClientStep(j) => file' = file
      BY DEF ClientStep, Download, Reject, Measure, Admit, Post, Wake, Expire, Cancel, AddJob
    <3>2. \A m \in Media : Take(m) \/ Proceed(m) \/ Fail(m) => file' = file
      BY DEF Take, Proceed, Fail
    <3> QED BY <3>1, <3>2 DEF Next, WorkerStep
  <2>2. worker[m].job \in Jobs
    BY <2>1, AtWork DEF Save, Idle
  <2>3. PICK x \in Exts :
          /\ Movable(worker[m].job, <<request[worker[m].job].key, x>>)
          /\ file' = [file EXCEPT ![<<request[worker[m].job].key, x>>] = worker[m].job]
    BY <2>1 DEF Save
  <2>4. f = <<request[worker[m].job].key, x>> /\ file'[f] = worker[m].job
    BY <2>3 DEF JobsInv, TypeOK
  <2> QED BY <2>2, <2>3, <2>4 DEF Movable, Jobs, NoJob
<1> QED BY <1>1, JobsInvHolds, PTL DEF Spec, FileKept

=============================================================================
