------------------------------ MODULE Playback ------------------------------
(* How one chat goes from track to track: its queue (helpers/_queue.py), the   *)
(* play_next() that pops it, the starts, and the commands and StreamEnded      *)
(* updates that call them (core/calls.py, helpers/_play.py, the plugins).  The *)
(* coroutines share one event loop; a step ends at an await that suspends.  A  *)
(* StreamEnded update names the chat and no track, and a track that ends sends *)
(* one for its audio and, a video, another: the rest is told by time windows.  *)
EXTENDS Integers, Sequences, FiniteSets, SequencesExt

CONSTANTS Requests,      \* the tracks that /play asks for, each once
          Recommended,   \* the tracks that autoplay may come up with; none: it is off
          Media,         \* the media ids
          MediaOf,       \* the media id of a track; a queue may repeat one
          Tasks,         \* the coroutines under way at once
          None,          \* no track, no task
          MaxDepth,      \* the limit on nested advances (12 in the code)
          MaxCommands,   \* the bound on commands other than /play
          Commands,      \* which of those are given
          Sources,       \* which starts may play from a direct source
          Updates,       \* how many StreamEnded updates a track sends
          Apart,         \* BOOLEAN: a first start comes when all that went before
                         \* it in the chat is over
          Faults         \* what may go wrong

Tracks   == Requests \cup Recommended
AllCommands == {"skip", "stop", "force", "again", "loop", "cancel"}
AllFaults   == {"gives up", "raises", "refused", "unplayable", "no voice chat",
                "dies early", "short"}

ASSUME PlaybackAssumption ==
    /\ Requests \cap Recommended = {}
    /\ MediaOf \in [Tracks -> Media]
    /\ None \notin Tracks \cup Tasks \cup Media
    /\ MaxDepth \in Nat
    /\ MaxCommands \in Nat
    /\ Commands \subseteq AllCommands
    /\ Sources \subseteq {"detached", "proved"}
    /\ Updates \subseteq {1, 2}
    /\ Apart \in BOOLEAN
    /\ Faults \subseteq AllFaults

VARIABLES queue,       \* the tracks of the chat; the head is the current one
          loop,        \* db.get_loop: how often the current track starts again
          call,        \* the chat is in db.active_calls
          stopped,     \* the chat is in _stopped_chats
          stream,      \* the track that the assistant was last told to play
          alive,       \* that track has not ended
          ends,        \* the StreamEnded updates on their way
          gen,         \* which play_next lock object is in use: stop() drops it
          line,        \* the coroutines that wait for a lock, first come first
          depth,       \* _play_next_depth
          ending,      \* _ending_media_id
          switching,   \* the 3 s of _stream_switch_until are not over
          debounced,   \* the 2.5 s of _stream_end_at are not over
          gate,        \* the open proof window of startup_gate
          watched,     \* direct_watchdog is armed
          task,        \* what each coroutine is doing
          asked,       \* the tracks that a command or autoplay came with so far
          had,         \* history: the tracks that had their turn
          given        \* the number of commands other than /play so far

queueVars  == <<queue, loop>>
streamVars == <<call, stopped, stream, alive, ends>>
lockVars   == <<gen, line, depth>>
endVars    == <<ending, switching, debounced>>
gateVars   == <<gate, watched>>
history    == <<asked, had, given>>
vars == <<queueVars, streamVars, lockVars, endVars, gateVars, task, history>>

NoWindow == [by |-> None, fatal |-> FALSE]
Idle     == [at |-> "idle",      \* how far it is
             why |-> "end",      \* what began it
             own |-> None,       \* the track it was begun for
             item |-> None,      \* the track it is dealing with
             by |-> "command",   \* what called play_media
             local |-> FALSE,    \* the direct source has failed
             again |-> FALSE,    \* play_next follows its stop
             pos |-> 0,          \* the index a force has read
             locks |-> {},       \* the locks it holds
             frames |-> 0]       \* its frames of play_next

Phases == {"idle", "waiting", "advancing", "carding", "choosing", "readying", "starting",
           "proving", "attaching", "watching", "failing over", "stopping", "cleaning",
           "leaving", "queued", "forcing"}

TaskState == [at : Phases,
              why : {"end", "watch", "initial", "play", "skip", "stop", "again", "force"},
              own : Tracks \cup {None}, item : Tracks \cup {None},
              by : {"command", "body", "loop", "failover"},
              local : BOOLEAN, again : BOOLEAN, pos : Nat,
              locks : SUBSET Nat, frames : Nat]

At(t, phases) == task[t].at \in phases
Quiet         == \A t \in Tasks : At(t, {"idle", "queued"})
InQueue(i)    == i \in ToSet(queue)
IdOf(i)       == IF i = None THEN None ELSE MediaOf[i]
Current       == IF queue = <<>> THEN None ELSE Head(queue)

\* The stops of the chat that t has to let pass.
StopsBefore(t) ==
    {u \in Tasks : At(u, {"leaving"}) \/ (At(u, {"stopping"}) /\ At(t, {"cleaning"}))}

\* Nothing of the chat runs between the call of stop() and its cleanup when
\* there is no card to delete and no other stop to wait for.
Urgent(t) == At(t, {"cleaning"}) /\ StopsBefore(t) = {}

Calm           == \A t \in Tasks : ~Urgent(t)
On(t, phases)  == At(t, phases) /\ (Urgent(t) \/ Calm)

Init ==
    /\ queue = <<>> /\ loop = 0
    /\ call = FALSE /\ stopped = FALSE
    /\ stream = None /\ alive = FALSE /\ ends = 0
    /\ gen = 0 /\ line = <<>> /\ depth = 0
    /\ ending = None /\ switching = FALSE /\ debounced = FALSE
    /\ gate = NoWindow /\ watched = FALSE
    /\ task = [t \in Tasks |-> Idle]
    /\ asked = {} /\ had = {} /\ given = 0

-----------------------------------------------------------------------------
(* The queue.                                                                  *)

Manual(i) == i \in Requests

\* Mutant: a request goes to the end, whatever waits.
Appended(q, i) == Append(q, i)

\* Queue.add: behind the head, a request goes before the first AI DJ track.
Inserted(q, i) ==
    LET later == {n \in 2..Len(q) : Manual(i) /\ ~Manual(q[n])}
    IN  IF later = {} THEN Append(q, i) ELSE InsertAt(q, Min(later), i)

Rest(q) == IF q = <<>> THEN q ELSE Tail(q)

\* deque.rotate(n)
Rotated(q, n) ==
    LET k == n % Len(q)
    IN  IF q = <<>> THEN q
        ELSE SubSeq(q, Len(q) - k + 1, Len(q)) \o SubSeq(q, 1, Len(q) - k)

\* Queue.force_add: track i takes the place of the head, and the track at index
\* pos is removed, by rotating the deque there and back.
Forced(q, i, pos) ==
    LET r == <<i>> \o Rest(q)
    IN  IF pos = 0 THEN r ELSE Rotated(Tail(Rotated(r, -pos)), pos)

-----------------------------------------------------------------------------
(* The lock of play_next and the end of a coroutine.                           *)

Held(g) == \E t \in Tasks : g \in task[t].locks
Busy    == Held(gen)

\* Each frame of play_next that returns takes one from the depth.
Unwound(d, n) == IF n >= d THEN 0 ELSE d - n

\* stop() first deletes the card of the current track, if there is one.
StopOf(q) == IF q = <<>> THEN "cleaning" ELSE "stopping"

\* Coroutine t returns.  A first start after which the chat has no call takes
\* its track back and stops what it may have begun.
Return(t, inCall) ==
    /\ depth' = Unwound(depth, task[t].frames)
    /\ IF task[t].why = "initial" /\ ~inCall
       THEN /\ queue' = RemoveFirst(queue, task[t].item)
            /\ task' = [task EXCEPT ![t] = [Idle EXCEPT !.at = StopOf(queue'), !.why = "stop"]]
       ELSE /\ queue' = queue
            /\ task' = [task EXCEPT ![t] = Idle]

Go(t, phase)       == task' = [task EXCEPT ![t].at = phase]
GoWith(t, phase, i) == task' = [task EXCEPT ![t].at = phase, ![t].item = i]

\* self.play_next(): wait for the lock that is in use now.
Advance(t) ==
    /\ line' = Append(line, [task |-> t, lock |-> gen])
    /\ Go(t, "waiting")

\* The lock is free and t the first in its line: play_next begins.
Acquire(t) ==
    /\ On(t, {"waiting"})
    /\ \E n \in DOMAIN line :
          /\ line[n].task = t
          /\ ~Held(line[n].lock)
          /\ \A m \in 1..(n - 1) : line[m].lock # line[n].lock
          /\ line' = RemoveAt(line, n)
          /\ IF depth > MaxDepth
             THEN /\ depth' = 0
                  /\ task' = [task EXCEPT ![t].at = StopOf(queue), ![t].locks = @ \cup {line[n].lock}]
             ELSE /\ depth' = depth + 1
                  /\ task' = [task EXCEPT ![t].at = "advancing", ![t].frames = @ + 1,
                                          ![t].locks = @ \cup {line[n].lock}]
    /\ UNCHANGED <<queueVars, streamVars, gen, endVars, gateVars, history>>

\* _cancel_post_start_tasks and _cancel_startup_proof end what watches a
\* detached start, but for the coroutine t that calls them.
Watchers(t)  == {u \in Tasks \ {t} : task[u].why = "watch"}
WithoutWatchers(t) == [u \in Tasks |-> IF u \in Watchers(t) THEN Idle ELSE task[u]]
LineWithout(S) == SelectSeq(line, LAMBDA w : w.task \notin S)
FramesOf(S)    == MapThenSumSet(LAMBDA u : task[u].frames, S)

-----------------------------------------------------------------------------
(* The body of play_next.                                                      *)

\* The current track is noted as the one that ends.
Begin(t) ==
    /\ On(t, {"advancing"})
    /\ loop = 0
    /\ ending' = IF Current = None THEN ending ELSE IdOf(Current)
    /\ GoWith(t, "carding", Current)
    /\ UNCHANGED <<queueVars, streamVars, lockVars, switching, debounced, gateVars, history>>

\* The current track is to start again, if the chat is in a call.
Replay(t) ==
    /\ On(t, {"advancing"})
    /\ loop > 0
    /\ loop' = loop - 1
    /\ IF call
       THEN /\ task' = [task EXCEPT ![t].at = "starting", ![t].item = Current,
                                    ![t].by = "loop", ![t].local = FALSE]
            /\ UNCHANGED <<queue, depth>>
       ELSE Return(t, call)
    /\ UNCHANGED <<streamVars, gen, line, endVars, gateVars, history>>

\* The card of the current track is deleted; the head is popped.
Pop(t) ==
    /\ On(t, {"carding"})
    /\ queue' = Rest(queue)
    /\ gate' = NoWindow /\ watched' = FALSE
    /\ line' = LineWithout(Watchers(t))
    /\ depth' = Unwound(depth, FramesOf(Watchers(t)))
    /\ \E phase \in {"readying", "choosing", "cleaning"} :
          /\ phase = "readying" <=> queue' # <<>>
          /\ phase = "choosing" => task[t].item # None /\ Recommended # {}
          /\ task' = [WithoutWatchers(t) EXCEPT
                        ![t].at = phase,
                        ![t].item = IF queue' = <<>> THEN @ ELSE Head(queue')]
    /\ UNCHANGED <<loop, streamVars, gen, endVars, history>>

\* Autoplay comes up with a track in time; the queue may have got one meanwhile.
Recommend(t) ==
    /\ On(t, {"choosing"})
    /\ \E i \in Recommended \ asked :
          /\ queue' = Inserted(queue, i)
          /\ asked' = asked \cup {i}
          /\ GoWith(t, "readying", Head(queue'))
    /\ UNCHANGED <<loop, streamVars, lockVars, endVars, gateVars, had, given>>

\* It does not: stop, whatever the queue got.
RecommendNothing(t) ==
    /\ On(t, {"choosing"})
    /\ Go(t, StopOf(queue))
    /\ UNCHANGED <<queueVars, streamVars, lockVars, endVars, gateVars, history>>

\* The cards are sent and the prefetch was awaited for a moment.
Ready(t) ==
    /\ On(t, {"readying"})
    /\ had' = had \cup {task[t].item}
    /\ task' = [task EXCEPT ![t].at = "starting", ![t].by = "body", ![t].local = FALSE]
    /\ UNCHANGED <<queueVars, streamVars, lockVars, endVars, gateVars, asked, given>>

\* Mutant: the track without a source is removed before the body goes on.
UnplayableRemoved(t) ==
    /\ On(t, {"readying"})
    /\ "unplayable" \in Faults
    /\ had' = had \cup {task[t].item}
    /\ queue' = Rest(queue)
    /\ IF depth > MaxDepth
       THEN Go(t, StopOf(queue)) /\ UNCHANGED depth
       ELSE /\ depth' = depth + 1
            /\ task' = [task EXCEPT ![t].at = "advancing", ![t].frames = @ + 1]
    /\ UNCHANGED <<loop, streamVars, gen, line, endVars, gateVars, asked, given>>

\* There is nothing to play it from: the body goes on to the next track.
Unplayable(t) ==
    /\ On(t, {"readying"})
    /\ "unplayable" \in Faults
    /\ had' = had \cup {task[t].item}
    /\ IF depth > MaxDepth
       THEN Go(t, StopOf(queue)) /\ UNCHANGED depth
       ELSE /\ depth' = depth + 1
            /\ task' = [task EXCEPT ![t].at = "advancing", ![t].frames = @ + 1]
    /\ UNCHANGED <<queueVars, streamVars, gen, line, endVars, gateVars, asked, given>>

-----------------------------------------------------------------------------
(* play_media.                                                                 *)

Starting(t) == On(t, {"starting"}) /\ task[t].item # None

\* Mutant: the mark of the media that ends outlives its next start.
MarkStartedOnly(i) ==
    /\ stopped' = FALSE
    /\ switching' = TRUE
    /\ ending' = ending

\* _mark_playback_started
MarkStarted(i) ==
    /\ stopped' = FALSE
    /\ switching' = TRUE
    /\ ending' = IF ending = IdOf(i) THEN None ELSE ending

Sounds(i) == stream' = i /\ alive' = TRUE

\* A local file, or a start that needs no proof, plays.
PlayLocal(t) ==
    /\ Starting(t)
    /\ Sounds(task[t].item)
    /\ MarkStarted(task[t].item)
    /\ call' = TRUE
    /\ gate' = NoWindow
    /\ Return(t, TRUE)
    /\ UNCHANGED <<loop, ends, gen, line, debounced, watched, history>>

\* A first start from a direct source is left to a coroutine that watches it.
PlayDetached(t) ==
    /\ Starting(t) /\ ~task[t].local
    /\ "detached" \in Sources
    /\ task[t].why = "initial" /\ task[t].by = "command"
    /\ MarkStarted(task[t].item)
    /\ call' = TRUE
    /\ gate' = [by |-> t, fatal |-> FALSE]
    /\ watched' = TRUE
    /\ task' = [task EXCEPT ![t] = [Idle EXCEPT !.at = "attaching", !.why = "watch",
                                                !.own = task[t].item]]
    /\ UNCHANGED <<queueVars, stream, alive, ends, lockVars, debounced, history>>

\* Any other start from a direct source waits for the proof that it lasts.
PlayDirect(t) ==
    /\ Starting(t) /\ ~task[t].local
    /\ "proved" \in Sources
    /\ Sounds(task[t].item)
    /\ gate' = [by |-> t, fatal |-> FALSE]
    /\ Go(t, "proving")
    /\ UNCHANGED <<queueVars, call, stopped, ends, lockVars, endVars, watched, history>>

Proved(t) == gate.by = t /\ ~gate.fatal

\* The proof window, too, outlasts the updates that are on their way.
ProofHolds(t) ==
    /\ On(t, {"proving"})
    /\ Proved(t) /\ ends = 0
    /\ MarkStarted(task[t].item)
    /\ call' = TRUE
    /\ gate' = NoWindow
    /\ watched' = TRUE
    /\ Return(t, TRUE)
    /\ UNCHANGED <<loop, stream, alive, ends, gen, line, debounced, history>>

\* A fatal signal, or a session that is no longer its own: on to a local file.
ProofFails(t) ==
    /\ On(t, {"proving"})
    /\ ~Proved(t)
    /\ gate' = NoWindow
    /\ task' = [task EXCEPT ![t].at = "starting", ![t].local = TRUE]
    /\ UNCHANGED <<queueVars, streamVars, lockVars, endVars, watched, history>>

\* No slot for the stream: the queue is left as it is.
Refuse(t) ==
    /\ Starting(t)
    /\ "refused" \in Faults
    /\ Return(t, call)
    /\ UNCHANGED <<loop, streamVars, gen, line, endVars, gateVars, history>>

\* Every source failed.
GiveUp(t) ==
    /\ Starting(t)
    /\ "gives up" \in Faults
    /\ Advance(t)
    /\ UNCHANGED <<queueVars, streamVars, gen, depth, endVars, gateVars, history>>

\* There is no voice chat, or its server refuses.
NoVoiceChat(t) ==
    /\ Starting(t)
    /\ "no voice chat" \in Faults
    /\ Go(t, StopOf(queue))
    /\ UNCHANGED <<queueVars, streamVars, lockVars, endVars, gateVars, history>>

\* The failover of a coroutine came to nothing: on to the next track.
NoFailover(t) ==
    /\ watched' = FALSE
    /\ ending' = IF task[t].why = "end" THEN IdOf(task[t].own) ELSE ending
    /\ Advance(t)

RaiseInBody(t) ==
    /\ task[t].by = "body"
    /\ queue' = Rest(queue)
    /\ Advance(t)
    /\ UNCHANGED <<depth, ending, watched>>

\* A replay lets it through play_next; the handler of StreamEnded then stops.
RaiseInLoop(t) ==
    /\ task[t].by = "loop"
    /\ IF task[t].why = "end"
       THEN /\ depth' = Unwound(depth, task[t].frames)
            /\ task' = [task EXCEPT ![t] = [Idle EXCEPT !.at = StopOf(queue)]]
            /\ UNCHANGED queue
       ELSE Return(t, call)
    /\ UNCHANGED <<line, ending, watched>>

RaiseInFailover(t) ==
    /\ task[t].by = "failover"
    /\ NoFailover(t)
    /\ UNCHANGED <<queue, depth>>

\* A /play whose track is at the head of others advances; any other takes its
\* track back.
RaiseInCommand(t) ==
    /\ task[t].by = "command"
    /\ IF task[t].why = "play" /\ Current = task[t].own /\ Len(queue) > 1
       THEN Advance(t) /\ UNCHANGED <<queue, depth>>
       ELSE /\ queue' = IF task[t].why \in {"play", "initial"}
                        THEN RemoveFirst(queue, task[t].own) ELSE queue
            /\ task' = [task EXCEPT ![t] =
                  IF task[t].why = "initial" /\ ~call
                  THEN [Idle EXCEPT !.at = StopOf(queue'), !.why = "stop"] ELSE Idle]
            /\ UNCHANGED <<depth, line>>
    /\ UNCHANGED <<ending, watched>>

\* play_media raises, as it does for a current track that is gone.
Raise(t) ==
    /\ On(t, {"starting"})
    /\ task[t].item = None \/ "raises" \in Faults
    /\ \/ RaiseInBody(t)
       \/ RaiseInLoop(t)
       \/ RaiseInFailover(t)
       \/ RaiseInCommand(t)
    /\ UNCHANGED <<loop, streamVars, gen, switching, debounced, gate, history>>

-----------------------------------------------------------------------------
(* What watches a detached start.                                              *)

\* client.play returns; the proof is awaited if the session is still there.
Attach(t) ==
    /\ On(t, {"attaching"})
    /\ Sounds(task[t].own)
    /\ IF gate = NoWindow THEN task' = [task EXCEPT ![t] = Idle] ELSE Go(t, "watching")
    /\ UNCHANGED <<queueVars, call, stopped, ends, lockVars, endVars, gateVars, history>>

\* client.play fails: the failure is marked on the session of the chat.
AttachFails(t) ==
    /\ On(t, {"attaching"})
    /\ "dies early" \in Faults
    /\ gate' = NoWindow
    /\ Go(t, "failing over")
    /\ UNCHANGED <<queueVars, streamVars, lockVars, endVars, watched, history>>

\* The proof window is over.
Watch(t) ==
    /\ On(t, {"watching"})
    /\ Proved(t) => ends = 0
    /\ IF gate.by = t
       THEN /\ gate' = NoWindow
            /\ IF gate.fatal /\ IdOf(Current) = IdOf(task[t].own)
               THEN Go(t, "failing over")
               ELSE task' = [task EXCEPT ![t] = Idle]
       ELSE task' = [task EXCEPT ![t] = Idle] /\ UNCHANGED gate
    /\ UNCHANGED <<queueVars, streamVars, lockVars, endVars, watched, history>>

-----------------------------------------------------------------------------
(* StreamEnded updates.                                                        *)

\* The stream comes to its end: a track outlasts the windows that its start
\* opens unless it is short, or it dies in its proof window.
TrackEnds ==
    /\ Calm
    /\ alive
    /\ \/ ~switching /\ gate = NoWindow
       \/ "short" \in Faults
       \/ gate # NoWindow /\ "dies early" \in Faults
    /\ alive' = FALSE
    /\ \E n \in Updates : ends' = ends + n
    /\ UNCHANGED <<queueVars, call, stopped, stream, lockVars, endVars, gateVars, task, history>>

\* The windows outlast the updates that are on their way, and the switch window
\* of a start the debounce of the end before it.
SwitchEnds ==
    /\ Calm /\ switching /\ ~debounced /\ ends = 0
    /\ switching' = FALSE
    /\ UNCHANGED <<queueVars, streamVars, lockVars, ending, debounced, gateVars, task, history>>

DebounceEnds ==
    /\ Calm /\ debounced /\ ends = 0
    /\ debounced' = FALSE
    /\ UNCHANGED <<queueVars, streamVars, lockVars, ending, switching, gateVars, task, history>>

\* Mutant: no end is taken for the twin of another.
NoTwin == FALSE

Ignored  == Busy \/ (Current # None /\ ending = IdOf(Current))
Residual == switching
Twin     == debounced

Heard == Calm /\ ends > 0 /\ ends' = ends - 1

HearNothing ==
    /\ Heard
    /\ Ignored \/ (Residual /\ gate = NoWindow) \/ (~Residual /\ Twin)
    /\ UNCHANGED <<queueVars, call, stopped, stream, alive, lockVars, endVars, gateVars,
                   task, history>>

\* An end in the proof window of a direct start is fatal to it.
HearFatal ==
    /\ Heard
    /\ ~Ignored
    /\ gate # NoWindow
    /\ Residual \/ ~Twin
    /\ debounced' = (debounced \/ ~Residual)
    /\ gate' = [gate EXCEPT !.fatal = TRUE]
    /\ UNCHANGED <<queueVars, call, stopped, stream, alive, lockVars, ending, switching,
                   watched, task, history>>

HearEnd(t) ==
    /\ Heard
    /\ On(t, {"idle"})
    /\ ~Ignored /\ ~Residual /\ ~Twin
    /\ gate = NoWindow
    /\ debounced' = TRUE
    /\ task' = [task EXCEPT ![t] = [Idle EXCEPT
          !.at = IF Current = None THEN "cleaning" ELSE "failing over", !.own = Current]]
    /\ UNCHANGED <<queueVars, call, stopped, stream, alive, lockVars, ending, switching,
                   gateVars, history>>

\* _try_direct_local_failover, once it has asked for the voice chat.  A chat
\* that was stopped is stopped once more, and play_next follows.
FailoverStopped(t) ==
    /\ On(t, {"failing over"})
    /\ stopped
    /\ task' = [task EXCEPT ![t].at = StopOf(queue), ![t].again = TRUE]
    /\ UNCHANGED <<queueVars, streamVars, lockVars, endVars, gateVars, history>>

FailoverRefused(t) ==
    /\ On(t, {"failing over"})
    /\ ~stopped
    /\ gate' = IF Current # None /\ gate # NoWindow THEN [gate EXCEPT !.fatal = TRUE] ELSE gate
    /\ NoFailover(t)
    /\ UNCHANGED <<queueVars, streamVars, gen, depth, switching, debounced, history>>

\* The current track, early dead, is to start again from a local file.
Failover(t) ==
    /\ On(t, {"failing over"})
    /\ ~stopped /\ Current # None /\ gate = NoWindow
    /\ watched \/ task[t].why = "watch"
    /\ "dies early" \in Faults
    /\ watched' = FALSE
    /\ task' = [task EXCEPT ![t].at = "starting", ![t].by = "failover",
                            ![t].local = TRUE, ![t].item = Current]
    /\ UNCHANGED <<queueVars, streamVars, lockVars, endVars, gate, history>>

-----------------------------------------------------------------------------
(* stop().                                                                     *)

StopCleans(t) ==
    /\ On(t, {"stopping", "cleaning"})
    /\ StopsBefore(t) = {}
    /\ queue' = <<>> /\ loop' = 0
    /\ call' = FALSE
    /\ gen' = gen + 1
    /\ line' = LineWithout(Watchers(t))
    /\ depth' = 0
    /\ ending' = None /\ switching' = FALSE /\ debounced' = FALSE
    /\ gate' = NoWindow /\ watched' = FALSE
    /\ task' = [WithoutWatchers(t) EXCEPT ![t].at = "leaving"]
    /\ UNCHANGED <<stopped, stream, alive, ends, history>>

\* leave_call is skipped for a chat that was left already.
Left(t) ==
    \/ /\ stopped
       /\ UNCHANGED <<stopped, stream, alive>>
    \/ /\ ~stopped /\ "raises" \in Faults
       /\ UNCHANGED <<stopped, stream, alive>>
    \/ /\ ~stopped
       /\ stopped' = TRUE /\ stream' = None /\ alive' = FALSE

StopLeaves(t) ==
    /\ On(t, {"leaving"})
    /\ Left(t)
    /\ IF task[t].again
       THEN /\ watched' = FALSE
            /\ ending' = IF task[t].why = "end" THEN IdOf(task[t].own) ELSE ending
            /\ line' = Append(line, [task |-> t, lock |-> gen])
            /\ task' = [task EXCEPT ![t].at = "waiting", ![t].again = FALSE]
            /\ UNCHANGED <<queue, depth>>
       ELSE /\ Return(t, call)
            /\ UNCHANGED <<line, ending, watched>>
    /\ UNCHANGED <<loop, call, ends, gen, switching, debounced, gate, history>>

-----------------------------------------------------------------------------
(* Commands.                                                                   *)

\* A request of a chat without a call starts it; a queue left over is cleared.
PlayFirst(t) ==
    /\ On(t, {"idle"})
    /\ ~call
    /\ \A u \in Tasks : task[u].why # "initial"
    /\ Apart => Quiet /\ ends = 0
    /\ \E i \in Requests \ asked :
          /\ queue' = <<i>>
          /\ asked' = asked \cup {i}
          /\ had' = had \cup {i}
          /\ task' = [task EXCEPT ![t] = [Idle EXCEPT !.at = "starting", !.why = "initial",
                                                      !.own = i, !.item = i]]
    /\ UNCHANGED <<loop, streamVars, lockVars, endVars, gateVars, given>>

\* Another is queued; one that finds the queue empty starts at once.
PlayLater(t) ==
    /\ On(t, {"idle"})
    /\ call
    /\ \E i \in Requests \ asked :
          /\ queue' = Inserted(queue, i)
          /\ asked' = asked \cup {i}
          /\ had' = IF queue = <<>> THEN had \cup {i} ELSE had
          /\ task' = [task EXCEPT ![t] = [Idle EXCEPT
                !.at = IF queue = <<>> THEN "starting" ELSE "queued", !.why = "play",
                !.own = i, !.item = i]]
    /\ UNCHANGED <<loop, streamVars, lockVars, endVars, gateVars, given>>

\* The card and the notices of a queued track are done.
Noticed(t) ==
    /\ On(t, {"queued"})
    /\ task' = [task EXCEPT ![t] = Idle]
    /\ UNCHANGED <<queueVars, streamVars, lockVars, endVars, gateVars, history>>

Give(t, command) ==
    /\ On(t, {"idle"})
    /\ command \in Commands
    /\ given < MaxCommands
    /\ given' = given + 1

Skip(t) ==
    /\ Give(t, "skip")
    /\ call
    /\ line' = Append(line, [task |-> t, lock |-> gen])
    /\ task' = [task EXCEPT ![t] = [Idle EXCEPT !.at = "waiting", !.why = "skip"]]
    /\ UNCHANGED <<queueVars, streamVars, gen, depth, endVars, gateVars, asked, had>>

\* /stop, the end of the voice chat, or the assistant kicked out of it.
Stop(t) ==
    /\ Give(t, "stop")
    /\ task' = [task EXCEPT ![t] = [Idle EXCEPT !.at = StopOf(queue), !.why = "stop"]]
    /\ UNCHANGED <<queueVars, streamVars, lockVars, endVars, gateVars, asked, had>>

SetLoop(t) ==
    /\ Give(t, "loop")
    /\ call
    /\ loop' = 1
    /\ UNCHANGED <<queue, streamVars, lockVars, endVars, gateVars, task, asked, had>>

\* A seek or a replay starts the current track again, without the lock.
Again(t) ==
    /\ Give(t, "again")
    /\ call /\ queue # <<>>
    /\ task' = [task EXCEPT ![t] = [Idle EXCEPT !.at = "starting", !.why = "again",
                                                !.own = Current, !.item = Current]]
    /\ UNCHANGED <<queueVars, streamVars, lockVars, endVars, gateVars, asked, had>>

\* Play Now: the index of the track is read, and the cards are deleted.
PlayNow(t) ==
    /\ Give(t, "force")
    /\ \E n \in DOMAIN queue :
          task' = [task EXCEPT ![t] = [Idle EXCEPT !.at = "forcing", !.why = "force",
                      !.own = queue[n], !.item = queue[n], !.pos = n - 1]]
    /\ UNCHANGED <<queueVars, streamVars, lockVars, endVars, gateVars, asked, had>>

ForceAdd(t) ==
    /\ On(t, {"forcing"})
    /\ queue' = Forced(queue, task[t].item, task[t].pos)
    /\ had' = had \cup {task[t].item}
    /\ Go(t, "starting")
    /\ UNCHANGED <<loop, streamVars, lockVars, endVars, gateVars, asked, given>>

\* The Cancel button of a request, whatever its coroutine is doing by then.
Cancel(t) ==
    /\ Calm
    /\ "cancel" \in Commands
    /\ given < MaxCommands
    /\ given' = given + 1
    /\ task[t].why \in {"play", "initial"}
    /\ queue' = IF task[t].why = "play" \/ ~call THEN RemoveFirst(queue, task[t].own) ELSE queue
    /\ line' = LineWithout({t})
    /\ depth' = Unwound(depth, task[t].frames)
    /\ task' = [task EXCEPT ![t] =
          IF task[t].why = "initial" /\ ~call
          THEN [Idle EXCEPT !.at = StopOf(queue'), !.why = "stop"] ELSE Idle]
    /\ UNCHANGED <<loop, streamVars, gen, endVars, gateVars, asked, had>>

-----------------------------------------------------------------------------
Body(t) == Acquire(t) \/ Begin(t) \/ Replay(t) \/ Pop(t) \/ Recommend(t)
           \/ RecommendNothing(t) \/ Ready(t) \/ Unplayable(t)
Start(t) == PlayLocal(t) \/ PlayDetached(t) \/ PlayDirect(t) \/ ProofHolds(t)
            \/ ProofFails(t) \/ Refuse(t) \/ GiveUp(t) \/ NoVoiceChat(t) \/ Raise(t)
Watched(t) == Attach(t) \/ AttachFails(t) \/ Watch(t) \/ FailoverStopped(t)
              \/ FailoverRefused(t) \/ Failover(t)
Runs(t) == Body(t) \/ Start(t) \/ Watched(t) \/ StopCleans(t) \/ StopLeaves(t)
           \/ Noticed(t) \/ ForceAdd(t)
Command(t) == PlayFirst(t) \/ PlayLater(t) \/ Skip(t) \/ Stop(t) \/ SetLoop(t)
              \/ Again(t) \/ PlayNow(t) \/ Cancel(t)
Update == TrackEnds \/ SwitchEnds \/ DebounceEnds \/ HearNothing \/ HearFatal
          \/ \E t \in Tasks : HearEnd(t)

Next == Update \/ \E t \in Tasks : Runs(t) \/ Command(t)

Spec == Init /\ [][Next]_vars

FairSpec ==
    /\ Spec
    /\ \A t \in Tasks : WF_vars(Runs(t))
    /\ WF_vars(SwitchEnds) /\ WF_vars(DebounceEnds)
    /\ WF_vars(HearNothing \/ HearFatal \/ \E t \in Tasks : HearEnd(t))

-----------------------------------------------------------------------------
(* Properties.                                                                 *)

TypeOK ==
    /\ queue \in Seq(Tracks) /\ loop \in 0..1
    /\ call \in BOOLEAN /\ stopped \in BOOLEAN
    /\ stream \in Tracks \cup {None} /\ alive \in BOOLEAN /\ ends \in Nat
    /\ gen \in Nat /\ line \in Seq([task : Tasks, lock : Nat]) /\ depth \in Nat
    /\ ending \in Media \cup {None} /\ switching \in BOOLEAN /\ debounced \in BOOLEAN
    /\ gate \in [by : Tasks \cup {None}, fatal : BOOLEAN] /\ watched \in BOOLEAN
    /\ task \in [Tasks -> TaskState]
    /\ asked \subseteq Tracks /\ had \subseteq Tracks /\ given \in Nat

\* When nothing is under way, the track that sounds is the head of the queue,
\* and the chat is in a call: no failover, loop or late end starts another track
\* than the one that the queue calls current.
HeadPlays == Quiet /\ alive => call /\ queue # <<>> /\ stream = Head(queue)

\* When nothing is under way, no advance is counted any more, whatever was
\* skipped, cancelled, stopped or failed: what is left over would count towards
\* the limit at which play_next stops the chat.
DepthCounts == Quiet => depth = 0

\* No coroutine waits for a lock that it holds itself.
NoSelfWait == \A n \in DOMAIN line : line[n].lock \notin task[line[n].task].locks

\* Behind the head, every request comes before every AI DJ track.
ManualFirst(q) == \A m, n \in 2..Len(q) : m < n /\ Manual(q[n]) => Manual(q[m])

\* A force whose index is still one of the queue.
Fresh(t) == ForceAdd(t) => task[t].pos < Len(queue)

\* Every add, advance, removal and force keeps the requests that wait before the
\* AI DJ tracks, save a force with an index that the queue no longer has.
KeepsManualFirst ==
    [][ManualFirst(queue) /\ (\A t \in Tasks : Fresh(t)) => ManualFirst(queue')]_vars

\* A track leaves the queue only after its turn, or when the chat is stopped: no
\* update, failure or unplayable track takes another one with it.
NoTrackSkipped ==
    [][\A i \in Tracks :
          InQueue(i) /\ i \notin ToSet(queue') => i \in had \/ gen' # gen]_vars

\* The end of a track, told once or twice, advances the queue once: no advance
\* that an end began pops a track that has not ended.
EndsAdvanceOnce ==
    [][\A t \in Tasks : Pop(t) /\ task[t].why = "end" => ~(alive /\ stream = Current)]_vars

\* A chat in a call whose stream is over hears another track, or is stopped.
EndIsAnswered == (call /\ ~alive) ~> (alive \/ ~call)
=============================================================================
