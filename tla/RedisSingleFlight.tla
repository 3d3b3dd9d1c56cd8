-------------------------- MODULE RedisSingleFlight --------------------------
(* Call coalescing across bot processes                                     *)
(* (AnonX_3/core/downloader/redis_singleflight.py), for one media key.  A   *)
(* process is one bot; its callers share a local flight (module             *)
(* SingleFlight, represented here by what it promises: one run at a time,   *)
(* whose outcome every caller that joined it gets).  Every Redis command is *)
(* an await, so each action is one command and what the coroutine does with *)
(* its reply up to the next await.                                          *)
EXTENDS Naturals, FiniteSets

CONSTANTS
  Processes,   \* bot processes that share the Redis server
  Callers,     \* one-shot calls of do()
  Home,        \* Home[c]: the process caller c runs in
  Results,     \* how a factory may end: "ok", "empty" (no path) or "failed"
  MayFail,     \* whether Redis commands may raise
  MayCrash,    \* whether a process may die
  MayTimeout   \* whether the waiting deadline of a caller may pass

ASSUME RedisAssumption ==
  /\ "none" \notin Callers
  /\ Home \in [Callers -> Processes]
  /\ Results \subseteq {"ok", "empty", "failed"}
  /\ MayFail \in BOOLEAN /\ MayCrash \in BOOLEAN /\ MayTimeout \in BOOLEAN

None == "none"

VARIABLES
  lock,     \* value of the lock key: the token of a caller, or None
  result,   \* value of the result key
  run,      \* the local flight of each process
  beat,     \* the processes whose heartbeat task runs
  at,       \* where each caller's coroutine is
  answer,   \* what do() returned or raised
  robbed    \* auxiliary: the tokens of owners whose lock another's DELETE took
            \* from under their heartbeat; only properties look at it

vars == <<lock, result, run, beat, at, answer, robbed>>

Idle == [step |-> "idle", token |-> None, outcome |-> None]
Running(p) == run[p].step # "idle"

Init ==
  /\ lock = None /\ result = None
  /\ run = [p \in Processes |-> Idle] /\ beat = {}
  /\ at = [c \in Callers |-> "call"] /\ answer = [c \in Callers |-> None]
  /\ robbed = {}

Goto(c, step) == at' = [at EXCEPT ![c] = step] /\ UNCHANGED <<run, beat, answer, robbed>>

Return(c, a) ==
  /\ at' = [at EXCEPT ![c] = "done"] /\ answer' = [answer EXCEPT ![c] = a]
  /\ UNCHANGED <<run, beat, robbed>>

Begin(c, token) ==
  /\ at' = [at EXCEPT ![c] = "joined"] /\ UNCHANGED <<answer, robbed>>
  /\ IF Running(Home[c])
     THEN UNCHANGED <<run, beat>>
     ELSE /\ run' = [run EXCEPT ![Home[c]] = [Idle EXCEPT !.step = "factory", !.token = token]]
          /\ beat' = IF token = None THEN beat ELSE beat \cup {Home[c]}

\* self._local.do(key, factory): join the local run, or start one without the lock.
RunHere(c) == Begin(c, None)

\* self._local.do(key, _run_owner): a local run that is already there is joined
\* all the same, and then nobody heartbeats or releases the lock just taken.
RunAsOwner(c) == Begin(c, c)

Call(c) ==
  /\ at[c] = "call"
  /\ IF Running(Home[c]) THEN RunHere(c)
     ELSE Goto(c, "probe") \/ (MayFail /\ RunHere(c))
  /\ UNCHANGED <<lock, result>>

\* A result published earlier is returned at once; anything else goes on.
Probe(c) ==
  /\ at[c] = "probe"
  /\ \/ IF result = "ok" THEN Return(c, "ok") ELSE Goto(c, "acquire")
     \/ MayFail /\ Goto(c, "acquire")
  /\ UNCHANGED <<lock, result>>

SetAlways(c, otherwise) ==  \* a mutant: the lock is set without NX
  /\ lock' = c /\ RunAsOwner(c)

\* SET key token NX EX ttl
SetLock(c, otherwise) ==
  IF lock = None THEN lock' = c /\ RunAsOwner(c)
  ELSE UNCHANGED lock /\ Goto(c, otherwise)

\* The command raises, before or after the server has done it: a run without
\* the lock, which may have been taken all the same.
SetFails(c) ==
  /\ MayFail /\ RunHere(c)
  /\ UNCHANGED lock \/ (lock = None /\ lock' = c)

Acquire(c) ==
  /\ at[c] = "acquire"
  /\ SetLock(c, "poll") \/ SetFails(c)
  /\ UNCHANGED result

\* One turn of the waiting loop up to the look at the result: a success is
\* returned, a failure ends the wait and the factory is run without the lock.
Poll(c) ==
  /\ at[c] = "poll"
  /\ IF Running(Home[c]) THEN RunHere(c)
     ELSE \/ result = "ok" /\ Return(c, "ok")
          \/ result = "failed" /\ RunHere(c)
          \/ (result \in {None, "empty"} \/ MayFail) /\ Goto(c, "exists")
  /\ UNCHANGED <<lock, result>>

ExistsPolls(c) ==  \* a mutant: who waits never takes over a lock that is gone
  /\ at[c] = "exists"
  /\ Goto(c, "poll") \/ (MayFail /\ RunHere(c))
  /\ UNCHANGED <<lock, result>>

Exists(c) ==
  /\ at[c] = "exists"
  /\ \/ lock = None /\ Goto(c, "retake")
     \/ lock # None /\ Goto(c, "poll")
     \/ MayFail /\ RunHere(c)
  /\ UNCHANGED <<lock, result>>

Retake(c) ==
  /\ at[c] = "retake"
  /\ SetLock(c, "poll") \/ SetFails(c)
  /\ UNCHANGED result

\* The deadline is looked at where the loop starts again.
WaitedTooLong(c) ==
  /\ MayTimeout /\ at[c] = "poll" /\ RunHere(c)
  /\ UNCHANGED <<lock, result>>

\* A local run ends with outcome o for every caller that joined it.
Finish(p, o) ==
  LET sharers == {c \in Callers : Home[c] = p /\ at[c] = "joined"}
  IN  /\ run' = [run EXCEPT ![p] = Idle]
      /\ at' = [c \in Callers |-> IF c \in sharers THEN "done" ELSE at[c]]
      /\ answer' = [c \in Callers |-> IF c \in sharers THEN o ELSE answer[c]]

EndFactory(p) ==
  /\ run[p].step = "factory"
  /\ \E o \in Results :
       IF run[p].token = None THEN Finish(p, o)
       ELSE run' = [run EXCEPT ![p].step = "publish", ![p].outcome = o] /\ UNCHANGED <<at, answer>>
  /\ UNCHANGED <<lock, result, beat, robbed>>

Publish(p) ==
  /\ run[p].step = "publish"
  /\ result' = run[p].outcome \/ (MayFail /\ UNCHANGED result)
  /\ run' = [run EXCEPT ![p].step = "close"]
  /\ UNCHANGED <<lock, beat, at, answer, robbed>>

\* The finally block cancels the heartbeat and awaits it.  A heartbeat that was
\* still running raises CancelledError, which suppress(Exception) lets through:
\* the unlock is skipped and the cancellation replaces the result.
Close(p) ==
  /\ run[p].step = "close"
  /\ IF p \in beat THEN beat' = beat \ {p} /\ Finish(p, "cancelled")
     ELSE run' = [run EXCEPT ![p].step = "unlock"] /\ UNCHANGED <<beat, at, answer>>
  /\ UNCHANGED <<lock, result, robbed>>

\* What the Lua script leaves of the lock: it deletes only the owner's token.
Unlocked(p) == IF lock = run[p].token THEN None ELSE lock

UnlockAny(p) ==  \* a mutant: the lock is deleted without comparing the token
  /\ run[p].step = "unlock"
  /\ lock' = None
  /\ Finish(p, run[p].outcome)
  /\ UNCHANGED <<result, beat, robbed>>

\* _unlock(): the script; when eval raises, before or after the server has run
\* it, the code goes on to compare the token itself.
Unlock(p) ==
  /\ run[p].step = "unlock"
  /\ \/ lock' = Unlocked(p) /\ Finish(p, run[p].outcome)
     \/ /\ MayFail /\ lock' \in {lock, Unlocked(p)}
        /\ run' = [run EXCEPT ![p].step = "compare"] /\ UNCHANGED <<at, answer>>
  /\ UNCHANGED <<result, beat, robbed>>

\* The GET of the fallback: its own token is deleted by a command of its own.
Compare(p) ==
  /\ run[p].step = "compare"
  /\ \/ /\ lock = run[p].token
        /\ run' = [run EXCEPT ![p].step = "delete"] /\ UNCHANGED <<at, answer>>
     \/ (lock # run[p].token \/ MayFail) /\ Finish(p, run[p].outcome)
  /\ UNCHANGED <<lock, result, beat, robbed>>

\* The owners under whose heartbeat a DELETE would take the lock away.
Victims == {run[q].token : q \in {q \in beat : run[q].token = lock}}

\* The DELETE compares nothing: if the lock has expired since the GET, it is
\* the lock of whoever has taken it meanwhile.
Delete(p) ==
  /\ run[p].step = "delete"
  /\ \/ lock' = None /\ robbed' = robbed \cup Victims
     \/ MayFail /\ UNCHANGED <<lock, robbed>>
  /\ Finish(p, run[p].outcome)
  /\ UNCHANGED <<result, beat>>

\* The heartbeat ends when it finds another token, or a command of its own fails.
StopBeat(p) ==
  /\ p \in beat
  /\ MayFail \/ lock # run[p].token
  /\ beat' = beat \ {p}
  /\ UNCHANGED <<lock, result, run, at, answer, robbed>>

\* The server drops a lock that no heartbeat extends.
Expire ==
  /\ lock # None /\ \A p \in beat : run[p].token # lock
  /\ lock' = None
  /\ UNCHANGED <<result, run, beat, at, answer, robbed>>

ForgetResult ==
  /\ result # None /\ result' = None
  /\ UNCHANGED <<lock, run, beat, at, answer, robbed>>

Crash(p) ==
  /\ MayCrash
  /\ \E c \in Callers : Home[c] = p /\ at[c] # "dead"
  /\ at' = [c \in Callers |-> IF Home[c] = p THEN "dead" ELSE at[c]]
  /\ run' = [run EXCEPT ![p] = Idle] /\ beat' = beat \ {p}
  /\ UNCHANGED <<lock, result, answer, robbed>>

Step(c) == Call(c) \/ Probe(c) \/ Acquire(c) \/ Poll(c) \/ Exists(c) \/ Retake(c)

Advance(p) ==
  EndFactory(p) \/ Publish(p) \/ Close(p) \/ Unlock(p) \/ Compare(p) \/ Delete(p)

Next ==
  \/ \E c \in Callers : Step(c) \/ WaitedTooLong(c)
  \/ \E p \in Processes : Advance(p) \/ StopBeat(p) \/ Crash(p)
  \/ Expire \/ ForgetResult

Spec == Init /\ [][Next]_vars

\* The loop runs ready coroutines, factories end, the server expires old locks.
Fairness ==
  /\ \A c \in Callers : WF_vars(Step(c))
  /\ \A p \in Processes : WF_vars(Advance(p))
  /\ WF_vars(Expire)

FairSpec == Spec /\ Fairness

-----------------------------------------------------------------------------
TypeOK ==
  /\ lock \in Callers \cup {None}
  /\ result \in {None, "ok", "empty", "failed"}
  /\ run \in [Processes -> [step : {"idle", "factory", "publish", "close", "unlock",
                                    "compare", "delete"},
                            token : Callers \cup {None}, outcome : {None} \cup Results]]
  /\ beat \subseteq Processes
  /\ at \in [Callers -> {"call", "probe", "acquire", "poll", "exists", "retake", "joined", "done", "dead"}]
  /\ answer \in [Callers -> {None, "ok", "empty", "failed", "cancelled"}]
  /\ robbed \subseteq Callers

AtWork == {p \in Processes : run[p].step = "factory"}

\* The owners at work whose heartbeats keep their locks alive.
Owners == {p \in AtWork : p \in beat /\ run[p].token # None}

\* Whatever fails, crashes or times out, two processes never run the factory at
\* the same time as owners with a live heartbeat, unless one of them was robbed:
\* the DELETE of a run that had lost the lock itself after its GET (and whose
\* script had raised) took the lock from under that heartbeat.
OneOwner == Cardinality({p \in Owners : run[p].token \notin robbed}) <= 1

\* Only its own process takes the lock from an owner whose heartbeat runs, but
\* for the DELETE of another's fallback: not a rival's SET, not the server's
\* expiry, not the script, however late, of a run that had lost the lock.
LockKept ==
  [][\A p \in Processes : p \in beat /\ lock = run[p].token =>
        \/ lock' = lock
        \/ \E q \in Processes \ {p} : run[q].step = "delete" /\ run'[q].step = "idle"]_vars

\* "Lua: delete key only if value matches owner token": nobody is robbed.
NobodyRobbed == robbed = {}

\* Nobody who waits is forgotten: not by the run it joined, nor when the owner
\* it waits for dies without a result.
EveryCallerReturns == \A c \in Callers : at[c] # "call" ~> at[c] \in {"done", "dead"}

\* "No duplicate downloads": one process at a time runs the factory.
OneFactory == Cardinality(AtWork) <= 1

\* Lock, heartbeat, unlock: the lock of a run that has ended is not left behind.
UnlockedWhenDone == \A c \in Callers : at[c] = "done" => lock # c
=============================================================================
