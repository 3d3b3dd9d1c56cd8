----------------------------- MODULE Lifecycle -----------------------------
(* The life of the bot's processes: the watchdog script (start), the lock that *)
(* lets one interpreter own the Telegram session (core/lifecycle.py), the      *)
(* boot, the signal, the crash and the two restarts that all end in stop()     *)
(* (__main__.py, __init__.py, plugins/restart.py), and the exec that puts a    *)
(* fresh interpreter in place of the old one under the same pid.               *)
EXTENDS Integers, Sequences, FiniteSets

CONSTANTS Child,       \* the process that the watchdog launches
          Others,      \* processes launched by hand
          Restarters,  \* the coroutines that restart the bot, of {"daily", "manual"}
          None,
          MaxFaults,   \* the bound on crashes, deaths, stalls and slow boots
          MaxAsks      \* the bound on restarts, signals and launches by hand

Procs   == {Child} \cup Others
Callers == Restarters \cup {"main"}    \* who calls stop()

ASSUME LifecycleAssumption ==
    /\ Child \notin Others /\ None \notin Procs
    /\ Restarters \subseteq {"daily", "manual"}
    /\ MaxFaults \in Nat /\ MaxAsks \in Nat

\* What a lifecycle opens and closes, in order; "tasks" are the supervised ones,
\* the heartbeat and the daily restart among them.
Boots   == <<"database", "client", "tasks", "voice">>
Closers == <<"tasks", "voice", "client", "database">>

VARIABLES proc,    \* each process, and in it the interpreter that runs by now
          lock,    \* the owner of the instance lock
          watch,   \* what the watchdog does
          young,   \* the startup grace of the launch runs
          beat,    \* the heartbeat file
          faults, asks

vars == <<proc, lock, watch, young, beat, faults, asks>>

Fresh == [at |-> "import",                         \* the main thread
          booted |-> 0,                            \* how much the boot has opened
          calls |-> [s \in Callers |-> "out"],     \* the calls of stop()
          pos |-> 0,                               \* the closers that are over
          stopped |-> FALSE,                       \* _shutdown_state
          runs |-> 0,                              \* how often the body of stop() has begun
          crashed |-> FALSE, hung |-> FALSE, told |-> FALSE]

Off == [Fresh EXCEPT !.at = "off"]

ProcState == [at : {"off", "import", "boot", "run", "stop", "backoff", "exec"},
              booted : 0 .. Len(Boots),
              calls : [Callers -> {"out", "queued", "holds", "through"}],
              pos : 0 .. Len(Closers), stopped : BOOLEAN, runs : Nat,
              crashed : BOOLEAN, hung : BOOLEAN, told : BOOLEAN]

At(p, phases) == proc[p].at \in phases
Loop(p)       == At(p, {"boot", "run", "stop"}) /\ ~proc[p].hung
Calls(p, s, phase) == proc[p].calls[s] = phase
Open(p)       == {Boots[i] : i \in 1 .. proc[p].booted} \ {Closers[i] : i \in 1 .. proc[p].pos}
Holder(p)     == {s \in Callers : Calls(p, s, "holds")}

Init ==
    /\ proc = [p \in Procs |-> Off] /\ lock = None
    /\ watch = "launching" /\ young = FALSE /\ beat = "none"
    /\ faults = 0 /\ asks = 0

Fault == faults < MaxFaults /\ faults' = faults + 1
Asked == asks < MaxAsks /\ asks' = asks + 1

Becomes(p, r)  == proc' = [proc EXCEPT ![p] = r]
Unlocked(p)    == IF lock = p THEN None ELSE lock
Quiet          == UNCHANGED <<watch, young, beat, faults, asks>>

-----------------------------------------------------------------------------
(* Boot.  The package claims the lock before it imports anything else.         *)

TakeLock(p) ==
    /\ At(p, {"import"})
    /\ IF lock = None THEN lock' = p /\ Becomes(p, [proc[p] EXCEPT !.at = "boot"])
       ELSE UNCHANGED lock /\ Becomes(p, Off)
    /\ Quiet

\* main() ends in stop(), whatever ended it.
Stopping(r, crashed) == [r EXCEPT !.at = "stop", !.crashed = crashed,
                                  !.calls = [@ EXCEPT !["main"] = "queued"]]

\* The supervisor takes no task once stop() has stopped it: the boot fails.
Opens(p) ==
    LET r == proc[p]
        s == Boots[r.booted + 1]
    IN  /\ Loop(p) /\ At(p, {"boot"})
        /\ Becomes(p, IF s = "tasks" /\ r.pos > 0 THEN Stopping(r, TRUE)
                      ELSE [r EXCEPT !.booted = @ + 1,
                                     !.at = IF r.booted + 1 = Len(Boots) THEN "run" ELSE @])
        /\ UNCHANGED lock /\ Quiet

Crash(p) ==
    /\ Loop(p) /\ At(p, {"boot"}) /\ Fault
    /\ Becomes(p, Stopping(proc[p], TRUE))
    /\ UNCHANGED <<lock, watch, young, beat, asks>>

-----------------------------------------------------------------------------
(* Signals and restarts.                                                       *)

\* SIGTERM: only idle() installs a handler; before it, and after a crash, the
\* process dies at once.
Termed(r) ==
    CASE r.at \in {"import", "boot", "backoff", "exec"} -> Off
      [] r.at = "run" /\ ~r.hung  -> [Stopping(r, FALSE) EXCEPT !.told = TRUE]
      [] r.at = "run" /\ r.hung   -> [r EXCEPT !.told = TRUE]
      [] r.at = "stop"            -> IF r.crashed THEN Off ELSE [r EXCEPT !.told = TRUE]
      [] OTHER -> r

Terminate(p) ==
    /\ Becomes(p, Termed(proc[p]))
    /\ lock' = IF Termed(proc[p]) = Off THEN Unlocked(p) ELSE lock

Kill(p) == Becomes(p, Off) /\ lock' = Unlocked(p)

TermByHand(p) ==
    /\ ~At(p, {"off"}) /\ ~proc[p].told /\ Asked
    /\ Terminate(p)
    /\ UNCHANGED <<watch, young, beat, faults>>

\* The daily task wakes at midnight, until stop() cancels it; /restart comes in
\* while the client is open.
MayAsk(p, s) == IF s = "daily" THEN proc[p].booted >= 3 /\ proc[p].pos = 0
                ELSE "client" \in Open(p)

AskRestart(p, s) ==
    /\ Loop(p) /\ Calls(p, s, "out") /\ MayAsk(p, s) /\ Asked
    /\ Becomes(p, [proc[p] EXCEPT !.calls = [@ EXCEPT ![s] = "queued"]])
    /\ UNCHANGED <<lock, watch, young, beat, faults>>

\* exec_fresh_process: the lock goes, then the interpreter.
Replace(p) ==
    /\ Becomes(p, [proc[p] EXCEPT !.at = "exec"])
    /\ lock' = Unlocked(p)

Exec(p) ==
    /\ At(p, {"exec"}) /\ Becomes(p, Fresh)
    /\ UNCHANGED lock /\ Quiet

Backoff(p) ==
    /\ At(p, {"backoff"}) /\ Replace(p)
    /\ Quiet

-----------------------------------------------------------------------------
(* stop()                                                                      *)

\* Mutant: whoever comes second closes everything again.
EnterAgain(p, s) ==
    /\ Loop(p) /\ Calls(p, s, "queued") /\ Holder(p) = {}
    /\ Becomes(p, [proc[p] EXCEPT !.calls = [@ EXCEPT ![s] = "holds"],
                                  !.pos = 0, !.runs = @ + 1])
    /\ UNCHANGED lock /\ Quiet

\* One caller after the other, under _shutdown_lock; the second finds the work
\* done, and if it is a restart the interpreter is replaced.
Enter(p, s) ==
    /\ Loop(p) /\ Calls(p, s, "queued") /\ Holder(p) = {}
    /\ IF proc[p].stopped
       THEN /\ s \in Restarters /\ Replace(p)
       ELSE /\ Becomes(p, [proc[p] EXCEPT !.calls = [@ EXCEPT ![s] = "holds"], !.runs = @ + 1])
            /\ UNCHANGED lock
    /\ Quiet

\* The first closer cancels the daily restart.  If that is waiting for its turn
\* to stop, its finally clause replaces the interpreter there and then.
CutShort(p) == /\ "daily" \in Restarters /\ Calls(p, "daily", "queued")
               /\ proc[p].pos = 0

\* A closer ends or is given up in time; past the deadline of the whole the
\* others are passed over.
CloseNext(p) ==
    /\ Loop(p) /\ Holder(p) # {} /\ proc[p].pos < Len(Closers)
    /\ IF CutShort(p) THEN Replace(p)
       ELSE /\ \E n \in {proc[p].pos + 1, Len(Closers)} : Becomes(p, [proc[p] EXCEPT !.pos = n])
            /\ UNCHANGED lock
    /\ Quiet

\* Mutant: a crash gives the lock back before it waits to come again.
LeavesEarly(p) ==
    /\ Becomes(p, IF proc[p].crashed THEN [proc[p] EXCEPT !.at = "backoff"] ELSE Off)
    /\ lock' = Unlocked(p)

\* main() is over: the process ends, or after a crash keeps the lock and waits.
Leaves(p) ==
    /\ Becomes(p, IF proc[p].crashed THEN [proc[p] EXCEPT !.at = "backoff"] ELSE Off)
    /\ lock' = IF proc[p].crashed THEN lock ELSE Unlocked(p)

Awaits(p) == \E s \in Restarters : Calls(p, s, "queued")

\* The end of stop().  A restart replaces the interpreter; main() leaves, but a
\* restart that waits for the lock wakes before the event loop ends.
Finish(p) ==
    /\ Loop(p) /\ proc[p].pos = Len(Closers)
    /\ \E s \in Holder(p) :
          IF s \in Restarters THEN Replace(p)
          ELSE IF Awaits(p)
          THEN /\ Becomes(p, [proc[p] EXCEPT !.stopped = TRUE,
                                             !.calls = [@ EXCEPT ![s] = "through"]])
               /\ UNCHANGED lock
          ELSE Leaves(p)
    /\ Quiet

-----------------------------------------------------------------------------
(* The watchdog.  The child keeps its pid when it replaces itself.             *)

Launch ==
    /\ watch = "launching" /\ watch' = "watching"
    /\ Becomes(Child, Fresh)
    /\ young' = TRUE /\ beat' = "none"
    /\ UNCHANGED <<lock, faults, asks>>

Beats(p) == Loop(p) /\ "tasks" \in Open(p)

Beat ==
    /\ beat # "fresh" /\ \E p \in Procs : Beats(p)
    /\ beat' = "fresh"
    /\ UNCHANGED <<proc, lock, watch, young, faults, asks>>

\* Nobody has written the file for long.  A stop and a wait to restart are too
\* short for that; a stalled loop is not, and a slow boot may be.
GoStale ==
    /\ beat = "fresh" /\ \A p \in Procs : ~Beats(p)
    /\ beat' = "stale"
    /\ \/ proc[Child].hung /\ UNCHANGED faults
       \/ At(Child, {"import", "boot"}) /\ Fault
    /\ UNCHANGED <<proc, lock, watch, young, asks>>

\* The grace of the launch is over: the child beats by then, or it is slow.
GraceOver ==
    /\ watch = "watching" /\ young /\ young' = FALSE
    /\ \/ (beat # "none" \/ proc[Child].hung) /\ UNCHANGED faults
       \/ beat = "none" /\ Fault
    /\ UNCHANGED <<proc, lock, watch, beat, asks>>

ChildGone ==
    /\ watch \in {"watching", "killing"} /\ At(Child, {"off"})
    /\ watch' = "waiting"
    /\ UNCHANGED <<proc, lock, young, beat, faults, asks>>

Recycle ==
    /\ watch = "watching" /\ ~young /\ beat # "fresh"
    /\ ~At(Child, {"off"})
    /\ watch' = "killing" /\ Terminate(Child)
    /\ UNCHANGED <<young, beat, faults, asks>>

\* Mutant: the child is asked to end, but not made to.
KillPolitely ==
    /\ watch = "killing" /\ At(Child, {"off"})
    /\ watch' = "waiting"
    /\ UNCHANGED <<proc, lock, young, beat, faults, asks>>

KillChild ==
    /\ watch = "killing" /\ ~At(Child, {"off"})
    /\ watch' = "waiting" /\ Kill(Child)
    /\ UNCHANGED <<young, beat, faults, asks>>

Relaunch ==
    /\ watch = "waiting" /\ watch' = "launching"
    /\ UNCHANGED <<proc, lock, young, beat, faults, asks>>

\* The watchdog itself is told to stop: it stops the child, or kills it.
Quit ==
    /\ watch \in {"launching", "watching", "killing", "waiting"} /\ Asked
    /\ watch' = "quitting" /\ Terminate(Child)
    /\ UNCHANGED <<young, beat, faults>>

HasQuit ==
    /\ watch = "quitting" /\ watch' = "gone"
    /\ Kill(Child)
    /\ UNCHANGED <<young, beat, faults, asks>>

-----------------------------------------------------------------------------
LaunchByHand(p) ==
    /\ At(p, {"off"}) /\ Asked
    /\ Becomes(p, Fresh)
    /\ UNCHANGED <<lock, watch, young, beat, faults>>

Die(p) ==
    /\ ~At(p, {"off"}) /\ Fault
    /\ Kill(p)
    /\ UNCHANGED <<watch, young, beat, asks>>

Hang(p) ==
    /\ Loop(p) /\ Fault
    /\ Becomes(p, [proc[p] EXCEPT !.hung = TRUE])
    /\ UNCHANGED <<lock, watch, young, beat, asks>>

-----------------------------------------------------------------------------
Step(p) == TakeLock(p) \/ Opens(p) \/ Exec(p) \/ Backoff(p) \/ CloseNext(p)
           \/ Finish(p) \/ \E s \in Callers : Enter(p, s)
Watch   == Launch \/ ChildGone \/ Recycle \/ KillChild \/ Relaunch \/ HasQuit
Time    == Beat \/ GoStale \/ GraceOver

Next == \/ \E p \in Procs : Step(p) \/ Crash(p) \/ TermByHand(p) \/ Die(p) \/ Hang(p)
                            \/ \E s \in Restarters : AskRestart(p, s)
        \/ \E p \in Others : LaunchByHand(p)
        \/ Watch \/ Quit \/ Time

Spec == Init /\ [][Next]_vars

FairSpec == /\ Spec
            /\ \A p \in Procs : WF_vars(Step(p))
            /\ WF_vars(Watch) /\ WF_vars(Time)

-----------------------------------------------------------------------------
TypeOK ==
    /\ proc \in [Procs -> ProcState] /\ lock \in Procs \cup {None}
    /\ watch \in {"launching", "watching", "killing", "waiting", "quitting", "gone"}
    /\ young \in BOOLEAN /\ beat \in {"none", "fresh", "stale"}
    /\ faults \in Nat /\ asks \in Nat

Owns(p) == At(p, {"boot", "run", "stop", "backoff"})

\* One process owns the session, from its boot to the end of its wait after a
\* crash: nobody takes the session from one that is about to come again.
OneBot == \A p, q \in Procs : Owns(p) /\ Owns(q) => p = q

\* The services of an interpreter are stopped once, however many ask for it.
StopsOnce == \A p \in Procs : proc[p].runs <= 1

\* What the watchdog left behind is off.
StoppedStays == watch = "gone" => At(Child, {"off"})

Up(p) == At(p, {"run"}) /\ ~proc[p].hung

\* The bot comes up again and again, unless the watchdog was told to stop or a
\* process launched by hand owns the session.
ComesBack == []<>(\/ Up(Child) \/ watch \in {"quitting", "gone"}
                  \/ lock \notin {None, Child})

\* An interpreter is not replaced before stop() has gone through its services.
ClosedFirst == \A p \in Procs : At(p, {"exec"}) => proc[p].pos = Len(Closers)

\* A process that was told to end is not replaced by a fresh one.
ToldIsFinal == \A p \in Procs : At(p, {"exec"}) => ~proc[p].told

\* The watchdog does not kill a child that is closing its services in time.
LetsItStop == [][KillChild \/ HasQuit =>
                    ~(At(Child, {"stop"}) /\ ~proc[Child].hung)]_vars
=============================================================================
