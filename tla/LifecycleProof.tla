-------------------------- MODULE LifecycleProof --------------------------
(* Proofs about Lifecycle, for any number of processes launched by hand and    *)
(* any bound on faults and requests: one process owns the session, an          *)
(* interpreter stops its services once, and a watchdog that was told to stop   *)
(* leaves its child off.                                                       *)
EXTENDS Lifecycle, TLAPS

\* What holds of every interpreter.  Only main() in its last phase asks for a
\* stop of its own; once the body of stop() has begun, somebody holds the lock
\* or has marked the shutdown as done, as long as the event loop lives.
Good(r) ==
    /\ r \in ProcState
    /\ r.at \in {"import", "boot", "run"} => r.calls["main"] = "out"
    /\ r.at \in {"import", "boot"} => r.booted < Len(Boots)
    /\ r.at = "import" => r.runs = 0
    /\ r.runs <= 1
    /\ r.at \in {"boot", "run", "stop"} /\ r.runs = 1
         => r.stopped \/ \E s \in Callers : r.calls[s] = "holds"

Owner(r) == r.at \in {"boot", "run", "stop", "backoff"}

AllGood == proc \in [Procs -> ProcState] /\ \A p \in Procs : Good(proc[p])

\* The lock is held by the process that owns the session, and by no other.
Locked  == /\ lock \in Procs \cup {None}
           /\ \A p \in Procs : Owner(proc[p]) <=> lock = p

\* The watchdog launches a child only where there is none.
Watched == watch \in {"launching", "waiting", "gone"} => proc[Child].at = "off"

Rest == /\ watch \in {"launching", "watching", "killing", "waiting", "quitting", "gone"}
        /\ young \in BOOLEAN /\ beat \in {"none", "fresh", "stale"}
        /\ faults \in Nat /\ asks \in Nat

LifeInv == AllGood /\ Locked /\ Watched /\ Rest

\* The lock after a step of p that only p's part of it concerns.
OnlyOf(p, r) == /\ lock' \in Procs \cup {None}
                /\ Owner(r) <=> lock' = p
                /\ \A q \in Procs \ {p} : lock' = q <=> lock = q

-----------------------------------------------------------------------------
LEMMA FreshIsGood == Good(Fresh) /\ Good(Off) /\ ~Owner(Fresh) /\ ~Owner(Off)
<1>1. Len(Boots) = 4 /\ Len(Closers) = 4
  BY DEF Boots, Closers
<1>2. [s \in Callers |-> "out"] \in [Callers -> {"out", "queued", "holds", "through"}]
  OBVIOUS
<1>3. Fresh \in ProcState /\ Fresh.calls["main"] = "out" /\ Fresh.runs = 0 /\ Fresh.at = "import"
  BY <1>1, <1>2 DEF Fresh, ProcState, Callers
<1>4. Off \in ProcState /\ Off.runs = 0 /\ Off.at = "off"
  BY <1>3 DEF Off, ProcState
<1>5. Fresh.booted = 0
  BY DEF Fresh
<1> QED BY <1>1, <1>3, <1>4, <1>5 DEF Good, Owner

\* A step that puts a good record in the place of one process keeps the rest.
LEMMA OneChanges ==
  ASSUME AllGood, Locked, NEW p \in Procs, NEW r, Good(r), Becomes(p, r), OnlyOf(p, r)
  PROVE  AllGood' /\ Locked' /\ proc' = [proc EXCEPT ![p] = r]
  BY DEF AllGood, Locked, Becomes, OnlyOf, Good

\* A record that goes to the stop of main() is good again.
LEMMA StoppingIsGood ==
  ASSUME NEW r, Good(r), r.at \in {"boot", "run"}, NEW b \in BOOLEAN
  PROVE  Good(Stopping(r, b)) /\ Owner(Stopping(r, b))
  BY DEF Good, Owner, Stopping, ProcState, Callers, Boots, Closers

\* A signal leaves a good record, and an owner an owner unless it ends it.
LEMMA TermedIsGood ==
  ASSUME NEW r, Good(r)
  PROVE  Good(Termed(r)) /\ (Termed(r) = Off \/ (Owner(Termed(r)) <=> Owner(r)))
<1>1. CASE r.at \in {"import", "boot", "backoff", "exec"}
  BY <1>1, FreshIsGood DEF Termed
<1>2. CASE r.at = "run" /\ ~r.hung
  <2> DEFINE t == Stopping(r, FALSE)
  <2>1. Good(t) /\ Owner(t) /\ t.at = "stop"
    BY <1>2, StoppingIsGood DEF Stopping, Good, ProcState
  <2>2. Good([t EXCEPT !.told = TRUE]) /\ Owner([t EXCEPT !.told = TRUE])
    BY <2>1 DEF Good, Owner, ProcState
  <2>3. Termed(r) = [t EXCEPT !.told = TRUE]
    BY <1>2 DEF Termed
  <2> QED BY <1>2, <2>2, <2>3 DEF Owner
<1>3. CASE r.at = "run" /\ r.hung
  BY <1>3 DEF Termed, Good, Owner, ProcState
<1>4. CASE r.at = "stop"
  BY <1>4, FreshIsGood DEF Termed, Good, Owner, ProcState
<1>5. CASE r.at = "off"
  BY <1>5 DEF Termed
<1> QED BY <1>1, <1>2, <1>3, <1>4, <1>5 DEF Good, ProcState

-----------------------------------------------------------------------------
(* The moves that several actions share.                                       *)

LEMMA KillKeeps ==
  ASSUME AllGood, Locked, NEW p \in Procs, Kill(p)
  PROVE  AllGood' /\ Locked' /\ proc' = [proc EXCEPT ![p] = Off]
<1>1. OnlyOf(p, Off)
  BY FreshIsGood, LifecycleAssumption DEF Locked, Kill, Unlocked, OnlyOf, Procs
<1> QED BY <1>1, OneChanges, FreshIsGood DEF Kill

LEMMA TerminateKeeps ==
  ASSUME AllGood, Locked, NEW p \in Procs, Terminate(p)
  PROVE  AllGood' /\ Locked' /\ proc' = [proc EXCEPT ![p] = Termed(proc[p])]
<1> DEFINE r == Termed(proc[p])
<1>1. Good(proc[p]) /\ Good(r)
  BY TermedIsGood DEF AllGood
<1>2. OnlyOf(p, r)
  <2>1. CASE r = Off
    BY <2>1, FreshIsGood, LifecycleAssumption DEF Locked, Terminate, Unlocked, OnlyOf, Procs
  <2>2. CASE r # Off
    BY <1>1, <2>2, TermedIsGood DEF Locked, Terminate, OnlyOf
  <2> QED BY <2>1, <2>2
<1>3. Becomes(p, r)
  BY DEF Terminate
<1> QED BY <1>1, <1>2, <1>3, OneChanges

LEMMA ReplaceKeeps ==
  ASSUME AllGood, Locked, NEW p \in Procs, Replace(p)
  PROVE  AllGood' /\ Locked' /\ proc' = [proc EXCEPT ![p] = [proc[p] EXCEPT !.at = "exec"]]
<1> DEFINE r == [proc[p] EXCEPT !.at = "exec"]
<1>1. Good(r) /\ ~Owner(r)
  BY DEF AllGood, Good, Owner, ProcState
<1>2. OnlyOf(p, r)
  BY <1>1, LifecycleAssumption DEF Locked, Replace, Unlocked, OnlyOf, Procs
<1> QED BY <1>1, <1>2, OneChanges DEF Replace

\* The lock stays, and so does whether p owns it.
LEMMA LockStays ==
  ASSUME AllGood, Locked, NEW p \in Procs, NEW r, Good(r), Becomes(p, r),
         Owner(r) <=> Owner(proc[p]), UNCHANGED lock
  PROVE  AllGood' /\ Locked' /\ proc' = [proc EXCEPT ![p] = r]
<1>1. OnlyOf(p, r)
  BY DEF Locked, OnlyOf
<1> QED BY <1>1, OneChanges

\* The watchdog is where it was, and p was not off, or is no child, or stays off.
LEMMA WatchedStays ==
  ASSUME AllGood, Watched, UNCHANGED watch, NEW p \in Procs, NEW r,
         proc' = [proc EXCEPT ![p] = r],
         proc[p].at = "off" => p # Child \/ r.at = "off"
  PROVE  Watched'
  BY DEF AllGood, Watched, Procs

\* A step of a live process that touches neither the watchdog nor the counters.
LEMMA QuietStep ==
  ASSUME LifeInv, AllGood', Locked', NEW p \in Procs, NEW r,
         proc' = [proc EXCEPT ![p] = r], proc[p].at # "off", Quiet
  PROVE  LifeInv'
<1>1. Watched'
  BY WatchedStays DEF LifeInv, Quiet
<1> QED BY <1>1 DEF LifeInv, Rest, Quiet

-----------------------------------------------------------------------------
(* One lemma per action of a process.                                          *)

LEMMA TakeLockKeeps ==
  ASSUME LifeInv, NEW p \in Procs, TakeLock(p) PROVE LifeInv'
<1> USE DEF LifeInv
<1>1. Good(proc[p]) /\ proc[p].at = "import" /\ ~Owner(proc[p]) /\ Quiet
  BY DEF AllGood, TakeLock, At, Owner
<1>2. CASE lock = None
  <2> DEFINE r == [proc[p] EXCEPT !.at = "boot"]
  <2>1. Becomes(p, r) /\ lock' = p
    BY <1>2 DEF TakeLock
  <2>2. Good(r) /\ Owner(r)
    BY <1>1 DEF Good, Owner, ProcState
  <2>3. OnlyOf(p, r)
    BY <1>2, <2>1, <2>2, LifecycleAssumption DEF OnlyOf, Procs
  <2> QED BY <1>1, <2>1, <2>2, <2>3, OneChanges, QuietStep
<1>3. CASE lock # None
  <2>1. Becomes(p, Off) /\ UNCHANGED lock
    BY <1>3 DEF TakeLock
  <2> QED BY <1>1, <2>1, FreshIsGood, LockStays, QuietStep
<1> QED BY <1>2, <1>3

LEMMA OpensKeeps ==
  ASSUME LifeInv, NEW p \in Procs, Opens(p) PROVE LifeInv'
<1> USE DEF LifeInv
<1>1. Good(proc[p]) /\ proc[p].at = "boot" /\ Quiet /\ UNCHANGED lock
  BY DEF AllGood, Opens, At
<1>2. CASE Becomes(p, Stopping(proc[p], TRUE))
  BY <1>1, <1>2, StoppingIsGood, LockStays, QuietStep DEF Owner
<1>3. CASE Becomes(p, [proc[p] EXCEPT !.booted = @ + 1,
                                      !.at = IF proc[p].booted + 1 = Len(Boots) THEN "run" ELSE @])
  <2> DEFINE r == [proc[p] EXCEPT !.booted = @ + 1,
                                  !.at = IF proc[p].booted + 1 = Len(Boots) THEN "run" ELSE @]
  <2>1. Len(Boots) = 4
    BY DEF Boots
  <2>2. /\ r.at \in {"boot", "run"} /\ (r.at = "boot" => proc[p].booted + 1 < 4)
        /\ proc[p].booted + 1 \in 0 .. 4
    <3>1. proc[p].booted \in 0 .. 4 /\ proc[p].booted < 4 /\ proc[p] \in ProcState
      BY <1>1, <2>1 DEF Good, ProcState
    <3>2. r.at = IF proc[p].booted + 1 = Len(Boots) THEN "run" ELSE "boot"
      BY <1>1, <3>1 DEF ProcState
    <3> QED BY <2>1, <3>1, <3>2
  <2>3. /\ r \in ProcState /\ r.booted = proc[p].booted + 1
        /\ r.calls = proc[p].calls /\ r.runs = proc[p].runs /\ r.stopped = proc[p].stopped
    BY <1>1, <2>1, <2>2 DEF Good, ProcState
  <2>4. Good(r) /\ (Owner(r) <=> Owner(proc[p]))
    BY <1>1, <2>1, <2>2, <2>3 DEF Good, Owner
  <2> QED BY <1>1, <1>3, <2>4, LockStays, QuietStep
<1> QED BY <1>2, <1>3 DEF Opens

LEMMA ExecKeeps ==
  ASSUME LifeInv, NEW p \in Procs, Exec(p) PROVE LifeInv'
<1>1. proc[p].at = "exec" /\ ~Owner(proc[p]) /\ Becomes(p, Fresh) /\ Quiet /\ UNCHANGED lock
  BY DEF Exec, At, Owner
<1> QED BY <1>1, FreshIsGood, LockStays, QuietStep DEF LifeInv

LEMMA BackoffKeeps ==
  ASSUME LifeInv, NEW p \in Procs, Backoff(p) PROVE LifeInv'
  BY ReplaceKeeps, QuietStep DEF LifeInv, Backoff, At

\* The first caller that enters begins the body of stop(); whoever comes later
\* finds the shutdown done.
LEMMA EnterKeeps ==
  ASSUME LifeInv, NEW p \in Procs, NEW s \in Callers, Enter(p, s) PROVE LifeInv'
<1> USE DEF LifeInv
<1>1. /\ Good(proc[p]) /\ proc[p].at \in {"boot", "run", "stop"} /\ Quiet
      /\ \A c \in Callers : proc[p].calls[c] # "holds"
      /\ proc[p].calls[s] = "queued"
  BY DEF AllGood, Enter, Loop, At, Holder, Calls
<1>2. CASE proc[p].stopped
  BY <1>1, <1>2, ReplaceKeeps, QuietStep DEF Enter
<1>3. CASE ~proc[p].stopped
  <2> DEFINE r == [proc[p] EXCEPT !.calls = [@ EXCEPT ![s] = "holds"], !.runs = @ + 1]
  <2>1. Becomes(p, r) /\ UNCHANGED lock
    BY <1>3 DEF Enter
  <2>2. proc[p].runs = 0
    BY <1>1, <1>3 DEF Good, ProcState
  <2>3. /\ r \in ProcState /\ r.runs = 1 /\ r.at = proc[p].at /\ r.booted = proc[p].booted
        /\ r.calls = [proc[p].calls EXCEPT ![s] = "holds"] /\ r.calls[s] = "holds"
    <3>1. proc[p] \in ProcState /\ proc[p].calls \in [Callers -> {"out", "queued", "holds", "through"}]
      BY <1>1 DEF Good, ProcState
    <3>2. [proc[p].calls EXCEPT ![s] = "holds"] \in [Callers -> {"out", "queued", "holds", "through"}]
      BY <3>1
    <3>3. r.calls = [proc[p].calls EXCEPT ![s] = "holds"] /\ r.runs = proc[p].runs + 1 /\ r.at = proc[p].at
          /\ r.booted = proc[p].booted
      BY <3>1 DEF ProcState
    <3>4. r \in ProcState
      <4>1. ASSUME NEW f \in [Callers -> {"out", "queued", "holds", "through"}], NEW n \in Nat
            PROVE  [proc[p] EXCEPT !.calls = f, !.runs = n] \in ProcState
        BY <3>1 DEF ProcState
      <4>2. r = [proc[p] EXCEPT !.calls = [proc[p].calls EXCEPT ![s] = "holds"], !.runs = 1]
        BY <2>2, <3>1 DEF ProcState
      <4> QED BY <3>2, <4>1, <4>2
    <3> QED BY <2>2, <3>1, <3>3, <3>4
  <2>4. r.at \in {"import", "boot", "run"} => r.calls["main"] = "out"
    BY <1>1, <2>3 DEF Good, Callers
  <2>5. Good(r) /\ (Owner(r) <=> Owner(proc[p]))
    BY <1>1, <2>3, <2>4 DEF Good, Owner
  <2> QED BY <1>1, <2>1, <2>5, LockStays, QuietStep
<1> QED BY <1>2, <1>3

LEMMA CloseNextKeeps ==
  ASSUME LifeInv, NEW p \in Procs, CloseNext(p) PROVE LifeInv'
<1> USE DEF LifeInv
<1>1. Good(proc[p]) /\ proc[p].at # "off" /\ Quiet
  BY DEF AllGood, CloseNext, Loop, At
<1>2. CASE Replace(p)
  BY <1>1, <1>2, ReplaceKeeps, QuietStep
<1>3. ASSUME NEW n \in {proc[p].pos + 1, Len(Closers)}, proc[p].pos < Len(Closers),
             Becomes(p, [proc[p] EXCEPT !.pos = n]), UNCHANGED lock
      PROVE  LifeInv'
  <2> DEFINE r == [proc[p] EXCEPT !.pos = n]
  <2>1. Len(Closers) = 4
    BY DEF Closers
  <2>2. Good(r) /\ (Owner(r) <=> Owner(proc[p]))
    BY <1>1, <1>3, <2>1 DEF Good, Owner, ProcState
  <2> QED BY <1>1, <1>3, <2>2, LockStays, QuietStep
<1> QED BY <1>2, <1>3 DEF CloseNext

LEMMA FinishKeeps ==
  ASSUME LifeInv, NEW p \in Procs, Finish(p) PROVE LifeInv'
<1> USE DEF LifeInv
<1>1. Good(proc[p]) /\ proc[p].at \in {"boot", "run", "stop"} /\ Quiet
  BY DEF AllGood, Finish, Loop, At
<1>2. PICK s \in Holder(p) :
          \/ Replace(p)
          \/ /\ Becomes(p, [proc[p] EXCEPT !.stopped = TRUE, !.calls = [@ EXCEPT ![s] = "through"]])
             /\ UNCHANGED lock /\ s \notin Restarters
          \/ Leaves(p)
  BY DEF Finish
<1>3. CASE Replace(p)
  BY <1>1, <1>3, ReplaceKeeps, QuietStep
<1>4. CASE /\ Becomes(p, [proc[p] EXCEPT !.stopped = TRUE, !.calls = [@ EXCEPT ![s] = "through"]])
           /\ UNCHANGED lock /\ s \notin Restarters
  <2> DEFINE r == [proc[p] EXCEPT !.stopped = TRUE, !.calls = [@ EXCEPT ![s] = "through"]]
  <2>1. s \in Callers /\ proc[p].calls[s] = "holds" /\ s = "main"
    BY <1>4 DEF Holder, Calls, Callers
  <2>2. r \in ProcState /\ r.at = proc[p].at /\ r.stopped /\ r.runs = proc[p].runs
    BY <1>1, <2>1 DEF Good, ProcState
  <2>3. proc[p].at = "stop"
    BY <1>1, <2>1 DEF Good
  <2>4. Good(r) /\ (Owner(r) <=> Owner(proc[p]))
    BY <1>1, <2>2, <2>3 DEF Good, Owner
  <2> QED BY <1>1, <1>4, <2>4, LockStays, QuietStep
<1>5. CASE Leaves(p)
  <2>1. CASE proc[p].crashed
    <3> DEFINE r == [proc[p] EXCEPT !.at = "backoff"]
    <3>1. Good(r) /\ (Owner(r) <=> Owner(proc[p]))
      BY <1>1 DEF Good, Owner, ProcState
    <3>2. Becomes(p, r) /\ UNCHANGED lock
      BY <1>5, <2>1 DEF Leaves
    <3> QED BY <1>1, <3>1, <3>2, LockStays, QuietStep
  <2>2. CASE ~proc[p].crashed
    <3>1. Kill(p)
      BY <1>5, <2>2 DEF Leaves, Kill
    <3> QED BY <1>1, <3>1, KillKeeps, QuietStep
  <2> QED BY <2>1, <2>2
<1> QED BY <1>2, <1>3, <1>4, <1>5

-----------------------------------------------------------------------------
(* Requests, faults and the watchdog.                                          *)

LEMMA CrashKeeps ==
  ASSUME LifeInv, NEW p \in Procs, Crash(p) PROVE LifeInv'
<1>1. /\ Good(proc[p]) /\ proc[p].at = "boot" /\ Owner(proc[p])
      /\ Becomes(p, Stopping(proc[p], TRUE)) /\ UNCHANGED lock
  BY DEF LifeInv, AllGood, Crash, At, Owner
<1>2. /\ AllGood' /\ Locked' /\ proc' = [proc EXCEPT ![p] = Stopping(proc[p], TRUE)]
  BY <1>1, StoppingIsGood, LockStays DEF LifeInv
<1>3. Watched'
  BY <1>1, <1>2, WatchedStays DEF LifeInv, Crash
<1> QED BY <1>2, <1>3 DEF LifeInv, Rest, Crash, Fault

\* A process that is off stays off when it is told to end.
LEMMA OffStays == ASSUME NEW r, r.at = "off" PROVE Termed(r).at = "off"
  BY DEF Termed

LEMMA TermByHandKeeps ==
  ASSUME LifeInv, NEW p \in Procs, TermByHand(p) PROVE LifeInv'
<1>1. AllGood' /\ Locked' /\ proc' = [proc EXCEPT ![p] = Termed(proc[p])]
  BY TerminateKeeps DEF LifeInv, TermByHand
<1>2. Watched'
  BY <1>1, WatchedStays DEF LifeInv, TermByHand, At
<1> QED BY <1>1, <1>2 DEF LifeInv, Rest, TermByHand, Asked

LEMMA DieKeeps ==
  ASSUME LifeInv, NEW p \in Procs, Die(p) PROVE LifeInv'
<1>1. AllGood' /\ Locked' /\ proc' = [proc EXCEPT ![p] = Off]
  BY KillKeeps DEF LifeInv, Die
<1>2. Watched'
  BY <1>1, WatchedStays DEF LifeInv, Die, At
<1> QED BY <1>1, <1>2 DEF LifeInv, Rest, Die, Fault

LEMMA HangKeeps ==
  ASSUME LifeInv, NEW p \in Procs, Hang(p) PROVE LifeInv'
<1> DEFINE r == [proc[p] EXCEPT !.hung = TRUE]
<1>1. Good(proc[p]) /\ proc[p].at # "off" /\ Becomes(p, r) /\ UNCHANGED lock
  BY DEF LifeInv, AllGood, Hang, Loop, At
<1>2. Good(r) /\ (Owner(r) <=> Owner(proc[p]))
  BY <1>1 DEF Good, Owner, ProcState
<1>3. AllGood' /\ Locked' /\ proc' = [proc EXCEPT ![p] = r]
  BY <1>1, <1>2, LockStays DEF LifeInv
<1>4. Watched'
  BY <1>1, <1>3, WatchedStays DEF LifeInv, Hang
<1> QED BY <1>3, <1>4 DEF LifeInv, Rest, Hang, Fault

LEMMA AskRestartKeeps ==
  ASSUME LifeInv, NEW p \in Procs, NEW s \in Restarters, AskRestart(p, s) PROVE LifeInv'
<1> DEFINE f == [proc[p].calls EXCEPT ![s] = "queued"]
           r == [proc[p] EXCEPT !.calls = f]
<1>1. /\ Good(proc[p]) /\ proc[p].at # "off" /\ UNCHANGED lock
      /\ Becomes(p, r) /\ proc[p].calls[s] = "out"
  BY DEF LifeInv, AllGood, AskRestart, Loop, At, Calls
<1>2. /\ proc[p] \in ProcState /\ proc[p].calls \in [Callers -> {"out", "queued", "holds", "through"}]
      /\ s \in Callers /\ s # "main"
  BY <1>1, LifecycleAssumption DEF Good, ProcState, Callers
<1>3. f \in [Callers -> {"out", "queued", "holds", "through"}]
  BY <1>2
<1>4. /\ r \in ProcState /\ r.calls = f /\ r.at = proc[p].at /\ r.runs = proc[p].runs
      /\ r.stopped = proc[p].stopped /\ r.booted = proc[p].booted
  BY <1>2, <1>3 DEF ProcState
<1>5. /\ f["main"] = proc[p].calls["main"]
      /\ \A c \in Callers : proc[p].calls[c] = "holds" => f[c] = "holds"
  BY <1>1, <1>2 DEF Callers
<1>6. Good(r) /\ (Owner(r) <=> Owner(proc[p]))
  BY <1>1, <1>4, <1>5 DEF Good, Owner
<1>7. AllGood' /\ Locked' /\ proc' = [proc EXCEPT ![p] = r]
  BY <1>1, <1>6, LockStays DEF LifeInv
<1>8. Watched'
  BY <1>1, <1>7, WatchedStays DEF LifeInv, AskRestart
<1> QED BY <1>7, <1>8 DEF LifeInv, Rest, AskRestart, Asked

LEMMA LaunchByHandKeeps ==
  ASSUME LifeInv, NEW p \in Others, LaunchByHand(p) PROVE LifeInv'
<1>1. p \in Procs /\ p # Child /\ ~Owner(proc[p]) /\ Becomes(p, Fresh) /\ UNCHANGED lock
  BY LifecycleAssumption DEF Procs, LaunchByHand, At, Owner
<1>2. AllGood' /\ Locked' /\ proc' = [proc EXCEPT ![p] = Fresh]
  BY <1>1, FreshIsGood, LockStays DEF LifeInv
<1>3. Watched'
  BY <1>1, <1>2, WatchedStays DEF LifeInv, LaunchByHand
<1> QED BY <1>2, <1>3 DEF LifeInv, Rest, LaunchByHand, Asked

\* The steps of the watchdog: it launches a child only in the place of none.
LEMMA WatchKeeps ==
  ASSUME LifeInv, Watch PROVE LifeInv'
<1> USE DEF LifeInv
<1>0. Child \in Procs
  BY DEF Procs
<1>1. CASE Launch
  <2>1. ~Owner(proc[Child])
    BY <1>1 DEF Launch, Watched, Owner
  <2>2. AllGood' /\ Locked'
    BY <1>0, <1>1, <2>1, FreshIsGood, LockStays DEF Launch
  <2> QED BY <1>1, <2>2 DEF Launch, Watched, Rest
<1>2. CASE ChildGone \/ Relaunch
  BY <1>2 DEF ChildGone, Relaunch, AllGood, Locked, Watched, Rest, At
<1>3. CASE Recycle
  BY <1>0, <1>3, TerminateKeeps DEF Recycle, Watched, Rest
<1>4. CASE KillChild \/ HasQuit
  <2>1. AllGood' /\ Locked' /\ proc' = [proc EXCEPT ![Child] = Off]
    BY <1>0, <1>4, KillKeeps DEF KillChild, HasQuit
  <2>2. proc'[Child] = Off /\ Off.at = "off"
    BY <1>0, <2>1 DEF AllGood, Off, Fresh
  <2> QED BY <1>4, <2>1, <2>2 DEF KillChild, HasQuit, Watched, Rest
<1> QED BY <1>1, <1>2, <1>3, <1>4 DEF Watch

LEMMA QuitKeeps ==
  ASSUME LifeInv, Quit PROVE LifeInv'
<1>1. AllGood' /\ Locked'
  BY TerminateKeeps DEF LifeInv, Quit, Procs
<1> QED BY <1>1 DEF LifeInv, Quit, Watched, Rest, Asked

LEMMA TimeKeeps ==
  ASSUME LifeInv, Time PROVE LifeInv'
<1>1. UNCHANGED <<proc, lock, watch, asks>>
  BY DEF Time, Beat, GoStale, GraceOver
<1>2. faults' \in Nat /\ young' \in BOOLEAN /\ beat' \in {"none", "fresh", "stale"}
  <2>1. CASE Beat
    BY <2>1 DEF LifeInv, Rest, Beat
  <2>2. CASE GoStale
    BY <2>2 DEF LifeInv, Rest, GoStale, Fault
  <2>3. CASE GraceOver
    <3>1. UNCHANGED faults \/ Fault
      BY <2>3, Zenon DEF GraceOver
    <3>2. young' = FALSE /\ UNCHANGED beat
      BY <2>3, Zenon DEF GraceOver
    <3>3. faults' \in Nat
      BY <3>1 DEF LifeInv, Rest, Fault
    <3> QED BY <3>2, <3>3, Zenon DEF LifeInv, Rest
  <2> QED BY <2>1, <2>2, <2>3 DEF Time
<1> QED BY <1>1, <1>2 DEF LifeInv, AllGood, Locked, Watched, Rest

-----------------------------------------------------------------------------
LEMMA InitGood == Init => LifeInv
<1> SUFFICES ASSUME Init PROVE LifeInv
  OBVIOUS
<1>1. AllGood
  BY FreshIsGood DEF Init, AllGood, Good, ProcState
<1>2. Locked
  BY FreshIsGood, LifecycleAssumption DEF Init, Locked
<1>3. Watched
  BY DEF Init, Watched, Off, Fresh, Procs
<1> QED BY <1>1, <1>2, <1>3, LifecycleAssumption DEF LifeInv, Init, Rest

LEMMA NextGood == LifeInv /\ [Next]_vars => LifeInv'
<1> SUFFICES ASSUME LifeInv, [Next]_vars PROVE LifeInv'
  OBVIOUS
<1>1. ASSUME NEW p \in Procs, Step(p) PROVE LifeInv'
  BY <1>1, TakeLockKeeps, OpensKeeps, ExecKeeps, BackoffKeeps, CloseNextKeeps, FinishKeeps, EnterKeeps
     DEF Step
<1>2. ASSUME NEW p \in Procs, Crash(p) \/ TermByHand(p) \/ Die(p) \/ Hang(p) PROVE LifeInv'
  BY <1>2, CrashKeeps, TermByHandKeeps, DieKeeps, HangKeeps
<1>3. ASSUME NEW p \in Procs, NEW s \in Restarters, AskRestart(p, s) PROVE LifeInv'
  BY <1>3, AskRestartKeeps
<1>4. ASSUME NEW p \in Others, LaunchByHand(p) PROVE LifeInv'
  BY <1>4, LaunchByHandKeeps
<1>5. CASE Watch \/ Quit \/ Time
  BY <1>5, WatchKeeps, QuitKeeps, TimeKeeps
<1>6. CASE UNCHANGED vars
  BY <1>6 DEF vars, LifeInv, AllGood, Locked, Watched, Rest
<1> QED BY <1>1, <1>2, <1>3, <1>4, <1>5, <1>6 DEF Next

\* The inductive invariant holds in every state of every behaviour.
THEOREM LifeInvHolds == Spec => []LifeInv
  BY InitGood, NextGood, PTL DEF Spec

\* Every variable keeps its type, for any number of processes and any bounds.
THEOREM TypesHold == Spec => []TypeOK
<1>1. LifeInv => TypeOK
  BY DEF LifeInv, AllGood, Locked, Rest, TypeOK
<1> QED BY <1>1, LifeInvHolds, PTL

\* At most one process has a boot, a run, a stop or a wait after a crash under
\* way: whatever crashes, dies, stalls or is asked of it, the persistent
\* session is not shared (core/lifecycle.py, ProcessInstanceLock).
THEOREM OneBotHolds == Spec => []OneBot
<1>1. LifeInv => OneBot
  BY DEF LifeInv, Locked, Owner, OneBot, Owns, At
<1> QED BY <1>1, LifeInvHolds, PTL

\* stop() goes through the services of an interpreter once, however its callers
\* (main, the daily restart, /restart) overtake each other.
THEOREM StopsOnceHolds == Spec => []StopsOnce
<1>1. LifeInv => StopsOnce
  BY DEF LifeInv, AllGood, Good, StopsOnce
<1> QED BY <1>1, LifeInvHolds, PTL

\* When the watchdog script has ended, so has the child.
THEOREM StoppedStaysHolds == Spec => []StoppedStays
<1>1. LifeInv => StoppedStays
  BY DEF LifeInv, Watched, StoppedStays, At
<1> QED BY <1>1, LifeInvHolds, PTL
=============================================================================
