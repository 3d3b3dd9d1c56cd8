--------------------------- MODULE MachinesProof ---------------------------
(* Proofs about the seven machines of Machines, each about its own specification *)
(* over its own variables and constants; the last theorem says that the sum of *)
(* them, which TLC runs, has what was proved of each.                          *)
EXTENDS Machines, FiniteSetTheorems, TLAPS

-----------------------------------------------------------------------------
(* RedisSingleFlight: for any number of processes and callers and whatever may *)
(* fail, one owner with a heartbeat at a time, whose lock nobody else touches, *)
(* but for the DELETE of a fallback.                                           *)

\* A run that holds a token was started by a caller of its own process.
OwnTokens ==
  \A p \in Processes : run[p].token # None => Home[run[p].token] = p

\* While the heartbeat runs, the run has not reached its unlock and the lock is
\* its token, unless it was robbed of it.
Heartbeats ==
  \A p \in beat : /\ run[p].step \in {"factory", "publish", "close"}
                  /\ run[p].token # None
                  /\ lock = run[p].token \/ run[p].token \in robbed

OwnerInv == TypeOK /\ OwnTokens /\ Heartbeats

-----------------------------------------------------------------------------
\* What a process needs for the invariant, once the types are known.
LEMMA Anchored ==
  ASSUME OwnerInv, NEW p \in beat
  PROVE  /\ p \in Processes /\ run[p].step \in {"factory", "publish", "close"}
         /\ run[p].token \in Callers /\ Home[run[p].token] = p
         /\ lock = run[p].token \/ run[p].token \in robbed
  BY DEF OwnerInv, TypeOK, OwnTokens, Heartbeats

LEMMA InitKeeps == Init => OwnerInv
  BY DEF Init, OwnerInv, TypeOK, OwnTokens, Heartbeats, Idle, None

\* A caller moves on, and nothing else changes but the result.
LEMMA GotoKeeps ==
  ASSUME OwnerInv, NEW c \in Callers,
         NEW step \in {"call", "probe", "acquire", "poll", "exists", "retake", "joined", "done", "dead"},
         Goto(c, step), UNCHANGED <<lock, result>>
  PROVE  OwnerInv'
  BY DEF OwnerInv, TypeOK, OwnTokens, Heartbeats, Goto

LEMMA ReturnKeeps ==
  ASSUME OwnerInv, NEW c \in Callers, Return(c, "ok"), UNCHANGED <<lock, result>>
  PROVE  OwnerInv'
  BY DEF OwnerInv, TypeOK, OwnTokens, Heartbeats, Return

\* A run without the lock has no heartbeat.
LEMMA RunHereKeeps ==
  ASSUME OwnerInv, NEW c \in Callers, RunHere(c), UNCHANGED result,
         lock' = lock \/ (lock = None /\ lock' = c)
  PROVE  OwnerInv'
<1>1. Home[c] \in Processes /\ lock' \in Callers \cup {None}
  BY RedisAssumption DEF OwnerInv, TypeOK
<1>2. \A q \in beat : lock' = run[q].token \/ run[q].token \in robbed
  BY Anchored, RedisAssumption DEF None
<1>3. CASE Running(Home[c])
  <2>1. at' = [at EXCEPT ![c] = "joined"] /\ UNCHANGED <<run, beat, answer, robbed>>
    BY <1>3 DEF RunHere, Begin
  <2> QED BY <1>1, <1>2, <2>1 DEF OwnerInv, TypeOK, OwnTokens, Heartbeats
<1>4. CASE ~Running(Home[c])
  <2>1. /\ run' = [run EXCEPT ![Home[c]] = [step |-> "factory", token |-> None, outcome |-> None]]
        /\ beat' = beat /\ at' = [at EXCEPT ![c] = "joined"] /\ UNCHANGED <<answer, robbed>>
    BY <1>4 DEF RunHere, Begin, Idle
  <2>2. Home[c] \notin beat
    BY <1>4, Anchored DEF Running
  <2>3. TypeOK'
    BY <1>1, <2>1 DEF OwnerInv, TypeOK
  <2> QED BY <1>1, <1>2, <2>1, <2>2, <2>3 DEF OwnerInv, TypeOK, OwnTokens, Heartbeats
<1> QED BY <1>3, <1>4

\* The lock is taken only when it is free: whoever has a heartbeat then was robbed.
LEMMA SetLockKeeps ==
  ASSUME OwnerInv, NEW c \in Callers, SetLock(c, "poll"), UNCHANGED result
  PROVE  OwnerInv'
<1>1. Home[c] \in Processes /\ c # None
  BY RedisAssumption DEF None
<1>2. CASE lock # None
  BY <1>2, GotoKeeps DEF SetLock
<1>3. CASE lock = None
  <2>1. \A q \in beat : run[q].token \in robbed
    BY <1>3, Anchored, RedisAssumption DEF None
  <2>2. lock' = c /\ Begin(c, c)
    BY <1>3 DEF SetLock, RunAsOwner
  <2>3. CASE Running(Home[c])
    <3>1. at' = [at EXCEPT ![c] = "joined"] /\ UNCHANGED <<run, beat, answer, robbed>>
      BY <2>2, <2>3 DEF Begin
    <3> QED BY <2>1, <2>2, <3>1 DEF OwnerInv, TypeOK, OwnTokens, Heartbeats
  <2>4. CASE ~Running(Home[c])
    <3>1. /\ run' = [run EXCEPT ![Home[c]] = [step |-> "factory", token |-> c, outcome |-> None]]
          /\ beat' = beat \cup {Home[c]} /\ at' = [at EXCEPT ![c] = "joined"]
          /\ UNCHANGED <<answer, robbed>>
      BY <1>1, <2>2, <2>4 DEF Begin, Idle
    <3>2. TypeOK'
      BY <1>1, <2>2, <3>1 DEF OwnerInv, TypeOK
    <3>3. OwnTokens'
      BY <1>1, <3>1 DEF OwnerInv, TypeOK, OwnTokens
    <3>4. Heartbeats'
      BY <1>1, <2>1, <2>2, <3>1 DEF OwnerInv, TypeOK, Heartbeats
    <3> QED BY <3>2, <3>3, <3>4 DEF OwnerInv
  <2> QED BY <2>3, <2>4
<1> QED BY <1>2, <1>3

LEMMA StepKeeps ==
  ASSUME OwnerInv, NEW c \in Callers, Step(c) \/ WaitedTooLong(c) PROVE OwnerInv'
<1>1. CASE Call(c) \/ Probe(c) \/ Poll(c) \/ Exists(c) \/ WaitedTooLong(c)
  BY <1>1, GotoKeeps, ReturnKeeps, RunHereKeeps DEF Call, Probe, Poll, Exists, WaitedTooLong
<1>2. CASE Acquire(c) \/ Retake(c)
  BY <1>2, SetLockKeeps, RunHereKeeps DEF Acquire, Retake, SetFails
<1> QED BY <1>1, <1>2 DEF Step

\* A run ends; its heartbeat has ended before. The other heartbeats keep their
\* locks, or are robbed.
LEMMA FinishKeeps ==
  ASSUME OwnerInv, NEW p \in Processes, NEW o \in {None, "ok", "empty", "failed", "cancelled"},
         Finish(p, o), beat' = beat \ {p}, result' = result,
         lock' \in {lock, None}, robbed \subseteq robbed', robbed' \subseteq Callers,
         \A q \in beat \ {p} : lock = run[q].token => lock' = lock \/ run[q].token \in robbed'
  PROVE  OwnerInv'
<1>1. run' = [run EXCEPT ![p] = [step |-> "idle", token |-> None, outcome |-> None]]
  BY DEF Finish, Idle
<1>2. TypeOK'
  BY <1>1 DEF OwnerInv, TypeOK, Finish
<1>3. OwnTokens'
  BY <1>1 DEF OwnerInv, TypeOK, OwnTokens
<1>4. ASSUME NEW q \in beat'
      PROVE  (/\ run[q].step \in {"factory", "publish", "close"}
              /\ run[q].token # None
              /\ lock = run[q].token \/ run[q].token \in robbed)'
  <2>1. q \in beat /\ q # p /\ q \in Processes
    BY Anchored
  <2>2. run'[q] = run[q]
    BY <1>1, <2>1, Anchored DEF OwnerInv, TypeOK
  <2> QED BY <2>1, <2>2, Anchored, RedisAssumption DEF None
<1> QED BY <1>2, <1>3, <1>4 DEF OwnerInv, Heartbeats

\* The script takes the lock from no heartbeat of another.
LEMMA UnlocksItsOwn ==
  ASSUME OwnerInv, NEW p \in Processes, p \notin beat, NEW q \in beat
  PROVE  lock = run[q].token => Unlocked(p) = lock
<1>1. p # q /\ run[q].token # None /\ Home[run[q].token] = q
  BY Anchored, RedisAssumption DEF None
<1>2. run[p].token # None => Home[run[p].token] = p
  BY DEF OwnerInv, OwnTokens
<1> QED BY <1>1, <1>2 DEF Unlocked

\* A step of the owner.
LEMMA AdvanceKeeps ==
  ASSUME OwnerInv, NEW p \in Processes, Advance(p) PROVE OwnerInv'
<1>0. Results \subseteq {"ok", "empty", "failed"}
  BY RedisAssumption
<1>1. ASSUME NEW s \in {"publish", "close", "unlock", "compare", "delete"},
             NEW o \in {None} \cup Results,
             run' = [run EXCEPT ![p].step = s, ![p].outcome = o],
             s \in {"publish", "close"} \/ p \notin beat,
             result' \in {None, "ok", "empty", "failed"}, UNCHANGED <<beat, at, answer, robbed>>,
             lock' = lock \/ (p \notin beat /\ lock' = Unlocked(p))
      PROVE  OwnerInv'
  <2> DEFINE R == [step : {"idle", "factory", "publish", "close", "unlock", "compare", "delete"},
                   token : Callers \cup {None}, outcome : {None} \cup Results]
             z == [run[p] EXCEPT !.step = s, !.outcome = o]
  <2>4. run \in [Processes -> R] /\ run[p] \in R
    BY DEF OwnerInv, TypeOK
  <2>5. run' = [run EXCEPT ![p] = z]
    BY <1>1, <2>4
  <2>6. z \in R /\ z.token = run[p].token /\ z.step = s
    BY <1>1, <2>4
  <2>7. /\ run' \in [Processes -> R] /\ run'[p] = z
        /\ \A q \in Processes : q # p => run'[q] = run[q]
    <3> HIDE DEF z, R
    <3> QED BY <2>4, <2>5, <2>6
  <2>1. TypeOK'
    BY <1>1, <2>7 DEF OwnerInv, TypeOK, Unlocked
  <2>2. \A q \in Processes :
          run'[q].token = run[q].token /\ (run'[q].step = run[q].step \/ (q = p /\ run'[q].step = s))
    <3> HIDE DEF z, R
    <3> QED BY <2>6, <2>7
  <2>3. Heartbeats'
    <3>1. ASSUME NEW q \in beat
          PROVE  /\ run'[q].step \in {"factory", "publish", "close"}
                 /\ run'[q].token # None
                 /\ lock' = run'[q].token \/ run'[q].token \in robbed
      <4>1. /\ q \in Processes /\ run[q].step \in {"factory", "publish", "close"}
            /\ run[q].token # None /\ Home[run[q].token] = q
            /\ lock = run[q].token \/ run[q].token \in robbed
        BY Anchored, RedisAssumption DEF None
      <4>2. q = p => s \in {"publish", "close"}
        BY <1>1
      <4>3. lock' = lock \/ run[q].token \in robbed
        BY <1>1, <4>1, UnlocksItsOwn
      <4> QED BY <2>2, <4>1, <4>2, <4>3
    <3> QED BY <1>1, <3>1 DEF Heartbeats
  <2> QED BY <1>1, <2>1, <2>2, <2>3 DEF OwnerInv, OwnTokens
<1>2. CASE EndFactory(p)
  <2>1. PICK o \in Results :
          IF run[p].token = None THEN Finish(p, o)
          ELSE run' = [run EXCEPT ![p].step = "publish", ![p].outcome = o] /\ UNCHANGED <<at, answer>>
    BY <1>2 DEF EndFactory
  <2>2. UNCHANGED <<lock, result, beat, robbed>>
    BY <1>2 DEF EndFactory
  <2>3. CASE run[p].token = None
    <3>1. p \notin beat /\ o \in {None, "ok", "empty", "failed", "cancelled"}
      BY <1>0, <2>3, Anchored, RedisAssumption DEF None
    <3>2. robbed \subseteq Callers
      BY DEF OwnerInv, TypeOK
    <3> QED BY <2>1, <2>2, <2>3, <3>1, <3>2, FinishKeeps
  <2>4. CASE run[p].token # None
    <3>1. result' \in {None, "ok", "empty", "failed"}
      BY <2>2 DEF OwnerInv, TypeOK
    <3> QED BY <1>1, <2>1, <2>2, <2>4, <3>1
  <2> QED BY <2>3, <2>4
<1>3. CASE Publish(p)
  <2>1. run[p].outcome \in {None} \cup Results /\ result \in {None, "ok", "empty", "failed"}
    BY DEF OwnerInv, TypeOK
  <2>2. run' = [run EXCEPT ![p].step = "close", ![p].outcome = run[p].outcome]
    BY <1>3 DEF Publish, OwnerInv, TypeOK
  <2>3. result' \in {None, "ok", "empty", "failed"} /\ UNCHANGED <<lock, beat, at, answer, robbed>>
    BY <1>0, <1>3, <2>1 DEF Publish
  <2> QED BY <1>1, <2>1, <2>2, <2>3
<1>4. CASE Close(p)
  <2>1. CASE p \in beat
    <3>1. robbed \subseteq Callers
      BY DEF OwnerInv, TypeOK
    <3> QED BY <1>4, <2>1, <3>1, FinishKeeps DEF Close
  <2>2. CASE p \notin beat
    <3>1. run[p].outcome \in {None} \cup Results /\ result \in {None, "ok", "empty", "failed"}
      BY DEF OwnerInv, TypeOK
    <3>2. run' = [run EXCEPT ![p].step = "unlock", ![p].outcome = run[p].outcome]
      BY <1>4, <2>2 DEF Close, OwnerInv, TypeOK
    <3>3. result' \in {None, "ok", "empty", "failed"} /\ UNCHANGED <<lock, beat, at, answer, robbed>>
      BY <1>4, <2>2, <3>1 DEF Close
    <3> QED BY <1>1, <2>2, <3>1, <3>2, <3>3
  <2> QED BY <2>1, <2>2
<1>5. CASE run[p].step \in {"unlock", "compare", "delete"}
  <2>1. p \notin beat
    BY <1>5, Anchored
  <2>2. run[p].outcome \in {None} \cup Results /\ result \in {None, "ok", "empty", "failed"}
    BY DEF OwnerInv, TypeOK
  <2>4. robbed \subseteq Callers /\ Victims \subseteq Callers
    BY Anchored DEF OwnerInv, TypeOK, Victims
  <2>5. ASSUME NEW s \in {"compare", "delete"}, run' = [run EXCEPT ![p].step = s],
               UNCHANGED <<result, beat, at, answer, robbed>>, lock' \in {lock, Unlocked(p)}
        PROVE  OwnerInv'
    <3>1. run' = [run EXCEPT ![p].step = s, ![p].outcome = run[p].outcome]
      BY <2>5 DEF OwnerInv, TypeOK
    <3> QED BY <1>1, <2>1, <2>2, <2>5, <3>1
  <2>6. CASE Unlock(p)
    <3>1. CASE Finish(p, run[p].outcome) /\ lock' = Unlocked(p)
      <4>1. \A q \in beat \ {p} : lock = run[q].token => lock' = lock
        BY <2>1, <3>1, UnlocksItsOwn
      <4>2. lock' \in {lock, None} /\ UNCHANGED <<result, beat, robbed>>
        BY <2>6, <3>1 DEF Unlock, Unlocked
      <4>3. run[p].outcome \in {None, "ok", "empty", "failed", "cancelled"}
        BY <1>0, <2>2
      <4> QED BY <2>1, <2>4, <3>1, <4>1, <4>2, <4>3, FinishKeeps
    <3>2. CASE run' = [run EXCEPT ![p].step = "compare"] /\ UNCHANGED <<at, answer>>
      BY <2>5, <2>6, <3>2 DEF Unlock
    <3> QED BY <2>6, <3>1, <3>2 DEF Unlock
  <2>7. CASE Compare(p)
    <3>1. CASE Finish(p, run[p].outcome)
      <4>1. UNCHANGED <<lock, result, beat, robbed>>
        BY <2>7 DEF Compare
      <4>2. run[p].outcome \in {None, "ok", "empty", "failed", "cancelled"}
        BY <1>0, <2>2
      <4> QED BY <2>1, <2>4, <3>1, <4>1, <4>2, FinishKeeps
    <3>2. CASE run' = [run EXCEPT ![p].step = "delete"] /\ UNCHANGED <<at, answer>>
      BY <2>5, <2>7, <3>2 DEF Compare
    <3> QED BY <2>7, <3>1, <3>2 DEF Compare
  <2>8. CASE Delete(p)
    <3>1. /\ lock' \in {lock, None} /\ robbed \subseteq robbed' /\ robbed' \subseteq Callers
          /\ UNCHANGED <<result, beat>> /\ Finish(p, run[p].outcome)
          /\ \A q \in beat : lock = run[q].token => lock' = lock \/ run[q].token \in robbed'
      BY <2>4, <2>8 DEF Delete, Victims
    <3>2. run[p].outcome \in {None, "ok", "empty", "failed", "cancelled"}
      BY <1>0, <2>2
    <3> QED BY <2>1, <3>1, <3>2, FinishKeeps
  <2> QED BY <1>2, <1>3, <1>4, <2>6, <2>7, <2>8 DEF Advance
<1> QED BY <1>2, <1>3, <1>4, <1>5 DEF Advance, Unlock, Compare, Delete

\* A heartbeat ends, a process dies, the server forgets a lock or a result.
LEMMA FaultsKeep ==
  ASSUME OwnerInv, (\E p \in Processes : StopBeat(p) \/ Crash(p)) \/ Expire \/ ForgetResult
  PROVE  OwnerInv'
<1>1. CASE \E p \in Processes : StopBeat(p)
  BY <1>1 DEF StopBeat, OwnerInv, TypeOK, OwnTokens, Heartbeats
<1>2. ASSUME NEW p \in Processes, Crash(p) PROVE OwnerInv'
  <2>1. /\ run' = [run EXCEPT ![p] = [step |-> "idle", token |-> None, outcome |-> None]]
        /\ beat' = beat \ {p} /\ UNCHANGED <<lock, result, answer, robbed>>
        /\ at' = [c \in Callers |-> IF Home[c] = p THEN "dead" ELSE at[c]]
    BY <1>2 DEF Crash, Idle
  <2>2. TypeOK'
    BY <2>1 DEF OwnerInv, TypeOK
  <2> QED BY <2>1, <2>2 DEF OwnerInv, TypeOK, OwnTokens, Heartbeats
<1>3. CASE Expire
  <2>1. \A p \in beat : run[p].token \in robbed
    BY <1>3, Anchored DEF Expire
  <2> QED BY <1>3, <2>1 DEF Expire, OwnerInv, TypeOK, OwnTokens, Heartbeats
<1>4. CASE ForgetResult
  BY <1>4 DEF ForgetResult, OwnerInv, TypeOK, OwnTokens, Heartbeats
<1> QED BY <1>1, <1>2, <1>3, <1>4

LEMMA NextKeeps == OwnerInv /\ [Next]_vars => OwnerInv'
<1> SUFFICES ASSUME OwnerInv, [Next]_vars PROVE OwnerInv'
  OBVIOUS
<1>1. CASE UNCHANGED vars
  BY <1>1 DEF vars, OwnerInv, TypeOK, OwnTokens, Heartbeats
<1>2. CASE Next
  BY <1>2, StepKeeps, AdvanceKeeps, FaultsKeep DEF Next
<1> QED BY <1>1, <1>2

\* The inductive invariant holds in every state of every behaviour.
THEOREM OwnerInvHolds == Spec => []OwnerInv
  BY InitKeeps, NextKeeps, PTL DEF Spec

\* Of the processes that run the factory under the lock with a live heartbeat,
\* at most one was not robbed: the lock is its token, and a token has one process.
THEOREM OneOwnerHolds == Spec => []OneOwner
<1>1. OwnerInv => OneOwner
  <2> SUFFICES ASSUME OwnerInv PROVE OneOwner
    OBVIOUS
  <2> DEFINE Safe == {p \in Owners : run[p].token \notin robbed}
  <2>1. \A p, q \in Safe : p = q
    BY Anchored DEF Owners, AtWork
  <2>2. CASE Safe = {}
    BY <2>2, FS_EmptySet DEF OneOwner
  <2>3. CASE Safe # {}
    <3>1. PICK p \in Safe : Safe = {p}
      BY <2>1, <2>3
    <3>2. Cardinality({p}) = 1
      BY FS_Singleton
    <3> QED BY <3>1, <3>2 DEF OneOwner
  <2> QED BY <2>2, <2>3
<1> QED BY <1>1, OwnerInvHolds, PTL

\* While the heartbeat runs, no step of anyone changes the lock that it extends,
\* but for a DELETE that another process sends in its fallback.
THEOREM LockKeptHolds == Spec => LockKept
<1> DEFINE Kept(p) == \/ lock' = lock
                      \/ \E q \in Processes \ {p} : run[q].step = "delete" /\ run'[q].step = "idle"
<1>1. OwnerInv /\ [Next]_vars => [\A p \in Processes : p \in beat /\ lock = run[p].token => Kept(p)]_vars
  <2> SUFFICES ASSUME OwnerInv, Next, NEW p \in Processes, p \in beat, lock = run[p].token
               PROVE  Kept(p)
    OBVIOUS
  <2>1. lock \in Callers /\ lock # None /\ Home[lock] = p
    BY Anchored, RedisAssumption DEF None
  <2>2. ASSUME NEW c \in Callers, Step(c) \/ WaitedTooLong(c) PROVE lock' = lock
    BY <2>1, <2>2 DEF Step, Call, Probe, Acquire, Poll, Exists, Retake, WaitedTooLong, SetLock, SetFails
  <2>3. ASSUME NEW q \in Processes, Unlock(q) \/ Compare(q) PROVE lock' = lock
    <3>1. q \notin beat
      BY <2>3, Anchored DEF Unlock, Compare
    <3> QED BY <2>3, <3>1, UnlocksItsOwn DEF Unlock, Compare
  <2>4. ASSUME NEW q \in Processes, Delete(q) PROVE Kept(p)
    <3>1. q # p /\ run[q].step = "delete"
      BY <2>4, Anchored DEF Delete
    <3>2. run'[q].step = "idle"
      BY <2>4 DEF Delete, Finish, Idle, OwnerInv, TypeOK
    <3> QED BY <3>1, <3>2
  <2>5. ASSUME NEW q \in Processes, EndFactory(q) \/ Publish(q) \/ Close(q) \/ StopBeat(q) \/ Crash(q)
        PROVE  lock' = lock
    BY <2>5 DEF EndFactory, Publish, Close, StopBeat, Crash
  <2>6. CASE Expire \/ ForgetResult
    BY <2>1, <2>6 DEF Expire, ForgetResult
  <2> QED BY <2>2, <2>3, <2>4, <2>5, <2>6 DEF Next, Advance
<1> QED BY <1>1, OwnerInvHolds, PTL DEF Spec, LockKept

-----------------------------------------------------------------------------
(* StatusCard.                                                                 *)

WriterPoints == {"idle", "asked", "waiting", "editing", "done"}
WriterRecords == [at : WriterPoints, on : Locks \cup {None}, by : {"hook", "watch", "search"}]

\* What the coroutines are at.
CardTypes ==
  /\ closed \in BOOLEAN /\ late \in Nat /\ table \in Locks \cup {None}
  /\ writer \in [Writers -> WriterRecords]
  /\ main \in [at : {"resolving", "queueing", "queued", "draining", "editing", "played", "sending",
                     "resending", "clearing", "failed", "ending", "cancelled"},
               on : Locks \cup {None}]
  /\ tap \in [at : {"idle", "draining", "done"}, on : Locks \cup {None}]

\* A writer refers to a lock from its wait to the end of its edit. The lock of an
\* edit is the one in the table, where a closer finds it; before the close all
\* writers that wait have that lock.
WriterLocks ==
  \A w \in Writers :
    /\ writer[w].at \in {"waiting", "editing"} => writer[w].on \in Locks
    /\ writer[w].at = "editing" => writer[w].on = table
    /\ writer[w].at = "waiting" /\ ~closed => writer[w].on = table

\* What a closer waits for is what is edited under.
EditedUnder(l) == closed /\ \A w \in Writers : writer[w].at = "editing" => writer[w].on = l

Barriers ==
  /\ main.at \in {"draining", "ending"} => EditedUnder(main.on)
  /\ tap.at = "draining" => EditedUnder(tap.on)
  /\ Card!HandedOver => closed /\ \A w \in Writers : writer[w].at # "editing"

CardInv == CardTypes /\ WriterLocks /\ Barriers

\* A writer's record with another point and another lock.
LEMMA WriterRecord ==
  ASSUME NEW r \in WriterRecords, NEW p \in WriterPoints, NEW l \in Locks \cup {None}
  PROVE  [r EXCEPT !.at = p, !.on = l] = [at |-> p, on |-> l, by |-> r.by]
<1> DEFINE z == [r EXCEPT !.at = p, !.on = l]
<1>1. z \in WriterRecords
  BY DEF WriterRecords
<1>2. z.at = p /\ z.on = l /\ z.by = r.by
  BY DEF WriterRecords
<1> HIDE DEF z
<1>3. z = [at |-> p, on |-> l, by |-> r.by]
  BY <1>1, <1>2 DEF WriterRecords
<1> QED BY <1>3 DEF z

\* A writer takes one step, and no writer edits that did not edit before.
LEMMA QuietWriter ==
  ASSUME CardInv, NEW w \in Writers, NEW l \in Locks \cup {None},
         NEW at1 \in {"asked", "waiting", "done"}, NEW by1 \in {"hook", "watch", "search"},
         writer' = [writer EXCEPT ![w] = [at |-> at1, on |-> l, by |-> by1]],
         table' \in Locks \cup {None},
         at1 = "waiting" => l \in Locks /\ l = table',
         \A v \in Writers \ {w} : writer[v].on \in Locks /\ writer[v].on = table => table' = table,
         UNCHANGED <<closed, main, tap>>, late' \in Nat
  PROVE  CardInv'
<1>1. CardTypes'
  BY DEF CardInv, CardTypes, WriterRecords, WriterPoints
<1>2. /\ writer'[w].at # "editing" /\ (writer'[w].at = "waiting" => writer'[w].on \in Locks /\ writer'[w].on = table')
      /\ \A v \in Writers \ {w} : writer'[v] = writer[v]
  BY DEF CardInv, CardTypes, WriterRecords, WriterPoints
<1>3. WriterLocks'
  BY <1>2 DEF CardInv, WriterLocks
<1>4. Barriers'
  BY <1>2 DEF CardInv, Barriers, EditedUnder, Card!HandedOver
<1> QED BY <1>1, <1>3, <1>4 DEF CardInv

\* The request and the button move among points at which no barrier is awaited.
LEMMA MainMoves ==
  ASSUME CardInv, NEW s \in {"resolving", "queueing", "queued", "played", "sending", "resending",
                             "clearing", "failed"},
         main' = [main EXCEPT !.at = s],
         s \in {"sending", "resending", "clearing", "played", "failed"} => Card!HandedOver,
         UNCHANGED <<closed, table, writer, tap, late>>
  PROVE  CardInv'
<1>1. CardTypes' /\ WriterLocks' /\ main'.at = s
  BY DEF CardInv, CardTypes, WriterRecords, WriterPoints, WriterLocks
<1>2. Barriers'
  BY <1>1 DEF CardInv, Barriers, EditedUnder, Card!HandedOver
<1> QED BY <1>1, <1>2 DEF CardInv

\* Once a barrier is passed nobody edits.
LEMMA Drains ==
  ASSUME CardInv, NEW l \in Locks \cup {None}, None \notin Locks, EditedUnder(l), Card!Drained(l)
  PROVE  \A w \in Writers : writer[w].at # "editing"
  BY DEF CardInv, WriterLocks, EditedUnder, Card!Drained, Card!Held

\* The writers enter, look, edit and leave.
LEMMA WriterSteps ==
  ASSUME CardInv, None \notin Locks, NEW w \in Writers,
         \/ Card!AskHook(w) \/ Card!AskWatch(w) \/ Card!AskFound(w)
         \/ Card!Enter(w) \/ Card!Proceed(w) \/ Card!Written(w)
  PROVE  CardInv'
<1>0. /\ writer[w] \in WriterRecords /\ writer[w].by \in {"hook", "watch", "search"}
      /\ table \in Locks \cup {None} /\ late \in Nat
  BY DEF CardInv, CardTypes, WriterRecords, WriterPoints
<1>1. ASSUME NEW by \in {"hook", "watch", "search"}, Card!Starts(w, by) PROVE CardInv'
  <2>1. /\ writer' = [writer EXCEPT ![w] = [at |-> "asked", on |-> None, by |-> by]]
        /\ UNCHANGED <<closed, table, late, main, tap>>
    BY <1>1 DEF Card!Starts, None
  <2> QED BY <1>0, <2>1, QuietWriter
<1>2. CASE Card!Enter(w)
  <2>1. PICK l \in Locks :
          /\ Card!LockFor(l) /\ table' = l
          /\ writer' = [writer EXCEPT ![w].at = "waiting", ![w].on = l]
    BY <1>2 DEF Card!Enter
  <2>2. writer' = [writer EXCEPT ![w] = [at |-> "waiting", on |-> l, by |-> writer[w].by]]
    <3>1. [writer[w] EXCEPT !.at = "waiting", !.on = l] = [at |-> "waiting", on |-> l, by |-> writer[w].by]
      BY <1>0, WriterRecord DEF WriterPoints
    <3>2. writer' = [writer EXCEPT ![w] = [writer[w] EXCEPT !.at = "waiting", !.on = l]]
      BY <2>1 DEF CardInv, CardTypes, WriterRecords, WriterPoints
    <3> QED BY <3>1, <3>2
  <2>3. \A v \in Writers : writer[v].on \in Locks /\ writer[v].on = table => table' = table
    BY <2>1 DEF Card!LockFor
  <2>4. UNCHANGED <<closed, late, main, tap>>
    BY <1>2 DEF Card!Enter
  <2> QED BY <1>0, <2>1, <2>2, <2>3, <2>4, QuietWriter
<1>3. ASSUME writer' = Card!Over(w), Card!Forgets(w, writer[w].on), UNCHANGED <<closed, main, tap>>,
             late' \in Nat
      PROVE  CardInv'
  <2>1. writer' = [writer EXCEPT ![w] = [at |-> "done", on |-> None, by |-> writer[w].by]]
    <3>1. [writer[w] EXCEPT !.at = "done", !.on = None] = [at |-> "done", on |-> None, by |-> writer[w].by]
      BY <1>0, WriterRecord DEF WriterPoints
    <3>2. writer' = [writer EXCEPT ![w] = [writer[w] EXCEPT !.at = "done", !.on = None]]
      BY <1>3 DEF Card!Over, CardInv, CardTypes, WriterRecords, WriterPoints
    <3> QED BY <3>1, <3>2
  <2>2. \A v \in Writers \ {w} : writer[v].on \in Locks /\ writer[v].on = table => table' = table
    BY <1>3 DEF Card!Forgets
  <2>3. table' \in Locks \cup {None}
    BY <1>0, <1>3 DEF Card!Forgets
  <2> QED BY <1>0, <1>3, <2>1, <2>2, <2>3, QuietWriter
<1>4. CASE Card!Proceed(w) /\ closed
  BY <1>0, <1>3, <1>4 DEF Card!Proceed
<1>5. CASE Card!Proceed(w) /\ ~closed
  <2>1. /\ writer[w].at = "waiting" /\ writer' = [writer EXCEPT ![w].at = "editing"]
        /\ UNCHANGED <<closed, table, main, tap, late>>
    BY <1>5 DEF Card!Proceed
  <2>2. writer[w].on \in Locks /\ writer[w].on = table
    BY <1>5, <2>1 DEF CardInv, WriterLocks
  <2>3. CardTypes'
    BY <2>1 DEF CardInv, CardTypes, WriterRecords, WriterPoints
  <2>4. WriterLocks'
    BY <2>1, <2>2 DEF CardInv, CardTypes, WriterRecords, WriterPoints, WriterLocks
  <2>5. Barriers'
    BY <1>5, <2>1 DEF CardInv, Barriers, EditedUnder, Card!HandedOver
  <2> QED BY <2>3, <2>4, <2>5 DEF CardInv
<1>6. CASE Card!Written(w)
  <2>1. late' \in Nat
    BY <1>0, <1>6 DEF Card!Written
  <2> QED BY <1>3, <1>6, <2>1 DEF Card!Written
<1> QED BY <1>1, <1>2, <1>4, <1>5, <1>6 DEF Card!AskHook, Card!AskWatch, Card!AskFound,
       CardInv, CardTypes, WriterRecords, WriterPoints

\* The mark is set, and the lock of the table is what is waited for.
LEMMA ClosesKeeps ==
  ASSUME CardInv, closed' = TRUE, UNCHANGED <<table, writer, late>>,
         \/ main' = [at |-> "draining", on |-> table] /\ tap' = tap
         \/ main' = [at |-> "ending", on |-> table] /\ tap' = tap
         \/ tap' = [at |-> "draining", on |-> table] /\ main' = main
  PROVE  CardInv'
<1>1. CardTypes' /\ WriterLocks'
  BY DEF CardInv, CardTypes, WriterRecords, WriterPoints, WriterLocks
<1>2. EditedUnder(table)'
  BY DEF CardInv, WriterLocks, EditedUnder
<1>3. Barriers'
  BY <1>2 DEF CardInv, Barriers, EditedUnder, Card!HandedOver
<1> QED BY <1>1, <1>3 DEF CardInv

\* A barrier is passed: the lock leaves the table, writers may be cancelled, and
\* the coroutine goes on.
LEMMA PassesKeeps ==
  ASSUME CardInv, None \notin Locks, closed, NEW l \in Locks \cup {None}, Card!Popped(l),
         \A w \in Writers : writer[w].at # "editing",
         writer' = writer \/ Card!WritersStop,
         main' \in [at : {"editing", "failed", "cancelled"}, on : {None}] \/ main' = main,
         tap' = tap \/ tap' = [at |-> "done", on |-> None],
         UNCHANGED <<closed, late>>
  PROVE  CardInv'
<1>1. /\ writer' \in [Writers -> WriterRecords]
      /\ \A w \in Writers : /\ writer'[w].at # "editing"
                            /\ writer'[w].at = "waiting" => writer'[w] = writer[w]
  <2>1. CASE writer' = writer
    BY <2>1 DEF CardInv, CardTypes
  <2>2. CASE Card!WritersStop
    <3>1. \A w \in Writers : writer'[w] = IF writer[w].by = "search" /\ writer[w].at # "idle"
                                         THEN [writer[w] EXCEPT !.at = "done", !.on = None] ELSE writer[w]
      BY <2>2 DEF Card!WritersStop
    <3>2. \A w \in Writers :
            LET r == [writer[w] EXCEPT !.at = "done", !.on = None] IN r \in WriterRecords /\ r.at = "done"
      BY DEF CardInv, CardTypes, WriterRecords, WriterPoints
    <3>3. \A w \in Writers : writer'[w] \in WriterRecords /\ (writer'[w] = writer[w] \/ writer'[w].at = "done")
      BY <3>1, <3>2 DEF CardInv, CardTypes
    <3>4. writer' = [w \in Writers |-> writer'[w]]
      BY <2>2 DEF Card!WritersStop
    <3> QED BY <3>3, <3>4
  <2> QED BY <2>1, <2>2
<1>2. CardTypes'
  BY <1>1 DEF CardInv, CardTypes, WriterRecords, WriterPoints, Card!Popped, None
<1>3. WriterLocks'
  BY <1>1 DEF CardInv, WriterLocks
<1>4. Barriers'
  BY <1>1 DEF Barriers, EditedUnder, CardInv, CardTypes, WriterRecords, WriterPoints
<1> QED BY <1>2, <1>3, <1>4 DEF CardInv

\* The request closes the card and goes on, or ends.
LEMMA MainSteps ==
  ASSUME CardInv, None \notin Locks,
         \/ Card!Queue \/ Card!Queued \/ Card!Claim \/ Card!Take \/ Card!Shows \/ Card!Refuses
         \/ Card!Sends \/ Card!SendFails \/ Card!Clears \/ Card!GivesUp \/ Card!SaysWhy
  PROVE  CardInv'
<1>1. CASE Card!Queue \/ Card!Queued
  BY <1>1, MainMoves DEF Card!Queue, Card!Queued
<1>2. CASE Card!Claim \/ Card!GivesUp
  BY <1>2, ClosesKeeps DEF Card!Claim, Card!Closes, Card!GivesUp
<1>3. CASE Card!Shows \/ Card!Refuses \/ Card!Sends \/ Card!SendFails \/ Card!Clears
  BY <1>3, MainMoves DEF Card!Shows, Card!Refuses, Card!Sends, Card!SendFails, Card!Clears, Card!HandedOver
<1>4. CASE Card!Take \/ Card!SaysWhy
  <2>1. /\ main.at \in {"draining", "ending"} /\ Card!Drained(main.on) /\ Card!Popped(main.on)
        /\ main' \in [at : {"editing", "failed"}, on : {None}] /\ UNCHANGED <<tap, closed, late>>
        /\ writer' = writer \/ Card!WritersStop
    BY <1>4 DEF Card!Take, Card!SaysWhy, None
  <2>2. EditedUnder(main.on) /\ main.on \in Locks \cup {None}
    BY <2>1 DEF CardInv, CardTypes, WriterRecords, WriterPoints, Barriers
  <2>3. closed /\ \A w \in Writers : writer[w].at # "editing"
    BY <2>1, <2>2, Drains DEF EditedUnder
  <2> QED BY <2>1, <2>2, <2>3, PassesKeeps
<1> QED BY <1>1, <1>2, <1>3, <1>4

\* The Cancel button does the same.
LEMMA TapSteps ==
  ASSUME CardInv, None \notin Locks, Card!Tap \/ Card!Cancels
  PROVE  CardInv'
<1>1. CASE Card!Tap
  BY <1>1, ClosesKeeps DEF Card!Tap, Card!Closes
<1>2. CASE Card!Cancels
  <2>1. /\ tap.at = "draining" /\ Card!Drained(tap.on) /\ Card!Popped(tap.on) /\ Card!WritersStop
        /\ main' = main \/ main' = [at |-> "cancelled", on |-> None]
        /\ tap' = [at |-> "done", on |-> None] /\ UNCHANGED <<closed, late>>
    BY <1>2 DEF Card!Cancels, None
  <2>2. EditedUnder(tap.on) /\ tap.on \in Locks \cup {None}
    BY <2>1 DEF CardInv, CardTypes, WriterRecords, WriterPoints, Barriers
  <2>3. closed /\ \A w \in Writers : writer[w].at # "editing"
    BY <2>1, <2>2, Drains DEF EditedUnder
  <2> QED BY <2>1, <2>2, <2>3, PassesKeeps
<1> QED BY <1>1, <1>2

LEMMA CardKeeps ==
  ASSUME CardInv, None \notin Locks, [Card!Next]_Card!vars
  PROVE  CardInv'
<1>1. CASE UNCHANGED Card!vars
  BY <1>1 DEF Card!vars, CardInv, CardTypes, WriterRecords, WriterPoints, WriterLocks, Barriers, EditedUnder, Card!HandedOver
<1>2. CASE Card!OtherStarts
  BY <1>2 DEF Card!OtherStarts, CardInv, CardTypes, WriterRecords, WriterPoints, WriterLocks, Barriers, EditedUnder, Card!HandedOver
<1>3. CASE Card!Lands
  BY <1>3 DEF Card!Lands, CardInv, CardTypes, WriterRecords, WriterPoints, WriterLocks, Barriers, EditedUnder, Card!HandedOver
<1> QED BY <1>1, <1>2, <1>3, WriterSteps, MainSteps, TapSteps DEF Card!Next

\* With any writers and locks, whatever Telegram refuses or delays: once a closer
\* has passed the barrier of close_download_progress(), no writer edits the card,
\* and no step puts progress onto it but the server's, by an edit that the client
\* had given up before.
THEOREM FinalWriterHolds == Card!Spec => FinalWriter
<1>1. Card!Init => CardInv
  <2> SUFFICES ASSUME Card!Init PROVE CardInv
    OBVIOUS
  <2>1. CardTypes
    BY DEF Card!Init, Card!NobodyYet, Card!Idle, CardTypes, WriterRecords, WriterPoints
  <2>2. WriterLocks /\ Barriers
    BY DEF Card!Init, Card!NobodyYet, Card!Idle, WriterLocks, Barriers, Card!HandedOver
  <2> QED BY <2>1, <2>2 DEF CardInv
<1>2. CardInv /\ [Card!Next]_Card!vars => CardInv'
  BY CardKeeps, MachinesAssumption
<1>3. ASSUME CardInv, Card!Next, Card!HandedOver
      PROVE  (late' = late /\ (shown' = "progress" => shown = "progress")) \/ Card!Lands
  <2>1. \A w \in Writers : writer[w].at # "editing"
    BY <1>3 DEF CardInv, Barriers
  <2>2. ASSUME NEW w \in Writers,
               \/ Card!AskHook(w) \/ Card!AskWatch(w) \/ Card!AskFound(w)
               \/ Card!Enter(w) \/ Card!Proceed(w) \/ Card!Written(w)
        PROVE  late' = late /\ shown' = shown
    BY <2>1, <2>2 DEF Card!AskHook, Card!AskWatch, Card!AskFound, Card!Starts, Card!Enter,
                      Card!Proceed, Card!Written
  <2>3. CASE Card!OtherStarts \/ Card!Tap \/ Card!Cancels
    BY <2>3 DEF Card!OtherStarts, Card!Tap, Card!Cancels
  <2>4. CASE \/ Card!Queue \/ Card!Queued \/ Card!Claim \/ Card!Take \/ Card!Shows \/ Card!Refuses
             \/ Card!Sends \/ Card!SendFails \/ Card!Clears \/ Card!GivesUp \/ Card!SaysWhy
    BY <2>4 DEF Card!Queue, Card!Queued, Card!Claim, Card!Take, Card!Shows, Card!Refuses,
                Card!Sends, Card!SendFails, Card!Clears, Card!GivesUp, Card!SaysWhy
  <2> QED BY <1>3, <2>2, <2>3, <2>4 DEF Card!Next
<1>4. ASSUME CardInv, Card!Next, Card!HandedOver
      PROVE  /\ late' <= late
             /\ shown' = "progress" /\ shown # "progress" => late' < late
  <2>1. late \in Nat
    BY <1>4 DEF CardInv, CardTypes
  <2>2. CASE late' = late /\ (shown' = "progress" => shown = "progress")
    BY <2>1, <2>2
  <2>3. CASE Card!Lands
    BY <2>1, <2>3 DEF Card!Lands
  <2> QED BY <1>3, <1>4, <2>2, <2>3
<1>5. CardInv /\ [Card!Next]_Card!vars
        => [Card!HandedOver => /\ late' <= late
                               /\ shown' = "progress" /\ shown # "progress" => late' < late]_Card!vars
  BY <1>4
<1> QED BY <1>1, <1>2, <1>5, PTL DEF Card!Spec, FinalWriter, Card!FinalWriter

-----------------------------------------------------------------------------
(* Delivery.                                                                   *)

\* A text send by send_formatted() or reply_formatted() that the Bot API told to wait.
Refused == limited /\ api /\ wrapped /\ op \in {"send", "reply"}

\* What was told is on its way to the caller, or the call is over.
LimitInv ==
  /\ {limited, api, wrapped} \subseteq BOOLEAN
  /\ Refused => stage = "over" \/ (stage = "raising" /\ error = "limited")

\* A request ends, while nobody has been told to wait.
LEMMA RequestKeeps ==
  ASSUME LimitInv,
         \/ Message!Accepts \/ Message!Loses \/ Message!Gateway \/ Message!TooMany \/ Message!Rejects
         \/ Message!ReadsBack
         \/ Message!ClientDoes \/ Message!Floods \/ Message!ClientTimesOut \/ Message!ClientRejects
  PROVE  LimitInv' /\ ~Refused
<1>1. CASE Message!TooMany
  <2>1. PICK long \in BOOLEAN :
          IF attempt < MaxAttempts /\ (op \in Message!Form \/ ~long)
          THEN Message!Asked(attempt + 1) /\ limited' = long
          ELSE Message!Raises(IF op \in Message!Form THEN "other" ELSE "limited") /\ limited' = TRUE
    BY <1>1 DEF Message!TooMany
  <2>2. /\ stage = "asking" /\ UNCHANGED <<op, api, wrapped>>
    BY <1>1 DEF Message!TooMany, Message!call
  <2>3. CASE op \in {"send", "reply"}
    BY <2>1, <2>2, <2>3 DEF Message!Form, Message!Asked, Message!Raises, LimitInv, Refused
  <2>4. CASE op \notin {"send", "reply"}
    BY <2>1, <2>2, <2>4 DEF LimitInv, Refused
  <2> QED BY <2>3, <2>4
<1>2. CASE \/ Message!Accepts \/ Message!Loses \/ Message!Gateway \/ Message!Rejects \/ Message!ReadsBack
           \/ Message!ClientDoes \/ Message!ClientTimesOut \/ Message!ClientRejects
  <2>1. stage \in {"asking", "reading"} /\ UNCHANGED <<op, api, wrapped, limited>>
    BY <1>2 DEF Message!Accepts, Message!Loses, Message!Gateway, Message!Rejects, Message!ReadsBack,
                Message!ClientDoes, Message!ClientTimesOut, Message!ClientRejects, Message!call
  <2> QED BY <2>1 DEF LimitInv, Refused
<1>3. CASE Message!Floods
  <2>1. ~api /\ UNCHANGED <<api, wrapped>> /\ limited' \in {limited, TRUE}
    BY <1>3 DEF Message!Floods, Message!call
  <2> QED BY <2>1 DEF LimitInv, Refused
<1> QED BY <1>1, <1>2, <1>3

\* An exception is handled: the limit of a text send by nothing but its end.
LEMMA RaisedKeeps ==
  ASSUME LimitInv,
         \/ Message!Simplify \/ Message!Unanchored \/ Message!NoAnchor \/ Message!StaleIsFine
         \/ Message!AsCaption \/ Message!Swallow \/ Message!AsPlainText \/ Message!Propagate
  PROVE  LimitInv' /\ (Refused => stage' = "over" /\ copies' = copies)
<1>1. stage = "raising" /\ UNCHANGED <<api, wrapped, limited, copies>>
  BY DEF Message!Simplify, Message!Unanchored, Message!NoAnchor, Message!StaleIsFine, Message!AsCaption,
         Message!Swallow, Message!AsPlainText, Message!Propagate, Message!call
<1>2. CASE Refused
  <2>1. error = "limited" /\ wrapped /\ op \in Message!Sending
    BY <1>1, <1>2 DEF LimitInv, Refused, Message!Sending
  <2>2. Message!Quiet /\ ~Message!CanSimplify
    BY <2>1 DEF Message!Quiet, Message!CanSimplify
  <2>3. Message!Swallow
    BY <2>1, <2>2 DEF Message!Simplify, Message!Unanchored, Message!NoAnchor, Message!StaleIsFine,
                      Message!AsCaption, Message!NoTextIsHandled, Message!AsPlainText, Message!Retries,
                      Message!Propagate
  <2> QED BY <1>1, <1>2, <2>3 DEF Message!Swallow, Message!Ends, LimitInv, Refused
<1>3. CASE ~Refused
  <2>1. op' \in {"send", "reply"} => op \in {"send", "reply"}
    BY DEF Message!Simplify, Message!Unanchored, Message!NoAnchor, Message!StaleIsFine, Message!AsCaption,
           Message!Swallow, Message!AsPlainText, Message!Propagate, Message!call
  <2> QED BY <1>1, <1>3, <2>1 DEF LimitInv, Refused
<1> QED BY <1>2, <1>3

\* For any bounds on attempts and flood waits, a formatted text send that was told
\* of a limit by the Bot API's _request() does nothing but return.
THEOREM LimitIsFinalHolds == Message!Spec => LimitIsFinal
<1>1. Message!Init => LimitInv
  BY DEF Message!Init, LimitInv, Refused, Message!Formatted
<1>2. LimitInv /\ [Message!Next]_Message!vars
        => LimitInv' /\ [Refused => stage' = "over" /\ copies' = copies]_Message!vars
  <2> SUFFICES ASSUME LimitInv, [Message!Next]_Message!vars
               PROVE  LimitInv' /\ [Refused => stage' = "over" /\ copies' = copies]_Message!vars
    OBVIOUS
  <2>1. CASE UNCHANGED Message!vars
    BY <2>1 DEF Message!vars, Message!call, LimitInv, Refused
  <2>2. CASE Message!Next
    BY <2>2, RequestKeeps, RaisedKeeps DEF Message!Next
  <2> QED BY <2>1, <2>2
<1>3. [Refused => stage' = "over" /\ copies' = copies]_Message!vars
        => [limited /\ api /\ wrapped /\ op \in {"send", "reply"}
              => stage' = "over" /\ copies' = copies]_Message!vars
  BY DEF Refused
<1> QED BY <1>1, <1>2, <1>3, PTL DEF Message!Spec, LimitIsFinal, Message!LimitIsFinal

-----------------------------------------------------------------------------
(* AutoReply.                                                                  *)

OpNames == {"none", "observe", "append", "learn", "touch", "clear", "tell", "forget", "use", "sweep",
            "switch", "all"}
Awaits == {"none", "rules", "meta", "candidates", "document", "cache", "write"}
RuleSets == [Keys -> SUBSET Texts]
Metas == [Keys -> {"none", "manual", "auto", "idle"}]
Counts == [Keys -> [Texts -> 0..2]]
ActorRecords ==
  [op : OpNames, step : Awaits, k : Keys \cup {"none"}, t : Texts \cup {"none"}, on : BOOLEAN,
   r : RuleSets, m : Metas, c : Counts, payload : SUBSET Texts]

ReplyTypes ==
  /\ rules \in RuleSets /\ meta \in Metas /\ {cands, seen} \subseteq Counts
  /\ actor \in [Actors -> ActorRecords]

\* An answer to a keyword that an admin gave or that was taught twice.
Earned(k, t) == <<k, t>> \in said \/ seen[k][t] = 2

EarnedRules(r) == \A k \in Keys : \A t \in r[k] : Earned(k, t)

\* What an operation has read and what it is about to write.
Backed(s) ==
  /\ EarnedRules(s.r)
  /\ s.op \in {"observe", "append", "learn", "touch", "clear", "tell"} => s.k \in Keys /\ s.t \in Texts
  /\ s.op \in {"forget", "use"} => s.k \in Keys
  /\ s.op \in {"append", "learn"} => Earned(s.k, s.t)
  /\ s.op = "learn" => \A t \in s.payload : Earned(s.k, t)
  /\ s.op = "tell" => <<s.k, s.t>> \in said

\* A lesson that its actor has not counted yet.
Pending(a, k, t) == actor[a].op = "observe" /\ actor[a].k = k /\ actor[a].t = t

\* A count never runs ahead of the lessons, and one that an uncounted lesson
\* will raise is not the first.
Behind(c) ==
  \A k \in Keys, t \in Texts :
    /\ c[k][t] <= seen[k][t]
    /\ c[k][t] >= 1 /\ (\E a \in Actors : Pending(a, k, t)) => seen[k][t] = 2

Lessons ==
  \A k \in Keys, t \in Texts, a \in Actors : Pending(a, k, t) =>
    /\ seen[k][t] >= 1
    /\ \A b \in Actors \ {a} : Pending(b, k, t) => seen[k][t] = 2

ReplyInv ==
  /\ ReplyTypes /\ EarnedRules(rules) /\ Behind(cands) /\ Lessons
  /\ \A a \in Actors : Backed(actor[a]) /\ Behind(actor[a].c)

-----------------------------------------------------------------------------
\* One actor moves: what it has now was earned, its counts are known ones, and
\* a lesson that it has counted is not counted again.
LEMMA OneMoves ==
  ASSUME ReplyInv, NEW a \in Actors,
         ReplyTypes', \A b \in Actors \ {a} : actor'[b] = actor[b], UNCHANGED <<seen, said>>,
         EarnedRules(rules'), Backed(actor'[a]),
         actor'[a].c \in {actor[a].c, Replies!NoCand, cands},
         actor'[a].op = "observe" =>
           actor[a].op = "observe" /\ actor'[a].k = actor[a].k /\ actor'[a].t = actor[a].t,
         \A k \in Keys, t \in Texts :
           \/ cands'[k][t] = 0 \/ cands'[k][t] = cands[k][t] \/ cands'[k][t] = actor[a].c[k][t]
           \/ Pending(a, k, t) /\ actor'[a].op # "observe" /\ cands'[k][t] <= seen[k][t]
  PROVE  ReplyInv'
<1>1. \A b \in Actors, k \in Keys, t \in Texts : Pending(b, k, t)' => Pending(b, k, t)
  BY DEF Pending
<1>2. EarnedRules(rules)' /\ Lessons'
  BY <1>1 DEF ReplyInv, EarnedRules, Earned, Lessons
<1>3. \A b \in Actors : Backed(actor[b])'
  BY DEF ReplyInv, Backed, EarnedRules, Earned
<1>4. ASSUME NEW k \in Keys, NEW t \in Texts
      PROVE  /\ cands'[k][t] <= seen[k][t]
             /\ cands'[k][t] >= 1 /\ (\E b \in Actors : Pending(b, k, t)') => seen[k][t] = 2
  <2>1. cands'[k][t] \in 0..2 /\ cands[k][t] \in 0..2 /\ seen[k][t] \in 0..2 /\ actor[a].c[k][t] \in 0..2
    BY DEF ReplyInv, ReplyTypes, Counts, ActorRecords
  <2>2. CASE cands'[k][t] = 0 \/ cands'[k][t] = cands[k][t] \/ cands'[k][t] = actor[a].c[k][t]
    BY <1>1, <2>1, <2>2 DEF ReplyInv, Behind
  <2>3. CASE Pending(a, k, t) /\ actor'[a].op # "observe" /\ cands'[k][t] <= seen[k][t]
    <3>1. \A b \in Actors : Pending(b, k, t)' => b # a /\ Pending(b, k, t)
      BY <1>1, <2>3 DEF Pending
    <3> QED BY <2>3, <3>1 DEF ReplyInv, Lessons
  <2> QED BY <2>2, <2>3
<1>5. ASSUME NEW c, Behind(c), NEW k \in Keys, NEW t \in Texts
      PROVE  /\ c[k][t] <= seen[k][t]
             /\ c[k][t] >= 1 /\ (\E b \in Actors : Pending(b, k, t)') => seen[k][t] = 2
  BY <1>1, <1>5 DEF Behind
<1>6. Behind(Replies!NoCand)
  <2>1. \A k \in Keys, t \in Texts : Replies!NoCand[k][t] = 0 /\ seen[k][t] \in 0..2
    BY DEF Replies!NoCand, ReplyInv, ReplyTypes, Counts
  <2> QED BY <2>1 DEF Behind
<1>7. \A b \in Actors : Behind(actor'[b].c)
  BY <1>6 DEF ReplyInv
<1>8. Behind(cands)' /\ \A b \in Actors : Behind(actor[b].c)'
  BY <1>4, <1>5, <1>7 DEF Behind
<1> QED BY <1>2, <1>3, <1>8 DEF ReplyInv

LEMMA NothingRead ==
  Replies!NoRule \in RuleSets /\ Replies!NoMeta \in Metas /\ Replies!NoCand \in Counts
    /\ Replies!Free \in ActorRecords /\ EarnedRules(Replies!NoRule)
  BY DEF Replies!NoRule, Replies!NoMeta, Replies!NoCand, Replies!Free, RuleSets, Metas, Counts,
         ActorRecords, OpNames, Awaits, EarnedRules

\* What the helpers of the model do to the actor that moves.
LEMMA EndsMoves ==
  ASSUME ReplyTypes, NEW a \in Actors, Replies!Ends(a)
  PROVE  /\ actor' \in [Actors -> ActorRecords] /\ \A b \in Actors \ {a} : actor'[b] = actor[b]
         /\ actor'[a].op = "none" /\ actor'[a].c = Replies!NoCand /\ Backed(actor'[a])
<1>1. actor' = [actor EXCEPT ![a] = Replies!Free] /\ Replies!Free \in ActorRecords
  BY NothingRead DEF Replies!Ends
<1>2. actor'[a] = Replies!Free
  BY <1>1 DEF ReplyTypes
<1>3. Replies!Free.op = "none" /\ Replies!Free.c = Replies!NoCand /\ Replies!Free.r = Replies!NoRule
  BY DEF Replies!Free
<1> QED BY <1>1, <1>2, <1>3, NothingRead DEF ReplyTypes, Backed

\* The other fields of an actor stay.
Becomes(a, o, s, r, m, c, p) ==
  actor' = [actor EXCEPT ![a].op = o, ![a].step = s, ![a].r = r, ![a].m = m, ![a].c = c, ![a].payload = p]

\* Such a change as it is written where the other fields are left out.
Follows(a, o, s, p) == actor' = [actor EXCEPT ![a].op = o, ![a].step = s, ![a].payload = p]

Has(a, r, m, c, s) == actor' = [actor EXCEPT ![a].r = r, ![a].m = m, ![a].c = c, ![a].step = s]

LEMMA FollowsMeans ==
  ASSUME ReplyTypes, NEW a \in Actors, NEW o, NEW s, NEW p, Follows(a, o, s, p)
  PROVE  Becomes(a, o, s, actor[a].r, actor[a].m, actor[a].c, p)
<1> DEFINE y == [actor[a] EXCEPT !.op = o, !.step = s, !.payload = p]
           z == [actor[a] EXCEPT !.op = o, !.step = s, !.r = actor[a].r, !.m = actor[a].m,
                              !.c = actor[a].c, !.payload = p]
<1>1. actor[a] \in ActorRecords /\ a \in DOMAIN actor
  BY DEF ReplyTypes
<1>2. y = z
  BY <1>1 DEF ActorRecords
<1>3. actor' = [actor EXCEPT ![a] = y]
  BY <1>1 DEF Follows
<1>4. actor' = [actor EXCEPT ![a] = z]
  <2> HIDE DEF y, z
  <2> QED BY <1>2, <1>3
<1> QED BY <1>1, <1>4 DEF Becomes

LEMMA HasMeans ==
  ASSUME ReplyTypes, NEW a \in Actors, NEW s, NEW r, NEW m, NEW c, Has(a, r, m, c, s)
  PROVE  Becomes(a, actor[a].op, s, r, m, c, actor[a].payload)
<1> DEFINE y == [actor[a] EXCEPT !.r = r, !.m = m, !.c = c, !.step = s]
           z == [actor[a] EXCEPT !.op = actor[a].op, !.step = s, !.r = r, !.m = m, !.c = c,
                              !.payload = actor[a].payload]
<1>1. actor[a] \in ActorRecords /\ a \in DOMAIN actor
  BY DEF ReplyTypes
<1>2. y = z
  BY <1>1 DEF ActorRecords
<1>3. actor' = [actor EXCEPT ![a] = y]
  BY <1>1 DEF Has
<1>4. actor' = [actor EXCEPT ![a] = z]
  <2> HIDE DEF y, z
  <2> QED BY <1>2, <1>3
<1> QED BY <1>1, <1>4 DEF Becomes

LEMMA GoesMeans ==
  ASSUME ReplyTypes, NEW a \in Actors, NEW o, NEW s, Replies!Goes(a, o, s)
  PROVE  Becomes(a, o, s, Replies!NoRule, Replies!NoMeta, Replies!NoCand, actor[a].payload)
<1> DEFINE y == [actor[a] EXCEPT !.op = o, !.step = s, !.r = Replies!NoRule,
                              !.m = Replies!NoMeta, !.c = Replies!NoCand]
           z == [actor[a] EXCEPT !.op = o, !.step = s, !.r = Replies!NoRule, !.m = Replies!NoMeta,
                              !.c = Replies!NoCand, !.payload = actor[a].payload]
<1>1. actor[a] \in ActorRecords /\ a \in DOMAIN actor
  BY DEF ReplyTypes
<1>2. y = z
  BY <1>1 DEF ActorRecords
<1>3. actor' = [actor EXCEPT ![a] = y]
  BY <1>1 DEF Replies!Goes
<1>4. actor' = [actor EXCEPT ![a] = z]
  <2> HIDE DEF y, z
  <2> QED BY <1>2, <1>3
<1> QED BY <1>1, <1>4 DEF Becomes

LEMMA ActorMoves ==
  ASSUME ReplyTypes, NEW a \in Actors, NEW o \in OpNames, NEW s \in Awaits,
         NEW r \in RuleSets, NEW m \in Metas, NEW c \in Counts, NEW p \in SUBSET Texts,
         Becomes(a, o, s, r, m, c, p)
  PROVE  /\ actor' \in [Actors -> ActorRecords] /\ \A b \in Actors \ {a} : actor'[b] = actor[b]
         /\ actor'[a].op = o /\ actor'[a].r = r /\ actor'[a].c = c /\ actor'[a].payload = p
         /\ actor'[a].k = actor[a].k /\ actor'[a].t = actor[a].t
<1> DEFINE z == [actor[a] EXCEPT !.op = o, !.step = s, !.r = r, !.m = m, !.c = c, !.payload = p]
<1>1. actor[a] \in ActorRecords
  BY DEF ReplyTypes
<1>2. z \in ActorRecords
  BY <1>1 DEF ActorRecords
<1>3. /\ z.op = o /\ z.r = r /\ z.c = c /\ z.payload = p /\ z.k = actor[a].k /\ z.t = actor[a].t
  BY <1>1 DEF ActorRecords
<1>4. actor' = [actor EXCEPT ![a] = z]
  BY DEF ReplyTypes, Becomes
<1>5. actor \in [Actors -> ActorRecords]
  BY DEF ReplyTypes
<1> HIDE DEF z
<1>6. actor'[a] = z /\ \A b \in Actors \ {a} : actor'[b] = actor[b]
  BY <1>4, <1>5
<1>7. actor' \in [Actors -> ActorRecords]
  BY <1>2, <1>4, <1>5
<1> QED BY <1>3, <1>6, <1>7

LEMMA GoesMoves ==
  ASSUME ReplyTypes, NEW a \in Actors, NEW o \in OpNames, NEW s \in Awaits, Replies!Goes(a, o, s)
  PROVE  /\ actor' \in [Actors -> ActorRecords] /\ \A b \in Actors \ {a} : actor'[b] = actor[b]
         /\ actor'[a].op = o /\ actor'[a].c = Replies!NoCand /\ actor'[a].r = Replies!NoRule
         /\ actor'[a].k = actor[a].k /\ actor'[a].t = actor[a].t /\ actor'[a].payload = actor[a].payload
<1>1. Becomes(a, o, s, Replies!NoRule, Replies!NoMeta, Replies!NoCand, actor[a].payload)
  BY GoesMeans
<1>2. actor[a].payload \in SUBSET Texts
  BY DEF ReplyTypes, ActorRecords
<1> QED BY <1>1, <1>2, NothingRead, ActorMoves

\* An await that reads.
LEMMA ReadsKeep ==
  ASSUME ReplyInv, NEW a \in Actors,
         \/ Replies!ReadRules(a) \/ Replies!ReadMeta(a) \/ Replies!ReadCandidates(a) \/ Replies!ReadDocument(a)
  PROVE  ReplyInv'
<1>0. /\ UNCHANGED <<rules, meta, cands, seen, said>> /\ ReplyTypes /\ Backed(actor[a])
      /\ EarnedRules(rules)
  BY DEF ReplyInv, Replies!ReadRules, Replies!ReadMeta, Replies!ReadCandidates, Replies!ReadDocument, Replies!doc
<1>00. /\ actor[a].op \in OpNames /\ actor[a].step \in Awaits /\ actor[a].r \in RuleSets
       /\ actor[a].m \in Metas /\ actor[a].c \in Counts /\ actor[a].payload \in SUBSET Texts
  BY <1>0 DEF ReplyTypes, ActorRecords
<1>1. ASSUME actor' \in [Actors -> ActorRecords], \A b \in Actors \ {a} : actor'[b] = actor[b],
             Backed(actor'[a]), actor'[a].c \in {actor[a].c, Replies!NoCand, cands},
             actor'[a].op = "observe" =>
               actor[a].op = "observe" /\ actor'[a].k = actor[a].k /\ actor'[a].t = actor[a].t
      PROVE  ReplyInv'
  <2>1. ReplyTypes'
    BY <1>0, <1>1 DEF ReplyTypes
  <2> QED BY <1>0, <1>1, <2>1, OneMoves
<1>2. CASE Replies!ReadRules(a) /\ actor[a].op = "append"
  <2>1. actor[a].k \in Keys /\ actor[a].t \in Texts /\ Earned(actor[a].k, actor[a].t)
    BY <1>0, <1>2 DEF Backed
  <2>2. CASE actor[a].t \in rules[actor[a].k]
    <3>1. actor' = [actor EXCEPT ![a].op = "touch", ![a].step = "meta", ![a].payload = {}]
      BY <1>2, <2>2 DEF Replies!ReadRules, Replies!Append
    <3>2. Becomes(a, "touch", "meta", actor[a].r, actor[a].m, actor[a].c, {})
      <4>1. Follows(a, "touch", "meta", {})
        BY <3>1 DEF Follows
      <4> QED BY <1>0, <4>1, FollowsMeans
    <3>3. /\ actor' \in [Actors -> ActorRecords] /\ \A b \in Actors \ {a} : actor'[b] = actor[b]
          /\ actor'[a].op = "touch" /\ actor'[a].c = actor[a].c /\ actor'[a].r = actor[a].r
          /\ actor'[a].k = actor[a].k /\ actor'[a].t = actor[a].t
      <4>1. "touch" \in OpNames /\ "meta" \in Awaits /\ {} \in SUBSET Texts
        BY DEF OpNames, Awaits
      <4> QED BY <1>0, <1>00, <3>2, <4>1, ActorMoves
    <3>4. Backed(actor'[a])
      BY <1>0, <2>1, <3>3 DEF Backed
    <3> QED BY <1>1, <3>3, <3>4
  <2>3. CASE actor[a].t \notin rules[actor[a].k]
    <3>1. actor' = [actor EXCEPT ![a].op = "learn", ![a].step = "rules",
                                 ![a].payload = rules[actor[a].k] \cup {actor[a].t}]
      BY <1>2, <2>3 DEF Replies!ReadRules, Replies!Append
    <3>2. rules[actor[a].k] \cup {actor[a].t} \in SUBSET Texts
      BY <1>0, <2>1 DEF ReplyTypes, RuleSets
    <3>3. Becomes(a, "learn", "rules", actor[a].r, actor[a].m, actor[a].c,
                  rules[actor[a].k] \cup {actor[a].t})
      <4>1. Follows(a, "learn", "rules", rules[actor[a].k] \cup {actor[a].t})
        BY <3>1 DEF Follows
      <4> QED BY <1>0, <4>1, FollowsMeans
    <3>4. /\ actor' \in [Actors -> ActorRecords] /\ \A b \in Actors \ {a} : actor'[b] = actor[b]
          /\ actor'[a].op = "learn" /\ actor'[a].c = actor[a].c /\ actor'[a].r = actor[a].r
          /\ actor'[a].k = actor[a].k /\ actor'[a].t = actor[a].t
          /\ actor'[a].payload = rules[actor[a].k] \cup {actor[a].t}
      <4>1. "learn" \in OpNames /\ "rules" \in Awaits
        BY DEF OpNames, Awaits
      <4> QED BY <1>0, <1>00, <3>2, <3>3, <4>1, ActorMoves
    <3>5. Backed(actor'[a])
      BY <1>0, <2>1, <3>4 DEF Backed, EarnedRules
    <3> QED BY <1>1, <3>4, <3>5
  <2> QED BY <2>2, <2>3
<1>3. ASSUME NEW r \in {actor[a].r, rules}, NEW m \in {actor[a].m, meta}, NEW c \in {actor[a].c, cands},
             NEW s \in Awaits, actor' = [actor EXCEPT ![a].r = r, ![a].m = m, ![a].c = c, ![a].step = s]
      PROVE  ReplyInv'
  <2>1. r \in RuleSets /\ m \in Metas /\ c \in Counts /\ EarnedRules(r)
    BY <1>0, <1>3 DEF ReplyTypes, ActorRecords, Backed
  <2>2. Becomes(a, actor[a].op, s, r, m, c, actor[a].payload)
    <3>1. Has(a, r, m, c, s)
      BY <1>3 DEF Has
    <3> QED BY <1>0, <3>1, HasMeans
  <2>3. /\ actor' \in [Actors -> ActorRecords] /\ \A b \in Actors \ {a} : actor'[b] = actor[b]
        /\ actor'[a].op = actor[a].op /\ actor'[a].k = actor[a].k /\ actor'[a].t = actor[a].t
        /\ actor'[a].payload = actor[a].payload /\ actor'[a].r = r /\ actor'[a].c = c
    BY <1>0, <1>00, <2>1, <2>2, ActorMoves
  <2>4. Backed(actor'[a])
    BY <1>0, <2>1, <2>3 DEF Backed
  <2> QED BY <1>1, <1>3, <2>3, <2>4
<1>4. CASE Replies!ReadRules(a) /\ actor[a].op # "append"
  <2>1. actor' = [actor EXCEPT ![a].r = rules, ![a].m = actor[a].m, ![a].c = actor[a].c, ![a].step = "meta"]
    BY <1>0, <1>4 DEF Replies!ReadRules, ReplyTypes, ActorRecords
  <2> QED BY <1>3, <2>1 DEF Awaits
<1>5. CASE Replies!ReadCandidates(a)
  <2>1. actor' = [actor EXCEPT ![a].r = actor[a].r, ![a].m = actor[a].m, ![a].c = cands, ![a].step = "write"]
    BY <1>0, <1>5 DEF Replies!ReadCandidates, ReplyTypes, ActorRecords
  <2> QED BY <1>3, <2>1 DEF Awaits
<1>6. CASE Replies!ReadDocument(a)
  <2>1. actor' = [actor EXCEPT ![a].r = rules, ![a].m = meta, ![a].c = actor[a].c, ![a].step = "write"]
    BY <1>0, <1>6 DEF Replies!ReadDocument, ReplyTypes, ActorRecords
  <2> QED BY <1>3, <2>1 DEF Awaits
<1>7. CASE Replies!ReadMeta(a)
  <2>1. CASE Replies!Goes(a, "clear", "candidates") /\ actor[a].op = "touch"
    <3>1. actor[a].k \in Keys /\ actor[a].t \in Texts
      BY <1>0, <2>1 DEF Backed
    <3>2. Backed(actor'[a])
      BY <1>0, <2>1, <3>1, GoesMoves, NothingRead DEF Backed, OpNames, Awaits
    <3> QED BY <1>0, <1>1, <2>1, <3>2, GoesMoves DEF OpNames, Awaits
  <2>2. CASE Replies!Ends(a)
    BY <1>0, <1>1, <2>2, EndsMoves
  <2>3. ASSUME actor' = [actor EXCEPT ![a].m = meta, ![a].step = Replies!AfterMeta(actor[a].op)]
        PROVE  ReplyInv'
    <3>1. actor' = [actor EXCEPT ![a].r = actor[a].r, ![a].m = meta, ![a].c = actor[a].c,
                                 ![a].step = Replies!AfterMeta(actor[a].op)]
      BY <1>0, <2>3 DEF ReplyTypes, ActorRecords
    <3> QED BY <1>3, <3>1 DEF Awaits, Replies!AfterMeta
  <2> QED BY <1>7, <2>1, <2>2, <2>3 DEF Replies!ReadMeta
<1> QED BY <1>2, <1>4, <1>5, <1>6, <1>7

\* An await that writes, and an operation that ends.
LEMMA WritesKeep ==
  ASSUME ReplyInv, NEW a \in Actors,
         \/ Replies!Learn(a) \/ Replies!Told(a) \/ Replies!Forgotten(a) \/ Replies!Touched(a)
         \/ Replies!Cleared(a) \/ Replies!Swept(a) \/ Replies!SetCached(a) \/ Replies!SetFlag(a)
         \/ Replies!Fails(a)
  PROVE  ReplyInv'
<1>0. /\ UNCHANGED <<seen, said>> /\ ReplyTypes /\ Backed(actor[a]) /\ EarnedRules(rules)
      /\ actor[a].r \in RuleSets /\ actor[a].m \in Metas /\ actor[a].c \in Counts
      /\ actor[a].payload \in SUBSET Texts /\ rules \in RuleSets /\ meta \in Metas /\ cands \in Counts
  BY DEF ReplyInv, ReplyTypes, ActorRecords, Replies!Learn, Replies!Told, Replies!Forgotten,
         Replies!Touched, Replies!Cleared, Replies!Swept, Replies!SetCached, Replies!SetFlag,
         Replies!Fails, Replies!doc
<1>1. ASSUME \/ Replies!Ends(a)
             \/ \E o \in {"clear", "switch", "all"}, s \in Awaits :
                  /\ Replies!Goes(a, o, s)
                  /\ o = "clear" => actor[a].k \in Keys /\ actor[a].t \in Texts,
             rules' \in RuleSets, EarnedRules(rules'), meta' \in Metas, cands' \in Counts,
             \A k \in Keys, t \in Texts :
               cands'[k][t] = 0 \/ cands'[k][t] = cands[k][t] \/ cands'[k][t] = actor[a].c[k][t]
      PROVE  ReplyInv'
  <2>1. /\ actor' \in [Actors -> ActorRecords] /\ \A b \in Actors \ {a} : actor'[b] = actor[b]
        /\ Backed(actor'[a]) /\ actor'[a].c = Replies!NoCand /\ actor'[a].op # "observe"
    <3>1. CASE Replies!Ends(a)
      BY <1>0, <3>1, EndsMoves
    <3>2. ASSUME NEW o \in {"clear", "switch", "all"}, NEW s \in Awaits, Replies!Goes(a, o, s),
                 o = "clear" => actor[a].k \in Keys /\ actor[a].t \in Texts
          PROVE  /\ actor' \in [Actors -> ActorRecords] /\ \A b \in Actors \ {a} : actor'[b] = actor[b]
                 /\ Backed(actor'[a]) /\ actor'[a].c = Replies!NoCand /\ actor'[a].op # "observe"
      <4>1. o \in OpNames
        BY DEF OpNames
      <4>2. /\ actor' \in [Actors -> ActorRecords] /\ \A b \in Actors \ {a} : actor'[b] = actor[b]
            /\ actor'[a].op = o /\ actor'[a].c = Replies!NoCand /\ actor'[a].r = Replies!NoRule
            /\ actor'[a].k = actor[a].k /\ actor'[a].t = actor[a].t
        BY <1>0, <3>2, <4>1, GoesMoves
      <4> QED BY <3>2, <4>2, NothingRead DEF Backed
    <3> QED BY <1>1, <3>1, <3>2
  <2>2. ReplyTypes'
    BY <1>0, <1>1, <2>1 DEF ReplyTypes
  <2> QED BY <1>0, <1>1, <2>1, <2>2, OneMoves
<1>2. CASE Replies!Learn(a)
  <2> DEFINE s == actor[a]
  <2>1. /\ s.op = "learn" /\ rules' = [s.r EXCEPT ![s.k] = s.payload]
        /\ cands' = [s.c EXCEPT ![s.k] = Replies!NoCand[s.k]] /\ Replies!Goes(a, "clear", "candidates")
        /\ meta' = [s.m EXCEPT ![s.k] = "auto"] \/ meta' = s.m
    BY <1>2 DEF Replies!Learn, Replies!At
  <2>2. s.k \in Keys /\ s.t \in Texts
    BY <1>0, <2>1 DEF Backed
  <2>3. rules' \in RuleSets /\ meta' \in Metas
    BY <1>0, <2>1, <2>2 DEF RuleSets, Metas
  <2>4. EarnedRules(rules')
    BY <1>0, <2>1, <2>2 DEF Backed, EarnedRules, RuleSets
  <2>5. cands' \in Counts /\ \A k \in Keys, t \in Texts : cands'[k][t] = 0 \/ cands'[k][t] = s.c[k][t]
    BY <1>0, <2>1, <2>2 DEF Counts, Replies!NoCand
  <2> QED BY <1>1, <2>1, <2>2, <2>3, <2>4, <2>5 DEF Awaits
<1>3. CASE Replies!Told(a)
  <2> DEFINE s == actor[a]
  <2>1. /\ s.op = "tell" /\ rules' = [s.r EXCEPT ![s.k] = {s.t}]
        /\ meta' = [s.m EXCEPT ![s.k] = "manual"]
        /\ cands' = [s.c EXCEPT ![s.k] = Replies!NoCand[s.k]] /\ Replies!Goes(a, "switch", "cache")
    BY <1>3 DEF Replies!Told, Replies!At
  <2>2. s.k \in Keys /\ s.t \in Texts /\ Earned(s.k, s.t)
    BY <1>0, <2>1 DEF Backed, Earned
  <2>3. rules' \in RuleSets /\ meta' \in Metas
    BY <1>0, <2>1, <2>2 DEF RuleSets, Metas
  <2>4. EarnedRules(rules')
    BY <1>0, <2>1, <2>2 DEF Backed, EarnedRules, RuleSets
  <2>5. cands' \in Counts /\ \A k \in Keys, t \in Texts : cands'[k][t] = 0 \/ cands'[k][t] = s.c[k][t]
    BY <1>0, <2>1, <2>2 DEF Counts, Replies!NoCand
  <2> QED BY <1>1, <2>1, <2>3, <2>4, <2>5 DEF Awaits
<1>4. CASE Replies!Forgotten(a)
  <2> DEFINE s == actor[a]
  <2>1. /\ s.op = "forget" /\ rules' = [s.r EXCEPT ![s.k] = {}]
        /\ meta' = [s.m EXCEPT ![s.k] = "none"]
        /\ cands' = [s.c EXCEPT ![s.k] = Replies!NoCand[s.k]] /\ Replies!Ends(a)
    BY <1>4 DEF Replies!Forgotten, Replies!At
  <2>2. s.k \in Keys
    BY <1>0, <2>1 DEF Backed
  <2>3. rules' \in RuleSets /\ meta' \in Metas
    BY <1>0, <2>1, <2>2 DEF RuleSets, Metas
  <2>4. EarnedRules(rules')
    BY <1>0, <2>1, <2>2 DEF Backed, EarnedRules, RuleSets
  <2>5. cands' \in Counts /\ \A k \in Keys, t \in Texts : cands'[k][t] = 0 \/ cands'[k][t] = s.c[k][t]
    BY <1>0, <2>1, <2>2 DEF Counts, Replies!NoCand
  <2> QED BY <1>1, <2>1, <2>3, <2>4, <2>5
<1>5. CASE Replies!Touched(a)
  <2>1. /\ actor[a].op \in {"touch", "use"} /\ meta' = [actor[a].m EXCEPT ![actor[a].k] = "auto"]
        /\ UNCHANGED <<rules, cands>>
        /\ \/ actor[a].op = "touch" /\ Replies!Goes(a, "clear", "candidates")
           \/ Replies!Ends(a)
    BY <1>5 DEF Replies!Touched, Replies!At
  <2>2. meta' \in Metas
    BY <1>0, <2>1 DEF Backed, Metas
  <2>3. actor[a].op = "touch" => actor[a].k \in Keys /\ actor[a].t \in Texts
    BY <1>0 DEF Backed
  <2> QED BY <1>0, <1>1, <2>1, <2>2, <2>3 DEF Awaits
<1>6. CASE Replies!Cleared(a)
  <2> DEFINE s == actor[a]
  <2>1. /\ s.op = "clear" /\ cands' = [s.c EXCEPT ![s.k][s.t] = 0] /\ UNCHANGED <<rules, meta>>
        /\ Replies!Ends(a) \/ Replies!Goes(a, "switch", "cache")
    BY <1>6 DEF Replies!Cleared, Replies!At
  <2>2. s.k \in Keys /\ s.t \in Texts
    BY <1>0, <2>1 DEF Backed
  <2>3. cands' \in Counts /\ \A k \in Keys, t \in Texts : cands'[k][t] = 0 \/ cands'[k][t] = s.c[k][t]
    BY <1>0, <2>1, <2>2 DEF Counts
  <2> QED BY <1>0, <1>1, <2>1, <2>3 DEF Awaits
<1>7. CASE Replies!Swept(a)
  <2> DEFINE s == actor[a]
             gone == Replies!Expired(s.r, s.m)
  <2>1. /\ cands' = cands /\ Replies!Ends(a)
        /\ \/ UNCHANGED <<rules, meta>>
           \/ /\ rules' = [k \in Keys |-> IF k \in gone THEN {} ELSE s.r[k]]
              /\ meta' = [k \in Keys |-> IF k \in gone THEN "none" ELSE s.m[k]]
    BY <1>7 DEF Replies!Swept
  <2>2. rules' \in RuleSets /\ meta' \in Metas
    BY <1>0, <2>1 DEF RuleSets, Metas
  <2>3. EarnedRules(rules')
    BY <1>0, <2>1 DEF Backed, EarnedRules
  <2> QED BY <1>0, <1>1, <2>1, <2>2, <2>3
<1>8. CASE Replies!SetCached(a) \/ Replies!SetFlag(a) \/ Replies!Fails(a)
  <2>1. /\ UNCHANGED <<rules, meta, cands>>
        /\ Replies!Ends(a) \/ Replies!Goes(a, "switch", "write") \/ Replies!Goes(a, "all", "cache")
    BY <1>8 DEF Replies!SetCached, Replies!SetFlag, Replies!Fails, Replies!doc
  <2> QED BY <1>0, <1>1, <2>1 DEF Awaits
<1> QED BY <1>2, <1>3, <1>4, <1>5, <1>6, <1>7, <1>8

\* A lesson is counted; the second one makes the answer an earned one.
LEMMA ObserveKeeps ==
  ASSUME ReplyInv, NEW a \in Actors, Replies!Observe(a) PROVE ReplyInv'
<1> DEFINE s == actor[a]
           k == actor[a].k
           t == actor[a].t
           n == Replies!AtMostTwo(s.c[k][t] + 1)
           c == [s.c EXCEPT ![k][t] = n]
<1>1. /\ s.op = "observe" /\ cands' \in Replies!Bounded(c, k, t) /\ UNCHANGED <<rules, meta, seen, said>>
      /\ IF Replies!Confirmed(n) THEN Replies!Goes(a, "append", "rules") ELSE Replies!Ends(a)
  BY DEF Replies!Observe, Replies!At
<1>2. /\ k \in Keys /\ t \in Texts /\ Pending(a, k, t) /\ ReplyTypes /\ EarnedRules(rules)
      /\ s.c \in Counts /\ seen \in Counts /\ s.payload \in SUBSET Texts
  BY <1>1 DEF ReplyInv, Backed, Pending, ReplyTypes, ActorRecords
<1>3. /\ s.c[k][t] \in 0..2 /\ seen[k][t] \in 0..2 /\ seen[k][t] >= 1
      /\ s.c[k][t] >= 1 => seen[k][t] = 2
  BY <1>2 DEF ReplyInv, Lessons, Behind, Counts
<1>4. n \in 0..2 /\ n <= seen[k][t] /\ (Replies!Confirmed(n) => seen[k][t] = 2)
  BY <1>3 DEF Replies!AtMostTwo, Replies!Confirmed
<1> HIDE DEF n
<1>5. /\ c[k][t] = n
      /\ \A j \in Keys, u \in Texts : <<j, u>> # <<k, t>> => c[j][u] = s.c[j][u]
  BY <1>2 DEF Counts
<1> HIDE DEF c
<1>6. cands' \in Counts /\ \A j \in Keys, u \in Texts : cands'[j][u] = 0 \/ cands'[j][u] = c[j][u]
  BY <1>1 DEF Replies!Bounded, Counts
<1>7. /\ actor' \in [Actors -> ActorRecords] /\ \A b \in Actors \ {a} : actor'[b] = actor[b]
      /\ Backed(actor'[a]) /\ actor'[a].c = Replies!NoCand /\ actor'[a].op # "observe"
  <2>1. CASE Replies!Ends(a)
    BY <1>2, <2>1, EndsMoves
  <2>2. CASE Replies!Goes(a, "append", "rules") /\ seen[k][t] = 2
    <3>1. "append" \in OpNames /\ "rules" \in Awaits
      BY DEF OpNames, Awaits
    <3>2. /\ actor' \in [Actors -> ActorRecords] /\ \A b \in Actors \ {a} : actor'[b] = actor[b]
          /\ actor'[a].op = "append" /\ actor'[a].c = Replies!NoCand /\ actor'[a].r = Replies!NoRule
          /\ actor'[a].k = k /\ actor'[a].t = t
      BY <1>2, <2>2, <3>1, GoesMoves
    <3> QED BY <1>2, <2>2, <3>2, NothingRead DEF Backed, Earned
  <2> QED BY <1>1, <1>4, <2>1, <2>2
<1>8. ReplyTypes'
  BY <1>1, <1>2, <1>6, <1>7 DEF ReplyTypes
<1>9. ASSUME NEW j \in Keys, NEW u \in Texts
      PROVE  \/ cands'[j][u] = 0 \/ cands'[j][u] = actor[a].c[j][u]
             \/ Pending(a, j, u) /\ actor'[a].op # "observe" /\ cands'[j][u] <= seen[j][u]
  BY <1>2, <1>4, <1>5, <1>6, <1>7
<1> QED BY <1>1, <1>2, <1>7, <1>8, <1>9, OneMoves

LEMMA AskMoves ==
  ASSUME ReplyTypes, NEW a \in Actors,
         NEW o \in {"observe", "tell", "forget", "use", "sweep", "switch", "all"},
         NEW k \in Keys \cup {"none"}, NEW t \in Texts \cup {"none"}, NEW on \in BOOLEAN,
         Replies!Ask(a, o, k, t, on)
  PROVE  /\ actor' \in [Actors -> ActorRecords] /\ \A b \in Actors \ {a} : actor'[b] = actor[b]
         /\ actor'[a].op = o /\ actor'[a].r = Replies!NoRule /\ actor'[a].c = Replies!NoCand
         /\ actor'[a].k = k /\ actor'[a].t = t /\ actor[a].op = "none"
         /\ UNCHANGED <<rules, meta, cands>>
<1> DEFINE z == [Replies!Free EXCEPT !.op = o, !.step = Replies!First(o), !.k = k, !.t = t, !.on = on]
<1>1. Replies!First(o) \in Awaits /\ o \in OpNames
  BY DEF Replies!First, Awaits, OpNames
<1>2. z \in ActorRecords
  BY <1>1, NothingRead DEF ActorRecords
<1>3. /\ z.op = o /\ z.r = Replies!Free.r /\ z.c = Replies!Free.c /\ z.k = k /\ z.t = t
  BY NothingRead DEF ActorRecords
<1>4. Replies!Free.r = Replies!NoRule /\ Replies!Free.c = Replies!NoCand
  BY DEF Replies!Free
<1>5. actor' = [actor EXCEPT ![a] = z]
  BY DEF Replies!Ask
<1>6. actor \in [Actors -> ActorRecords]
  BY DEF ReplyTypes
<1> HIDE DEF z
<1>7. actor'[a] = z /\ actor' \in [Actors -> ActorRecords] /\ \A b \in Actors \ {a} : actor'[b] = actor[b]
  BY <1>2, <1>5, <1>6
<1> QED BY <1>3, <1>4, <1>7 DEF Replies!Ask, Replies!doc

\* A lesson: a count that is there already was of an earlier one, and so is an
\* uncounted lesson of another actor.
LEMMA TeachKeeps ==
  ASSUME ReplyInv, NEW a \in Actors, NEW k \in Keys, NEW t \in Texts, Replies!Teach(a, k, t)
  PROVE  ReplyInv'
<1>1. /\ ReplyTypes /\ said' = said /\ Replies!Ask(a, "observe", k, t, TRUE)
      /\ seen' = [seen EXCEPT ![k][t] = Replies!AtMostTwo(@ + 1)]
  BY DEF ReplyInv, Replies!Teach
<1>2. /\ actor' \in [Actors -> ActorRecords] /\ \A b \in Actors \ {a} : actor'[b] = actor[b]
      /\ actor'[a].op = "observe" /\ actor'[a].r = Replies!NoRule /\ actor'[a].c = Replies!NoCand
      /\ actor'[a].k = k /\ actor'[a].t = t /\ UNCHANGED <<rules, meta, cands>>
  BY <1>1, AskMoves
<1>3. seen[k][t] \in 0..2
  BY <1>1 DEF ReplyTypes, Counts
<1>4. /\ seen' \in Counts /\ seen'[k][t] >= 1 /\ (seen[k][t] >= 1 => seen'[k][t] = 2)
      /\ \A j \in Keys, u \in Texts : <<j, u>> # <<k, t>> => seen'[j][u] = seen[j][u]
  <2>1. Replies!AtMostTwo(seen[k][t] + 1) \in 1..2
        /\ (seen[k][t] >= 1 => Replies!AtMostTwo(seen[k][t] + 1) = 2)
    BY <1>3 DEF Replies!AtMostTwo
  <2> DEFINE n == Replies!AtMostTwo(seen[k][t] + 1)
  <2> HIDE DEF n
  <2>2. seen' = [seen EXCEPT ![k][t] = n]
    BY <1>1 DEF n
  <2>3. n \in 1..2 /\ (seen[k][t] >= 1 => n = 2)
    BY <2>1 DEF n
  <2> QED BY <1>1, <2>2, <2>3 DEF ReplyTypes, Counts
<1>5. ReplyTypes'
  BY <1>1, <1>2, <1>4 DEF ReplyTypes
<1>6. \A j \in Keys, u \in Texts : Earned(j, u) => Earned(j, u)'
  BY <1>1, <1>3, <1>4 DEF Earned
<1>7. ASSUME NEW b \in Actors, NEW j \in Keys, NEW u \in Texts, Pending(b, j, u)'
      PROVE  Pending(b, j, u) \/ (b = a /\ j = k /\ u = t)
  BY <1>2, <1>7 DEF Pending
<1>8. EarnedRules(rules)' /\ EarnedRules(Replies!NoRule)'
  BY <1>1, <1>2, <1>6, NothingRead DEF ReplyInv, ReplyTypes, RuleSets, EarnedRules
<1>9. \A b \in Actors : Backed(actor[b])'
  <2>1. Backed(actor[a])'
    BY <1>2, <1>8 DEF Backed
  <2>2. ASSUME NEW b \in Actors \ {a} PROVE Backed(actor[b])'
    <3>1. actor'[b] = actor[b] /\ Backed(actor[b]) /\ actor[b] \in ActorRecords
      BY <1>1, <1>2 DEF ReplyInv, ReplyTypes
    <3>2. actor[b].r \in RuleSets /\ actor[b].payload \in SUBSET Texts
      BY <3>1 DEF ActorRecords
    <3>3. EarnedRules(actor[b].r)'
      BY <1>6, <3>1, <3>2 DEF Backed, EarnedRules, RuleSets
    <3> QED BY <1>1, <1>6, <3>1, <3>2, <3>3 DEF Backed
  <2> QED BY <2>1, <2>2
<1>10. ASSUME NEW c \in Counts, Behind(c), NEW j \in Keys, NEW u \in Texts
       PROVE  /\ c[j][u] <= seen'[j][u]
              /\ c[j][u] >= 1 /\ (\E b \in Actors : Pending(b, j, u)') => seen'[j][u] = 2
  <2>1. c[j][u] \in 0..2 /\ seen[j][u] \in 0..2 /\ seen'[j][u] \in 0..2 /\ c[j][u] <= seen[j][u]
    BY <1>1, <1>4, <1>10 DEF Counts, Behind, ReplyTypes
  <2>2. CASE <<j, u>> = <<k, t>>
    BY <1>4, <2>1, <2>2
  <2>3. CASE <<j, u>> # <<k, t>>
    <3>1. seen'[j][u] = seen[j][u]
      BY <1>4, <2>3
    <3> QED BY <1>7, <1>10, <2>1, <2>3, <3>1 DEF Behind
  <2> QED BY <2>2, <2>3
<1>11. \A b \in Actors : Behind(actor[b].c)'
  <2>1. \A b \in Actors : actor'[b].c \in Counts /\ (actor'[b].c = Replies!NoCand \/ actor'[b].c = actor[b].c)
    BY <1>2 DEF ActorRecords
  <2>2. Behind(Replies!NoCand)
    <3>1. \A j \in Keys, u \in Texts : Replies!NoCand[j][u] = 0 /\ seen[j][u] \in 0..2
      BY <1>1 DEF Replies!NoCand, ReplyTypes, Counts
    <3> QED BY <3>1 DEF Behind
  <2>3. \A b \in Actors : Behind(actor'[b].c)
    BY <2>1, <2>2 DEF ReplyInv
  <2> QED BY <1>10, <2>1, <2>3 DEF Behind
<1>12. Behind(cands)'
  BY <1>1, <1>2, <1>10 DEF ReplyInv, ReplyTypes, Behind
<1>13. ASSUME NEW j \in Keys, NEW u \in Texts, NEW b \in Actors, Pending(b, j, u)'
       PROVE  /\ seen'[j][u] >= 1
              /\ \A d \in Actors \ {b} : Pending(d, j, u)' => seen'[j][u] = 2
  <2>1. CASE <<j, u>> = <<k, t>>
    <3>1. ASSUME NEW d \in Actors, d # b, Pending(d, j, u)' PROVE seen[k][t] >= 1
      BY <1>7, <1>13, <2>1, <3>1 DEF ReplyInv, Lessons
    <3> QED BY <1>4, <2>1, <3>1
  <2>2. CASE <<j, u>> # <<k, t>>
    <3>1. seen'[j][u] = seen[j][u]
      BY <1>4, <2>2
    <3> QED BY <1>7, <1>13, <2>2, <3>1 DEF ReplyInv, Lessons
  <2> QED BY <2>1, <2>2
<1>14. Lessons'
  BY <1>13 DEF Lessons
<1> QED BY <1>5, <1>8, <1>9, <1>11, <1>12, <1>14 DEF ReplyInv

\* The other commands, a restart, and time.
LEMMA AsksKeep ==
  ASSUME ReplyInv
  PROVE  (\/ \E a \in Actors, k \in Keys, t \in Texts : Replies!Tell(a, k, t)
          \/ \E a \in Actors, k \in Keys : Replies!Forget(a, k) \/ Replies!Use(a, k)
          \/ \E a \in Actors : \/ Replies!Sweep(a)
                              \/ \E on \in BOOLEAN : Replies!Switch(a, on) \/ Replies!SwitchAll(a, on))
         => ReplyInv'
<1>1. ASSUME NEW a \in Actors, NEW o \in {"tell", "forget", "use", "sweep", "switch", "all"},
             NEW k \in Keys \cup {"none"}, NEW t \in Texts \cup {"none"}, NEW on \in BOOLEAN,
             Replies!Ask(a, o, k, t, on), seen' = seen, said \subseteq said',
             o \in {"tell", "forget", "use"} => k \in Keys,
             o = "tell" => t \in Texts /\ <<k, t>> \in said'
      PROVE  ReplyInv'
  <2>1. ReplyTypes
    BY DEF ReplyInv
  <2>2. /\ actor' \in [Actors -> ActorRecords] /\ \A b \in Actors \ {a} : actor'[b] = actor[b]
        /\ actor'[a].op = o /\ actor'[a].r = Replies!NoRule /\ actor'[a].c = Replies!NoCand
        /\ actor'[a].k = k /\ actor'[a].t = t /\ UNCHANGED <<rules, meta, cands>>
    <3>1. o \in {"observe", "tell", "forget", "use", "sweep", "switch", "all"}
      BY <1>1
    <3>2. Replies!Ask(a, o, k, t, on)
      BY <1>1
    <3>3. k \in Keys \cup {"none"} /\ t \in Texts \cup {"none"} /\ on \in BOOLEAN
      OBVIOUS
    <3> HIDE <1>1
    <3> QED BY <2>1, <3>1, <3>2, <3>3, AskMoves, SMTT(30)
  <2>3. ReplyTypes'
    BY <1>1, <2>1, <2>2 DEF ReplyTypes
  <2>4. \A j, u : Earned(j, u) => Earned(j, u)'
    BY <1>1 DEF Earned
  <2>5. EarnedRules(rules)' /\ EarnedRules(Replies!NoRule)'
    BY <2>2, <2>4, NothingRead DEF ReplyInv, EarnedRules
  <2>6. \A b \in Actors : Backed(actor[b])'
    <3>1. Backed(actor[a])'
      BY <1>1, <2>2, <2>5 DEF Backed
    <3>2. ASSUME NEW b \in Actors \ {a} PROVE Backed(actor[b])'
      <4>1. actor'[b] = actor[b] /\ Backed(actor[b])
        BY <2>2 DEF ReplyInv
      <4> QED BY <1>1, <2>4, <4>1 DEF Backed, EarnedRules
    <3> QED BY <3>1, <3>2
  <2>7. \A b \in Actors, j \in Keys, u \in Texts : Pending(b, j, u)' => Pending(b, j, u)
    BY <1>1, <2>2 DEF Pending
  <2>8. Lessons' /\ Behind(cands)'
    BY <1>1, <2>2, <2>7 DEF ReplyInv, Lessons, Behind
  <2>9. \A b \in Actors : Behind(actor[b].c)'
    <3>1. \A j \in Keys, u \in Texts : Replies!NoCand[j][u] = 0 /\ seen[j][u] \in 0..2
      BY <2>1 DEF Replies!NoCand, ReplyTypes, Counts
    <3>2. Behind(Replies!NoCand)'
      BY <1>1, <3>1 DEF Behind, Replies!NoCand
    <3>3. ASSUME NEW b \in Actors \ {a} PROVE Behind(actor[b].c)'
      BY <1>1, <2>2, <2>7 DEF ReplyInv, Behind
    <3> QED BY <2>2, <3>2, <3>3
  <2> QED BY <2>3, <2>5, <2>6, <2>8, <2>9 DEF ReplyInv
<1>2. Replies!Free.k = "none" /\ Replies!Free.t = "none"
  BY DEF Replies!Free
<1>3. ASSUME NEW a \in Actors, NEW k \in Keys, NEW t \in Texts, Replies!Tell(a, k, t) PROVE ReplyInv'
  BY <1>1, <1>3 DEF Replies!Tell
<1>4. ASSUME NEW a \in Actors, NEW k \in Keys, Replies!Forget(a, k) \/ Replies!Use(a, k) PROVE ReplyInv'
  BY <1>1, <1>2, <1>4 DEF Replies!Forget, Replies!Use
<1>5. ASSUME NEW a \in Actors, NEW on \in BOOLEAN,
             Replies!Sweep(a) \/ Replies!Switch(a, on) \/ Replies!SwitchAll(a, on)
      PROVE  ReplyInv'
  BY <1>1, <1>2, <1>5 DEF Replies!Sweep, Replies!Switch, Replies!SwitchAll
<1> QED BY <1>3, <1>4, <1>5

LEMMA OthersKeep ==
  ASSUME ReplyInv,
         \/ Replies!Restart \/ \E k \in Keys : Replies!Ages(k)
         \/ \E what \in cooling : Replies!CoolsDown(what)
         \/ UNCHANGED Replies!vars
  PROVE  ReplyInv'
<1>1. CASE Replies!Restart
  <2>1. ReplyTypes /\ UNCHANGED <<rules, meta, cands, seen, said>>
        /\ actor' = [a \in Actors |-> Replies!Free]
    BY <1>1 DEF ReplyInv, Replies!Restart, Replies!doc
  <2>2. Replies!Free.op = "none" /\ Replies!Free.c = Replies!NoCand /\ Replies!Free.r = Replies!NoRule
    BY DEF Replies!Free
  <2>3. ReplyTypes' /\ EarnedRules(rules)'
    BY <2>1, NothingRead DEF ReplyTypes, ReplyInv, EarnedRules, Earned
  <2>4. \A a \in Actors : Backed(actor[a])'
    BY <2>1, <2>2, NothingRead DEF Backed, EarnedRules, Earned
  <2>5. \A a \in Actors : \A k, t : ~Pending(a, k, t)'
    BY <2>1, <2>2 DEF Pending
  <2>6. Lessons' /\ Behind(cands)'
    BY <2>1, <2>5 DEF ReplyInv, Lessons, Behind
  <2>7. \A k \in Keys, t \in Texts : Replies!NoCand[k][t] = 0 /\ seen[k][t] \in 0..2
    BY <2>1 DEF Replies!NoCand, ReplyTypes, Counts
  <2>8. \A a \in Actors : Behind(actor[a].c)'
    BY <2>1, <2>2, <2>5, <2>7 DEF Behind
  <2> QED BY <2>3, <2>4, <2>6, <2>8 DEF ReplyInv
<1>2. ASSUME meta' \in Metas, UNCHANGED <<rules, cands, actor, seen, said>> PROVE ReplyInv'
  BY <1>2 DEF ReplyInv, ReplyTypes, EarnedRules, Earned, Backed, Behind, Lessons, Pending
<1>3. ASSUME NEW k \in Keys, Replies!Ages(k) PROVE ReplyInv'
  <2>1. meta' \in Metas
    BY <1>3 DEF ReplyInv, ReplyTypes, Metas, Replies!Ages
  <2> QED BY <1>2, <1>3, <2>1 DEF Replies!Ages
<1>4. CASE (\E what \in cooling : Replies!CoolsDown(what)) \/ UNCHANGED Replies!vars
  BY <1>2, <1>4 DEF Replies!CoolsDown, Replies!vars, Replies!doc, ReplyInv, ReplyTypes
<1> QED BY <1>1, <1>3, <1>4

\* For any actors, keywords and answers and any number of messages, a rule that no
\* admin gave was taught twice, however the reads and writes of the document
\* overlap, fail or are cut off by a restart.
THEOREM ConfirmedTwiceHolds == Replies!Spec => []ConfirmedTwice
<1>1. Replies!Init => ReplyInv
  <2> SUFFICES ASSUME Replies!Init PROVE ReplyInv
    OBVIOUS
  <2>1. /\ meta = Replies!NoMeta /\ cands = Replies!NoCand /\ seen = Replies!NoCand
        /\ actor = [a \in Actors |-> Replies!Free]
        /\ said = {p \in Keys \X Texts : p[2] \in rules[p[1]]}
        /\ rules \in {Replies!NoRule} \cup {[Replies!NoRule EXCEPT ![k] = {t}] : k \in Keys, t \in Texts}
    BY DEF Replies!Init
  <2>2. Replies!Free.op = "none" /\ Replies!Free.c = Replies!NoCand /\ Replies!Free.r = Replies!NoRule
    BY DEF Replies!Free
  <2>3. rules \in RuleSets
    BY <2>1 DEF RuleSets, Replies!NoRule
  <2>4. ReplyTypes
    BY <2>1, <2>3, NothingRead DEF ReplyTypes
  <2>5. EarnedRules(rules)
    BY <2>1, <2>3 DEF EarnedRules, Earned, RuleSets
  <2>6. \A k \in Keys, t \in Texts : Replies!NoCand[k][t] = 0
    BY DEF Replies!NoCand
  <2>7. Behind(Replies!NoCand)
    BY <2>1, <2>6 DEF Behind
  <2>8. \A a \in Actors : Backed(actor[a]) /\ actor[a].c = Replies!NoCand /\ actor[a].op = "none"
    BY <2>1, <2>2, NothingRead DEF Backed
  <2>9. Lessons
    BY <2>8 DEF Lessons, Pending
  <2> QED BY <2>1, <2>4, <2>5, <2>7, <2>8, <2>9 DEF ReplyInv
<1>2. ReplyInv /\ [Replies!Next]_Replies!vars => ReplyInv'
  BY ReadsKeep, WritesKeep, ObserveKeeps, TeachKeeps, AsksKeep, OthersKeep DEF Replies!Next
<1>3. ReplyInv => ConfirmedTwice
  BY DEF ConfirmedTwice, ReplyInv, EarnedRules, Earned, Replies!ConfirmedTwice
<1> QED BY <1>1, <1>2, <1>3, PTL DEF Replies!Spec

-----------------------------------------------------------------------------
(* SocialCache.                                                                *)

\* The key that audio and video share.
SharedKey(i) == <<i, FALSE>>

\* The media whose prefix a thread writes under.
Written == {i \in Media : threads[i] > 0}

\* Every media id has the shared key; the kind of a flight is left open.
FlightTypes ==
  /\ flight = [k \in DOMAIN flight |-> flight[k]]
  /\ \A i \in Media : SharedKey(i) \in DOMAIN flight /\ SharedKey(i)[1] = i
  /\ \A k \in DOMAIN flight :
       /\ k[1] \in Media
       /\ \E v : flight[k] \in [at : {"none", "queued", "running"}, video : {v}]
  /\ threads \in [Media -> Nat] /\ closing \in BOOLEAN

\* A thread per flight that runs; a shutdown leaves the threads and no flight.
ThreadOfFlight ==
  /\ \A k \in DOMAIN flight : closing \/ k # SharedKey(k[1]) => flight[k].at = "none"
  /\ \A i \in Media :
       IF closing THEN threads[i] <= 1
       ELSE threads[i] = IF flight[SharedKey(i)].at = "running" THEN 1 ELSE 0

Permitted == IsFiniteSet(Written) /\ (~closing => Cardinality(Written) <= MaxDownloads)

WriterInv == FlightTypes /\ ThreadOfFlight /\ Permitted

\* The instance has the operators of FiniteSets under names of its own.
LEMMA SameCardinality == \A S : Social!Cardinality(S) = Cardinality(S)
  BY DEF Social!Cardinality, Cardinality

\* Before the shutdown the permits that are taken are the threads that run.
LEMMA PermitsAreThreads ==
  ASSUME WriterInv, ~closing
  PROVE  Cardinality(Social!Running) = Cardinality(Written)
<1> DEFINE f == [k \in Social!Running |-> k[1]]
<1>2. \A k \in Social!Running : k[1] \in Written /\ k = SharedKey(k[1])
  BY DEF WriterInv, FlightTypes, ThreadOfFlight, Written, Social!Running
<1>3. \A i \in Written : SharedKey(i) \in Social!Running /\ SharedKey(i)[1] = i
  BY DEF WriterInv, FlightTypes, ThreadOfFlight, Written, Social!Running
<1>4. f \in Injection(Social!Running, Written)
  BY <1>2 DEF Injection, IsInjective
<1>5. f \in Surjection(Social!Running, Written)
  BY <1>2, <1>3 DEF Surjection
<1> QED BY <1>4, <1>5, FS_Injection DEF WriterInv, Permitted

\* A thread begins with a permit.
LEMMA BeginsKeeps ==
  ASSUME WriterInv, MaxDownloads \in Nat, NEW k \in DOMAIN flight, Social!Begins(k)
  PROVE  WriterInv'
<1>1. PICK i \in Media : k = SharedKey(i) /\ k[1] = i
  BY DEF WriterInv, FlightTypes, ThreadOfFlight, Social!Begins
<1>2. ~closing /\ threads[i] = 0
  BY <1>1 DEF WriterInv, FlightTypes, ThreadOfFlight, Social!Begins
<1>3. /\ flight' = [flight EXCEPT ![k].at = "running"]
      /\ threads' = [threads EXCEPT ![i] = 1] /\ closing' = closing
  BY <1>1, <1>2 DEF Social!Begins, WriterInv, FlightTypes
<1>4. FlightTypes'
  <2>1. PICK v : flight[k] = [at |-> "queued", video |-> v]
    BY DEF WriterInv, FlightTypes, Social!Begins
  <2>2. flight'[k] = [at |-> "running", video |-> v] /\ DOMAIN flight' = DOMAIN flight
    BY <1>3, <2>1
  <2>3. \A j \in DOMAIN flight : j # k => flight'[j] = flight[j]
    BY <1>3
  <2>4. flight' = [j \in DOMAIN flight' |-> flight'[j]] /\ threads' \in [Media -> Nat] /\ closing' \in BOOLEAN
    BY <1>3 DEF WriterInv, FlightTypes
  <2>5. \A j \in DOMAIN flight' : \E u : flight'[j] \in [at : {"none", "queued", "running"}, video : {u}]
    BY <2>2, <2>3 DEF WriterInv, FlightTypes
  <2> QED BY <2>2, <2>4, <2>5 DEF WriterInv, FlightTypes
<1>5. ThreadOfFlight'
  BY <1>1, <1>2, <1>3 DEF WriterInv, FlightTypes, ThreadOfFlight
<1>6. Written' = Written \cup {i} /\ i \notin Written
  BY <1>2, <1>3 DEF WriterInv, FlightTypes, Written
<1>7. Cardinality(Written) < MaxDownloads
  <2>1. Cardinality(Social!Running) < MaxDownloads
    BY SameCardinality DEF Social!Begins
  <2> QED BY <1>2, <2>1, PermitsAreThreads
<1>8. Permitted'
  <2>1. IsFiniteSet(Written) /\ Cardinality(Written) \in Nat
    BY FS_CardinalityType DEF WriterInv, Permitted
  <2>2. IsFiniteSet(Written \cup {i}) /\ Cardinality(Written \cup {i}) = Cardinality(Written) + 1
    BY <1>6, <2>1, FS_AddElement
  <2> QED BY <1>6, <1>7, <2>1, <2>2 DEF Permitted
<1> QED BY <1>4, <1>5, <1>8 DEF WriterInv

LEMMA FewerWriters ==
  ASSUME WriterInv, Written' \subseteq Written, MaxDownloads \in Nat, closing' \/ ~closing
  PROVE  Permitted'
<1>1. IsFiniteSet(Written)
  BY DEF WriterInv, Permitted
<1>2. IsFiniteSet(Written') /\ Cardinality(Written') <= Cardinality(Written)
  BY <1>1, FS_Subset
<1>3. Cardinality(Written) \in Nat /\ Cardinality(Written') \in Nat
  BY <1>1, <1>2, FS_CardinalityType
<1> QED BY <1>2, <1>3 DEF WriterInv, Permitted

\* For any media, chats, requests and tasks and any number of permits, one thread
\* of yt-dlp writes under the prefix of a media id, and before the shutdown the
\* threads are no more than the permits.
THEOREM OneWriterHolds == Social!Spec => []OneWriter
<1>1. Social!Init => WriterInv
  <2> SUFFICES ASSUME Social!Init PROVE WriterInv
    OBVIOUS
  <2>1. FlightTypes /\ ThreadOfFlight
    BY DEF Social!Init, Social!NoFlight, SharedKey, FlightTypes, ThreadOfFlight
  <2>2. Written = {}
    BY DEF Social!Init, Written
  <2> QED BY <2>1, <2>2, FS_EmptySet, MachinesAssumption DEF WriterInv, Permitted
<1>2. WriterInv /\ [Social!Next]_Social!vars => WriterInv'
  <2> SUFFICES ASSUME WriterInv, [Social!Next]_Social!vars PROVE WriterInv'
    OBVIOUS
  <2>1. ASSUME UNCHANGED <<flight, threads, closing>> PROVE WriterInv'
    BY <2>1 DEF WriterInv, FlightTypes, ThreadOfFlight, Permitted, Written
  <2>2. ASSUME NEW p \in Players, NEW c \in Groups, NEW i \in Media, NEW v \in BOOLEAN,
               Social!Arrives(p, c, i, v)
        PROVE  WriterInv'
    BY <2>1, <2>2 DEF Social!Arrives
  <2>3. ASSUME NEW p \in Players, NEW t \in Fills, Social!StartCache(p, t) PROVE WriterInv'
    BY <2>1, <2>3 DEF Social!StartCache
  <2>4. ASSUME NEW p \in Players,
               Social!PlaysRemote(p) \/ Social!NeedsFile(p) \/ Social!Waited(p) \/ Social!CancelRequest(p)
        PROVE  WriterInv'
    BY <2>1, <2>4 DEF Social!PlaysRemote, Social!NeedsFile, Social!Waited, Social!CancelRequest
  <2>5. ASSUME NEW x \in Social!Coros, Social!Look(x) \/ Social!Check(x) PROVE WriterInv'
    BY <2>1, <2>5 DEF Social!Look, Social!Check
  <2>6. ASSUME NEW x \in Social!Coros, Social!Join(x) PROVE WriterInv'
    <3> DEFINE k == SharedKey(co[x].id)
    <3>1. CASE closing \/ flight[k].at # "none"
      BY <2>1, <2>6, <3>1 DEF Social!Join, Social!Key, SharedKey, Social!Over
    <3>2. CASE ~closing /\ flight[k].at = "none"
      <4>1. /\ flight' = [flight EXCEPT ![k] = [at |-> "queued", video |-> co[x].video]]
            /\ UNCHANGED <<threads, closing>>
        BY <2>6, <3>2 DEF Social!Join, Social!Key, SharedKey
      <4>2. FlightTypes'
        BY <4>1 DEF WriterInv, FlightTypes
      <4>3. flight[k].at # "running" /\ flight'[k].at # "running"
        BY <3>2, <4>1 DEF WriterInv, FlightTypes
      <4>4. \A j \in DOMAIN flight : j # k => flight'[j] = flight[j]
        BY <4>1
      <4>5. \A j \in DOMAIN flight : j # SharedKey(j[1]) => flight'[j].at = "none"
        <5>1. k = SharedKey(k[1]) \/ k \notin DOMAIN flight
          BY DEF SharedKey
        <5> QED BY <3>2, <4>4, <5>1 DEF WriterInv, ThreadOfFlight
      <4>6. \A i \in Media : threads'[i] = IF flight'[SharedKey(i)].at = "running" THEN 1 ELSE 0
        BY <3>2, <4>1, <4>3, <4>4 DEF WriterInv, FlightTypes, ThreadOfFlight
      <4>7. ThreadOfFlight'
        BY <3>2, <4>1, <4>5, <4>6 DEF ThreadOfFlight
      <4> QED BY <4>1, <4>2, <4>7 DEF WriterInv, Permitted, Written
    <3> QED BY <3>1, <3>2
  <2>7. ASSUME NEW k \in DOMAIN flight, Social!Lands(k) PROVE WriterInv'
    <3>1. PICK i \in Media : k = SharedKey(i) /\ k[1] = i
      BY <2>7 DEF WriterInv, FlightTypes, ThreadOfFlight, Social!Lands
    <3>2. ~closing /\ threads[i] = 1
      BY <2>7, <3>1 DEF WriterInv, FlightTypes, ThreadOfFlight, Social!Lands
    <3>3. /\ flight' = [flight EXCEPT ![k] = Social!NoFlight]
          /\ threads' = [threads EXCEPT ![i] = 0] /\ closing' = closing
      <4>1. /\ flight' = [flight EXCEPT ![k] = Social!NoFlight]
            /\ threads' = [threads EXCEPT ![k[1]] = @ - 1] /\ closing' = closing
        BY <2>7 DEF Social!Lands
      <4> QED BY <3>1, <3>2, <4>1 DEF WriterInv, FlightTypes
    <3>4. FlightTypes'
      BY <3>3 DEF WriterInv, FlightTypes, Social!NoFlight
    <3>5. ThreadOfFlight'
      BY <3>1, <3>2, <3>3 DEF WriterInv, FlightTypes, ThreadOfFlight, Social!NoFlight
    <3>6. Written' \subseteq Written
      BY <3>3 DEF WriterInv, FlightTypes, Written
    <3> QED BY <3>2, <3>3, <3>4, <3>5, <3>6, FewerWriters, MachinesAssumption DEF WriterInv
  <2>8. ASSUME NEW i \in Media, Social!ThreadEnds(i) PROVE WriterInv'
    <3>1. /\ closing /\ threads[i] = 1 /\ threads' = [threads EXCEPT ![i] = 0]
          /\ UNCHANGED <<flight, closing>>
      <4>1. /\ closing /\ threads[i] > 0 /\ threads' = [threads EXCEPT ![i] = @ - 1]
            /\ UNCHANGED <<flight, closing>>
        BY <2>8 DEF Social!ThreadEnds
      <4>2. threads[i] = 1
        BY <4>1 DEF WriterInv, FlightTypes, ThreadOfFlight
      <4> QED BY <4>1, <4>2 DEF WriterInv, FlightTypes
    <3>2. FlightTypes' /\ ThreadOfFlight'
      BY <3>1 DEF WriterInv, FlightTypes, ThreadOfFlight
    <3>3. Written' \subseteq Written
      BY <3>1 DEF WriterInv, FlightTypes, Written
    <3> QED BY <3>1, <3>2, <3>3, FewerWriters, MachinesAssumption DEF WriterInv
  <2>9. CASE Social!Shutdown
    <3>1. /\ ~closing /\ closing' /\ threads' = threads
          /\ flight' = [k \in DOMAIN flight |-> Social!NoFlight]
      BY <2>9 DEF Social!Shutdown
    <3>2. FlightTypes'
      BY <3>1 DEF WriterInv, FlightTypes, Social!NoFlight
    <3>3. \A i \in Media : threads[i] <= 1
      BY <3>1 DEF WriterInv, ThreadOfFlight
    <3>4. ThreadOfFlight'
      BY <3>1, <3>3 DEF ThreadOfFlight, Social!NoFlight
    <3> QED BY <3>1, <3>2, <3>4 DEF WriterInv, Permitted, Written
  <2>10. CASE UNCHANGED Social!vars
    BY <2>1, <2>10 DEF Social!vars
  <2> QED BY <2>2, <2>3, <2>4, <2>5, <2>6, <2>7, <2>8, <2>9, <2>10, BeginsKeeps, MachinesAssumption DEF Social!Next
<1>3. WriterInv => OneWriter
  <2> SUFFICES ASSUME WriterInv PROVE OneWriter
    OBVIOUS
  <2>1. ASSUME NEW i \in Media PROVE threads[i] <= 1
    <3>1. CASE closing
      BY <3>1 DEF WriterInv, ThreadOfFlight
    <3>2. CASE ~closing
      BY <3>2 DEF WriterInv, ThreadOfFlight
    <3> QED BY <3>1, <3>2
  <2>2. ~closing => Cardinality({i \in Media : threads[i] > 0}) <= MaxDownloads
    BY DEF WriterInv, Permitted, Written
  <2> QED BY <2>1, <2>2, SameCardinality DEF OneWriter, Social!OneWriter
<1> QED BY <1>1, <1>2, <1>3, PTL DEF Social!Spec

-----------------------------------------------------------------------------
(* TelegramFiles.                                                              *)

\* The mark is one entry of the list, and a download backs it.
MarkInv ==
  /\ marked \in {0, 1}
  /\ calls \in [Fetchers -> {"idle", "refused", "downloading", "over"}]
  /\ Files!MarkIsBacked

\* For any calls and any number of attempts, a file that is in the list active is
\* on its way: every end of a call and the shutdown leave no mark behind.
THEOREM MarkIsBackedHolds == Files!Spec => []MarkIsBacked
<1>1. Files!Init => MarkInv
  BY DEF Files!Init, MarkInv, Files!MarkIsBacked
<1>2. MarkInv /\ [Files!Next]_Files!vars => MarkInv'
  <2> SUFFICES ASSUME MarkInv, [Files!Next]_Files!vars PROVE MarkInv'
    OBVIOUS
  <2>1. CASE UNCHANGED Files!vars
    BY <2>1 DEF Files!vars, MarkInv, Files!MarkIsBacked, Files!Downloading
  <2>2. ASSUME NEW c \in Fetchers,
               Files!TooLarge(c) \/ Files!Found(c) \/ Files!Refused(c) \/ Files!Told(c) \/ Files!Marks(c)
        PROVE  MarkInv'
    BY <2>2 DEF Files!TooLarge, Files!Found, Files!Refused, Files!Told, Files!Marks, Files!Leaves,
                Files!Unmarked, MarkInv, Files!MarkIsBacked, Files!Downloading
  <2>3. ASSUME NEW c \in Fetchers, Files!Downloaded(c) \/ Files!Cancelled(c) PROVE MarkInv'
    BY <2>3 DEF Files!Downloaded, Files!Cancelled, Files!Leaves, Files!Unmarked, MarkInv, Files!MarkIsBacked
  <2>6. ASSUME NEW c \in Fetchers, Files!NextWay(c) PROVE MarkInv'
    BY <2>6 DEF Files!NextWay, MarkInv, Files!MarkIsBacked, Files!Downloading
  <2>7. ASSUME NEW c \in Fetchers, Files!AttemptFails(c) PROVE MarkInv'
    BY <2>7 DEF Files!AttemptFails, Files!Leaves, Files!Unmarked, MarkInv, Files!MarkIsBacked,
                Files!Downloading
  <2>4. CASE (\E r \in Listeners : Files!Rides(r) \/ Files!GivesUp(r)) \/ Files!Lands
    BY <2>4 DEF Files!Rides, Files!GivesUp, Files!Lands, Files!song_vars, MarkInv, Files!MarkIsBacked,
                Files!Downloading
  <2>5. CASE Files!Shutdown
    BY <2>5 DEF Files!Shutdown, MarkInv, Files!MarkIsBacked, Files!Downloading
  <2> QED BY <2>1, <2>2, <2>3, <2>4, <2>5, <2>6, <2>7 DEF Files!Next
<1>3. MarkInv => MarkIsBacked
  BY DEF MarkInv, MarkIsBacked
<1> QED BY <1>1, <1>2, <1>3, PTL DEF Files!Spec

-----------------------------------------------------------------------------
(* PlayMedia: the placeholder that holds the voice chat ahead of the source.    *)

Shaped(r) == DOMAIN r = {"at", "track", "first", "then", "got", "direct", "cached",
                         "tried", "retries", "floods"}

\* A placeholder is there only on the way of a first start to its direct stream.
EarlyInv ==
    /\ Shaped(turn)
    /\ EarlySettled
    /\ early => turn.first \/ turn.at = "escaped"

\* The phases that no placeholder outlasts.
Bare == Play!Phases \ {"resolving", "dispatching", "starting", "escaped"}

\* A step from such a phase brings no placeholder.
LEMMA BareKeeps ==
  ASSUME EarlyInv, turn.at \in Bare, early' => early, Shaped(turn)'
  PROVE  EarlyInv'
BY DEF EarlyInv, EarlySettled, Play!EarlySettled, Bare

\* A step that leaves the turn and the placeholder alone.
LEMMA MediaStays ==
  ASSUME EarlyInv, UNCHANGED Play!mediaVars
  PROVE  EarlyInv'
BY DEF EarlyInv, EarlySettled, Play!EarlySettled, Play!mediaVars, Shaped

\* The steps of the coroutine, and of what ends its turn or its stream.
LEMMA TurnKeeps ==
  ASSUME EarlyInv, Play!Turn \/ Play!JoinCut \/ Play!TrackEnds \/ Play!Fails \/ Play!Background
  PROVE  EarlyInv'
<1> USE DEF Shaped
<1>1. CASE Play!Prepare
  <2>1. turn.at \in Bare /\ (early' => early)
    BY <1>1 DEF Play!Prepare, Play!On, Bare, Play!Phases, Play!Settled, Play!Waits
  <2>2. Shaped(turn)'
    BY <1>1 DEF Play!Prepare, Play!Go, EarlyInv
  <2>3. QED  BY <2>1, <2>2, BareKeeps
<1>2. CASE Play!Join
  <2>1. turn.at \in Bare /\ (early' => early)
    BY <1>2 DEF Play!Join, Play!On, Bare, Play!Phases, Play!Settled, Play!Waits
  <2>2. Shaped(turn)'
    BY <1>2 DEF Play!Join, Play!Go, Play!Acquire, EarlyInv
  <2>3. QED  BY <2>1, <2>2, BareKeeps
<1>3. CASE Play!JoinEnds
  <2>1. turn.at \in Bare /\ (early' => early)
    BY <1>3 DEF Play!JoinEnds, Play!On, Bare, Play!Phases, Play!Settled, Play!Waits
  <2>2. Shaped(turn)'
    BY <1>3 DEF Play!JoinEnds, Play!Go, EarlyInv
  <2>3. QED  BY <2>1, <2>2, BareKeeps
<1>4. CASE Play!JoinCut
  <2>1. turn.at \in Bare /\ (early' => early)
    BY <1>4 DEF Play!JoinCut, Play!On, Bare, Play!Phases, Play!Settled, Play!Waits
  <2>2. Shaped(turn)'
    BY <1>4 DEF Play!JoinCut, Play!Go, EarlyInv
  <2>3. QED  BY <2>1, <2>2, BareKeeps
<1>5. CASE Play!Remotely
  <2>1. turn.at \in Bare /\ (early' => early)
    BY <1>5 DEF Play!Remotely, Play!On, Bare, Play!Phases, Play!Settled, Play!Waits, Play!Refused
  <2>2. Shaped(turn)'
    BY <1>5
       DEF Play!Remotely, Play!Go, Play!Loaded, Play!Ready, Play!Misses, Play!Refused,
           Play!Idle, EarlyInv
  <2>3. QED  BY <2>1, <2>2, BareKeeps
<1>6. CASE Play!Local
  <2>1. turn.at \in Bare /\ (early' => early)
    BY <1>6 DEF Play!Local, Play!On, Bare, Play!Phases, Play!Settled, Play!Waits
  <2>2. Shaped(turn)'
    BY <1>6 DEF Play!Local, Play!Go, Play!Ready, EarlyInv
  <2>3. QED  BY <2>1, <2>2, BareKeeps
<1>7. CASE Play!AwaitOwner
  <2>1. turn.at \in Bare /\ (early' => early)
    BY <1>7 DEF Play!AwaitOwner, Play!On, Bare, Play!Phases, Play!Settled, Play!Waits
  <2>2. Shaped(turn)'
    BY <1>7 DEF Play!AwaitOwner, Play!Go, EarlyInv
  <2>3. QED  BY <2>1, <2>2, BareKeeps
<1>8. CASE Play!Await
  <2>1. turn.at \in Bare /\ (early' => early)
    BY <1>8 DEF Play!Await, Play!On, Bare, Play!Phases, Play!Settled, Play!Waits
  <2>2. Shaped(turn)'
    BY <1>8 DEF Play!Await, Play!Go, EarlyInv
  <2>3. QED  BY <2>1, <2>2, BareKeeps
<1>9. CASE Play!Fetched
  <2>1. turn.at \in Bare /\ (early' => early)
    BY <1>9 DEF Play!Fetched, Play!On, Bare, Play!Phases, Play!Settled, Play!Waits
  <2>2. Shaped(turn)'
    BY <1>9 DEF Play!Fetched, EarlyInv
  <2>3. QED  BY <2>1, <2>2, BareKeeps
<1>10. CASE Play!Catalog
  <2>1. turn.at \in Bare /\ (early' => early)
    BY <1>10 DEF Play!Catalog, Play!On, Bare, Play!Phases, Play!Settled, Play!Waits
  <2>2. Shaped(turn)'
    BY <1>10 DEF Play!Catalog, Play!Go, Play!Ready, EarlyInv
  <2>3. QED  BY <2>1, <2>2, BareKeeps
<1>11. CASE Play!Late
  <2>1. turn.at \in Bare /\ (early' => early)
    BY <1>11 DEF Play!Late, Play!On, Bare, Play!Phases, Play!Settled, Play!Waits
  <2>2. Shaped(turn)'
    BY <1>11 DEF Play!Late, Play!Go, Play!Loaded, Play!Ready, Play!Misses, EarlyInv
  <2>3. QED  BY <2>1, <2>2, BareKeeps
<1>12. CASE Play!Shoot
  <2>1. turn.at \in Bare /\ (early' => early)
    BY <1>12 DEF Play!Shoot, Play!On, Bare, Play!Phases, Play!Settled, Play!Waits
  <2>2. Shaped(turn)'
    BY <1>12 DEF Play!Shoot, Play!Go, Play!Acquire, EarlyInv
  <2>3. QED  BY <2>1, <2>2, BareKeeps
<1>13. CASE Play!Substitute
  <2>1. turn.at \in Bare /\ (early' => early)
    BY <1>13 DEF Play!Substitute, Play!On, Bare, Play!Phases, Play!Settled, Play!Waits
  <2>2. Shaped(turn)'
    BY <1>13 DEF Play!Substitute, Play!Go, EarlyInv
  <2>3. QED  BY <2>1, <2>2, BareKeeps
<1>14. CASE Play!Attach
  <2>1. turn.at \in Bare /\ (early' => early)
    <3>1. turn.at = "attaching"
      BY <1>14 DEF Play!Attach, Play!On
    <3>2. UNCHANGED early \/ early' = FALSE
      BY <1>14, Zenon DEF Play!Attach, Play!Refused, Play!Stopped
    <3>3. QED  BY <3>1, <3>2 DEF Bare, Play!Phases, Play!Settled, Play!Waits
  <2>2. Shaped(turn)'
    BY <1>14
       DEF Play!Attach, Play!Go, Play!Refused, Play!Stopped, Play!Unreachable, Play!Swapped,
           Play!Retry, Play!NoAudio, Play!Misses, Play!Idle, EarlyInv
  <2>3. QED  BY <2>1, <2>2, BareKeeps
<1>15. CASE Play!Again
  <2>1. turn.at \in Bare /\ (early' => early)
    BY <1>15
       DEF Play!Again, Play!On, Bare, Play!Phases, Play!Settled, Play!Waits, Play!Refused,
           Play!Stopped
  <2>2. Shaped(turn)'
    BY <1>15 DEF Play!Again, Play!Go, Play!Refused, Play!Stopped, Play!Idle, EarlyInv
  <2>3. QED  BY <2>1, <2>2, BareKeeps
<1>16. CASE Play!FailOwner
  <2>1. turn.at \in Bare /\ (early' => early)
    BY <1>16 DEF Play!FailOwner, Play!On, Bare, Play!Phases, Play!Settled, Play!Waits
  <2>2. Shaped(turn)'
    BY <1>16 DEF Play!FailOwner, Play!Go, EarlyInv
  <2>3. QED  BY <2>1, <2>2, BareKeeps
<1>17. CASE Play!FailOver
  <2>1. turn.at \in Bare /\ (early' => early)
    BY <1>17 DEF Play!FailOver, Play!On, Bare, Play!Phases, Play!Settled, Play!Waits
  <2>2. Shaped(turn)'
    BY <1>17 DEF Play!FailOver, Play!Go, Play!Ready, EarlyInv
  <2>3. QED  BY <2>1, <2>2, BareKeeps
<1>18. CASE Play!GivesUp
  <2>1. turn.at \in Bare /\ (early' => early)
    BY <1>18 DEF Play!GivesUp, Play!On, Bare, Play!Phases, Play!Settled, Play!Waits
  <2>2. Shaped(turn)'
    BY <1>18 DEF Play!GivesUp, Play!Go, EarlyInv
  <2>3. QED  BY <2>1, <2>2, BareKeeps
<1>19. CASE Play!Advance
  <2>1. turn.at \in Bare /\ (early' => early)
    BY <1>19 DEF Play!Advance, Play!On, Bare, Play!Phases, Play!Settled, Play!Waits, Play!Begin
  <2>2. Shaped(turn)'
    BY <1>19 DEF Play!Advance, Play!Begin, Play!Idle, EarlyInv
  <2>3. QED  BY <2>1, <2>2, BareKeeps
<1>20. CASE Play!TrackEnds
  <2>1. turn.at \in Bare /\ (early' => early)
    BY <1>20 DEF Play!TrackEnds, Play!On, Bare, Play!Phases, Play!Settled, Play!Waits
  <2>2. Shaped(turn)'
    BY <1>20 DEF Play!TrackEnds, Play!Go, EarlyInv
  <2>3. QED  BY <2>1, <2>2, BareKeeps
<1>21. CASE Play!Fails
  <2>1. turn.at \in Bare /\ (early' => early)
    BY <1>21 DEF Play!Fails, Play!On, Bare, Play!Phases, Play!Settled, Play!Waits
  <2>2. Shaped(turn)'
    BY <1>21 DEF Play!Fails, Play!Go, EarlyInv
  <2>3. QED  BY <2>1, <2>2, BareKeeps
<1>22. CASE Play!Background
  <2>1. turn.at \in Bare /\ (early' => early)
    BY <1>22 DEF Play!Background, Play!On, Bare, Play!Phases, Play!Settled, Play!Waits
  <2>2. Shaped(turn)'
    BY <1>22 DEF Play!Background, EarlyInv
  <2>3. QED  BY <2>1, <2>2, BareKeeps
<1>23. CASE Play!Enter
  <2>1. ~early /\ turn.at = "entering"
    BY <1>23 DEF Play!Enter, Play!On, EarlyInv, EarlySettled, Play!EarlySettled
  <2>2. Shaped(turn)'
    BY <1>23 DEF Play!Enter, Play!Go, Play!Ready, Play!Refused, Play!Idle, EarlyInv
  <2>3. early' => turn'.at = "resolving" /\ turn'.first
    BY <1>23, <2>1 DEF Play!Enter, Play!Go, Play!Refused, EarlyInv
  <2>4. QED  BY <2>2, <2>3 DEF EarlyInv, EarlySettled, Play!EarlySettled
<1>24. CASE Play!Resolve
  <2>1. Shaped(turn)'
    BY <1>24 DEF Play!Resolve, Play!Go, EarlyInv
  <2>2. early' => turn'.at \in {"dispatching", "escaped"} /\ turn'.first
    BY <1>24 DEF Play!Resolve, Play!Go, Play!On, Play!CloseEarly, EarlyInv
  <2>3. QED  BY <2>1, <2>2 DEF EarlyInv, EarlySettled, Play!EarlySettled
<1>25. CASE Play!Dispatch
  <2>1. Shaped(turn)'
    BY <1>25 DEF Play!Dispatch, Play!Go, Play!Refused, Play!Idle, EarlyInv
  <2>2. early' => turn'.at = "starting" /\ turn'.first
    BY <1>25 DEF Play!Dispatch, Play!Go, Play!On, Play!Refused, EarlyInv
  <2>3. QED  BY <2>1, <2>2 DEF EarlyInv, EarlySettled, Play!EarlySettled
<1>26. CASE Play!Start
  BY <1>26 DEF Play!Start, Play!Go, EarlyInv, EarlySettled, Play!EarlySettled
<1>27. QED
  BY <1>1, <1>2, <1>3, <1>4, <1>5, <1>6, <1>7, <1>8, <1>9, <1>10, <1>11, <1>12, <1>13, <1>14,
     <1>15, <1>16, <1>17, <1>18, <1>19, <1>20, <1>21, <1>22, <1>23, <1>24, <1>25, <1>26
     DEF Play!Turn

\* The commands, the tasks and the end of a download.
LEMMA NextTurnKeeps ==
  ASSUME EarlyInv, [Play!Next]_Play!vars
  PROVE  EarlyInv'
<1>1. CASE Play!Runs
  BY <1>1, TurnKeeps DEF Play!Runs
<1>2. ASSUME NEW j \in Jobs, Play!RunJob(j) PROVE EarlyInv'
  BY <1>2, MediaStays DEF Play!RunJob
<1>3. CASE Play!JoinCut \/ Play!TrackEnds \/ Play!Fails \/ Play!Background
  BY <1>3, TurnKeeps
<1>4. CASE Play!WarmNext
  BY <1>4, MediaStays DEF Play!WarmNext
<1>5. ASSUME NEW t \in Tracks, Play!Ask(t) PROVE EarlyInv'
  <2>1. CASE turn.at = "idle"
    <3>1. early' = early /\ turn.at \in Bare
      BY <1>5, <2>1 DEF Play!Ask, Play!On, Play!Begin, Bare, Play!Phases, Play!Settled
    <3>2. Shaped(turn)'
      BY <1>5, <2>1 DEF Play!Ask, Play!On, Play!Begin, Play!Idle, Shaped
    <3>3. QED  BY <3>1, <3>2, BareKeeps
  <2>2. CASE turn.at # "idle"
    BY <1>5, <2>2, MediaStays DEF Play!Ask, Play!On
  <2>3. QED  BY <2>1, <2>2
<1>6. ASSUME NEW t \in Tracks, Play!Warm(t) PROVE EarlyInv'
  BY <1>6, MediaStays DEF Play!Warm
<1>7. ASSUME NEW t \in Tracks, Play!Force(t) PROVE EarlyInv'
  <2>1. turn.at \in Bare /\ early' = early
    BY <1>7 DEF Play!Force, Play!On, Play!Begin, Bare, Play!Phases, Play!Settled
  <2>2. Shaped(turn)'
    BY <1>7 DEF Play!Force, Play!Begin, Play!Idle, Shaped
  <2>3. QED  BY <2>1, <2>2, BareKeeps
<1>8. ASSUME NEW t \in Tracks, Play!Forget(t), UNCHANGED Play!mediaVars PROVE EarlyInv'
  BY <1>8, MediaStays
<1>9. ASSUME NEW m \in Clips, NEW got \in BOOLEAN, Play!Resume(m, got) PROVE EarlyInv'
  <2>1. CASE turn.at = "fetching"
    <3>1. turn.at \in Bare /\ early' = early
      BY <1>9, <2>1 DEF Play!Resume, Bare, Play!Phases, Play!Settled, Play!Waits
    <3>2. Shaped(turn)'
      BY <1>9 DEF Play!Resume, EarlyInv, Shaped
    <3>3. QED  BY <3>1, <3>2, BareKeeps
  <2>2. CASE turn.at # "fetching"
    BY <1>9, <2>2, MediaStays DEF Play!Resume, Play!On, Play!mediaVars
  <2>3. QED  BY <2>1, <2>2
<1>10. CASE UNCHANGED Play!vars
  BY <1>10, MediaStays DEF Play!vars, Play!mediaVars
<1>11. QED
  BY <1>1, <1>2, <1>3, <1>4, <1>5, <1>6, <1>7, <1>8, <1>9, <1>10 DEF Play!Next

\* No turn that ends leaves a silent placeholder in the voice chat, whatever the
\* tracks are, however the bot is configured and whatever fails: of the ways out
\* of play_media only an exception goes past the code that takes it down.
THEOREM EarlySettledHolds == Play!Spec => []EarlySettled
<1>1. Play!Init => EarlyInv
  BY DEF Play!Init, EarlyInv, Shaped, Play!Idle, EarlySettled, Play!EarlySettled
<1>2. EarlyInv /\ [Play!Next]_Play!vars => EarlyInv'
  BY NextTurnKeeps
<1>3. EarlyInv => EarlySettled
  BY DEF EarlyInv
<1>4. QED  BY <1>1, <1>2, <1>3, PTL DEF Play!Spec

-----------------------------------------------------------------------------
(* The sum.                                                                    *)

\* A step of the sum is a step of one machine and a stutter of the others.
LEMMA StepOfOne ==
  [AllNext]_allVars
    => /\ [Next]_vars /\ [Card!Next]_Card!vars /\ [Message!Next]_Message!vars
       /\ [Replies!Next]_Replies!vars /\ [Social!Next]_Social!vars /\ [Files!Next]_Files!vars
       /\ [Play!Next]_Play!vars
<1>1. (UNCHANGED card => UNCHANGED Card!vars) /\ (UNCHANGED message => UNCHANGED Message!vars)
  BY DEF card, Card!vars, message, Message!vars, Message!call
<1>2. (UNCHANGED replies => UNCHANGED Replies!vars) /\ (UNCHANGED social => UNCHANGED Social!vars)
  BY DEF replies, Replies!vars, social, Social!vars
<1>3. UNCHANGED telegram => UNCHANGED Files!vars
  BY DEF telegram, Files!vars
<1>4. UNCHANGED track => UNCHANGED Play!vars
  BY DEF track, Play!vars, Play!prefetchVars, Play!queueVars, Play!trackVars, Play!fileVars,
         Play!jobVars
<1>5. [AllNext]_allVars =>
        /\ Next \/ UNCHANGED vars
        /\ Card!Next \/ UNCHANGED card
        /\ Message!Next \/ UNCHANGED message
        /\ Replies!Next \/ UNCHANGED replies
        /\ Social!Next \/ UNCHANGED social
        /\ Files!Next \/ UNCHANGED telegram
        /\ Play!Next \/ UNCHANGED track
  BY DEF AllNext, allVars
<1> QED BY <1>1, <1>2, <1>3, <1>4, <1>5

\* The machines that TLC runs side by side have, for every value of their
\* constants, what the theorems above say of each by itself.
THEOREM MachinesHold ==
  AllSpec => /\ []OneOwner /\ LockKept /\ FinalWriter /\ LimitIsFinal
             /\ []ConfirmedTwice /\ []OneWriter /\ []MarkIsBacked
             /\ []EarlySettled
<1>1. AllInit => /\ Init /\ Card!Init /\ Message!Init
                 /\ Replies!Init /\ Social!Init /\ Files!Init /\ Play!Init
  BY DEF AllInit
<1>2. [AllNext]_allVars
        => /\ [Next]_vars /\ [Card!Next]_Card!vars /\ [Message!Next]_Message!vars
           /\ [Replies!Next]_Replies!vars /\ [Social!Next]_Social!vars /\ [Files!Next]_Files!vars
           /\ [Play!Next]_Play!vars
  BY StepOfOne
<1>3. AllSpec => /\ Spec /\ Card!Spec /\ Message!Spec /\ Replies!Spec /\ Social!Spec
                 /\ Files!Spec /\ Play!Spec
  BY <1>1, <1>2, PTL DEF AllSpec, Spec, Card!Spec, Message!Spec, Replies!Spec, Social!Spec,
                         Files!Spec, Play!Spec
<1> QED BY <1>3, OneOwnerHolds, LockKeptHolds, FinalWriterHolds, LimitIsFinalHolds,
           ConfirmedTwiceHolds, OneWriterHolds, MarkIsBackedHolds, EarlySettledHolds
=============================================================================
