----------------------------- MODULE LaneHistory -----------------------------
(* CapacityLanes with a history variable: how many tasks were ever cancelled  *)
(* while they waited in the deque of a lane.  acquire() takes a cancelled     *)
(* future for an admission, so each of them may later run beside the permits  *)
(* that the lane has counted.  The variable is auxiliary: a step of Next is   *)
(* counted, never prevented, but for the bound.                               *)
EXTENDS CapacityLanes

CONSTANT MaxCancels   \* bound: tasks cancelled in the deques of one lane

VARIABLE strays       \* how many were cancelled in the deques of each lane

historyVars == <<vars, strays>>

HistoryInit == Init /\ strays = [l \in Lanes |-> 0]

HistoryNext ==
  \/ Undisturbed /\ UNCHANGED strays
  \/ \E t \in Tasks : /\ Cancel(t) /\ strays[waiter[t].lane] < MaxCancels
                       /\ strays' = [strays EXCEPT ![waiter[t].lane] = @ + 1]

HistorySpec == HistoryInit /\ [][HistoryNext]_historyVars

-----------------------------------------------------------------------------
\* LaneState.active counts the tasks that hold a dynamic permit of the lane: it
\* is never above their number, so that no permit is lost by any interleaving of
\* acquire, wake, promote, degrade and release, and below it by no more than the
\* tasks that were cancelled in the lane's deques.
PermitAccounting ==
  \A l \in Lanes : /\ active[l] <= Cardinality(Holders(l))
                   /\ Cardinality(Holders(l)) <= active[l] + strays[l]

\* "Bounded always": however admissions, plans, promotions and releases overtake
\* each other, no more tasks run under a lane's dynamic permits than its hard
\* ceiling, and one for each waiter that was cancelled.
BoundedAlways == \A l \in Lanes : Cardinality(Holders(l)) <= Ceiling[l] + strays[l]

\* Also after a degrade, when old dynamic holders and new holders of the plain
\* semaphore coexist, a lane runs at most its ceiling plus its fixed limit, and
\* one for each waiter that was cancelled.
BoundedAfterDegrade ==
  \A l \in Lanes : Cardinality(Holders(l)) + Cardinality(FixedHolders(l))
                     <= Ceiling[l] + Fixed[l] + strays[l]

\* The ceiling as the comment states it, whoever is cancelled.
HardCeiling == \A l \in Lanes : Cardinality(Holders(l)) <= Ceiling[l]
=============================================================================
