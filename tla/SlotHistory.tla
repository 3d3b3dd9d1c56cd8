---------------------------- MODULE SlotHistory -----------------------------
(* StreamSlots with a history variable: the chats that were left on behalf of   *)
(* somebody else after a start had taken their slot.  stop() unregisters a chat *)
(* before it awaits leave_call, and the rollback and the reset of a start leave *)
(* the voice chat of the chat id, so that each can throw out a later start that *)
(* took the slot in between.  The variable is auxiliary: it prevents no step.   *)
EXTENDS StreamSlots

VARIABLE ousted   \* the chats whose slot is taken and whose voice chat another left

historyVars == <<vars, ousted>>

HistoryInit == Init /\ ousted = {}

\* The start that holds the slot of c takes this step.
OwnStep(c) == \E r \in Requests : holder[c] = r /\ req'[r] # req[r]

Recorded ==
    ousted' = {c \in Chats : /\ holder'[c] # Nobody
                             /\ c \notin playing'
                             /\ c \in ousted \/ (c \in playing /\ ~OwnStep(c))}

HistoryNext == Next /\ Recorded

HistorySpec     == HistoryInit /\ [][HistoryNext]_historyVars
FairHistorySpec == HistorySpec /\ Fairness

-----------------------------------------------------------------------------
\* A preconnect that a search gave up after its connection was tried again holds
\* the slot: the rollback knows the first reservation only.
GivenUpAgain(c) == \E r \in Requests : holder[c] = r /\ At(r, {"over"}) /\ req[r].own

\* A start that fails leaks no capacity, in whatever order starts, failures, retries,
\* rollbacks and stops overtake each other: once nothing starts or stops in a chat,
\* its slot is taken only if its assistant is in the voice chat.  Left out are the
\* two leaks of the code: the retry above, and a start that somebody else threw out
\* of its voice chat.
NoLeak ==
    \A c \in Active : c \in playing \/ Busy(c) \/ c \in ousted \/ GivenUpAgain(c)
=============================================================================
