---------------------------- MODULE StreamSlots -----------------------------
(* The voice-chat stream slots of resource_manager.py and the starts that      *)
(* reserve and release them (core/calls.py): the preconnect of a /play that    *)
(* joins the voice chat before its search ends, the start from a ready source, *)
(* the restart of a live chat, the fallback after a failed start, the retries  *)
(* that plugins/startup_fastpath.py and plugins/zz_sub3_tail_recovery.py wrap  *)
(* around a start, the rollback of an unused preconnect, and stop().  The      *)
(* coroutines share one event loop: a step ends at the await of Telegram, of   *)
(* the native call, of the search or of a lock.                                *)
EXTENDS Integers, FiniteSets

CONSTANTS Chats,
          Requests,      \* the starts of a behaviour, each used once
          Nobody,        \* not a request: the slot is free
          Capacity,      \* the capacity of the streams lane
          MaxTries,      \* the bound on the retries of a lost connection
          MaxStops,      \* bound: no /stop once a chat was stopped so often
          MayAsk,        \* for each request, the chats whose /play it may be
          MayRollBack    \* BOOLEAN: the search of a preconnected request fails

ASSUME SlotsAssumption ==
    /\ Chats # {}
    /\ Nobody \notin Requests
    /\ Capacity \in Nat \ {0}
    /\ MaxTries \in Nat
    /\ MaxStops \in Nat
    /\ MayAsk \in [Requests -> SUBSET Chats]
    /\ MayRollBack \in BOOLEAN

VARIABLES req,       \* what each request is and how far it is
          holder,    \* for each chat, the request whose reservation took its slot
          playing,   \* the chats whose assistant is in the voice chat
          called,    \* db.active_calls
          stopped,   \* _stopped_chats
          stopping,  \* the chats whose stop() awaits leave_call
          stops      \* how often each chat was stopped; stop() drops the chat's
                     \* locks, so the count names the lock object in use

vars == <<req, holder, playing, called, stopped, stopping, stops>>

Modes    == {"early", "plain", "restart"}
InPlay   == {"connecting", "joined", "unmuting", "leaving", "lost", "unbinding"}
Ended    == {"attached", "failed"}
Phases   == {"idle", "asking", "locked", "over"} \cup InPlay \cup Ended
Overlaps == {"done", "running", "cancelled"}
Blank    == [at |-> "idle", chat |-> CHOOSE c \in Chats : TRUE, mode |-> "plain",
             lock |-> 0, lead |-> FALSE, own |-> FALSE, tries |-> 0,
             overlap |-> "done", adopted |-> FALSE, doomed |-> FALSE]
Over     == [Blank EXCEPT !.at = "over"]   \* its locals are gone

At(r, phases) == req[r].at \in phases
Submitted(r)  == At(r, InPlay \cup Ended)
InFlight(r)   == At(r, {"locked"}) \/ Submitted(r)
ChatOf(r)     == req[r].chat
Early(r)      == req[r].mode = "early"
Cut(r)        == req[r].adopted /\ req[r].doomed   \* its monitor is cancelled
Active        == {c \in Chats : holder[c] # Nobody}

Init ==
    /\ req = [r \in Requests |-> Blank]
    /\ holder = [c \in Chats |-> Nobody]
    /\ playing = {}
    /\ called = {}
    /\ stopped = {}
    /\ stopping = {}
    /\ stops = [c \in Chats |-> 0]

-----------------------------------------------------------------------------
(* Reservations.  A reservation is admitted for a chat that has a slot, or     *)
(* while one is free; it is "created" when it took the slot.                   *)

Admits(c) == c \in Active \/ Cardinality(Active) < Capacity

Creates(c)  == c \notin Active
Taken(c, r) == IF c \notin Active THEN [holder EXCEPT ![c] = r] ELSE holder

\* unregister_stream frees the slot of the chat, whoever took it.
Freed(c) == [holder EXCEPT ![c] = Nobody]

\* StreamReservation.release of a reservation that did or did not create.
Released(c, created) == IF created THEN Freed(c) ELSE holder

\* A play call uses the reservation made before it, or one of its own: a retry
\* passes no reservation on.
UsesLead(r) == Early(r) /\ req[r].tries = 0
Current(r)  == IF UsesLead(r) THEN req[r].lead ELSE req[r].own
Spent(r)    == IF UsesLead(r) THEN [req[r] EXCEPT !.lead = FALSE]
                              ELSE [req[r] EXCEPT !.own = FALSE]

\* The play call of r drops its overlapping unmute attempt, releases its
\* reservation and goes on to a phase.
ReleaseTo(r, phase) ==
    /\ holder' = Released(ChatOf(r), Current(r))
    /\ req' = [req EXCEPT ![r] = IF phase = "over" THEN Over
                                 ELSE [Spent(r) EXCEPT !.at = phase, !.overlap = "done"]]

\* leave_call of a chat.  An error of it is swallowed: the assistant stays.
Leave(c) == playing' \in {playing, playing \ {c}}

-----------------------------------------------------------------------------
(* Beginning.                                                                  *)

HoldsLock(r) == InFlight(r) /\ req[r].mode # "restart" /\ ~req[r].adopted

\* Mutant: every request takes a lock of its own.
LockIgnored(r) == TRUE

LockFree(r)  == ~ \E q \in Requests :
                     HoldsLock(q) /\ ChatOf(q) = ChatOf(r) /\ req[q].lock = req[r].lock

\* A /play command of a chat asks for the lock of the chat's initial play.
Ask(r) ==
    /\ At(r, {"idle"})
    /\ \E c \in MayAsk[r], m \in {"early", "plain"} :
          req' = [req EXCEPT ![r] = [Blank EXCEPT !.at = "asking", !.chat = c,
                                                  !.mode = m, !.lock = stops[c]]]
    /\ UNCHANGED <<holder, playing, called, stopped, stopping, stops>>

\* It gets the lock; if the chat plays by now, its track is queued.
Lock(r) ==
    /\ At(r, {"asking"})
    /\ LockFree(r)
    /\ req' = [req EXCEPT ![r] = IF ChatOf(r) \in called THEN Over
                                                     ELSE [@ EXCEPT !.at = "locked"]]
    /\ UNCHANGED <<holder, playing, called, stopped, stopping, stops>>

\* No slot: StreamCapacityError, and nothing was started.
Refused(r) ==
    /\ At(r, {"locked"})
    /\ ~Admits(ChatOf(r))
    /\ req' = [req EXCEPT ![r] = Over]
    /\ UNCHANGED <<holder, playing, called, stopped, stopping, stops>>

\* The slot is reserved and client.play submitted.  A preconnect reserves ahead
\* of the play call and may unmute the assistant while it connects, when the
\* voice chat is in the cache.
Begin(r) ==
    /\ At(r, {"locked"})
    /\ Admits(ChatOf(r))
    /\ holder' = Taken(ChatOf(r), r)
    /\ \E o \in IF Early(r) THEN {"done", "running"} ELSE {"done"} :
          req' = [req EXCEPT ![r] =
              [@ EXCEPT !.at = "connecting", !.overlap = o,
                        !.lead = Early(r) /\ Creates(ChatOf(r)),
                        !.own = ~Early(r) /\ Creates(ChatOf(r))]]
    /\ UNCHANGED <<playing, called, stopped, stopping, stops>>

\* The next track of a live chat, /skip, or a change of source.
Restart(r) ==
    /\ At(r, {"idle"})
    /\ \E c \in playing \cap called :
          /\ \A q \in Requests : InFlight(q) => ChatOf(q) # c
          /\ Admits(c)
          /\ holder' = Taken(c, r)
          /\ req' = [req EXCEPT ![r] =
                [Blank EXCEPT !.at = "connecting", !.chat = c, !.mode = "restart",
                              !.own = Creates(c)]]
    /\ UNCHANGED <<playing, called, stopped, stopping, stops>>

-----------------------------------------------------------------------------
(* The play call.                                                              *)

\* client.play returned: the assistant is in the voice chat.
Joins(r) ==
    /\ At(r, {"connecting"})
    /\ playing' = playing \cup {ChatOf(r)}
    /\ IF Early(r)
       THEN /\ req' = [req EXCEPT ![r].at = "joined"]
            /\ UNCHANGED <<called, stopped>>
       ELSE /\ req' = [req EXCEPT ![r] = Over]
            /\ called' = called \cup {ChatOf(r)}
            /\ stopped' = stopped \ {ChatOf(r)}
    /\ UNCHANGED <<holder, stopping, stops>>

\* client.play raised, or the first frame was not accepted after it returned.
Raises(r) ==
    /\ At(r, {"connecting", "joined"})
    /\ ReleaseTo(r, "failed")
    /\ UNCHANGED <<playing, called, stopped, stopping, stops>>

Activates(r) ==
    /\ At(r, {"joined"})
    /\ req' = [req EXCEPT ![r].at = "unmuting"]
    /\ UNCHANGED <<holder, playing, called, stopped, stopping, stops>>

\* The assistant is audible; the overlapping attempt or the one after it did it.
Unmutes(r) ==
    /\ At(r, {"unmuting"})
    /\ req[r].overlap # "cancelled"
    /\ req' = [req EXCEPT ![r] = IF @.adopted THEN Over
                                 ELSE [@ EXCEPT !.overlap = "done", !.at = "attached"]]
    /\ UNCHANGED <<holder, playing, called, stopped, stopping, stops>>

\* FloodWait from the overlapping attempt releases the slot ...
FloodsEarly(r) ==
    /\ At(r, {"unmuting"})
    /\ req[r].overlap = "running"
    /\ ReleaseTo(r, "failed")
    /\ UNCHANGED <<playing, called, stopped, stopping, stops>>

\* ... FloodWait from the attempt after it does not,
FloodsLate(r) ==
    /\ At(r, {"unmuting"})
    /\ req[r].overlap # "cancelled"
    /\ req' = [req EXCEPT ![r] = [@ EXCEPT !.at = "failed", !.overlap = "done"]]
    /\ UNCHANGED <<holder, playing, called, stopped, stopping, stops>>

\* and neither does CancelledError: the start ends without any fallback.
Cancelled(r) ==
    /\ At(r, {"unmuting"})
    /\ req[r].overlap = "cancelled"
    /\ req' = [req EXCEPT ![r] = IF @.adopted THEN Over ELSE [@ EXCEPT !.at = "failed"]]
    /\ UNCHANGED <<holder, playing, called, stopped, stopping, stops>>

\* The administrators keep the assistant muted: leave, then release.
StaysMuted(r) ==
    /\ At(r, {"unmuting"})
    /\ req[r].overlap # "cancelled"
    /\ req' = [req EXCEPT ![r] = [@ EXCEPT !.at = "leaving", !.overlap = "done"]]
    /\ UNCHANGED <<holder, playing, called, stopped, stopping, stops>>

Leaves(r) ==
    /\ At(r, {"leaving"})
    /\ Leave(ChatOf(r))
    /\ ReleaseTo(r, "failed")
    /\ UNCHANGED <<called, stopped, stopping, stops>>

-----------------------------------------------------------------------------
(* Retries of a preconnect that lost its connection.                           *)

\* ConnectionNotFound or ConnectionError: the play call releases its
\* reservation and the wrappers around it may try again.
LosesConnection(r) ==
    /\ At(r, {"connecting", "joined"})
    /\ Early(r)
    /\ req[r].tries < MaxTries
    /\ ReleaseTo(r, "lost")
    /\ UNCHANGED <<playing, called, stopped, stopping, stops>>

\* Every second failure resets the binding first: it leaves the call ...
ResetLeaves(r) ==
    /\ At(r, {"lost"})
    /\ req[r].tries % 2 = 0
    /\ Leave(ChatOf(r))
    /\ req' = [req EXCEPT ![r].at = "unbinding"]
    /\ UNCHANGED <<holder, called, stopped, stopping, stops>>

\* The play call again, with a reservation of its own over a given table.
Again(r, table, admitted) ==
    LET c == ChatOf(r) IN
    \E o \in {"done", "running"} :
       /\ holder' = IF admitted /\ table[c] = Nobody
                    THEN [table EXCEPT ![c] = r] ELSE table
       /\ req' = [req EXCEPT ![r] =
            [@ EXCEPT !.tries = req[r].tries + 1, !.overlap = o,
                      !.own = admitted /\ table[c] = Nobody,
                      !.at = IF admitted THEN "connecting" ELSE "failed"]]

\* ... and unregisters the chat.
ResetRetries(r) ==
    /\ At(r, {"unbinding"})
    /\ Again(r, Freed(ChatOf(r)), Cardinality(Active \ {ChatOf(r)}) < Capacity)
    /\ UNCHANGED <<playing, called, stopped, stopping, stops>>

\* The other failures only wait for the binding to settle.
SettleRetries(r) ==
    /\ At(r, {"lost"})
    /\ req[r].tries % 2 = 1
    /\ Again(r, holder, Admits(ChatOf(r)))
    /\ UNCHANGED <<playing, called, stopped, stopping, stops>>

-----------------------------------------------------------------------------
(* After the search.                                                           *)

\* The search found the track: play_media adopts the preconnect, marks playback
\* started, detaches the monitor of the start and gives the lock back.
Adopts(r) ==
    /\ Submitted(r)
    /\ Early(r)
    /\ ~req[r].adopted
    /\ ~req[r].doomed
    /\ req' = [req EXCEPT ![r] = IF @.at = "attached" THEN Over
                                 ELSE [@ EXCEPT !.adopted = TRUE, !.lock = 0]]
    /\ called' = called \cup {ChatOf(r)}
    /\ stopped' = stopped \ {ChatOf(r)}
    /\ UNCHANGED <<holder, playing, stopping, stops>>

\* Mutant: the rollback leaves the call and keeps the slot.
RollsBackHolding(r) ==
    /\ MayRollBack \/ req[r].doomed
    /\ Submitted(r)
    /\ Early(r)
    /\ ~req[r].adopted
    /\ req' = [req EXCEPT ![r] = Over]
    /\ Leave(ChatOf(r))
    /\ UNCHANGED <<holder, called, stopped, stopping, stops>>

\* It found nothing, or the source was closed: the play call is cancelled, the
\* call left and the first reservation released.  A play call cancelled while it
\* joins or activates releases the reservation it uses; one cancelled later does
\* not.
RollsBack(r) ==
    /\ MayRollBack \/ req[r].doomed
    /\ Submitted(r)
    /\ Early(r)
    /\ ~req[r].adopted
    /\ LET c       == ChatOf(r)
           inPlay  == At(r, {"connecting", "joined"}) /\ req[r].own /\ ~UsesLead(r)
       IN /\ holder' = Released(c, req[r].lead \/ inPlay)
          /\ req' = [req EXCEPT ![r] = [Over EXCEPT !.own = req[r].own /\ ~inPlay]]
          /\ Leave(c)
    /\ UNCHANGED <<called, stopped, stopping, stops>>

\* The start that failed is tried from another source, unmuted already.
FallsBack(r) ==
    /\ At(r, {"failed"})
    /\ Early(r)
    /\ req[r].adopted
    /\ LET c == ChatOf(r) IN
          /\ holder' = IF Admits(c) THEN Taken(c, r) ELSE holder
          /\ req' = [req EXCEPT ![r] =
                IF Admits(c)
                THEN [@ EXCEPT !.mode = "restart", !.own = Creates(c), !.at = "connecting"]
                ELSE Over]
    /\ UNCHANGED <<playing, called, stopped, stopping, stops>>

-----------------------------------------------------------------------------
(* stop().                                                                     *)

\* Local cleanup: the call record goes, the chat is unregistered, its locks are
\* dropped, the monitors of its adopted starts cancelled, the source of a
\* connected preconnect closed (closing waits for a play call under way), and
\* the unmute attempts of every chat cancelled.  A chat that was left already is
\* not left again.
CleanedUp(c, r) ==
    [req[r] EXCEPT
        !.doomed  = @ \/ (ChatOf(r) = c /\ Submitted(r)
                           /\ (req[r].adopted \/ At(r, {"attached"}))),
        !.overlap = IF @ = "running" /\ Submitted(r) THEN "cancelled" ELSE @]

Cleanup(c, requests) ==
    /\ c \notin stopping
    /\ holder' = Freed(c)
    /\ called' = called \ {c}
    /\ stopping' = IF c \in stopped THEN stopping ELSE stopping \cup {c}
    /\ stops' = [stops EXCEPT ![c] = @ + 1]
    /\ req' = requests

Stop(c) ==
    /\ \A d \in Chats : stops[d] < MaxStops
    /\ c \in called \/ \E r \in Requests : InFlight(r) /\ ChatOf(r) = c
    /\ Cleanup(c, [r \in Requests |-> CleanedUp(c, r)])
    /\ UNCHANGED <<playing, stopped>>

\* Mutant: a plain start that failed keeps waiting.
GivesUpDetached(r) ==
    /\ At(r, {"failed"})
    /\ req[r].mode = "restart" \/ req[r].adopted
    /\ Cleanup(ChatOf(r),
               [q \in Requests |-> IF q = r THEN Over ELSE CleanedUp(ChatOf(r), q)])
    /\ UNCHANGED <<playing, stopped>>

\* A start with no source left to try: play_next finds the queue empty.
GivesUp(r) ==
    /\ At(r, {"failed"})
    /\ ~Early(r) \/ req[r].adopted
    /\ Cleanup(ChatOf(r),
               [q \in Requests |-> IF q = r THEN Over ELSE CleanedUp(ChatOf(r), q)])
    /\ UNCHANGED <<playing, stopped>>

\* leave_call returned, or failed for good: the next stop tries it again.
Left(c) ==
    /\ c \in stopping
    /\ stopping' = stopping \ {c}
    /\ \/ playing' = playing \ {c} /\ stopped' = stopped \cup {c}
       \/ UNCHANGED <<playing, stopped>>
    /\ UNCHANGED <<req, holder, called, stops>>

\* A cancelled monitor cancels the play call it awaits: the start goes no further.
Doomed(r) ==
    /\ Submitted(r)
    /\ Cut(r)
    /\ IF At(r, {"connecting", "joined"})
       THEN ReleaseTo(r, "over")
       ELSE /\ req' = [req EXCEPT ![r] = Over]
            /\ UNCHANGED holder
    /\ UNCHANGED <<playing, called, stopped, stopping, stops>>

-----------------------------------------------------------------------------
StartStep(r) ==
    \/ Refused(r) \/ Begin(r) \/ Joins(r) \/ Raises(r) \/ Activates(r) \/ Unmutes(r)
    \/ FloodsEarly(r) \/ FloodsLate(r) \/ Cancelled(r) \/ StaysMuted(r) \/ Leaves(r)
    \/ LosesConnection(r) \/ ResetLeaves(r) \/ ResetRetries(r) \/ SettleRetries(r)
    \/ FallsBack(r) \/ GivesUp(r)

PlayStep(r) == IF Cut(r) THEN Doomed(r) ELSE StartStep(r)

SearchStep(r) == Adopts(r) \/ RollsBack(r)

Next ==
    \/ \E r \in Requests :
          Ask(r) \/ Restart(r) \/ Lock(r) \/ PlayStep(r) \/ SearchStep(r)
    \/ \E c \in Chats : Stop(c) \/ Left(c)

Spec == Init /\ [][Next]_vars

\* Telegram and the native call answer every await, searches end, and a waiter
\* gets the lock of its chat in turn.
Fairness ==
    /\ \A r \in Requests :
          WF_vars(PlayStep(r)) /\ WF_vars(SearchStep(r)) /\ SF_vars(Lock(r))
    /\ \A c \in Chats : WF_vars(Left(c))

FairSpec == Spec /\ Fairness
-----------------------------------------------------------------------------
\* The types of the variables: every request is a well-formed record, and the
\* resource manager's table holds requests.
TypeOK ==
    /\ req \in [Requests -> [at : Phases, chat : Chats, mode : Modes, lock : Nat,
                             lead : BOOLEAN, own : BOOLEAN, tries : 0 .. MaxTries,
                             overlap : Overlaps, adopted : BOOLEAN, doomed : BOOLEAN]]
    /\ holder \in [Chats -> Requests \cup {Nobody}]
    /\ playing \subseteq Chats
    /\ called \subseteq Chats
    /\ stopped \subseteq Chats
    /\ stopping \subseteq Chats
    /\ stops \in [Chats -> Nat]

Busy(c) == c \in stopping \/ \E r \in Requests : InFlight(r) /\ ChatOf(r) = c

\* A start that fails leaks no capacity: once nothing starts or stops in a chat, its
\* slot is taken only if its assistant is in the voice chat.
NeverLeaks == \A c \in Active : c \in playing \/ Busy(c)

\* A live voice chat never loses its slot: once nothing starts or stops in a
\* chat whose assistant is in the voice chat, it holds a slot.
LiveKeepsSlot == \A c \in playing : c \in Active \/ Busy(c)

\* A start gives the slot of a live voice chat back only when it has left it, or
\* when a stop is about to.
LeftFirst ==
    [][\A c \in playing \cap Active :
          holder'[c] = Nobody => c \notin playing' \/ c \in stopping']_vars

\* The lanes and the call table agree with the voice chats: a chat recorded as
\* playing is one whose assistant is in its voice chat, unless a start or a stop
\* is under way.
CalledIsPlaying == \A c \in called : c \in playing \/ Busy(c)

\* A reservation gives back only the slot it took: the step that uses it up never
\* frees the slot that another start took for the chat.
ReleasesItsOwn ==
    [][\A r \in Requests : LET c == ChatOf(r) IN
          \/ (req[r].lead => req'[r].lead) /\ (req[r].own => req'[r].own)
          \/ holder[c] \in {r, Nobody}
          \/ holder'[c] = holder[c]]_vars

\* stop() is per chat: the unmute attempt of a start is cancelled only by the
\* stop of the start's own chat.
StopIsLocal ==
    [][\A r \in Requests :
          req'[r].overlap = "cancelled" /\ req[r].overlap # "cancelled"
             => ChatOf(r) \in stopping']_vars

\* Initial plays of a chat are serialized by its lock: no two of them are past
\* the lock at once.
OneInitialPlay ==
    \A r, q \in Requests :
       r # q /\ HoldsLock(r) /\ HoldsLock(q) => ChatOf(r) # ChatOf(q)

\* Every start that began comes to an end, playing, refused, queued or given up, and
\* so does every /play that waits for the lock of its chat: again and again no start
\* is under way.  No failure path keeps the lock, though stop() drops locks in use.
RequestsEnd == []<>(\A r \in Requests : At(r, {"idle", "over"}))
=============================================================================
