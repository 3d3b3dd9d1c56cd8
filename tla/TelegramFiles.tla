--------------------------- MODULE TelegramFiles ---------------------------
(* Files of Telegram messages, core/telegram.py. A /song download marks the    *)
(* file in the list active, runs one task per attempt and registers it under   *)
(* its status message for the Cancel button; a play request has the file       *)
(* fetched by a flight that all requests of the file share. One file.          *)
EXTENDS Naturals, FiniteSets

CONSTANTS
  Calls,      \* the calls of _download_with_progress(), a status message each
  Requests,   \* the calls of ensure_local_file()
  Attempts    \* download_retries + 1

VARIABLES
  song,       \* downloads/<unique id>.<ext> is there and not empty
  local,      \* downloads/tg_<file id>.<ext> is there and playable
  active,     \* the file's entries in the list active: 0 or 1
  call,       \* [Calls -> where it is]
  attempt,    \* [Calls -> the attempt under way]
  events,     \* the calls whose event and last_edit are kept
  way,        \* [Calls -> the strategies not tried yet]
  request,    \* [Requests -> where it is]
  flight,     \* "none", "running" or "cut" (its task is cancelled)
  closing     \* shutdown() has run

song_vars == <<song, active, call, attempt, events, way>>
play_vars == <<local, request, flight>>
vars == <<song, local, active, call, attempt, events, way, request, flight, closing>>

Strategies == {"message", "file id", "assistants"}

Init ==
  /\ song = FALSE /\ local = FALSE /\ active = 0
  /\ call = [c \in Calls |-> "idle"] /\ attempt = [c \in Calls |-> 0]
  /\ events = {} /\ way = [c \in Calls |-> {}]
  /\ request = [r \in Requests |-> "idle"] /\ flight = "none"
  /\ closing = FALSE

-----------------------------------------------------------------------------
(* _download_with_progress()                                                   *)

\* A mutant: the last block forgets the mark.
KeptMark(c) == active

\* The last block: "if file_id in self.active: self.active.remove(file_id)".
Unmarked(c) == 0

Leaves(c) ==
  /\ call' = [call EXCEPT ![c] = "over"]
  /\ active' = Unmarked(c) /\ events' = events \ {c} /\ way' = [way EXCEPT ![c] = {}]

\* Longer or larger than allowed: the call ends before the block that cleans up.
TooLarge(c) ==
  /\ call[c] = "idle" /\ ~closing
  /\ call' = [call EXCEPT ![c] = "over"] /\ events' = events \cup {c}
  /\ UNCHANGED <<song, active, attempt, way, play_vars, closing>>

Found(c) ==
  /\ call[c] = "idle" /\ song
  /\ Leaves(c)
  /\ UNCHANGED <<song, attempt, play_vars, closing>>

\* Another call downloads the file: the status message says so, an await.
Refused(c) ==
  /\ call[c] = "idle" /\ ~song /\ active > 0
  /\ call' = [call EXCEPT ![c] = "refused"] /\ events' = events \cup {c}
  /\ UNCHANGED <<song, active, attempt, way, play_vars, closing>>

Told(c) ==
  /\ call[c] = "refused" /\ Leaves(c)
  /\ UNCHANGED <<song, attempt, play_vars, closing>>

Marks(c) ==
  /\ call[c] = "idle" /\ ~song /\ active = 0
  /\ active' = 1 /\ events' = events \cup {c}
  /\ call' = [call EXCEPT ![c] = "downloading"] /\ attempt' = [attempt EXCEPT ![c] = 1]
  /\ way' = [way EXCEPT ![c] = Strategies]
  /\ UNCHANGED <<song, play_vars, closing>>

\* _download_bytes_to_path(): one strategy after the other, the assistants first
\* for a large file.
NextWay(c) ==
  /\ call[c] = "downloading"
  /\ \E s \in way[c] :
       /\ s = "assistants" => way[c] = Strategies \/ way[c] = {"assistants"}
       /\ s = "file id" => "message" \notin way[c]
       /\ Cardinality(way[c]) > 1
       /\ way' = [way EXCEPT ![c] = @ \ {s}]
  /\ UNCHANGED <<song, active, call, attempt, events, play_vars, closing>>

Downloaded(c) ==
  /\ call[c] = "downloading"
  /\ song' = TRUE /\ Leaves(c)
  /\ UNCHANGED <<attempt, play_vars, closing>>

\* A timeout cancels the task of the attempt; the last error ends the call.
AttemptFails(c) ==
  /\ call[c] = "downloading"
  /\ \/ /\ attempt[c] < Attempts
        /\ attempt' = [attempt EXCEPT ![c] = @ + 1] /\ way' = [way EXCEPT ![c] = Strategies]
        /\ UNCHANGED <<active, call, events>>
     \/ attempt[c] = Attempts /\ Leaves(c) /\ UNCHANGED attempt
  /\ UNCHANGED <<song, play_vars, closing>>

\* cancel(): the Cancel button of the status message.
Cancelled(c) ==
  /\ call[c] = "downloading" /\ Leaves(c)
  /\ UNCHANGED <<song, attempt, play_vars, closing>>

-----------------------------------------------------------------------------
(* ensure_local_file()                                                         *)

Rides(r) ==
  /\ request[r] = "idle"
  /\ \/ (local \/ closing) /\ request' = [request EXCEPT ![r] = "over"] /\ UNCHANGED flight
     \/ ~local /\ ~closing /\ request' = [request EXCEPT ![r] = "riding"] /\ flight' = "running"
  /\ UNCHANGED <<local, song_vars, closing>>

Lands ==
  /\ flight = "running" /\ flight' = "none"
  /\ local' \in BOOLEAN
  /\ request' = [r \in Requests |-> IF request[r] = "riding" THEN "over" ELSE request[r]]
  /\ UNCHANGED <<song_vars, closing>>

\* The request is cancelled, the flight is not.
GivesUp(r) ==
  /\ request[r] = "riding" /\ request' = [request EXCEPT ![r] = "over"]
  /\ UNCHANGED <<local, flight, song_vars, closing>>

\* shutdown() cancels the tasks and the flight, and empties the tables.
Shutdown ==
  /\ ~closing /\ closing' = TRUE
  /\ call' = [c \in Calls |-> IF call[c] = "downloading" THEN "over" ELSE call[c]]
  /\ events' = {} /\ active' = 0 /\ way' = [c \in Calls |-> {}]
  /\ request' = [r \in Requests |-> IF request[r] = "riding" THEN "over" ELSE request[r]]
  /\ flight' = "none"
  /\ UNCHANGED <<song, local, attempt>>

Next ==
  \/ \E c \in Calls : \/ TooLarge(c) \/ Found(c) \/ Refused(c) \/ Told(c) \/ Marks(c)
                      \/ NextWay(c) \/ Downloaded(c) \/ AttemptFails(c) \/ Cancelled(c)
  \/ \E r \in Requests : Rides(r) \/ GivesUp(r)
  \/ Lands \/ Shutdown

Spec == Init /\ [][Next]_vars

-----------------------------------------------------------------------------
TypeOK ==
  /\ {song, local, closing} \subseteq BOOLEAN /\ active \in 0..1
  /\ call \in [Calls -> {"idle", "refused", "downloading", "over"}]
  /\ attempt \in [Calls -> 0..Attempts] /\ events \subseteq Calls
  /\ way \in [Calls -> SUBSET Strategies]
  /\ request \in [Requests -> {"idle", "riding", "over"}] /\ flight \in {"none", "running"}

Downloading == {c \in Calls : call[c] = "downloading"}

\* A mark that nobody's download backs would refuse the file for ever: however
\* calls are refused, cancelled, timed out or fail, a marked file is on its way.
MarkIsBacked == active > 0 => Downloading # {}

\* "dl_active": one call downloads the file, the others are told so.
OneDownload == Cardinality(Downloading) <= 1

\* What a call registers is gone when it is over.
NothingKept == \A c \in events : call[c] # "over"
=============================================================================
