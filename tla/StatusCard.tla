----------------------------- MODULE StatusCard -----------------------------
(* The status message of one play request ("Searching", "Downloading 40 %",   *)
(* "Queued", "Now playing") and who may write to it: the progress writers of   *)
(* helpers/_utilities.py, the now-playing card of core/playback.py, and the    *)
(* Cancel button of plugins/callbacks.py. Every edit is an await; the writers  *)
(* of progress take a lock per message, held in a WeakValueDictionary, and     *)
(* look at a set of closed messages.                                           *)
EXTENDS Naturals, FiniteSets

CONSTANTS
  Writers,    \* coroutines that edit progress onto the card
  Locks,      \* identities of asyncio.Lock objects
  None,
  Faults      \* what Telegram may do to an edit or a send: a subset of
              \* {"refused", "unread", "doubled", "late", "busy"}

VARIABLES
  shown,      \* what the status message shows, or "gone"
  posted,     \* how many now-playing messages were sent beside it
  recorded,   \* media.message_id: the message taken for the now-playing card
  active,     \* chat_id in db.active_calls by another request
  closed,     \* the message is in _closed_download_progress
  table,      \* _download_progress_locks: the lock of the message, if any
  writer,     \* [Writers -> where it is and the lock it has a reference to]
  main,       \* the coroutine of the request
  tap,        \* the coroutine of the Cancel button
  late        \* how many edits the client has given up that the server may still apply

vars == <<shown, posted, recorded, active, closed, table, writer, main, tap, late>>

Idle == [at |-> "idle", on |-> None]
NobodyYet == [at |-> "idle", on |-> None, by |-> "hook"]

Init ==
  /\ shown = "searching" /\ posted = 0 /\ recorded = "none"
  /\ active = FALSE /\ closed = FALSE /\ table = None
  /\ writer = [w \in Writers |-> NobodyYet]
  /\ main = [at |-> "resolving", on |-> None] /\ tap = Idle
  /\ late = 0

\* Another request of the chat has started to play.
OtherStarts ==
  /\ "busy" \in Faults /\ ~active /\ active' = TRUE
  /\ UNCHANGED <<shown, posted, recorded, closed, table, writer, main, tap, late>>

-----------------------------------------------------------------------------
(* The progress writers.                                                       *)

Starts(w, by) ==
  /\ writer[w].at = "idle"
  /\ writer' = [writer EXCEPT ![w] = [at |-> "asked", on |-> None, by |-> by]]
  /\ UNCHANGED <<shown, posted, recorded, active, closed, table, main, tap, late>>

\* The hook of a provider's download: the card is open when its thread looks.
AskHook(w) == ~closed /\ Starts(w, "hook")

\* A shared yt-dlp worker goes through the cards attached to it, looking at
\* nothing but its own table.
AskWatch(w) == Starts(w, "watch")

\* The callback of a search that has found the track: the request is not bound
\* for the queue and is live when it looks, and it awaits the templates before it writes.
AskFound(w) == main.at = "resolving" /\ ~active /\ Starts(w, "search")

Held(l) == \E w \in Writers : writer[w].at = "editing" /\ writer[w].on = l

Referenced(l) == l \in {main.on, tap.on} \cup {writer[w].on : w \in Writers}

\* setdefault(): the lock of the message, or a new one.
LockFor(l) == IF table # None THEN l = table ELSE ~Referenced(l)

\* edit_download_progress() enters: it waits for the lock of the message.
Enter(w) ==
  /\ writer[w].at = "asked"
  /\ \E l \in Locks : /\ LockFor(l) /\ table' = l
                      /\ writer' = [writer EXCEPT ![w].at = "waiting", ![w].on = l]
  /\ UNCHANGED <<shown, posted, recorded, active, closed, main, tap, late>>

Over(w) == [writer EXCEPT ![w].at = "done", ![w].on = None]

\* A dictionary of weak references forgets a lock that nobody refers to.
Forgets(w, l) ==
  table' = IF l = table /\ l \notin {main.on, tap.on} \cup {writer[v].on : v \in Writers \ {w}}
           THEN None ELSE table

\* A mutant: the second look is left out, and the lock alone does not help.
ProceedBlindly(w) ==
  /\ writer[w].at = "waiting" /\ ~Held(writer[w].on)
  /\ writer' = [writer EXCEPT ![w].at = "editing"]
  /\ UNCHANGED <<shown, posted, recorded, active, closed, table, main, tap, late>>

\* With the lock, a message that was closed meanwhile is left alone.
Proceed(w) ==
  /\ writer[w].at = "waiting" /\ ~Held(writer[w].on)
  /\ \/ /\ closed /\ writer' = Over(w) /\ Forgets(w, writer[w].on)
     \/ /\ ~closed /\ writer' = [writer EXCEPT ![w].at = "editing"] /\ UNCHANGED table
  /\ UNCHANGED <<shown, posted, recorded, active, closed, main, tap, late>>

\* The edit of a writer ends: applied, refused, or given up by the client.
Written(w) ==
  /\ writer[w].at = "editing"
  /\ writer' = Over(w) /\ Forgets(w, writer[w].on)
  /\ \/ shown' = (IF shown = "gone" THEN shown ELSE "progress") /\ UNCHANGED late
     \/ "refused" \in Faults /\ UNCHANGED <<shown, late>>
     \/ "late" \in Faults /\ late' = late + 1 /\ UNCHANGED shown
  /\ UNCHANGED <<posted, recorded, active, closed, main, tap>>

\* The server applies an edit whose caller has given up.
Lands ==
  /\ late > 0 /\ late' = late - 1
  /\ shown' = (IF shown = "gone" THEN shown ELSE "progress")
  /\ UNCHANGED <<posted, recorded, active, closed, table, writer, main, tap>>

-----------------------------------------------------------------------------
(* close_download_progress(): the mark, then the lock as a barrier.            *)

\* The mark is set before the first await; a lock that exists is awaited.
Closes(c) ==
  /\ closed' = TRUE
  /\ c = [at |-> "draining", on |-> table]

Drained(l) == l = None \/ ~Held(l)

Popped(l) == table' = IF l # None /\ table = l THEN None ELSE table

\* The branches of the request are cancelled, wherever they are; hooks and the
\* workers shared with other requests are not among them.
WritersStop ==
  writer' = [w \in Writers |-> IF writer[w].by = "search" /\ writer[w].at # "idle"
                               THEN [writer[w] EXCEPT !.at = "done", !.on = None] ELSE writer[w]]

-----------------------------------------------------------------------------
(* The request.                                                                *)

\* _admit_and_stream_media(): behind another track, the card says so.
Queue ==
  /\ main.at = "resolving" /\ active
  /\ main' = [main EXCEPT !.at = "queueing"]
  /\ UNCHANGED <<shown, posted, recorded, active, closed, table, writer, tap, late>>

Queued ==
  /\ main.at = "queueing"
  /\ main' = [main EXCEPT !.at = "queued"]
  /\ shown' = (IF shown = "gone" THEN shown ELSE "queued")
  /\ recorded' = "status"
  /\ UNCHANGED <<posted, active, closed, table, writer, tap, late>>

\* update_now_playing(): _claim_now_playing_card() revokes the writers.
Claim ==
  /\ main.at = "resolving" /\ ~active
  /\ Closes(main')
  /\ UNCHANGED <<shown, posted, recorded, active, table, writer, tap, late>>

Take ==
  /\ main.at = "draining" /\ Drained(main.on)
  /\ Popped(main.on)
  /\ main' = [at |-> "editing", on |-> None]
  /\ UNCHANGED <<shown, posted, recorded, active, closed, writer, tap, late>>

\* The card becomes the now-playing card.
Shows ==
  /\ main.at = "editing" /\ shown # "gone"
  /\ shown' = "playing" /\ recorded' = "status"
  /\ main' = [main EXCEPT !.at = "played"]
  /\ UNCHANGED <<posted, active, closed, table, writer, tap, late>>

\* The edit fails: the message is gone, it was refused, or it was applied and
\* could not be read back. A message of its own is sent.
Refuses ==
  /\ main.at = "editing"
  /\ \/ (shown = "gone" \/ "refused" \in Faults) /\ UNCHANGED shown
     \/ "unread" \in Faults /\ shown # "gone" /\ shown' = "playing"
  /\ main' = [main EXCEPT !.at = "sending"]
  /\ UNCHANGED <<posted, recorded, active, closed, table, writer, tap, late>>

\* _send_now_playing(), and once more without entities if the send raises.
Sends ==
  /\ main.at \in {"sending", "resending"}
  /\ posted' = posted + 1 /\ recorded' = "own"
  /\ main' = [main EXCEPT !.at = "clearing"]
  /\ UNCHANGED <<shown, active, closed, table, writer, tap, late>>

SendFails ==
  /\ main.at \in {"sending", "resending"}
  /\ \/ "refused" \in Faults /\ UNCHANGED posted
     \/ "doubled" \in Faults /\ posted' = posted + 1
  /\ main' = [main EXCEPT !.at = IF main.at = "sending" THEN "resending" ELSE "failed"]
  /\ UNCHANGED <<shown, recorded, active, closed, table, writer, tap, late>>

\* With a message of its own the now-playing card leaves the status message
\* behind, which is deleted, and so is the progress card of the media.
Clears ==
  /\ main.at = "clearing"
  /\ shown' = "gone"
  /\ main' = [main EXCEPT !.at = "played"]
  /\ UNCHANGED <<posted, recorded, active, closed, table, writer, tap, late>>

\* _invalidate_play_request(): the request ends without playing; the card is
\* closed, the branches of the request are cancelled, and it says why.
GivesUp ==
  /\ main.at = "resolving"
  /\ closed' = TRUE
  /\ main' = [at |-> "ending", on |-> table]
  /\ UNCHANGED <<shown, posted, recorded, active, table, writer, tap, late>>

SaysWhy ==
  /\ main.at = "ending" /\ Drained(main.on)
  /\ Popped(main.on) /\ WritersStop
  /\ main' = [at |-> "failed", on |-> None]
  /\ shown' = (IF shown = "gone" THEN shown ELSE "ended")
  /\ UNCHANGED <<posted, recorded, active, closed, tap, late>>

-----------------------------------------------------------------------------
(* cancel_dl(): the Cancel button of a card that is not played or queued yet.  *)
Tap ==
  /\ tap.at = "idle" /\ shown \in {"searching", "progress"}
  /\ Closes(tap')
  /\ UNCHANGED <<shown, posted, recorded, active, table, writer, main, late>>

\* The card is deleted first, then every branch of the request is cancelled
\* wherever it is; what was dispatched to the call client by then goes on.
Cancels ==
  /\ tap.at = "draining" /\ Drained(tap.on)
  /\ Popped(tap.on) /\ WritersStop
  /\ shown' = "gone"
  /\ tap' = [at |-> "done", on |-> None]
  /\ main' = IF main.at \in {"resolving", "queueing"} THEN [at |-> "cancelled", on |-> None]
             ELSE main
  /\ UNCHANGED <<posted, recorded, active, closed, late>>

Next ==
  \/ OtherStarts
  \/ \E w \in Writers : AskHook(w) \/ AskWatch(w) \/ AskFound(w) \/ Enter(w) \/ Proceed(w) \/ Written(w)
  \/ Lands
  \/ Queue \/ Queued \/ Claim \/ Take \/ Shows \/ Refuses \/ Sends \/ SendFails \/ Clears
  \/ GivesUp \/ SaysWhy
  \/ Tap \/ Cancels

Spec == Init /\ [][Next]_vars

-----------------------------------------------------------------------------
TypeOK ==
  /\ shown \in {"searching", "progress", "queued", "playing", "ended", "gone"}
  /\ posted \in 0..2 /\ recorded \in {"none", "status", "own"}
  /\ {active, closed} \subseteq BOOLEAN /\ late \in Nat
  /\ table \in Locks \cup {None}
  /\ \A w \in Writers : /\ writer[w].at \in {"idle", "asked", "waiting", "editing", "done"}
                        /\ writer[w].on \in Locks \cup {None}
  /\ main.on \in Locks \cup {None} /\ tap.on \in Locks \cup {None}

HandedOver == \/ main.at \in {"editing", "sending", "resending", "clearing", "played"}
              \/ main.at = "failed" \/ tap.at = "done"

\* "the caller's subsequent play_media edit is guaranteed to be the final
\* writer": once a closer has passed the barrier, no writer edits the card any
\* more, whichever were waiting for a lock or amid an edit. Progress comes onto it
\* only by an edit that the client had given up before, and by each of them once.
FinalWriter ==
  [][HandedOver => /\ late' <= late
                   /\ shown' = "progress" /\ shown # "progress" => late' < late]_vars

\* The same without such an edit: after the barrier the card shows no progress.
LastWord == [][HandedOver => (shown' = "progress" => shown = "progress")]_vars

\* A start that has shown its card has one: the status message or one of its
\* own, which is the message that is recorded and later deleted with the track.
OneNowPlaying ==
  main.at = "played" =>
    \/ recorded = "own" /\ posted = 1 /\ shown # "playing"
    \/ recorded = "status" /\ posted = 0 /\ shown \in {"playing", "gone"}

\* "The main handler will turn SEARCHING into play_queued [...]; never race it
\* with DOWNLOADING".
QueuedIsFinal == [][main.at = "queued" => (shown' = "progress" => shown = "progress")]_vars
=============================================================================
