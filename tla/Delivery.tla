------------------------------ MODULE Delivery ------------------------------
(* How one message reaches Telegram: the senders and editors of               *)
(* helpers/_utilities.py (send_formatted() down to send_message() and its      *)
(* siblings) over the two transports, the Bot API client of core/bot_api.py    *)
(* with its three attempts and the read-back of the message, and the MTProto   *)
(* client with its flood waits. The requests of one call are in sequence; what *)
(* Telegram and the network do to each is a choice.                            *)
EXTENDS Naturals, FiniteSets

CONSTANTS
  Ops,          \* subset of {"send", "reply", "photo", "text", "caption", "callback", "media", "markup"}
  MaxAttempts,  \* max_attempts of _request()
  MaxFloods     \* max_retries of retry_flood_wait()

VARIABLES
  op, api, wrapped, stale,  \* the call: what, over the Bot API?, by *_formatted()?, ignore_stale
  rich,       \* its template has entities
  ents,       \* those of the current request
  at,         \* "asking", "reading", "raising", "over"
  error,      \* the exception on its way, or "none"
  attempt,    \* of the current request
  floods,     \* flood waits of the current call
  again,      \* *_formatted() has begun its second call, without entities
  copies,     \* how many times Telegram has done what was asked
  limited,    \* Telegram has told to wait longer, or more often, than the call will
  result      \* what the caller is told

call == <<op, api, wrapped, stale, rich>>
vars == <<call, ents, at, error, attempt, floods, again, copies, limited, result>>

Sending == {"send", "reply", "photo"}
Editing == Ops \ Sending
Form == {"photo", "media"}                     \* multipart: _request_form()
Formatted == {"send", "reply", "text", "caption"}
Lasting == {"forbidden", "stale", "reply gone", "no text", "entities", "other", "unread"}
Transient == {"network", "timeout", "limited", "flood"}

Init ==
  /\ op \in Ops /\ api \in BOOLEAN /\ ents \in {"custom", "plain", "none"} /\ rich = (ents # "none")
  /\ wrapped \in (IF op \in Formatted THEN BOOLEAN ELSE {FALSE})
  /\ stale \in (IF op \in Editing \ {"media"} THEN BOOLEAN ELSE {FALSE})
  /\ at = "asking" /\ error = "none" /\ attempt = 1 /\ floods = 0 /\ again = FALSE
  /\ copies = 0 /\ limited = FALSE /\ result = "none"

Asked(n) == at' = "asking" /\ error' = "none" /\ attempt' = n
Raises(e) == at' = "raising" /\ error' = e /\ UNCHANGED attempt
Ends(r) == at' = "over" /\ result' = r /\ UNCHANGED <<error, attempt>>

-----------------------------------------------------------------------------
(* The Bot API: _request() and _request_form().                                *)

\* Done, or (an edit) found to be done already: the message is read back.
Accepts ==
  /\ api /\ at = "asking"
  /\ at' = "reading" /\ copies' = copies + 1
  /\ UNCHANGED <<call, ents, error, attempt, floods, again, limited, result>>

\* The network takes the request, or its answer. The request is repeated.
Loses ==
  /\ api /\ at = "asking"
  /\ copies' \in {copies, copies + 1}
  /\ IF attempt < MaxAttempts THEN Asked(attempt + 1) ELSE Raises("network")
  /\ UNCHANGED <<call, ents, floods, again, limited, result>>

\* 502, 503, 504: repeated, though the request may have been served; after the last
\* attempt the result is None, which for an edit is read back all the same.
Gateway ==
  /\ api /\ at = "asking"
  /\ copies' \in {copies, copies + 1}
  /\ \/ attempt < MaxAttempts /\ Asked(attempt + 1) /\ UNCHANGED result
     \/ attempt = MaxAttempts /\ op \in Sending /\ Ends("none")
     \/ attempt = MaxAttempts /\ op \in Editing /\ at' = "reading" /\ UNCHANGED <<error, attempt, result>>
  /\ UNCHANGED <<call, ents, floods, again, limited>>

\* 429: a wait of up to a minute is served while attempts are left; a longer one
\* is an error, but for a form, which comes back after a minute all the same and
\* ends in an error of no type.
TooMany ==
  /\ api /\ at = "asking"
  /\ \E long \in BOOLEAN :
       IF attempt < MaxAttempts /\ (op \in Form \/ ~long)
       THEN Asked(attempt + 1) /\ limited' = long
       ELSE Raises(IF op \in Form THEN "other" ELSE "limited") /\ limited' = TRUE
  /\ UNCHANGED <<call, ents, floods, again, copies, result>>

\* The errors that are told by their description.
Rejects ==
  /\ api /\ at = "asking"
  /\ \E e \in Lasting \ {"unread"} :
       /\ e = "entities" => ents # "none"
       /\ e = "no text" => op \in {"text", "callback"}
       /\ e = "reply gone" => op = "reply"
       /\ Raises(e)
  /\ UNCHANGED <<call, ents, floods, again, copies, limited, result>>

\* _fetch_message(): the caller gets a message object; one that cannot be read
\* for lack of an answer is replaced by what the Bot API said.
ReadsBack ==
  /\ at = "reading"
  /\ \/ Ends("message")
     \/ Raises("unread") /\ UNCHANGED result
  /\ UNCHANGED <<call, ents, floods, again, copies, limited>>

-----------------------------------------------------------------------------
(* The MTProto client.                                                         *)

ClientDoes ==
  /\ ~api /\ at = "asking"
  /\ copies' = copies + 1 /\ Ends("message")
  /\ UNCHANGED <<call, ents, floods, again, limited>>

\* retry_flood_wait(): sleeps what it is told, twice; then the wait is an error.
Floods ==
  /\ ~api /\ at = "asking"
  /\ IF op \notin {"media", "markup"} /\ floods < MaxFloods
     THEN Asked(1) /\ floods' = floods + 1 /\ UNCHANGED limited
     ELSE Raises("flood") /\ limited' = TRUE /\ UNCHANGED floods
  /\ UNCHANGED <<call, ents, again, copies, result>>

\* "after 10 retries": the request may have been served.
ClientTimesOut ==
  /\ ~api /\ at = "asking"
  /\ copies' \in {copies, copies + 1} /\ Raises("timeout")
  /\ UNCHANGED <<call, ents, floods, again, limited, result>>

ClientRejects ==
  /\ ~api /\ at = "asking"
  /\ \E e \in {"forbidden", "stale", "no text", "entities", "other"} :
       /\ e = "entities" => ents # "none"
       /\ e = "no text" => op \in {"text", "callback"}
       /\ e = "stale" => op \in Editing
       /\ Raises(e)
  /\ UNCHANGED <<call, ents, floods, again, copies, limited, result>>

-----------------------------------------------------------------------------
(* What the caller's side does with an exception, from the inside out.         *)

\* entity_text_fallbacks(): without custom emoji, then without entities; a photo
\* is tried without custom emoji only.
Simpler == IF ents = "custom" THEN {"plain"} ELSE IF op = "photo" THEN {} ELSE {"none"}

CanSimplify == error = "entities" /\ op \notin {"media", "markup"} /\ ents # "none" /\ Simpler # {}

Simplify ==
  /\ at = "raising" /\ CanSimplify
  /\ ents' \in Simpler /\ Asked(1)
  /\ UNCHANGED <<call, floods, again, copies, limited, result>>

\* A reply to a message that is gone: sent without it, or not at all.
Unanchored ==
  /\ at = "raising" /\ api /\ op = "reply" /\ error = "stale"
  /\ op' = "send" /\ Asked(1)
  /\ UNCHANGED <<api, wrapped, stale, rich, ents, floods, again, copies, limited, result>>

NoAnchor ==
  /\ at = "raising" /\ api /\ op = "reply" /\ error = "reply gone"
  /\ Ends("none")
  /\ UNCHANGED <<call, ents, floods, again, copies, limited>>

\* ignore_stale: an edit of a message that is gone is not an error. The markup
\* editor takes a forbidden chat for the same.
StaleIsFine ==
  /\ at = "raising" /\ stale
  /\ error = "stale" \/ (op = "markup" /\ error = "forbidden")
  /\ Ends("none")
  /\ UNCHANGED <<call, ents, floods, again, copies, limited>>

\* A card that has become a photo is edited by its caption: the one of a callback,
\* or that of edit_formatted(), whose second call raises.
NoTextIsHandled == error = "no text" /\ (op = "callback" \/ (wrapped /\ ~again))

AsCaption ==
  /\ at = "raising" /\ NoTextIsHandled
  /\ op' = "caption" /\ Asked(1)
  /\ UNCHANGED <<api, wrapped, stale, rich, ents, floods, again, copies, limited, result>>

Handled == \/ CanSimplify
           \/ api /\ op = "reply" /\ error \in {"stale", "reply gone"}
           \/ stale /\ (error = "stale" \/ (op = "markup" /\ error = "forbidden"))
           \/ NoTextIsHandled

\* A mutant: sends are judged by what an edit may ignore.
QuietForEdits == error \in {"network", "timeout", "stale"}

\* is_quiet_send_error() and is_quiet_edit_error().
Quiet == IF op \in Sending THEN error \in {"network", "timeout", "limited"}
         ELSE error \in {"network", "timeout", "stale"}

\* *_formatted(): a transient error is swallowed.
Swallow ==
  /\ at = "raising" /\ ~Handled /\ wrapped /\ Quiet
  /\ Ends("none")
  /\ UNCHANGED <<call, ents, floods, again, copies, limited>>

\* A template with entities that failed otherwise is sent once more as plain
\* text, except to a chat that forbids it.
Retries == wrapped /\ ~Quiet /\ ~again /\ rich /\ op # "caption"
           /\ ~(op \in Sending /\ error = "forbidden")

AsPlainText ==
  /\ at = "raising" /\ ~Handled /\ Retries
  /\ ents' = "none" /\ again' = TRUE /\ floods' = 0 /\ Asked(1)
  /\ UNCHANGED <<call, copies, limited, result>>

Propagate ==
  /\ at = "raising" /\ ~Handled /\ ~(wrapped /\ Quiet) /\ ~Retries
  /\ Ends("raised")
  /\ UNCHANGED <<call, ents, floods, again, copies, limited>>

Next ==
  \/ Accepts \/ Loses \/ Gateway \/ TooMany \/ Rejects \/ ReadsBack
  \/ ClientDoes \/ Floods \/ ClientTimesOut \/ ClientRejects
  \/ Simplify \/ Unanchored \/ NoAnchor \/ StaleIsFine \/ AsCaption
  \/ Swallow \/ AsPlainText \/ Propagate

Spec == Init /\ [][Next]_vars

-----------------------------------------------------------------------------
TypeOK ==
  /\ op \in Ops \cup {"send", "caption"} /\ {api, wrapped, stale, rich, again, limited} \subseteq BOOLEAN
  /\ ents \in {"custom", "plain", "none"} /\ at \in {"asking", "reading", "raising", "over"}
  /\ error \in {"none"} \cup Lasting \cup Transient
  /\ attempt \in 1..MaxAttempts /\ floods \in 0..MaxFloods /\ copies \in Nat
  /\ result \in {"none", "message", "raised"}

\* "rate limited; deferring send": a text send that the Bot API told to wait longer
\* than it is willing to sends nothing more, neither its plain-text retry nor
\* another variant of its entities.
LimitIsFinal ==
  [][limited /\ api /\ wrapped /\ op \in {"send", "reply"} => at' = "over" /\ copies' = copies]_vars

\* The same of the MTProto client, when the budget of its flood waits is exhausted.
FloodIsFinal ==
  [][limited /\ ~api /\ wrapped /\ op \in {"send", "reply"} => at' = "over"]_vars

\* The network is no error of the caller's: what *_formatted() raises is a
\* lasting error, a flood wait that was served twice, or the limit of an edit.
TransientIsQuiet ==
  result = "raised" /\ wrapped =>
    error \in Lasting \cup {"flood"} \cup (IF op \in Editing THEN {"limited"} ELSE {})

\* One call sends one message.
SentOnce == op \in Sending => copies <= 1

\* A caller that is given the message of an edit can rely on the edit.
EditIsDone == result = "message" /\ op \in Editing => copies > 0

\* The limit of an edit is respected as that of a send is.
EditLimitIsFinal ==
  [][limited /\ wrapped /\ op \in {"text", "caption"} => at' # "asking"]_vars
=============================================================================
