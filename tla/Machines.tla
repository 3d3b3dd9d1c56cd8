------------------------------ MODULE Machines ------------------------------
(* Seven machines in one specification, which share no state: the single       *)
(* flight over Redis, the status card of a play request, the delivery of one   *)
(* message, the keyword replies of a chat, the cache of the social providers,  *)
(* the files of Telegram and the turn of a track. A behaviour moves one of     *)
(* them and the others stay where they begin, so the state space is their sum, *)
(* not their product.                                                          *)
EXTENDS RedisSingleFlight

CONSTANTS
  Writers, Locks, CardFaults,                                      \* StatusCard
  Ops, MaxAttempts, MaxFloods,                                     \* Delivery
  Actors, Keys, Texts, ReplyOps, MaxEntries, MaxKeys, MaxAsks,     \* AutoReply
  Media, Groups, Players, Fills, MaxDownloads,                     \* SocialCache
  Fetchers, Listeners, Attempts,                                     \* TelegramFiles
  Tracks, Clips, MediaOf, Setups, Jobs, Depth,                     \* PlayMedia
  MaxRetries, MaxPauses

ASSUME MachinesAssumption ==
  /\ None \notin Locks
  /\ MaxDownloads \in Nat

VARIABLES
  part,    \* the machine that moves
  shown, posted, recorded, active, closed, table, writer, main, tap, late,
  op, api, wrapped, stale, rich, ents, stage, error, attempt, floods, again, copies, limited, told,
  rules, meta, cands, flag, cached, cooling, actor, seen, said, decided, raced, asks,
  files, entry, co, flight, threads, closing,
  song, local, marked, calls, try, events, way, request, ride, halt,
  setup, waiting, ordered, shot, spent, known, file, disk, loading, outcome, loads, current,
  ahead, second, joined, shots, cutShort, turn, source, early

card     == <<shown, posted, recorded, active, closed, table, writer, main, tap, late>>
message  == <<op, api, wrapped, stale, rich, ents, stage, error, attempt, floods, again, copies,
              limited, told>>
replies  == <<rules, meta, cands, flag, cached, cooling, actor, seen, said, decided, raced, asks>>
social   == <<files, entry, co, flight, threads, closing>>
telegram == <<song, local, marked, calls, try, events, way, request, ride, halt>>
track    == <<setup, waiting, ordered, shot, spent, known, file, disk, loading, outcome, loads,
              current, ahead, second, joined, shots, cutShort, turn, source, early>>
allVars  == <<part, vars, card, message, replies, social, telegram, track>>

Card    == INSTANCE StatusCard WITH Faults <- CardFaults
Message == INSTANCE Delivery WITH at <- stage, result <- told
Replies == INSTANCE AutoReply WITH Ops <- ReplyOps
Social  == INSTANCE SocialCache WITH Ids <- Media, Chats <- Groups, Tasks <- Fills
Files   == INSTANCE TelegramFiles WITH Calls <- Fetchers, Requests <- Listeners,
             active <- marked, call <- calls, attempt <- try, flight <- ride, closing <- halt
Play    == INSTANCE PlayMedia WITH Media <- Clips, MaxFloods <- MaxPauses, queue <- waiting,
             asked <- ordered, marked <- shot, local <- known, flight <- loading, job <- loads

AllInit ==
  /\ part \in {"redis", "card", "message", "replies", "social", "files", "turn"}
  /\ Init /\ Card!Init /\ Message!Init /\ Replies!Init /\ Social!Init /\ Files!Init /\ Play!Init
  /\ part # "message" => op = "send" /\ ~api /\ ~wrapped /\ ents = "none"
  /\ part # "replies" => rules = Replies!NoRule
  /\ part # "turn" => setup = CHOOSE s \in Setups : TRUE

AllNext ==
  \/ part = "redis" /\ Next
     /\ UNCHANGED <<part, card, message, replies, social, telegram, track>>
  \/ part = "card" /\ Card!Next
     /\ UNCHANGED <<part, vars, message, replies, social, telegram, track>>
  \/ part = "message" /\ Message!Next
     /\ UNCHANGED <<part, vars, card, replies, social, telegram, track>>
  \/ part = "replies" /\ Replies!Next
     /\ UNCHANGED <<part, vars, card, message, social, telegram, track>>
  \/ part = "social" /\ Social!Next
     /\ UNCHANGED <<part, vars, card, message, replies, telegram, track>>
  \/ part = "files" /\ Files!Next
     /\ UNCHANGED <<part, vars, card, message, replies, social, track>>
  \/ part = "turn" /\ Play!Next
     /\ UNCHANGED <<part, vars, card, message, replies, social, telegram>>

AllSpec == AllInit /\ [][AllNext]_allVars

\* Only the single flight has a fairness of its own; where it begins, nothing
\* that is fair is enabled, so the behaviours of the other machines keep it too.
AllFairSpec == AllSpec /\ Fairness

-----------------------------------------------------------------------------
\* Whoever has passed the barrier of a status card is its final writer, StatusCard.
FinalWriter == Card!FinalWriter

\* Nothing is sent after a limit that the caller will not wait for, Delivery.
LimitIsFinal == Message!LimitIsFinal

\* An answer that was learned had been taught twice, AutoReply.
ConfirmedTwice == Replies!ConfirmedTwice

\* One thread writes under the prefix of a media id, SocialCache.
OneWriter == Social!OneWriter

\* A file that is marked as on its way is on its way, TelegramFiles.
MarkIsBacked == Files!MarkIsBacked

\* No turn that ends leaves the silent placeholder in the voice chat, PlayMedia.
EarlySettled == Play!EarlySettled
=============================================================================
