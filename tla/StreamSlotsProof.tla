-------------------------- MODULE StreamSlotsProof --------------------------
(* Proofs about the slots and starts of StreamSlots, for any chats, requests, *)
(* capacity and bounds, and for every order in which starts, retries,         *)
(* rollbacks and stops overtake each other.                                   *)
EXTENDS SlotHistory, TLAPS

Records ==
  [at : Phases, chat : Chats, mode : Modes, lock : Nat, lead : BOOLEAN, own : BOOLEAN,
   tries : 0 .. MaxTries, overlap : Overlaps, adopted : BOOLEAN, doomed : BOOLEAN]

\* What the phase of a start says of its own record.
Proper(x) ==
  /\ x.at \in {"asking", "locked"} => x.tries = 0 /\ ~x.adopted /\ ~x.doomed
  /\ x.at \in {"lost", "unbinding"} => x.tries < MaxTries

\* What the start that holds the slot of c is: over; or under way for c, not cut
\* off, and if it is a preconnect that no fallback has replaced, then the release it
\* will call is one that frees the slot.
Joined  == {"joined", "unmuting", "leaving", "attached"}
Holding == Joined \cup {"connecting", "failed"}
Sound(x, c) ==
  x.at # "over" => /\ x.at \in Holding /\ x.chat = c
                   /\ ~(x.adopted /\ x.doomed)
                   /\ x.mode = "early" => IF x.tries = 0 THEN x.lead ELSE x.own

\* Its assistant is in the voice chat, or somebody else has left it; but for a start
\* that has not joined or has failed, and for the retry that was given up.
Needs(x) == x.at \in Joined \/ (x.at = "over" /\ ~x.own)
Live(c)  == c \in playing \/ c \in ousted

Slot(c) ==
  holder[c] # Nobody => /\ Sound(req[holder[c]], c)
                        /\ Needs(req[holder[c]]) => Live(c)

SlotsInv ==
  /\ TypeOK /\ ousted \subseteq Chats
  /\ \A r \in Requests : Proper(req[r])
  /\ \A c \in Chats : Slot(c)

-----------------------------------------------------------------------------
(* Records and tables.                                                         *)

\* A request is a record, and its chat a chat.
LEMMA TypeOfRequest ==
  ASSUME TypeOK, NEW r \in Requests
  PROVE  req[r] \in Records /\ ChatOf(r) \in Chats
  BY DEF TypeOK, Records, ChatOf

\* A request that has not begun, and one whose locals are gone.
LEMMA BlankRecord ==
  /\ Blank \in Records /\ Blank.at = "idle" /\ Blank.tries = 0 /\ ~Blank.adopted /\ ~Blank.doomed
  /\ Over \in Records /\ Over.at = "over"
<1>1. (CHOOSE d \in Chats : TRUE) \in Chats
  BY SlotsAssumption
<1>2. /\ Blank \in Records /\ Blank.at = "idle" /\ Blank.tries = 0 /\ ~Blank.adopted /\ ~Blank.doomed
  BY <1>1, SlotsAssumption DEF Blank, Records, Phases, Modes, Overlaps
<1> QED BY <1>2 DEF Over, Records, Phases

\* What the reservations leave in the table.
LEMMA Tables ==
  ASSUME TypeOK, NEW c \in Chats
  PROVE  /\ Freed(c) \in [Chats -> Requests \cup {Nobody}] /\ Freed(c)[c] = Nobody
         /\ \A d \in Chats \ {c} : Freed(c)[d] = holder[d]
         /\ \A r \in Requests :
              /\ Taken(c, r) \in [Chats -> Requests \cup {Nobody}]
              /\ Taken(c, r)[c] = IF holder[c] = Nobody THEN r ELSE holder[c]
              /\ \A d \in Chats \ {c} : Taken(c, r)[d] = holder[d]
         /\ \A b \in BOOLEAN :
              /\ Released(c, b) \in [Chats -> Requests \cup {Nobody}]
              /\ Released(c, b)[c] = IF b THEN Nobody ELSE holder[c]
              /\ \A d \in Chats \ {c} : Released(c, b)[d] = holder[d]
  BY DEF TypeOK, Freed, Taken, Released, Active

-----------------------------------------------------------------------------
(* A step of one start.                                                        *)

\* A voice chat that is left while its slot stays taken was left by the holder of
\* the slot, or it is recorded.
LEMMA LiveStays ==
  ASSUME SlotsInv, Recorded, NEW c \in Chats, holder'[c] # Nobody, Live(c),
         c \in playing => c \in playing' \/ ~OwnStep(c)
  PROVE  Live(c)'
  BY DEF Recorded, Live

\* A step of the start r of chat c keeps the invariant, if what it leaves of the slot
\* is another's as before, free, or its own and sound.
LEMMA StepKeeps ==
  ASSUME SlotsInv, Recorded, NEW r \in Requests, NEW c \in Chats, NEW x \in Records,
         req' = [req EXCEPT ![r] = x],
         holder' \in [Chats -> Requests \cup {Nobody}],
         playing' \subseteq Chats, called' \subseteq Chats, stopped' \subseteq Chats,
         UNCHANGED <<stopping, stops>>,
         req[r].at # "over", req[r].at \in Holding => req[r].chat = c,
         \A d \in Chats \ {c} : holder'[d] = holder[d],
         holder'[c] \in {holder[c], Nobody, r},
         Proper(x),
         holder'[c] = r => Sound(x, c) /\ (Needs(x) => Live(c)')
  PROVE  SlotsInv'
<1>1. TypeOK' /\ req'[r] = x /\ \A q \in Requests \ {r} : req'[q] = req[q]
  BY DEF SlotsInv, TypeOK, Records
<1>2. ousted' \subseteq Chats /\ \A q \in Requests : Proper(req'[q])
  BY <1>1 DEF SlotsInv, Recorded
<1>3. ASSUME NEW d \in Chats, holder'[d] # Nobody
      PROVE  Sound(req'[holder'[d]], d) /\ (Needs(req'[holder'[d]]) => Live(d)')
  <2>1. CASE d = c /\ holder'[d] = r
    BY <1>1, <2>1
  <2>2. CASE ~(d = c /\ holder'[d] = r)
    <3>1. holder'[d] = holder[d] /\ holder[d] \in Requests
      BY <1>3, <2>2 DEF SlotsInv, TypeOK
    <3>2. Sound(req[holder[d]], d) /\ (Needs(req[holder[d]]) => Live(d))
      BY <1>3, <3>1 DEF SlotsInv, Slot
    <3>3. holder[d] # r
      BY <2>2, <3>1, <3>2 DEF Sound
    <3>4. req'[holder[d]] = req[holder[d]]
      BY <1>1, <3>1, <3>3
    <3>5. ~OwnStep(d)
      BY <3>4 DEF OwnStep
    <3>6. Live(d) => Live(d)'
      BY <1>3, <3>5, LiveStays
    <3> QED BY <3>1, <3>2, <3>4, <3>6
  <2> QED BY <2>1, <2>2
<1> QED BY <1>1, <1>2, <1>3 DEF SlotsInv, Slot

\* What the holder of the slot of its chat is.
LEMMA HolderIs ==
  ASSUME SlotsInv, NEW r \in Requests, req[r].at # "over", NEW c \in Chats, holder[c] = r
  PROVE  /\ req[r].at \in Holding /\ req[r].chat = c /\ ~Cut(r)
         /\ Early(r) => Current(r)
         /\ req[r].at \in Joined => Live(c)
<1>1. r # Nobody
  BY SlotsAssumption
<1>2. Sound(req[r], c) /\ (Needs(req[r]) => Live(c))
  BY <1>1 DEF SlotsInv, Slot
<1>3. req[r].tries = 0 \/ req[r].tries # 0
  OBVIOUS
<1> QED BY <1>2 DEF Sound, Needs, Cut, Early, Current, UsesLead

\* A step that changes the record of a start and nothing else.
LEMMA MoveKeeps ==
  ASSUME SlotsInv, Recorded, NEW r \in Requests, NEW x \in Records,
         req' = [req EXCEPT ![r] = x],
         UNCHANGED <<holder, playing, stopping, stops>>, called' \subseteq Chats, stopped' \subseteq Chats,
         req[r].at # "over", Proper(x), x.chat = req[r].chat \/ req[r].at \notin Holding \/ x.at = "over",
         req[r].at \in Holding => x.at \in Holding \cup {"over"},
         Needs(x) => req[r].at \in Joined \/ req[r].at \notin Holding,
         req[r].at \in Holding /\ x.at # "over" =>
           /\ x.mode = req[r].mode /\ x.lead = req[r].lead /\ x.own = req[r].own /\ x.tries = req[r].tries
           /\ x.adopted /\ x.doomed => req[r].adopted /\ req[r].doomed
  PROVE  SlotsInv'
<1>1. PICK c \in Chats : c = ChatOf(r) /\ c = req[r].chat
  BY TypeOfRequest DEF SlotsInv, ChatOf
<1>2. /\ holder' \in [Chats -> Requests \cup {Nobody}] /\ playing' \subseteq Chats
      /\ holder' = holder /\ playing' = playing
  BY DEF SlotsInv, TypeOK
<1>3. ASSUME holder'[c] = r PROVE Sound(x, c) /\ (Needs(x) => Live(c)')
  <2>1. /\ req[r].at \in Holding /\ ~Cut(r) /\ (Early(r) => Current(r)) /\ (req[r].at \in Joined => Live(c))
    BY <1>2, <1>3, HolderIs
  <2>2. Live(c) => Live(c)'
    BY <1>2, <1>3, LiveStays, SlotsAssumption
  <2>3. Sound(x, c)
    BY <1>1, <2>1 DEF Sound, Cut, Early, Current, UsesLead
  <2> QED BY <2>1, <2>2, <2>3
<1>4. holder'[c] \in {holder[c], Nobody, r} /\ \A d \in Chats \ {c} : holder'[d] = holder[d]
  BY <1>2
<1> QED BY <1>1, <1>2, <1>3, <1>4, StepKeeps

-----------------------------------------------------------------------------
(* The steps that change the record of a start and no slot.                    *)

\* A /play asks for the lock, gets it, or is refused a slot.
LEMMA AskSteps ==
  ASSUME SlotsInv, Recorded, NEW r \in Requests, Ask(r) \/ Lock(r) \/ Refused(r)
  PROVE  SlotsInv'
<1>1. /\ TypeOK /\ req[r] \in Records /\ Proper(req[r])
      /\ UNCHANGED <<holder, playing, called, stopped, stopping, stops>>
      /\ called' \subseteq Chats /\ stopped' \subseteq Chats
  BY TypeOfRequest DEF SlotsInv, Ask, Lock, Refused, TypeOK
<1>2. Proper(Over) /\ Over \in Records /\ Over.at = "over"
  BY BlankRecord DEF Proper
<1>3. CASE Ask(r)
  <2>1. PICK c \in Chats, m \in {"early", "plain"} :
           req' = [req EXCEPT ![r] = [Blank EXCEPT !.at = "asking", !.chat = c, !.mode = m, !.lock = stops[c]]]
    BY <1>3, SlotsAssumption DEF Ask
  <2> DEFINE x == [Blank EXCEPT !.at = "asking", !.chat = c, !.mode = m, !.lock = stops[c]]
  <2>2. x \in Records /\ x.at = "asking" /\ Proper(x)
    <3>1. stops[c] \in Nat
      BY <1>1 DEF TypeOK
    <3> QED BY <3>1, BlankRecord DEF Records, Phases, Modes, Proper
  <2>3. req' = [req EXCEPT ![r] = x] /\ req[r].at = "idle"
    BY <1>3, <2>1 DEF Ask, At
  <2> HIDE DEF x
  <2> QED BY <1>1, <2>2, <2>3, MoveKeeps DEF Holding, Joined, Needs
<1>4. CASE Lock(r)
  <2>1. PICK x \in {Over, [req[r] EXCEPT !.at = "locked"]} : req' = [req EXCEPT ![r] = x]
    BY <1>4 DEF Lock
  <2>2. x \in Records /\ x.at \in {"over", "locked"} /\ Proper(x)
    BY <1>1, <1>2, <1>4, <2>1 DEF Lock, At, Records, Phases, Proper
  <2>3. req[r].at = "asking"
    BY <1>4 DEF Lock, At
  <2> QED BY <1>1, <2>1, <2>2, <2>3, MoveKeeps DEF Holding, Joined, Needs
<1>5. CASE Refused(r)
  <2>1. req' = [req EXCEPT ![r] = Over] /\ req[r].at = "locked"
    BY <1>5 DEF Refused, At
  <2> QED BY <1>1, <1>2, <2>1, MoveKeeps DEF Holding, Joined, Needs
<1> QED BY <1>3, <1>4, <1>5

\* The unmute attempt, and the adoption of a preconnect.
LEMMA UnmuteSteps ==
  ASSUME SlotsInv, Recorded, NEW r \in Requests,
         \/ Activates(r) \/ Unmutes(r) \/ FloodsLate(r) \/ Cancelled(r) \/ StaysMuted(r) \/ Adopts(r)
  PROVE  SlotsInv'
<1>1. /\ TypeOK /\ req[r] \in Records /\ Proper(req[r]) /\ ChatOf(r) \in Chats
      /\ UNCHANGED <<holder, playing, stopping, stops>>
  BY TypeOfRequest DEF SlotsInv, Activates, Unmutes, FloodsLate, Cancelled, StaysMuted, Adopts
<1>2. /\ called' \subseteq Chats /\ stopped' \subseteq Chats
  BY <1>1 DEF TypeOK, Activates, Unmutes, FloodsLate, Cancelled, StaysMuted, Adopts
<1>3. Proper(Over) /\ Over \in Records /\ Over.at = "over"
  BY BlankRecord DEF Proper
<1>4. ASSUME Activates(r) \/ FloodsLate(r) \/ StaysMuted(r) \/ Unmutes(r) \/ Cancelled(r) PROVE SlotsInv'
  <2>1. PICK p \in {"unmuting", "failed", "leaving", "attached"}, o \in Overlaps :
           /\ \/ req' = [req EXCEPT ![r] = [req[r] EXCEPT !.at = p, !.overlap = o]]
              \/ req' = [req EXCEPT ![r] = Over]
           /\ req[r].at \in {"joined", "unmuting"}
    <3>1. req[r] = [req[r] EXCEPT !.overlap = req[r].overlap] /\ "done" \in Overlaps
      BY <1>1 DEF Records, Overlaps
    <3>2. \A p \in {"unmuting", "failed", "leaving", "attached"} :
             [req[r] EXCEPT !.at = p] = [req[r] EXCEPT !.at = p, !.overlap = req[r].overlap]
      BY <1>1 DEF Records
    <3>3. req[r].overlap \in Overlaps
      BY <1>1 DEF Records
    <3>4. CASE Activates(r)
      <4>1. req' = [req EXCEPT ![r] = [req[r] EXCEPT !.at = "unmuting"]] /\ req[r].at = "joined"
        BY <3>4 DEF Activates, At
      <4> QED BY <3>2, <3>3, <4>1
    <3>5. CASE FloodsLate(r)
      BY <3>1, <3>5 DEF FloodsLate, At
    <3>6. CASE StaysMuted(r)
      BY <3>1, <3>6 DEF StaysMuted, At
    <3>7. CASE Unmutes(r)
      <4>1. /\ req' = [req EXCEPT ![r] = IF req[r].adopted THEN Over
                                         ELSE [req[r] EXCEPT !.overlap = "done", !.at = "attached"]]
            /\ req[r].at = "unmuting"
        BY <3>7 DEF Unmutes, At
      <4>2. [req[r] EXCEPT !.overlap = "done", !.at = "attached"] = [req[r] EXCEPT !.at = "attached", !.overlap = "done"]
        BY <1>1 DEF Records
      <4> QED BY <3>1, <4>1, <4>2
    <3>8. CASE Cancelled(r)
      <4>1. /\ req' = [req EXCEPT ![r] = IF req[r].adopted THEN Over ELSE [req[r] EXCEPT !.at = "failed"]]
            /\ req[r].at = "unmuting"
        BY <3>8 DEF Cancelled, At
      <4> QED BY <3>2, <3>3, <4>1
    <3> QED BY <1>4, <3>4, <3>5, <3>6, <3>7, <3>8
  <2>2. CASE req' = [req EXCEPT ![r] = Over]
    BY <1>1, <1>2, <1>3, <2>1, <2>2, MoveKeeps DEF Holding, Joined, Needs
  <2>3. CASE req' = [req EXCEPT ![r] = [req[r] EXCEPT !.at = p, !.overlap = o]]
    <3> DEFINE x == [req[r] EXCEPT !.at = p, !.overlap = o]
    <3>1. /\ x \in Records /\ x.at \in {"unmuting", "failed", "leaving", "attached"} /\ x.chat = req[r].chat
          /\ x.mode = req[r].mode /\ x.lead = req[r].lead /\ x.own = req[r].own /\ x.tries = req[r].tries
          /\ x.adopted = req[r].adopted /\ x.doomed = req[r].doomed
      BY <1>1 DEF Records, Phases, InPlay, Ended
    <3>2. req' = [req EXCEPT ![r] = x]
      BY <2>3
    <3> HIDE DEF x
    <3>3. Proper(x)
      BY <3>1 DEF Proper
    <3> QED BY <1>1, <1>2, <2>1, <3>1, <3>2, <3>3, MoveKeeps DEF Holding, Joined, Needs
  <2> QED BY <2>1, <2>2, <2>3
<1>5. ASSUME Adopts(r) PROVE SlotsInv'
  <2>1. /\ Submitted(r) /\ ~req[r].doomed
        /\ req' = [req EXCEPT ![r] = IF req[r].at = "attached" THEN Over
                                     ELSE [req[r] EXCEPT !.adopted = TRUE, !.lock = 0]]
    BY <1>5 DEF Adopts
  <2>2. CASE req[r].at = "attached"
    BY <1>1, <1>2, <1>3, <2>1, <2>2, MoveKeeps DEF Holding, Joined, Needs
  <2>3. CASE req[r].at # "attached"
    <3> DEFINE x == [req[r] EXCEPT !.adopted = TRUE, !.lock = 0]
    <3>1. /\ x \in Records /\ x.at = req[r].at /\ x.chat = req[r].chat
          /\ x.mode = req[r].mode /\ x.lead = req[r].lead /\ x.own = req[r].own /\ x.tries = req[r].tries
          /\ x.doomed = req[r].doomed
      BY <1>1 DEF Records
    <3>2. req' = [req EXCEPT ![r] = x]
      BY <2>1, <2>3
    <3> HIDE DEF x
    <3>3. req[r].at \notin {"over", "asking", "locked"} /\ Proper(x)
      BY <1>1, <2>1, <3>1 DEF Proper, Submitted, At, InPlay, Ended
    <3> QED BY <1>1, <1>2, <2>1, <3>1, <3>2, <3>3, MoveKeeps DEF Holding, Joined, Needs
  <2> QED BY <2>2, <2>3
<1> QED BY <1>4, <1>5

-----------------------------------------------------------------------------
(* The steps that take a slot.                                                 *)

\* A start takes the slot of its chat, if nobody holds it, and connects.
LEMMA TakeKeeps ==
  ASSUME SlotsInv, Recorded, NEW r \in Requests, NEW c \in Chats, NEW x \in Records,
         req' = [req EXCEPT ![r] = x], holder' = Taken(c, r),
         UNCHANGED <<playing, called, stopped, stopping, stops>>,
         req[r].at # "over", req[r].at \in Holding => req[r].chat = c,
         x.at = "connecting", x.chat = c, ~(x.adopted /\ x.doomed),
         x.mode = "early" => x.tries = 0 /\ x.lead = Creates(c) /\ req[r].at \notin Holding
  PROVE  SlotsInv'
<1>1. TypeOK /\ playing' \subseteq Chats /\ called' \subseteq Chats /\ stopped' \subseteq Chats
  BY DEF SlotsInv, TypeOK
<1>2. /\ holder' \in [Chats -> Requests \cup {Nobody}] /\ \A d \in Chats \ {c} : holder'[d] = holder[d]
      /\ holder'[c] = IF holder[c] = Nobody THEN r ELSE holder[c]
  BY <1>1, Tables
<1>3. holder'[c] = r /\ x.mode = "early" => x.lead
  <2>1. holder[c] = r => req[r].at \in Holding
    BY HolderIs
  <2> QED BY <1>2, <2>1 DEF Creates, Active
<1>4. Proper(x) /\ ~Needs(x) /\ (holder'[c] = r => Sound(x, c))
  BY <1>3 DEF Proper, Needs, Sound, Joined, Holding
<1> QED BY <1>1, <1>2, <1>4, StepKeeps

LEMMA TakeSteps ==
  ASSUME SlotsInv, Recorded, NEW r \in Requests, Begin(r) \/ Restart(r)
  PROVE  SlotsInv'
<1>1. /\ TypeOK /\ req[r] \in Records /\ Proper(req[r]) /\ ChatOf(r) \in Chats
  BY TypeOfRequest DEF SlotsInv
<1>2. CASE Begin(r)
  <2>1. PICK o \in Overlaps :
           req' = [req EXCEPT ![r] =
             [req[r] EXCEPT !.at = "connecting", !.overlap = o,
                            !.lead = Early(r) /\ Creates(ChatOf(r)), !.own = ~Early(r) /\ Creates(ChatOf(r))]]
    BY <1>2 DEF Begin, Overlaps
  <2>2. PICK l \in BOOLEAN, w \in BOOLEAN : l = (Early(r) /\ Creates(ChatOf(r))) /\ w = (~Early(r) /\ Creates(ChatOf(r)))
    OBVIOUS
  <2> DEFINE x == [req[r] EXCEPT !.at = "connecting", !.overlap = o, !.lead = l, !.own = w]
  <2>3. /\ x \in Records /\ x.at = "connecting" /\ x.chat = req[r].chat /\ x.mode = req[r].mode
        /\ x.tries = req[r].tries /\ x.adopted = req[r].adopted /\ x.lead = l
    BY <1>1 DEF Records, Phases, InPlay
  <2>4. req' = [req EXCEPT ![r] = x]
    BY <2>1, <2>2
  <2> HIDE DEF x
  <2>5. req[r].at = "locked" /\ x.tries = 0 /\ ~x.adopted
    BY <1>1, <1>2, <2>3 DEF Begin, At, Proper
  <2>6. x.mode = "early" => x.lead = Creates(ChatOf(r))
    BY <2>2, <2>3 DEF Early, Creates, Active
  <2>7. holder' = Taken(ChatOf(r), r) /\ UNCHANGED <<playing, called, stopped, stopping, stops>> /\ x.chat = ChatOf(r)
    BY <1>2, <2>3 DEF Begin, ChatOf
  <2> QED BY <1>1, <2>3, <2>4, <2>5, <2>6, <2>7, TakeKeeps DEF Holding, Joined
<1>3. CASE Restart(r)
  <2>1. PICK c \in Chats : /\ holder' = Taken(c, r) /\ req[r].at = "idle"
                           /\ req' = [req EXCEPT ![r] = [Blank EXCEPT !.at = "connecting", !.chat = c,
                                                               !.mode = "restart", !.own = Creates(c)]]
    BY <1>1, <1>3 DEF Restart, TypeOK, At
  <2>2. PICK w \in BOOLEAN : w = Creates(c)
    BY DEF Creates
  <2> DEFINE x == [Blank EXCEPT !.at = "connecting", !.chat = c, !.mode = "restart", !.own = w]
  <2>3. x \in Records /\ x.at = "connecting" /\ x.chat = c /\ x.mode = "restart" /\ ~x.adopted
    BY BlankRecord DEF Records, Phases, InPlay, Modes
  <2>4. req' = [req EXCEPT ![r] = x]
    BY <2>1, <2>2
  <2> HIDE DEF x
  <2> QED BY <1>3, <2>1, <2>3, <2>4, TakeKeeps DEF Holding, Joined, Restart
<1> QED BY <1>2, <1>3

\* The fallback of a start that failed.
LEMMA FallsBackKeeps ==
  ASSUME SlotsInv, Recorded, NEW r \in Requests, ~Cut(r), FallsBack(r)
  PROVE  SlotsInv'
<1>1. /\ TypeOK /\ req[r] \in Records /\ Proper(req[r]) /\ ChatOf(r) \in Chats
      /\ req[r].at = "failed" /\ req[r].adopted
      /\ UNCHANGED <<playing, called, stopped, stopping, stops>>
  BY TypeOfRequest DEF SlotsInv, FallsBack, At
<1>2. CASE Admits(ChatOf(r))
  <2>1. PICK w \in BOOLEAN : w = Creates(ChatOf(r))
    BY DEF Creates
  <2> DEFINE x == [req[r] EXCEPT !.mode = "restart", !.own = w, !.at = "connecting"]
  <2>2. /\ x \in Records /\ x.at = "connecting" /\ x.chat = req[r].chat /\ x.mode = "restart"
        /\ x.adopted = req[r].adopted /\ x.doomed = req[r].doomed
    BY <1>1 DEF Records, Phases, InPlay, Modes
  <2>3. req' = [req EXCEPT ![r] = x] /\ holder' = Taken(ChatOf(r), r)
    BY <1>2, <2>1 DEF FallsBack
  <2> HIDE DEF x
  <2> QED BY <1>1, <2>2, <2>3, TakeKeeps DEF ChatOf, Cut
<1>3. CASE ~Admits(ChatOf(r))
  <2>1. req' = [req EXCEPT ![r] = Over] /\ holder' = holder /\ holder[ChatOf(r)] = Nobody
    BY <1>1, <1>3 DEF FallsBack, Admits, Active
  <2>2. Proper(Over) /\ Over \in Records /\ Nobody # r
    BY BlankRecord, SlotsAssumption DEF Proper
  <2>3. /\ holder' \in [Chats -> Requests \cup {Nobody}] /\ playing' \subseteq Chats
        /\ called' \subseteq Chats /\ stopped' \subseteq Chats /\ \A d \in Chats \ {ChatOf(r)} : holder'[d] = holder[d]
        /\ holder'[ChatOf(r)] = Nobody
    BY <1>1, <2>1 DEF TypeOK
  <2> QED BY <1>1, <2>1, <2>2, <2>3, StepKeeps DEF ChatOf
<1> QED BY <1>2, <1>3

-----------------------------------------------------------------------------
(* The steps that give a slot back.                                            *)

\* A play call that fails or is cut off releases the reservation it used.
LEMMA ReleaseKeeps ==
  ASSUME SlotsInv, Recorded, NEW r \in Requests, NEW phase \in {"failed", "lost", "over"},
         ReleaseTo(r, phase), req[r].at \in {"connecting", "joined", "unmuting", "leaving"},
         playing' \subseteq Chats, UNCHANGED <<called, stopped, stopping, stops>>,
         phase = "lost" => Early(r) /\ req[r].tries < MaxTries,
         phase = "over" => Cut(r)
  PROVE  SlotsInv'
<1>1. PICK c \in Chats : c = ChatOf(r) /\ c = req[r].chat
  BY TypeOfRequest DEF SlotsInv, ChatOf
<1>2. TypeOK /\ req[r] \in Records /\ called' \subseteq Chats /\ stopped' \subseteq Chats
  BY TypeOfRequest DEF SlotsInv, TypeOK
<1>3. PICK b \in BOOLEAN : b = Current(r)
  <2>1. Current(r) \in BOOLEAN
    BY <1>2 DEF Current, Records
  <2> QED BY <2>1
<1>4. holder' = Released(c, b)
  BY <1>1, <1>3 DEF ReleaseTo
<1>5. /\ holder' \in [Chats -> Requests \cup {Nobody}] /\ \A d \in Chats \ {c} : holder'[d] = holder[d]
      /\ holder'[c] = IF b THEN Nobody ELSE holder[c]
  BY <1>2, <1>4, Tables
<1>6. ASSUME holder'[c] = r
      PROVE  holder[c] = r /\ ~Cut(r) /\ ~Early(r)
  <2>1. holder[c] = r /\ ~b
    BY <1>5, <1>6, SlotsAssumption
  <2> QED BY <1>3, <2>1, HolderIs
<1>7. PICK x \in Records : /\ req' = [req EXCEPT ![r] = x] /\ x.at = phase
                           /\ phase # "over" => x.chat = req[r].chat /\ x.mode = req[r].mode /\ x.tries = req[r].tries
                                                /\ x.adopted = req[r].adopted /\ x.doomed = req[r].doomed
  <2>1. CASE phase = "over"
    BY <2>1, BlankRecord DEF ReleaseTo
  <2>2. CASE phase # "over" /\ UsesLead(r)
    <3> DEFINE x == [[req[r] EXCEPT !.lead = FALSE] EXCEPT !.at = phase, !.overlap = "done"]
    <3>1. /\ x \in Records /\ x.at = phase /\ x.chat = req[r].chat /\ x.mode = req[r].mode /\ x.tries = req[r].tries
          /\ x.adopted = req[r].adopted /\ x.doomed = req[r].doomed
      BY <1>2 DEF Records, Phases, InPlay, Ended, Overlaps
    <3>2. req' = [req EXCEPT ![r] = x]
      BY <2>2 DEF ReleaseTo, Spent
    <3> HIDE DEF x
    <3> QED BY <3>1, <3>2
  <2>3. CASE phase # "over" /\ ~UsesLead(r)
    <3> DEFINE x == [[req[r] EXCEPT !.own = FALSE] EXCEPT !.at = phase, !.overlap = "done"]
    <3>1. /\ x \in Records /\ x.at = phase /\ x.chat = req[r].chat /\ x.mode = req[r].mode /\ x.tries = req[r].tries
          /\ x.adopted = req[r].adopted /\ x.doomed = req[r].doomed
      BY <1>2 DEF Records, Phases, InPlay, Ended, Overlaps
    <3>2. req' = [req EXCEPT ![r] = x]
      BY <2>3 DEF ReleaseTo, Spent
    <3> HIDE DEF x
    <3> QED BY <3>1, <3>2
  <2> QED BY <2>1, <2>2, <2>3
<1>8. Proper(x)
  BY <1>7 DEF Proper
<1>9. holder'[c] = r => Sound(x, c) /\ ~Needs(x)
  BY <1>1, <1>6, <1>7 DEF Sound, Needs, Holding, Joined, Cut, Early
<1>10. holder'[c] \in {holder[c], Nobody, r}
  BY <1>5
<1> QED BY <1>1, <1>2, <1>5, <1>7, <1>8, <1>9, <1>10, StepKeeps

LEMMA ReleaseSteps ==
  ASSUME SlotsInv, Recorded, NEW r \in Requests,
         \/ Raises(r) \/ FloodsEarly(r) \/ LosesConnection(r) \/ Leaves(r)
  PROVE  SlotsInv'
<1>1. playing \subseteq Chats
  BY DEF SlotsInv, TypeOK
<1>2. CASE Raises(r)
  BY <1>1, <1>2, ReleaseKeeps DEF Raises, At
<1>3. CASE FloodsEarly(r)
  BY <1>1, <1>3, ReleaseKeeps DEF FloodsEarly, At
<1>4. CASE LosesConnection(r)
  BY <1>1, <1>4, ReleaseKeeps DEF LosesConnection, At
<1>5. CASE Leaves(r)
  BY <1>1, <1>5, ReleaseKeeps DEF Leaves, Leave, At
<1> QED BY <1>2, <1>3, <1>4, <1>5

\* A start whose monitor was cancelled goes no further: it holds no slot.
LEMMA DoomedKeeps ==
  ASSUME SlotsInv, Recorded, NEW r \in Requests, Doomed(r)
  PROVE  SlotsInv'
<1>1. /\ TypeOK /\ Cut(r) /\ req[r].at \in InPlay \cup Ended /\ UNCHANGED <<playing, called, stopped, stopping, stops>>
      /\ playing \subseteq Chats /\ called \subseteq Chats /\ stopped \subseteq Chats
  BY DEF SlotsInv, Doomed, Submitted, At, TypeOK
<1>2. PICK c \in Chats : c = ChatOf(r) /\ c = req[r].chat
  BY <1>1, TypeOfRequest DEF ChatOf
<1>3. CASE At(r, {"connecting", "joined"})
  BY <1>1, <1>3, ReleaseKeeps DEF Doomed, At
<1>4. CASE ~At(r, {"connecting", "joined"})
  <2>1. req' = [req EXCEPT ![r] = Over] /\ holder' = holder
    BY <1>4 DEF Doomed
  <2>2. Proper(Over) /\ Over \in Records
    BY BlankRecord DEF Proper
  <2>3. req[r].at # "over"
    BY <1>1 DEF InPlay, Ended
  <2>4. holder[c] # r
    BY <1>1, <2>3, HolderIs
  <2>5. holder' \in [Chats -> Requests \cup {Nobody}] /\ holder'[c] \in {holder[c], Nobody, r}
    BY <1>1, <2>1 DEF TypeOK
  <2> QED BY <1>1, <1>2, <2>1, <2>2, <2>3, <2>4, <2>5, StepKeeps
<1> QED BY <1>3, <1>4

\* The assistant joined: a preconnect goes on, any other start is over.
LEMMA JoinsKeeps ==
  ASSUME SlotsInv, Recorded, NEW r \in Requests, Joins(r)
  PROVE  SlotsInv'
<1>1. /\ TypeOK /\ req[r] \in Records /\ Proper(req[r]) /\ req[r].at = "connecting"
      /\ UNCHANGED <<holder, stopping, stops>>
  BY TypeOfRequest DEF SlotsInv, Joins, At
<1>2. PICK c \in Chats : c = ChatOf(r) /\ c = req[r].chat
  BY <1>1, TypeOfRequest DEF ChatOf
<1>3. /\ playing' = playing \cup {c} /\ playing' \subseteq Chats /\ called' \subseteq Chats /\ stopped' \subseteq Chats
      /\ holder' \in [Chats -> Requests \cup {Nobody}] /\ Live(c)'
  BY <1>1, <1>2 DEF Joins, TypeOK, Live
<1>4. PICK x \in Records : /\ req' = [req EXCEPT ![r] = x]
                           /\ \/ x.at = "over"
                              \/ /\ x.at = "joined" /\ x.chat = c /\ x.mode = req[r].mode /\ x.lead = req[r].lead
                                 /\ x.own = req[r].own /\ x.tries = req[r].tries
                                 /\ x.adopted = req[r].adopted /\ x.doomed = req[r].doomed
  <2>1. CASE Early(r)
    <3> DEFINE x == [req[r] EXCEPT !.at = "joined"]
    <3>1. /\ x \in Records /\ x.at = "joined" /\ x.chat = req[r].chat /\ x.mode = req[r].mode /\ x.lead = req[r].lead
          /\ x.own = req[r].own /\ x.tries = req[r].tries
          /\ x.adopted = req[r].adopted /\ x.doomed = req[r].doomed
      BY <1>1 DEF Records, Phases, InPlay
    <3>2. req' = [req EXCEPT ![r] = x]
      BY <2>1 DEF Joins
    <3> HIDE DEF x
    <3> QED BY <1>2, <3>1, <3>2
  <2>2. CASE ~Early(r)
    BY <2>2, BlankRecord DEF Joins
  <2> QED BY <2>1, <2>2
<1>5. Proper(x)
  BY <1>4 DEF Proper
<1>6. holder'[c] = r => Sound(x, c)
  <2>1. holder[c] = r => ~Cut(r) /\ (Early(r) => Current(r))
    BY <1>1, HolderIs
  <2> QED BY <1>1, <1>4, <2>1 DEF Sound, Cut, Early, Current, UsesLead, Holding, Joined
<1>7. holder'[c] \in {holder[c], Nobody, r} /\ \A d \in Chats \ {c} : holder'[d] = holder[d]
  BY <1>1
<1> QED BY <1>1, <1>2, <1>3, <1>4, <1>5, <1>6, <1>7, StepKeeps

-----------------------------------------------------------------------------
(* The retries and the rollback of a preconnect.                               *)

\* The binding of a lost preconnect, which holds no slot, is reset.
LEMMA ResetLeavesKeeps ==
  ASSUME SlotsInv, Recorded, NEW r \in Requests, ResetLeaves(r)
  PROVE  SlotsInv'
<1>1. /\ TypeOK /\ req[r] \in Records /\ Proper(req[r]) /\ req[r].at = "lost"
      /\ UNCHANGED <<holder, called, stopped, stopping, stops>> /\ called \subseteq Chats /\ stopped \subseteq Chats
      /\ holder \in [Chats -> Requests \cup {Nobody}]
  BY TypeOfRequest DEF SlotsInv, ResetLeaves, At, TypeOK
<1>2. PICK c \in Chats : c = ChatOf(r) /\ c = req[r].chat
  BY <1>1, TypeOfRequest DEF ChatOf
<1>3. playing' \subseteq Chats
  BY <1>1, <1>2 DEF ResetLeaves, Leave, TypeOK
<1> DEFINE x == [req[r] EXCEPT !.at = "unbinding"]
<1>4. x \in Records /\ x.at = "unbinding" /\ x.tries = req[r].tries /\ req' = [req EXCEPT ![r] = x]
  BY <1>1 DEF Records, Phases, InPlay, ResetLeaves
<1> HIDE DEF x
<1>5. Proper(x)
  BY <1>1, <1>4 DEF Proper
<1>6. holder[c] # r
  BY <1>1, HolderIs DEF Holding, Joined
<1>7. holder'[c] \in {holder[c], Nobody, r} /\ \A d \in Chats \ {c} : holder'[d] = holder[d]
  BY <1>1
<1> QED BY <1>1, <1>2, <1>3, <1>4, <1>5, <1>6, <1>7, StepKeeps

\* The play call again: a slot that it takes is its own.
LEMMA AgainKeeps ==
  ASSUME SlotsInv, Recorded, NEW r \in Requests, ~Cut(r), req[r].at \in {"lost", "unbinding"},
         NEW table \in [Chats -> Requests \cup {Nobody}], NEW admitted \in BOOLEAN, Again(r, table, admitted),
         \A d \in Chats \ {ChatOf(r)} : table[d] = holder[d],
         table[ChatOf(r)] \in {Nobody, holder[ChatOf(r)]},
         UNCHANGED <<playing, called, stopped, stopping, stops>>
  PROVE  SlotsInv'
<1>1. /\ TypeOK /\ req[r] \in Records /\ Proper(req[r])
      /\ playing' \subseteq Chats /\ called' \subseteq Chats /\ stopped' \subseteq Chats
  BY TypeOfRequest DEF SlotsInv, TypeOK
<1>2. PICK c \in Chats : c = ChatOf(r) /\ c = req[r].chat
  BY <1>1, TypeOfRequest DEF ChatOf
<1>3. PICK o \in Overlaps :
        /\ holder' = IF admitted /\ table[c] = Nobody THEN [table EXCEPT ![c] = r] ELSE table
        /\ req' = [req EXCEPT ![r] =
             [req[r] EXCEPT !.tries = req[r].tries + 1, !.overlap = o, !.own = admitted /\ table[c] = Nobody,
                            !.at = IF admitted THEN "connecting" ELSE "failed"]]
  BY <1>2 DEF Again, Overlaps
<1>4. PICK w \in BOOLEAN, p \in {"connecting", "failed"} :
         w = (admitted /\ table[c] = Nobody) /\ p = IF admitted THEN "connecting" ELSE "failed"
  OBVIOUS
<1> DEFINE x == [req[r] EXCEPT !.tries = req[r].tries + 1, !.overlap = o, !.own = w, !.at = p]
<1>5. /\ x \in Records /\ x.at \in {"connecting", "failed"} /\ x.chat = req[r].chat /\ x.tries = req[r].tries + 1
      /\ x.own = w /\ x.adopted = req[r].adopted /\ x.doomed = req[r].doomed
  <2>1. req[r].tries + 1 \in 0 .. MaxTries
    BY <1>1, SlotsAssumption DEF Records, Proper
  <2> QED BY <1>1, <2>1 DEF Records, Phases, InPlay, Ended
<1>6. req' = [req EXCEPT ![r] = x]
  BY <1>3, <1>4
<1> HIDE DEF x
<1>7. Proper(x) /\ ~Needs(x) /\ x.tries # 0
  BY <1>1, <1>5 DEF Proper, Needs, Joined, Records
<1>8. holder[c] # r /\ req[r].at # "over" /\ r # Nobody
  BY HolderIs, SlotsAssumption DEF Holding, Joined
<1>9. /\ holder' \in [Chats -> Requests \cup {Nobody}] /\ \A d \in Chats \ {c} : holder'[d] = holder[d]
      /\ holder'[c] \in {holder[c], Nobody, r} /\ (holder'[c] = r => w)
  <2>1. CASE w
    BY <1>2, <1>3, <1>4, <2>1
  <2>2. CASE ~w
    BY <1>2, <1>3, <1>4, <1>8, <2>2
  <2> QED BY <2>1, <2>2
<1>10. holder'[c] = r => Sound(x, c)
  BY <1>2, <1>5, <1>7, <1>9 DEF Sound, Cut, Holding, Joined
<1> QED BY <1>1, <1>2, <1>5, <1>6, <1>7, <1>8, <1>9, <1>10, StepKeeps

LEMMA RetrySteps ==
  ASSUME SlotsInv, Recorded, NEW r \in Requests, ~Cut(r), ResetRetries(r) \/ SettleRetries(r)
  PROVE  SlotsInv'
<1>1. TypeOK /\ ChatOf(r) \in Chats
  BY TypeOfRequest DEF SlotsInv
<1>2. CASE ResetRetries(r)
  <2>1. PICK b \in BOOLEAN : b <=> Cardinality(Active \ {ChatOf(r)}) < Capacity
    <3>1. CASE Cardinality(Active \ {ChatOf(r)}) < Capacity
      BY <3>1
    <3>2. CASE ~(Cardinality(Active \ {ChatOf(r)}) < Capacity)
      BY <3>2
    <3> QED BY <3>1, <3>2
  <2>2. /\ Freed(ChatOf(r)) \in [Chats -> Requests \cup {Nobody}] /\ Freed(ChatOf(r))[ChatOf(r)] = Nobody
        /\ \A d \in Chats \ {ChatOf(r)} : Freed(ChatOf(r))[d] = holder[d]
    BY <1>1, Tables
  <2>3. Again(r, Freed(ChatOf(r)), b) /\ req[r].at = "unbinding" /\ UNCHANGED <<playing, called, stopped, stopping, stops>>
    BY <1>2, <2>1 DEF ResetRetries, At, Again
  <2> QED BY <2>2, <2>3, AgainKeeps
<1>3. CASE SettleRetries(r)
  <2>1. PICK b \in BOOLEAN : b = Admits(ChatOf(r))
    BY DEF Admits
  <2>2. Again(r, holder, b) /\ req[r].at = "lost" /\ UNCHANGED <<playing, called, stopped, stopping, stops>>
    BY <1>3, <2>1 DEF SettleRetries, At
  <2>3. holder \in [Chats -> Requests \cup {Nobody}]
    BY <1>1 DEF TypeOK
  <2> QED BY <2>2, <2>3, AgainKeeps
<1> QED BY <1>2, <1>3

\* The rollback gives back the reservation of a first attempt; of a later one it
\* leaves the slot taken.
LEMMA RollsBackKeeps ==
  ASSUME SlotsInv, Recorded, NEW r \in Requests, RollsBack(r)
  PROVE  SlotsInv'
<1>1. /\ TypeOK /\ req[r] \in Records /\ Early(r) /\ req[r].at \in InPlay \cup Ended
      /\ UNCHANGED <<called, stopped, stopping, stops>> /\ called \subseteq Chats /\ stopped \subseteq Chats
  BY TypeOfRequest DEF SlotsInv, RollsBack, Submitted, At, TypeOK
<1>2. PICK c \in Chats : c = ChatOf(r) /\ c = req[r].chat
  BY <1>1, TypeOfRequest DEF ChatOf
<1> DEFINE inPlay == At(r, {"connecting", "joined"}) /\ req[r].own /\ ~UsesLead(r)
<1>3. PICK b \in BOOLEAN, w \in BOOLEAN :
         b = (req[r].lead \/ inPlay) /\ w = (req[r].own /\ ~inPlay)
  OBVIOUS
<1>4. holder' = Released(c, b) /\ req' = [req EXCEPT ![r] = [Over EXCEPT !.own = w]] /\ Leave(c)
  BY <1>2, <1>3 DEF RollsBack
<1>5. req[r].lead \in BOOLEAN /\ req[r].own \in BOOLEAN
  BY <1>1 DEF Records
<1>6. (~b => ~req[r].lead) /\ (~w /\ ~b => ~req[r].own)
  BY <1>3, <1>5
<1> HIDE DEF inPlay
<1>7. /\ holder' \in [Chats -> Requests \cup {Nobody}] /\ \A d \in Chats \ {c} : holder'[d] = holder[d]
      /\ holder'[c] = IF b THEN Nobody ELSE holder[c]
  BY <1>1, <1>4, Tables
<1> DEFINE x == [Over EXCEPT !.own = w]
<1>8. x \in Records /\ x.at = "over" /\ x.own = w /\ req' = [req EXCEPT ![r] = x]
  BY <1>4, BlankRecord DEF Records
<1> HIDE DEF x
<1>9. playing' \subseteq Chats
  BY <1>1, <1>4 DEF Leave, TypeOK
<1>10. holder'[c] = r => w
  <2>1. holder'[c] = r => ~b /\ holder[c] = r
    BY <1>7, SlotsAssumption
  <2>2. holder[c] = r => Current(r)
    BY <1>1, HolderIs DEF InPlay, Ended
  <2> QED BY <1>6, <2>1, <2>2 DEF Current
<1>11. Proper(x) /\ req[r].at # "over" /\ (holder'[c] = r => Sound(x, c) /\ ~Needs(x))
  BY <1>1, <1>8, <1>10 DEF Proper, Sound, Needs, Joined, InPlay, Ended
<1>12. holder'[c] \in {holder[c], Nobody, r}
  BY <1>7
<1> QED BY <1>1, <1>2, <1>7, <1>8, <1>9, <1>11, <1>12, StepKeeps

-----------------------------------------------------------------------------
(* Stops.                                                                      *)

\* What stop() leaves of a request.
LEMMA CleanedUpFields ==
  ASSUME TypeOK, NEW c \in Chats, NEW q \in Requests
  PROVE  /\ CleanedUp(c, q) \in Records
         /\ CleanedUp(c, q).at = req[q].at /\ CleanedUp(c, q).chat = req[q].chat
         /\ CleanedUp(c, q).mode = req[q].mode /\ CleanedUp(c, q).lock = req[q].lock
         /\ CleanedUp(c, q).lead = req[q].lead /\ CleanedUp(c, q).tries = req[q].tries
         /\ CleanedUp(c, q).adopted = req[q].adopted /\ CleanedUp(c, q).own = req[q].own
         /\ CleanedUp(c, q).doomed = (req[q].doomed \/ (ChatOf(q) = c /\ Submitted(q)
                                                         /\ (req[q].adopted \/ At(q, {"attached"}))))
<1> DEFINE d == req[q].doomed \/ (ChatOf(q) = c /\ Submitted(q) /\ (req[q].adopted \/ At(q, {"attached"})))
           o == IF req[q].overlap = "running" /\ Submitted(q) THEN "cancelled" ELSE req[q].overlap
<1>1. req[q] \in Records
  BY TypeOfRequest
<1>2. d \in BOOLEAN /\ o \in Overlaps
  BY <1>1 DEF Records, Overlaps
<1>3. CleanedUp(c, q) = [req[q] EXCEPT !.doomed = d, !.overlap = o]
  BY DEF CleanedUp
<1>4. PICK e \in BOOLEAN, p \in Overlaps :
         CleanedUp(c, q) = [req[q] EXCEPT !.doomed = e, !.overlap = p] /\ e = d
  <2> HIDE DEF d, o
  <2> QED BY <1>2, <1>3
<1> HIDE DEF d, o
<1>5. ASSUME NEW z, z = [req[q] EXCEPT !.doomed = e, !.overlap = p]
      PROVE  /\ z \in Records /\ z.doomed = e
             /\ z.at = req[q].at /\ z.chat = req[q].chat /\ z.mode = req[q].mode /\ z.lock = req[q].lock
             /\ z.lead = req[q].lead /\ z.tries = req[q].tries /\ z.adopted = req[q].adopted /\ z.own = req[q].own
  BY <1>1, <1>5 DEF Records
<1> QED BY <1>4, <1>5 DEF d

\* A cleanup frees the slot of its chat and disturbs no holder of another one.
LEMMA CleanupKeeps ==
  ASSUME SlotsInv, Recorded, NEW c \in Chats, NEW requests \in [Requests -> Records], Cleanup(c, requests),
         UNCHANGED <<playing, stopped>>, NEW r,
         \A q \in Requests \ {r} : requests[q] = CleanedUp(c, q),
         r \in Requests => requests[r] = Over /\ req[r].at = "failed" /\ req[r].chat = c
  PROVE  SlotsInv'
<1>1. /\ TypeOK /\ holder' = Freed(c) /\ called' = called \ {c} /\ stopping' \subseteq stopping \cup {c}
      /\ stops' = [stops EXCEPT ![c] = stops[c] + 1] /\ req' = requests
  BY DEF SlotsInv, Cleanup
<1>2. /\ holder' \in [Chats -> Requests \cup {Nobody}] /\ holder'[c] = Nobody
      /\ \A d \in Chats \ {c} : holder'[d] = holder[d]
  BY <1>1, Tables
<1>3. stops' \in [Chats -> Nat]
  BY <1>1 DEF TypeOK
<1>4. TypeOK' /\ ousted' \subseteq Chats
  BY <1>1, <1>2, <1>3 DEF TypeOK, Records, Recorded
<1>5. ASSUME NEW q \in Requests
      PROVE  \/ requests[q] = Over
             \/ /\ requests[q].at = req[q].at /\ requests[q].chat = req[q].chat /\ requests[q].mode = req[q].mode
                /\ requests[q].lead = req[q].lead /\ requests[q].own = req[q].own /\ requests[q].tries = req[q].tries
                /\ requests[q].adopted = req[q].adopted
                /\ requests[q].doomed /\ ~req[q].doomed => req[q].chat = c /\ Submitted(q)
  <2>1. req[q].doomed \in BOOLEAN
    BY <1>1, TypeOfRequest DEF Records
  <2> QED BY <1>1, <2>1, CleanedUpFields DEF ChatOf
<1>6. ASSUME NEW q \in Requests PROVE Proper(req'[q])
  <2>1. Proper(req[q]) /\ Proper(Over) /\ req'[q] = requests[q]
    BY <1>1, BlankRecord DEF SlotsInv, Proper
  <2>2. Submitted(q) => req[q].at \notin {"asking", "locked"}
    BY DEF Submitted, At, InPlay, Ended
  <2> QED BY <1>5, <2>1, <2>2 DEF Proper
<1>7. ASSUME NEW d \in Chats, holder'[d] # Nobody
      PROVE  Sound(req'[holder'[d]], d) /\ (Needs(req'[holder'[d]]) => Live(d)')
  <2>1. d # c /\ holder'[d] = holder[d] /\ holder[d] \in Requests
    BY <1>1, <1>2, <1>7 DEF TypeOK
  <2> DEFINE q == holder[d]
  <2>2. Sound(req[q], d) /\ (Needs(req[q]) => Live(d))
    BY <1>7, <2>1 DEF SlotsInv, Slot
  <2>3. q # r
    BY <2>1, <2>2 DEF Sound
  <2>4. /\ req'[q].at = req[q].at /\ req'[q].chat = req[q].chat /\ req'[q].mode = req[q].mode
        /\ req'[q].lead = req[q].lead /\ req'[q].own = req[q].own /\ req'[q].tries = req[q].tries
        /\ req'[q].adopted = req[q].adopted
        /\ req'[q].doomed /\ ~req[q].doomed => req[q].chat = c /\ Submitted(q)
    <3>1. requests[q] = CleanedUp(c, q) /\ req'[q] = requests[q] /\ req[q].doomed \in BOOLEAN
      BY <1>1, <2>1, <2>3, TypeOfRequest DEF Records
    <3> QED BY <1>1, <2>1, <3>1, CleanedUpFields DEF ChatOf
  <2>5. Submitted(q) => req[q].at # "over"
    BY DEF Submitted, At, InPlay, Ended
  <2>6. Live(d) => Live(d)'
    BY <1>7, LiveStays
  <2> HIDE DEF q
  <2>7. Sound(req'[q], d) /\ (Needs(req'[q]) => Needs(req[q]))
    BY <2>1, <2>2, <2>4, <2>5 DEF Sound, Needs
  <2> QED BY <2>1, <2>2, <2>6, <2>7 DEF q
<1> QED BY <1>4, <1>6, <1>7 DEF SlotsInv, Slot

\* /stop, and the stop of a start that has no source left to try.
LEMMA StopSteps ==
  ASSUME SlotsInv, Recorded
  PROVE  /\ \A c \in Chats : Stop(c) => SlotsInv'
         /\ \A r \in Requests : GivesUp(r) => SlotsInv'
<1>1. TypeOK
  BY DEF SlotsInv
<1>2. ASSUME NEW c \in Chats, Stop(c) PROVE SlotsInv'
  <2> DEFINE requests == [q \in Requests |-> CleanedUp(c, q)]
  <2>1. requests \in [Requests -> Records] /\ \A q \in Requests : requests[q] = CleanedUp(c, q)
    BY <1>1, CleanedUpFields
  <2>2. Cleanup(c, requests) /\ UNCHANGED <<playing, stopped>>
    BY <1>2 DEF Stop
  <2> HIDE DEF requests
  <2> QED BY <2>1, <2>2, CleanupKeeps, SlotsAssumption
<1>3. ASSUME NEW r \in Requests, GivesUp(r) PROVE SlotsInv'
  <2>1. PICK c \in Chats : c = ChatOf(r) /\ c = req[r].chat
    BY <1>1, TypeOfRequest DEF ChatOf
  <2> DEFINE requests == [q \in Requests |-> IF q = r THEN Over ELSE CleanedUp(c, q)]
  <2>2. /\ requests \in [Requests -> Records] /\ requests[r] = Over
        /\ \A q \in Requests \ {r} : requests[q] = CleanedUp(c, q)
    BY <1>1, CleanedUpFields, BlankRecord
  <2>3. Cleanup(c, requests) /\ UNCHANGED <<playing, stopped>> /\ req[r].at = "failed"
    BY <1>3, <2>1 DEF GivesUp, At
  <2> HIDE DEF requests
  <2> QED BY <2>1, <2>2, <2>3, CleanupKeeps
<1> QED BY <1>2, <1>3

\* leave_call of a stop: a slot that was taken meanwhile is that of a start thrown out.
LEMMA LeftKeeps ==
  ASSUME SlotsInv, Recorded, NEW c \in Chats, Left(c)
  PROVE  SlotsInv'
<1>1. /\ TypeOK /\ UNCHANGED <<req, holder, called, stops>> /\ stopping' = stopping \ {c}
      /\ playing' \subseteq playing /\ stopped' \subseteq stopped \cup {c}
  BY DEF SlotsInv, Left
<1>2. TypeOK' /\ ousted' \subseteq Chats /\ \A q \in Requests : Proper(req'[q])
  BY <1>1 DEF SlotsInv, TypeOK, Recorded
<1>3. ASSUME NEW d \in Chats, holder'[d] # Nobody, Live(d) PROVE Live(d)'
  <2>1. ~OwnStep(d)
    BY <1>1 DEF OwnStep
  <2> QED BY <1>3, <2>1, LiveStays
<1> QED BY <1>1, <1>2, <1>3 DEF SlotsInv, Slot

-----------------------------------------------------------------------------
\* Before the first start no slot is taken.
LEMMA SlotsInit == HistoryInit => SlotsInv
<1> SUFFICES ASSUME HistoryInit PROVE SlotsInv
  OBVIOUS
<1>1. TypeOK
  <2>1. req \in [Requests -> Records]
    BY BlankRecord DEF HistoryInit, Init
  <2> QED BY <2>1 DEF HistoryInit, Init, TypeOK, Records
<1>2. \A r \in Requests : Proper(req[r])
  BY BlankRecord DEF HistoryInit, Init, Proper
<1> QED BY <1>1, <1>2 DEF HistoryInit, Init, SlotsInv, Slot

\* Every step keeps the invariant: one lemma for each kind of step.
LEMMA SlotsNext ==
  ASSUME SlotsInv, [HistoryNext]_historyVars
  PROVE  SlotsInv'
<1>1. CASE UNCHANGED historyVars
  <2>1. UNCHANGED <<req, holder, playing, called, stopped, stopping, stops, ousted>>
    BY <1>1 DEF historyVars, vars
  <2> QED BY <2>1 DEF SlotsInv, TypeOK, Slot, Live
<1>2. CASE HistoryNext
  <2>1. Next /\ Recorded
    BY <1>2 DEF HistoryNext, Recorded
  <2>2. ASSUME NEW r \in Requests, PlayStep(r) PROVE SlotsInv'
    <3>1. CASE Cut(r)
      BY <2>1, <2>2, <3>1, DoomedKeeps DEF PlayStep
    <3>2. CASE ~Cut(r)
      BY <2>1, <2>2, <3>2, AskSteps, TakeSteps, JoinsKeeps, UnmuteSteps, ReleaseSteps, ResetLeavesKeeps,
         RetrySteps, FallsBackKeeps, StopSteps DEF PlayStep, StartStep
    <3> QED BY <3>1, <3>2
  <2>3. ASSUME NEW r \in Requests, Ask(r) \/ Restart(r) \/ Lock(r) \/ SearchStep(r) PROVE SlotsInv'
    BY <2>1, <2>3, AskSteps, TakeSteps, UnmuteSteps, RollsBackKeeps DEF SearchStep
  <2>4. ASSUME NEW c \in Chats, Stop(c) \/ Left(c) PROVE SlotsInv'
    BY <2>1, <2>4, StopSteps, LeftKeeps
  <2> QED BY <2>1, <2>2, <2>3, <2>4 DEF Next
<1> QED BY <1>1, <1>2

\* The inductive invariant: whose a taken slot is, and which release frees it.
THEOREM SlotsInvHolds == HistorySpec => []SlotsInv
<1>1. SlotsInv /\ [HistoryNext]_historyVars => SlotsInv'
  BY SlotsNext
<1> QED BY <1>1, SlotsInit, PTL DEF HistorySpec

\* For any chats, requests, capacity and bounds, and however starts and stops of a
\* chat overlap, no path of a start that fails, is rolled back or is stopped leaves
\* the slot of a chat taken that is not in its voice chat, but for the rollback after
\* a retried connection and for a start that somebody else threw out.
THEOREM NoLeakHolds == HistorySpec => []NoLeak
<1>1. SlotsInv => NoLeak
  <2> SUFFICES ASSUME SlotsInv, NEW c \in Chats, holder[c] # Nobody
               PROVE  c \in playing \/ Busy(c) \/ c \in ousted \/ GivenUpAgain(c)
    BY DEF NoLeak, Active
  <2>1. PICK r \in Requests : r = holder[c]
    BY DEF SlotsInv, TypeOK
  <2>2. Sound(req[r], c) /\ (Needs(req[r]) => Live(c))
    BY <2>1 DEF SlotsInv, Slot
  <2>3. CASE req[r].at = "over"
    BY <2>1, <2>2, <2>3 DEF Needs, Live, GivenUpAgain, At
  <2>4. CASE req[r].at # "over"
    BY <2>2, <2>4 DEF Sound, Holding, Joined, Busy, InFlight, Submitted, At, ChatOf, InPlay, Ended
  <2> QED BY <2>3, <2>4
<1> QED BY <1>1, SlotsInvHolds, PTL
=============================================================================
