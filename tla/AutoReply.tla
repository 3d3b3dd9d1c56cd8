----------------------------- MODULE AutoReply -----------------------------
(* The keyword replies of one chat: rules, the record of where each came from  *)
(* and the candidates of the learner are three fields of one document of       *)
(* MongoDB. Every operation of core/mongo.py reads the fields it needs, an     *)
(* await each, and writes them back whole; nothing locks the document, so the  *)
(* handlers of plugins/auto_reply.py, one actor each, run between the awaits   *)
(* of each other. Texts have no order; a rule is the set of its variants.      *)
EXTENDS Naturals, FiniteSets

CONSTANTS
  Actors,     \* message handlers, and the sweep of the supervisor
  Keys,       \* keywords
  Texts,      \* answers
  Ops,        \* subset of {"observe", "tell", "forget", "use", "sweep", "switch", "all"}
  MaxEntries, \* candidate answers kept for a keyword: entries[-5:]
  MaxKeys,    \* keywords with candidates: 200
  MaxAsks     \* messages and sweeps in a behaviour: a bound of the model

VARIABLES
  rules,      \* auto_reply_rules: [Keys -> SUBSET Texts], {} without a rule
  meta,       \* auto_reply_meta: "none", "manual", "auto", or "idle" for auto and expired
  cands,      \* auto_reply_candidates: [Keys -> [Texts -> times observed, at most 2]]
  flag,       \* auto_reply of the document
  cached,     \* db.auto_reply[chat_id]
  cooling,    \* keywords in _auto_learn_keyword_last that are too recent, and
              \* "chat" after a reply of the bot
  actor,      \* [Actors -> the operation, its next await, and what it has read]
  seen,       \* how often each pair was taught (at most 2)
  said,       \* pairs an admin has taught, or that were there to begin with
  decided,    \* [Keys -> what the last admin to have been served wanted]
  raced,      \* two operations have overlapped
  asks        \* messages and sweeps so far

doc  == <<rules, meta, cands>>
vars == <<rules, meta, cands, flag, cached, cooling, actor, seen, said, decided, raced, asks>>

NoRule == [k \in Keys |-> {}]
NoMeta == [k \in Keys |-> "none"]
NoCand == [k \in Keys |-> [t \in Texts |-> 0]]

Free == [op |-> "none", step |-> "none", k |-> "none", t |-> "none", on |-> FALSE,
         r |-> NoRule, m |-> NoMeta, c |-> NoCand, payload |-> {}]

\* Legacy rules have no metadata; replies are on by default.
Init ==
  /\ rules \in {NoRule} \cup {[NoRule EXCEPT ![k] = {t}] : k \in Keys, t \in Texts}
  /\ meta = NoMeta /\ cands = NoCand
  /\ flag = TRUE /\ cached = TRUE /\ cooling = {}
  /\ actor = [a \in Actors |-> Free]
  /\ seen = NoCand /\ said = {p \in Keys \X Texts : p[2] \in rules[p[1]]}
  /\ decided = NoRule /\ raced = FALSE /\ asks = 0

-----------------------------------------------------------------------------
(* The commands and messages.                                                  *)

First(op) == CASE op \in {"observe", "tell", "forget"} -> "rules"
               [] op = "use" -> "meta"
               [] op = "sweep" -> "document"
               [] op = "switch" -> "cache"
               [] op = "all" -> "write"

Ask(a, op, k, t, on) ==
  /\ op \in Ops /\ actor[a].op = "none"
  /\ asks < MaxAsks /\ asks' = asks + 1
  /\ actor' = [actor EXCEPT ![a] = [Free EXCEPT !.op = op, !.step = First(op), !.k = k, !.t = t, !.on = on]]
  /\ raced' = (raced \/ \E b \in Actors : actor[b].op # "none")
  /\ UNCHANGED <<doc, flag, cached, decided>>

AtMostTwo(n) == IF n > 2 THEN 2 ELSE n

\* _auto_learn_allowed() and _auto_reply_allowed(): what was allowed is too
\* recent for a while.
Allowed(what) == what \notin cooling /\ cooling' = cooling \cup {what}
ReplyAllowed == Allowed("chat")

\* _try_auto_learn(): a reply of one human to another teaches, at a limited rate.
Teach(a, k, t) ==
  /\ Allowed(k)
  /\ Ask(a, "observe", k, t, TRUE)
  /\ seen' = [seen EXCEPT ![k][t] = AtMostTwo(@ + 1)]
  /\ UNCHANGED said

\* /reply
Tell(a, k, t) ==
  /\ Ask(a, "tell", k, t, TRUE)
  /\ said' = said \cup {<<k, t>>}
  /\ UNCHANGED <<cooling, seen>>

\* /unreply
Forget(a, k) == Ask(a, "forget", k, Free.t, FALSE) /\ UNCHANGED <<cooling, seen, said>>

\* _find_best_reply(): the rule with the longest keyword of the message.
Matches(k) == rules[k] # {}

\* A message with the keyword is answered, and the rule's use is noted.
Use(a, k) ==
  /\ cached /\ Matches(k) /\ ReplyAllowed
  /\ Ask(a, "use", k, Free.t, FALSE) /\ UNCHANGED <<seen, said>>

\* The sweep of the supervisor; /autoreply in a group, and in the log group.
Sweep(a) == Ask(a, "sweep", Free.k, Free.t, FALSE) /\ UNCHANGED <<cooling, seen, said>>
Switch(a, on) == Ask(a, "switch", Free.k, Free.t, on) /\ UNCHANGED <<cooling, seen, said>>
SwitchAll(a, on) == Ask(a, "all", Free.k, Free.t, on) /\ UNCHANGED <<cooling, seen, said>>

-----------------------------------------------------------------------------
(* The awaits.                                                                 *)

At(a, ops, step) == actor[a].op \in ops /\ actor[a].step = step

\* The next operation reads everything anew.
Goes(a, op, step) ==
  actor' = [actor EXCEPT ![a].op = op, ![a].step = step, ![a].r = NoRule, ![a].m = NoMeta, ![a].c = NoCand]

Ends(a) == actor' = [actor EXCEPT ![a] = Free]

\* append_auto_reply_variant(): an answer that is known only touches the rule;
\* another is put behind the variants that were read.
Append(a, read) ==
  LET s == actor[a] IN
  IF s.t \in read[s.k]
  THEN actor' = [actor EXCEPT ![a].op = "touch", ![a].step = "meta", ![a].payload = {}]
  ELSE actor' = [actor EXCEPT ![a].op = "learn", ![a].step = "rules",
                              ![a].payload = read[s.k] \cup {s.t}]

ReadRules(a) ==
  /\ actor[a].step = "rules"
  /\ IF actor[a].op = "append" THEN Append(a, rules)
     ELSE actor' = [actor EXCEPT ![a].r = rules, ![a].step = "meta"]
  /\ UNCHANGED <<doc, flag, cached, cooling, seen, said, decided, raced, asks>>

Learned(s) == s \in {"auto", "idle"}

\* A rule that was not learned is not the learner's to change; one that is not
\* there is not removed; only a learned rule is touched.
Refuses(op, k, r, m) ==
  \/ op = "observe" /\ r[k] # {} /\ ~Learned(m[k])
  \/ op = "forget" /\ r[k] = {}
  \/ op \in {"touch", "use"} /\ ~Learned(m[k])

AfterMeta(op) == IF op \in {"touch", "use"} THEN "write" ELSE "candidates"

ReadMeta(a) ==
  /\ actor[a].step = "meta"
  /\ LET s == actor[a] IN
     IF Refuses(s.op, s.k, s.r, meta)
     THEN IF s.op = "touch" THEN Goes(a, "clear", "candidates") ELSE Ends(a)
     ELSE actor' = [actor EXCEPT ![a].m = meta, ![a].step = AfterMeta(s.op)]
  /\ UNCHANGED <<doc, flag, cached, cooling, seen, said, decided, raced, asks>>

ReadCandidates(a) ==
  /\ actor[a].step = "candidates"
  /\ actor' = [actor EXCEPT ![a].c = cands, ![a].step = "write"]
  /\ UNCHANGED <<doc, flag, cached, cooling, seen, said, decided, raced, asks>>

ReadDocument(a) ==
  /\ At(a, {"sweep"}, "document")
  /\ actor' = [actor EXCEPT ![a].r = rules, ![a].m = meta, ![a].step = "write"]
  /\ UNCHANGED <<doc, flag, cached, cooling, seen, said, decided, raced, asks>>

Entries(c, k) == {t \in Texts : c[k][t] > 0}
Noted(c) == {k \in Keys : Entries(c, k) # {}}

\* The oldest entry and the oldest keyword make room: not the one just observed.
Bounded(c, k, t) ==
  {d \in [Keys -> [Texts -> 0..2]] :
     /\ d[k][t] = c[k][t]
     /\ \A j \in Keys, u \in Texts : d[j][u] \in {0, c[j][u]}
     /\ \A j \in Noted(c) \ {k} : d[j] = c[j] \/ Entries(d, j) = {}
     /\ Cardinality(Entries(d, k)) =
          (IF Cardinality(Entries(c, k)) > MaxEntries THEN MaxEntries ELSE Cardinality(Entries(c, k)))
     /\ Cardinality(Noted(d)) =
          (IF Cardinality(Noted(c)) > MaxKeys THEN MaxKeys ELSE Cardinality(Noted(c)))}

\* A mutant: the first observation is enough.
ConfirmedAtOnce(n) == n >= 1

Confirmed(n) == n >= 2

\* observe_auto_reply_candidate()
Observe(a) ==
  /\ At(a, {"observe"}, "write")
  /\ LET s == actor[a]
         n == AtMostTwo(s.c[s.k][s.t] + 1) IN
     /\ cands' \in Bounded([s.c EXCEPT ![s.k][s.t] = n], s.k, s.t)
     /\ IF Confirmed(n) THEN Goes(a, "append", "rules") ELSE Ends(a)
  /\ UNCHANGED <<rules, meta, flag, cached, cooling, seen, said, decided, raced, asks>>

\* set_auto_reply_rule() with source "auto"
Learn(a) ==
  /\ At(a, {"learn"}, "write")
  /\ LET s == actor[a]
         isNew == s.payload = {s.t} IN
     /\ rules' = [s.r EXCEPT ![s.k] = s.payload]
     /\ meta' = IF Learned(s.m[s.k]) \/ (isNew /\ s.m[s.k] = "none")
                THEN [s.m EXCEPT ![s.k] = "auto"] ELSE s.m
     /\ cands' = [s.c EXCEPT ![s.k] = NoCand[s.k]]
  /\ Goes(a, "clear", "candidates")
  /\ UNCHANGED <<flag, cached, cooling, seen, said, decided, raced, asks>>

\* set_auto_reply_rule() with source "manual"; then the replies are switched on.
Told(a) ==
  /\ At(a, {"tell"}, "write")
  /\ LET s == actor[a] IN
     /\ rules' = [s.r EXCEPT ![s.k] = {s.t}]
     /\ meta' = [s.m EXCEPT ![s.k] = "manual"]
     /\ cands' = [s.c EXCEPT ![s.k] = NoCand[s.k]]
     /\ decided' = [decided EXCEPT ![s.k] = {s.t}]
  /\ Goes(a, "switch", "cache")
  /\ UNCHANGED <<flag, cached, cooling, seen, said, raced, asks>>

\* del_auto_reply_rule()
Forgotten(a) ==
  /\ At(a, {"forget"}, "write")
  /\ LET s == actor[a] IN
     /\ rules' = [s.r EXCEPT ![s.k] = {}]
     /\ meta' = [s.m EXCEPT ![s.k] = "none"]
     /\ cands' = [s.c EXCEPT ![s.k] = NoCand[s.k]]
     /\ decided' = [decided EXCEPT ![s.k] = {}]
  /\ Ends(a)
  /\ UNCHANGED <<flag, cached, cooling, seen, said, raced, asks>>

\* touch_auto_reply_rule()
Touched(a) ==
  /\ At(a, {"touch", "use"}, "write")
  /\ meta' = [actor[a].m EXCEPT ![actor[a].k] = "auto"]
  /\ IF actor[a].op = "touch" THEN Goes(a, "clear", "candidates") ELSE Ends(a)
  /\ UNCHANGED <<rules, cands, flag, cached, cooling, seen, said, decided, raced, asks>>

\* clear_auto_reply_candidate(), after which a chat that has learned answers.
Cleared(a) ==
  /\ At(a, {"clear"}, "write")
  /\ LET s == actor[a] IN
     /\ cands' = [s.c EXCEPT ![s.k][s.t] = 0]
     /\ IF s.payload = {} THEN Ends(a) ELSE Goes(a, "switch", "cache")
  /\ UNCHANGED <<rules, meta, flag, cached, cooling, seen, said, decided, raced, asks>>

\* select_stale_auto_reply_keys()
Expired(r, m) == {k \in Keys : r[k] # {} /\ m[k] = "idle"}

\* cleanup_stale_auto_reply_rules()
Swept(a) ==
  /\ At(a, {"sweep"}, "write")
  /\ LET s == actor[a]
         gone == Expired(s.r, s.m) IN
     IF gone = {} THEN UNCHANGED <<rules, meta>>
     ELSE /\ rules' = [k \in Keys |-> IF k \in gone THEN {} ELSE s.r[k]]
          /\ meta' = [k \in Keys |-> IF k \in gone THEN "none" ELSE s.m[k]]
  /\ Ends(a)
  /\ UNCHANGED <<cands, flag, cached, cooling, seen, said, decided, raced, asks>>

\* set_auto_reply(): the dictionary, then the document; set_auto_reply_all(): the
\* documents, then the dictionary.
SetCached(a) ==
  /\ At(a, {"switch", "all"}, "cache")
  /\ cached' = actor[a].on
  /\ IF actor[a].op = "switch" THEN Goes(a, "switch", "write") ELSE Ends(a)
  /\ UNCHANGED <<doc, flag, cooling, seen, said, decided, raced, asks>>

SetFlag(a) ==
  /\ At(a, {"switch", "all"}, "write")
  /\ flag' = actor[a].on
  /\ IF actor[a].op = "all" THEN Goes(a, "all", "cache") ELSE Ends(a)
  /\ UNCHANGED <<doc, cached, cooling, seen, said, decided, raced, asks>>

-----------------------------------------------------------------------------
\* The database fails an await, and the handler ends there.
Fails(a) ==
  /\ actor[a].op # "none" /\ Ends(a)
  /\ UNCHANGED <<doc, flag, cached, cooling, seen, said, decided, raced, asks>>

Restart ==
  /\ actor' = [a \in Actors |-> Free] /\ cached' = flag /\ cooling' = {}
  /\ UNCHANGED <<doc, flag, seen, said, decided, raced, asks>>

\* A learned rule is not used for AUTO_LEARN_TTL_HOURS; a cooldown ends.
Ages(k) ==
  /\ meta[k] = "auto" /\ meta' = [meta EXCEPT ![k] = "idle"]
  /\ UNCHANGED <<rules, cands, flag, cached, cooling, actor, seen, said, decided, raced, asks>>

CoolsDown(what) ==
  /\ cooling' = cooling \ {what}
  /\ UNCHANGED <<doc, flag, cached, actor, seen, said, decided, raced, asks>>

Next ==
  \/ \E a \in Actors, k \in Keys, t \in Texts : Teach(a, k, t) \/ Tell(a, k, t)
  \/ \E a \in Actors, k \in Keys : Forget(a, k) \/ Use(a, k)
  \/ \E a \in Actors : Sweep(a) \/ \E on \in BOOLEAN : Switch(a, on) \/ SwitchAll(a, on)
  \/ \E a \in Actors : ReadRules(a) \/ ReadMeta(a) \/ ReadCandidates(a) \/ ReadDocument(a)
  \/ \E a \in Actors : \/ Observe(a) \/ Learn(a) \/ Told(a) \/ Forgotten(a) \/ Touched(a)
                       \/ Cleared(a) \/ Swept(a) \/ SetCached(a) \/ SetFlag(a) \/ Fails(a)
  \/ Restart
  \/ \E k \in Keys : Ages(k)
  \/ \E what \in cooling : CoolsDown(what)

Spec == Init /\ [][Next]_vars

-----------------------------------------------------------------------------
TypeOK ==
  /\ rules \in [Keys -> SUBSET Texts]
  /\ meta \in [Keys -> {"none", "manual", "auto", "idle"}]
  /\ cands \in [Keys -> [Texts -> 0..2]]
  /\ {flag, cached, raced} \subseteq BOOLEAN /\ cooling \subseteq Keys \cup {"chat"}
  /\ \A a \in Actors : actor[a].step \in {"none", "rules", "meta", "candidates", "document", "cache", "write"}

\* "A candidate becomes eligible only after the same keyword/answer pair is
\* observed repeatedly": an answer that no admin gave was taught twice, whatever
\* operations overlap, fail or are cut off by a restart.
ConfirmedTwice ==
  \A k \in Keys : \A t \in rules[k] : <<k, t>> \in said \/ seen[k][t] = 2

\* "Existing manual or legacy rules are never modified by automatic learning":
\* the rule an admin has set stays as it is until an admin says otherwise.
AdminIsObeyed == \A k \in Keys : decided[k] # {} => rules[k] = decided[k]

\* The same as long as the operations of the chat come one after the other:
\* neither the learner nor the sweep takes a manual rule for a learned one.
ManualSurvives == ~raced => AdminIsObeyed

\* What the process believes is what the document says when nothing is under way.
FlagAgrees == (\A a \in Actors : actor[a].op = "none") => cached = flag
=============================================================================
