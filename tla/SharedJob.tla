------------------------------ MODULE SharedJob ------------------------------
(* What call coalescing promises its callers, whatever the backend: at most *)
(* one job per key is current, whoever asks while it is current shares it,  *)
(* and every sharer is told that job's outcome and no other job's.          *)
EXTENDS Naturals

CONSTANTS Callers, Keys, MaxJobs

Jobs == 1..MaxJobs
NoJob == 0
Outcomes == {"ok", "failed", "cancelled"}
Answers == Outcomes \cup {"refused", "left"}

VARIABLES
  current,   \* the job that new callers of a key join
  result,    \* what became of each job
  asked,     \* the job a caller waits for
  told       \* the last thing a caller was told

vars == <<current, result, asked, told>>

Init ==
  /\ current = [k \in Keys |-> NoJob]
  /\ result = [j \in Jobs |-> "unborn"]
  /\ asked = [c \in Callers |-> NoJob]
  /\ told = [c \in Callers |-> "nothing"]

Join(c, k) ==
  /\ asked[c] = NoJob /\ current[k] # NoJob
  /\ asked' = [asked EXCEPT ![c] = current[k]]
  /\ told' = [told EXCEPT ![c] = "nothing"]
  /\ UNCHANGED <<current, result>>

Start(c, k) ==
  /\ asked[c] = NoJob /\ current[k] = NoJob
  /\ \E j \in Jobs :
       /\ result[j] = "unborn"
       /\ current' = [current EXCEPT ![k] = j]
       /\ result' = [result EXCEPT ![j] = "running"]
       /\ asked' = [asked EXCEPT ![c] = j]
  /\ told' = [told EXCEPT ![c] = "nothing"]

\* A set of current jobs ends at once: one that finishes, or all at shutdown.
End(K) ==
  /\ K # {} /\ \A k \in K : current[k] # NoJob
  /\ \E o \in [K -> Outcomes] :
       result' = [j \in Jobs |-> IF \E k \in K : current[k] = j
                                 THEN o[CHOOSE k \in K : current[k] = j] ELSE result[j]]
  /\ current' = [k \in Keys |-> IF k \in K THEN NoJob ELSE current[k]]
  /\ UNCHANGED <<asked, told>>

Tell(c) ==
  /\ asked[c] # NoJob /\ result[asked[c]] \in Outcomes
  /\ told' = [told EXCEPT ![c] = result[asked[c]]]
  /\ asked' = [asked EXCEPT ![c] = NoJob]
  /\ UNCHANGED <<current, result>>

\* A caller stops waiting, or is not served at all; the job goes on without it.
Leave(c) ==
  /\ asked' = [asked EXCEPT ![c] = NoJob]
  /\ told' = [told EXCEPT ![c] = IF asked[c] = NoJob THEN "refused" ELSE "left"]
  /\ UNCHANGED <<current, result>>

Next ==
  \/ \E c \in Callers, k \in Keys : Join(c, k) \/ Start(c, k)
  \/ \E K \in SUBSET Keys : End(K)
  \/ \E c \in Callers : Tell(c) \/ Leave(c)

Spec == Init /\ [][Next]_vars
=============================================================================
