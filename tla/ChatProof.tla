------------------------------- MODULE ChatProof -------------------------------
(* Proofs about what a chat plays, for any chats, tracks and media: the files  *)
(* that it holds (MediaCache) and its queue (Playback).  The counts of the hub  *)
(* are the sessions that hold a key, and the row of a held key is never removed;*)
(* requests stay before AI DJ tracks.                                           *)
EXTENDS MediaCache, Playback, FiniteSetTheorems, SequenceTheorems, WellFoundedInduction, TLAPS

-----------------------------------------------------------------------------
(* The files that a chat holds.                                                *)

Holders(k) == {c \in Chats : session[c] = k}

RowShape == [status : {"none", "ready", "downloading", "failed"},
             path : Paths \cup {Nothing}, count : Int, durable : BOOLEAN]

Shape ==
    /\ hub \in [Key -> Nat]
    /\ session \in [Chats -> Key \cup {Nothing}]
    /\ row \in [Key -> RowShape]
    /\ files \subseteq Paths

\* A row that exists has a status.
RowsAreReal == \A k \in Key : row[k] # NoRow => row[k].status # "none"

CacheInv == Shape /\ CountsAreSessions /\ RowsAreReal

\* A step that removes no row.
RowsStay == \A k \in Key : row[k] # NoRow => row'[k] # NoRow

-----------------------------------------------------------------------------
\* A row learns a count.
LEMMA StoredKeeps ==
  ASSUME NEW rows \in [Key -> RowShape], NEW k \in Key, NEW n \in Int,
         \A l \in Key : rows[l] # NoRow => rows[l].status # "none"
  PROVE  /\ Stored(rows, k, n) \in [Key -> RowShape]
         /\ \A l \in Key : Stored(rows, k, n)[l] # NoRow => Stored(rows, k, n)[l].status # "none"
         /\ \A l \in Key : rows[l] # NoRow => Stored(rows, k, n)[l] # NoRow
<1>1. CASE rows[k] = NoRow
  BY <1>1 DEF Stored
<1>2. CASE rows[k] # NoRow
  <2>1. Stored(rows, k, n) = [rows EXCEPT ![k] = [rows[k] EXCEPT !.count = n]]
    BY <1>2 DEF Stored
  <2>2. rows[k] \in RowShape /\ [rows[k] EXCEPT !.count = n] \in RowShape
        /\ [rows[k] EXCEPT !.count = n].status = rows[k].status
    BY DEF RowShape
  <2>3. rows[k].status # "none"
    BY <1>2
  <2>4. NoRow.status = "none"
    BY DEF NoRow
  <2> QED BY <2>1, <2>2, <2>3, <2>4
<1> QED BY <1>1, <1>2

LEMMA HoldersFinite ==
  ASSUME NEW k PROVE IsFiniteSet(Holders(k)) /\ Cardinality(Holders(k)) \in Nat
<1>1. IsFiniteSet(Holders(k))
  BY FS_Subset, CacheAssumption DEF Holders
<1> QED BY <1>1, FS_CardinalityType

\* A chat takes hold of a key, or lets its own go.
LEMMA HoldKeeps ==
  ASSUME CacheInv, NEW c \in Chats, NEW new \in Key \cup {Nothing}, Hold(c, new), UNCHANGED files
  PROVE  CacheInv' /\ RowsStay
<1>0. PICK o \in Key \cup {Nothing} : o = session[c]
  BY DEF CacheInv, Shape
<1>1. /\ session' = [session EXCEPT ![c] = new] /\ hub' = Moved(hub, o, new)
      /\ session \in [Chats -> Key \cup {Nothing}] /\ hub \in [Key -> Nat]
  BY <1>0 DEF Hold, CacheInv, Shape
<1>2. \A k \in Key : hub[k] = Cardinality(Holders(k)) /\ IsFiniteSet(Holders(k))
  BY HoldersFinite DEF CacheInv, CountsAreSessions, Holders
<1>3. ASSUME NEW k \in Key
      PROVE  /\ hub'[k] = Cardinality(Holders(k)')
             /\ hub'[k] \in Nat
  <2>1. CASE o = k /\ new # k
    <3>1. Holders(k)' = Holders(k) \ {c} /\ c \in Holders(k)
      BY <1>0, <1>1, <2>1 DEF Holders
    <3>2. hub'[k] = hub[k] - 1
      BY <1>1, <2>1, CacheAssumption DEF Moved
    <3>3. Cardinality(Holders(k) \ {c}) = Cardinality(Holders(k)) - 1
      BY <1>2, <3>1, FS_RemoveElement
    <3>4. IsFiniteSet(Holders(k) \ {c})
      BY <1>2, FS_Subset
    <3> QED BY <1>2, <3>1, <3>2, <3>3, <3>4, FS_CardinalityType
  <2>2. CASE o # k /\ new = k
    <3>1. Holders(k)' = Holders(k) \cup {c} /\ c \notin Holders(k)
      BY <1>0, <1>1, <2>2 DEF Holders
    <3>2. hub'[k] = hub[k] + 1
      BY <1>1, <2>2, CacheAssumption DEF Moved
    <3>3. Cardinality(Holders(k) \cup {c}) = Cardinality(Holders(k)) + 1
      BY <1>2, <3>1, FS_AddElement
    <3> QED BY <1>1, <1>2, <3>1, <3>2, <3>3
  <2>3. CASE (o = k /\ new = k) \/ (o # k /\ new # k)
    <3>1. Holders(k)' = Holders(k)
      BY <1>0, <1>1, <2>3 DEF Holders
    <3>2. hub'[k] = hub[k]
      BY <1>1, <2>3, CacheAssumption DEF Moved
    <3> QED BY <1>1, <1>2, <3>1, <3>2
  <2> QED BY <2>1, <2>2, <2>3
<1>4. hub' \in [Key -> Nat] /\ session' \in [Chats -> Key \cup {Nothing}]
  <2>1. hub' \in [Key -> Int]
    BY <1>0, <1>1 DEF Moved
  <2> QED BY <1>1, <1>3, <2>1
<1>5. CountsAreSessions'
  BY <1>3 DEF CountsAreSessions, Holders
<1>6. row' \in [Key -> RowShape] /\ RowsAreReal' /\ \A k \in Key : row[k] # NoRow => row'[k] # NoRow
  <2> DEFINE released == IF o = Nothing THEN row ELSE Stored(row, o, hub[o] - 1)
  <2>1. row \in [Key -> RowShape] /\ \A l \in Key : row[l] # NoRow => row[l].status # "none"
    BY DEF CacheInv, Shape, RowsAreReal, RowShape
  <2>2. released \in [Key -> RowShape]
        /\ (\A l \in Key : released[l] # NoRow => released[l].status # "none")
        /\ \A l \in Key : row[l] # NoRow => released[l] # NoRow
    <3>1. CASE o = Nothing
      BY <2>1, <3>1
    <3>2. CASE o # Nothing
      <4>1. o \in Key /\ hub[o] - 1 \in Int
        BY <1>1, <3>2
      <4> QED BY <2>1, <3>2, <4>1, StoredKeeps
    <3> QED BY <3>1, <3>2
  <2>3. row' = IF new = Nothing THEN released ELSE Stored(released, new, hub'[new])
    BY <1>0, <1>1 DEF Hold
  <2> HIDE DEF released
  <2>4. CASE new = Nothing
    BY <2>2, <2>3, <2>4 DEF RowsAreReal
  <2>5. CASE new # Nothing
    <3>1. new \in Key /\ hub'[new] \in Int
      BY <1>4, <2>5
    <3> QED BY <2>2, <2>3, <2>5, <3>1, StoredKeeps DEF RowsAreReal
  <2> QED BY <2>4, <2>5
<1> QED BY <1>4, <1>5, <1>6 DEF CacheInv, Shape, RowShape, RowsStay

\* Rows and files change, what is held does not.
LEMMA CatalogueKeeps ==
  ASSUME CacheInv, UNCHANGED <<hub, session>>, files' \subseteq Paths, row' \in [Key -> RowShape],
         \A k \in Key : row'[k] = row[k] \/ row'[k].status # "none"
  PROVE  CacheInv' /\ RowsStay
<1>1. NoRow.status = "none"
  BY DEF NoRow
<1>2. RowsAreReal' /\ RowsStay
  BY <1>1 DEF CacheInv, RowsAreReal, RowsStay
<1>3. CountsAreSessions'
  BY DEF CacheInv, CountsAreSessions
<1> QED BY <1>2, <1>3 DEF CacheInv, Shape

LEMMA PathsAre ==
  ASSUME NEW m \in Songs, NEW dir \in {"downloads", "ready", "tmp", "publishing"}
  PROVE  File(m, dir) \in Paths
  BY DEF File, Paths

\* What the steps of a download write into a row.
LEMMA RowWrites ==
  ASSUME NEW rows \in [Key -> RowShape], NEW k \in Key
  PROVE  /\ Published(rows, k) \in [Key -> RowShape] /\ Published(rows, k)[k].status = "ready"
         /\ Downloading(rows, k) \in [Key -> RowShape] /\ Downloading(rows, k)[k].status = "downloading"
         /\ Fails(rows, k) \in [Key -> RowShape] /\ Fails(rows, k)[k].status = "failed"
         /\ \A l \in Key \ {k} : /\ Published(rows, k)[l] = rows[l]
                                /\ Downloading(rows, k)[l] = rows[l] /\ Fails(rows, k)[l] = rows[l]
<1>1. k.media \in Songs
  BY DEF Key
<1>2. File(k.media, "ready") \in Paths
  BY <1>1, PathsAre
<1> QED BY <1>2 DEF Published, Downloading, Fails, RowShape

LEMMA HoldsKeep ==
  ASSUME CacheInv, NEW c \in Chats,
         Leave(c) \/ \E m \in Songs : StreamDirect(c, m) \/ PickLocal(c, m)
  PROVE  CacheInv' /\ RowsStay
<1>1. CASE Leave(c)
  BY <1>1, HoldKeeps DEF Leave
<1>2. ASSUME NEW m \in Songs, StreamDirect(c, m) PROVE CacheInv' /\ RowsStay
  <2>1. PICK tier \in Tiers : Hold(c, Named(m, "youtube", tier))
    BY <1>2 DEF StreamDirect
  <2>2. Named(m, "youtube", tier) \in Key
    BY CacheAssumption DEF Named, Key
  <2> QED BY <1>2, <2>1, <2>2, HoldKeeps DEF StreamDirect
<1>3. ASSUME NEW m \in Songs, PickLocal(c, m) PROVE CacheInv' /\ RowsStay
  <2>1. PICK tier \in Tiers : Hold(c, Named(m, "local", tier))
    BY <1>3 DEF PickLocal
  <2>2. Named(m, "local", tier) \in Key
    BY CacheAssumption DEF Named, Key
  <2> QED BY <1>3, <2>1, <2>2, HoldKeeps DEF PickLocal
<1> QED BY <1>1, <1>2, <1>3

LEMMA DownloadsKeep ==
  ASSUME CacheInv,
         \/ \E m \in Songs : Load(m) \/ Record(m) \/ \E got \in BOOLEAN : Loaded(m, got)
         \/ \E k \in Key : Ensure(k) \/ JobEnds(k)
         \/ \E c \in Chats : AttachFile(c)
  PROVE  CacheInv' /\ RowsStay
<1>0. files \subseteq Paths /\ row \in [Key -> RowShape]
  BY DEF CacheInv, Shape
<1>1. CASE (\E m \in Songs : Load(m)) \/ \E c \in Chats : AttachFile(c)
  BY <1>0, <1>1, CatalogueKeeps DEF Load, AttachFile
<1>2. ASSUME NEW m \in Songs, Record(m) PROVE CacheInv' /\ RowsStay
  <2>1. PICK path \in files, label \in Labels : row' = Recorded(row, Named(m, label, "best"), path)
    BY <1>2 DEF Record
  <2>2. PICK k \in Key : k = Named(m, label, "best")
    BY CacheAssumption DEF Named, Key
  <2>4. path \in Paths /\ row' = Recorded(row, k, path)
    BY <1>0, <2>1, <2>2
  <2>3. row' \in [Key -> RowShape] /\ \A l \in Key : row'[l] = row[l] \/ row'[l].status # "none"
    <3>1. /\ Recorded(row, k, path) \in [Key -> RowShape] /\ Recorded(row, k, path)[k].status = "ready"
          /\ \A l \in Key \ {k} : Recorded(row, k, path)[l] = row[l]
      BY <1>0, <2>4 DEF Recorded, RowShape
    <3> QED BY <2>4, <3>1
  <2> QED BY <1>0, <1>2, <2>3, CatalogueKeeps DEF Record
<1>3. ASSUME NEW m \in Songs, NEW got \in BOOLEAN, Loaded(m, got) PROVE CacheInv' /\ RowsStay
  <2>1. CASE ~got
    BY <1>0, <1>3, <2>1, CatalogueKeeps DEF Loaded
  <2>2. CASE got
    <3>1. PICK label \in Labels : row' = Recorded(row, Named(m, label, "best"), File(m, "downloads"))
      BY <1>3, <2>2 DEF Loaded
    <3>5. PICK k \in Key : k = Named(m, label, "best")
      BY CacheAssumption DEF Named, Key
    <3>6. PICK path \in Paths : path = File(m, "downloads")
      BY PathsAre
    <3>2. File(m, "downloads") \in Paths /\ row' = Recorded(row, k, path)
      BY <3>1, <3>5, <3>6
    <3>3. files' = files \cup {File(m, "downloads")} /\ UNCHANGED <<hub, session>>
      BY <1>3, <2>2 DEF Loaded
    <3>4. row' \in [Key -> RowShape] /\ \A l \in Key : row'[l] = row[l] \/ row'[l].status # "none"
      <4>1. /\ Recorded(row, k, path) \in [Key -> RowShape] /\ Recorded(row, k, path)[k].status = "ready"
            /\ \A l \in Key \ {k} : Recorded(row, k, path)[l] = row[l]
        BY <1>0, <3>6 DEF Recorded, RowShape
      <4> QED BY <3>2, <4>1
    <3> QED BY <1>0, <3>2, <3>3, <3>4, CatalogueKeeps
  <2> QED BY <2>1, <2>2
<1>4. ASSUME NEW k \in Key, Ensure(k) PROVE CacheInv' /\ RowsStay
  <2>1. k.media \in Songs /\ MovedFile(k.media) \subseteq Paths
    BY <1>0, PathsAre DEF Key, MovedFile
  <2>2. files' \subseteq Paths /\ UNCHANGED <<hub, session>>
    BY <1>0, <1>4, <2>1 DEF Ensure
  <2>3. File(k.media, "ready") \in Paths
    BY <2>1, PathsAre
  <2>4. row' = Published(Downloading(row, k), k) \/ row' = Downloading(row, k)
    BY <1>4 DEF Ensure
  <2>5. Downloading(row, k) \in [Key -> RowShape]
    BY <1>0, <2>3, RowWrites
  <2>6. CASE row' = Downloading(row, k)
    <3>1. row' \in [Key -> RowShape] /\ \A l \in Key : row'[l] = row[l] \/ row'[l].status # "none"
      BY <1>0, <2>3, <2>6, RowWrites
    <3> QED BY <2>2, <3>1, CatalogueKeeps
  <2>7. CASE row' = Published(Downloading(row, k), k)
    <3>1. /\ row' \in [Key -> RowShape] /\ row'[k].status = "ready"
          /\ \A l \in Key \ {k} : row'[l] = Downloading(row, k)[l]
      BY <2>3, <2>5, <2>7, RowWrites
    <3>2. \A l \in Key \ {k} : Downloading(row, k)[l] = row[l]
      BY <1>0, <2>3, RowWrites
    <3>3. row' \in [Key -> RowShape] /\ \A l \in Key : row'[l] = row[l] \/ row'[l].status # "none"
      BY <3>1, <3>2
    <3> QED BY <2>2, <3>3, CatalogueKeeps
  <2> QED BY <2>4, <2>6, <2>7
<1>5. ASSUME NEW k \in Key, JobEnds(k) PROVE CacheInv' /\ RowsStay
  <2>1. k.media \in Songs /\ MovedFile(k.media) \subseteq Paths /\ File(k.media, "ready") \in Paths
    BY <1>0, PathsAre DEF Key, MovedFile
  <2>2. files' \subseteq Paths /\ UNCHANGED <<hub, session>>
    BY <1>0, <1>5, <2>1 DEF JobEnds
  <2>3. row' = Published(row, k) \/ row' = Fails(row, k) \/ row' = row
    BY <1>5 DEF JobEnds
  <2>4. row' \in [Key -> RowShape] /\ \A l \in Key : row'[l] = row[l] \/ row'[l].status # "none"
    <3>1. CASE row' = Published(row, k)
      BY <1>0, <2>1, <3>1, RowWrites
    <3>2. CASE row' = Fails(row, k)
      BY <1>0, <2>1, <3>2, RowWrites
    <3>3. CASE row' = row
      BY <1>0, <3>3
    <3> QED BY <2>3, <3>1, <3>2, <3>3
  <2> QED BY <2>2, <2>4, CatalogueKeeps
<1> QED BY <1>1, <1>2, <1>3, <1>4, <1>5

\* The collector leaves a row whose key is held.
LEMMA RoundKeeps ==
  ASSUME CacheInv, Round
  PROVE  CacheInv' /\ \A k \in Key : hub[k] > 0 => row'[k] = row[k]
<1>1. PICK aged \in SUBSET Aged, parts \in {{}, {f \in files : f.dir = "tmp"}} : Collect(aged, parts)
  BY DEF Round
<1>2. PICK spare \in SUBSET Spare(aged \cup Unfiled(aged)) :
        /\ row' = [k \in Key |-> IF k \in (aged \cup Unfiled(aged)) \cup spare THEN NoRow ELSE row[k]]
        /\ files' \subseteq files /\ UNCHANGED <<hub, session>>
  BY <1>1 DEF Collect
<1>3. \A k \in (aged \cup Unfiled(aged)) \cup spare : ~Active(k)
  BY DEF Aged, Unfiled, Spare
<1>4. \A k \in Key : hub[k] > 0 => row'[k] = row[k]
  BY <1>2, <1>3 DEF Active
<1>5. NoRow \in RowShape
  BY DEF NoRow, RowShape
<1>6. Shape' /\ RowsAreReal'
  BY <1>2, <1>5 DEF CacheInv, Shape, RowsAreReal
<1>7. CountsAreSessions'
  BY <1>2 DEF CacheInv, CountsAreSessions
<1> QED BY <1>4, <1>6, <1>7 DEF CacheInv

LEMMA InitKeeps == CacheInit => CacheInv
<1> SUFFICES ASSUME CacheInit PROVE CacheInv
  OBVIOUS
<1>1. CountsAreSessions
  <2>1. \A k \in Key : {c \in Chats : session[c] = k} = {}
    BY CacheAssumption DEF CacheInit
  <2> QED BY <2>1, FS_EmptySet DEF CacheInit, CountsAreSessions
<1>2. NoRow \in RowShape
  BY DEF NoRow, RowShape
<1> QED BY <1>1, <1>2 DEF CacheInit, CacheInv, Shape, RowsAreReal

LEMMA DieKeeps ==
  ASSUME CacheInv, Die PROVE CacheInv' /\ \A c \in Chats : session'[c] = Nothing
<1>1. hub' = [k \in Key |-> 0] /\ session' = [c \in Chats |-> Nothing] /\ row' = row
  BY DEF Die
<1>2. files' \subseteq Paths
  <2>1. files \subseteq Paths
    BY DEF CacheInv, Shape
  <2>2. \A f \in files : f.media \in Songs
    BY <2>1 DEF Paths
  <2>3. CASE UNCHANGED <<files, row>>
    BY <2>1, <2>3
  <2>4. ASSUME NEW f \in files, NEW dir \in {"tmp", "publishing", "ready"},
               files' = (files \ {f}) \cup {File(f.media, dir)}
        PROVE  files' \subseteq Paths
    BY <2>1, <2>2, <2>4, PathsAre
  <2> QED BY <2>3, <2>4 DEF Die
<1>3. Shape' /\ RowsAreReal'
  BY <1>1, <1>2 DEF CacheInv, Shape, RowsAreReal
<1>4. CountsAreSessions'
  <2>1. \A k \in Key : {c \in Chats : session'[c] = k} = {}
    BY <1>1, CacheAssumption
  <2> QED BY <1>1, <2>1, FS_EmptySet DEF CountsAreSessions
<1> QED BY <1>1, <1>3, <1>4 DEF CacheInv

\* What any step does to the rows.
LEMMA NextKeeps ==
  ASSUME CacheInv, [CacheNext]_cacheVars
  PROVE  /\ CacheInv'
         /\ RowsStay \/ (\A k \in Key : hub[k] > 0 => row'[k] = row[k]) \/ \A c \in Chats : session'[c] = Nothing
<1>1. CASE UNCHANGED cacheVars
  BY <1>1, CatalogueKeeps DEF cacheVars, CacheInv, Shape
<1>2. CASE Round
  BY <1>2, RoundKeeps
<1>3. CASE Die
  BY <1>3, DieKeeps
<1>4. CASE \E c \in Chats : Leave(c) \/ \E m \in Songs : StreamDirect(c, m) \/ PickLocal(c, m)
  BY <1>4, HoldsKeep
<1>5. CASE \/ \E m \in Songs : Load(m) \/ Record(m) \/ \E got \in BOOLEAN : Loaded(m, got)
           \/ \E k \in Key : Ensure(k) \/ JobEnds(k)
           \/ \E c \in Chats : AttachFile(c)
  BY <1>5, DownloadsKeep
<1> QED BY <1>1, <1>2, <1>3, <1>4, <1>5 DEF CacheNext

\* The inductive invariant holds in every state of every behaviour.
THEOREM CacheInvHolds == CacheSpec => []CacheInv
<1>1. CacheInv /\ [CacheNext]_cacheVars => CacheInv'
  BY NextKeeps
<1> QED BY <1>1, InitKeeps, PTL DEF CacheSpec

\* However sessions move between streams and files and wherever the process dies,
\* the count of a key is the number of chats that hold it.
THEOREM CountsAreSessionsHolds == CacheSpec => []CountsAreSessions
<1>1. CacheInv => CountsAreSessions
  BY DEF CacheInv
<1> QED BY <1>1, CacheInvHolds, PTL

\* The collector never removes the row of a key that a chat goes on holding.
THEOREM HeldRowKeptHolds == CacheSpec => HeldRowKept
<1>1. CacheInv /\ [CacheNext]_cacheVars =>
        [\A c \in Chats : LET k == session[c] IN
           k # Nothing /\ session'[c] = k => (row[k] # NoRow => row'[k] # NoRow)]_cacheVars
  <2> SUFFICES ASSUME CacheInv, [CacheNext]_cacheVars, NEW c \in Chats, session[c] # Nothing,
                      session'[c] = session[c], row[session[c]] # NoRow
               PROVE  row'[session[c]] # NoRow
    OBVIOUS
  <2>1. PICK k \in Key : k = session[c]
    BY DEF CacheInv, Shape
  <2>2. hub[k] > 0
    <3>1. c \in Holders(k) /\ IsFiniteSet(Holders(k)) /\ Cardinality(Holders(k)) \in Nat
      BY <2>1, HoldersFinite DEF Holders
    <3>2. Cardinality(Holders(k)) # 0
      BY <3>1, FS_EmptySet
    <3> QED BY <3>1, <3>2 DEF CacheInv, CountsAreSessions, Holders
  <2> QED BY <2>1, <2>2, NextKeeps DEF RowsStay
<1> QED BY <1>1, CacheInvHolds, PTL DEF CacheSpec, HeldRowKept

-----------------------------------------------------------------------------
(* The operators of the queue.                                                 *)

\* The entries m to n of a sequence.
LEMMA Cut ==
  ASSUME NEW S, NEW q \in Seq(S), NEW m \in 1..(Len(q) + 1), NEW n \in (m - 1)..Len(q)
  PROVE  /\ SubSeq(q, m, n) \in Seq(S)
         /\ Len(SubSeq(q, m, n)) = n - m + 1
         /\ \A i \in 1..(n - m + 1) : SubSeq(q, m, n)[i] = q[m + i - 1]
<1>1. \A i \in m..n : q[i] \in S
  <2>1. Len(q) \in Nat /\ \A i \in 1..Len(q) : q[i] \in S
    BY LenProperties, ElementOfSeq
  <2>2. QED  BY <2>1
<1>2. m \in Int /\ n \in Int /\ n >= m - 1
  BY LenProperties
<1>3. /\ SubSeq(q, m, n) \in Seq(S)
      /\ Len(SubSeq(q, m, n)) = IF m <= n THEN n - m + 1 ELSE 0
      /\ \A i \in 1..(n - m + 1) : SubSeq(q, m, n)[i] = q[m + i - 1]
  BY <1>1, <1>2, SubSeqProperties
<1>4. QED  BY <1>2, <1>3

\* A sequence without its entry n.
LEMMA RemovedAt ==
  ASSUME NEW S, NEW q \in Seq(S), NEW n \in 1..Len(q)
  PROVE  /\ RemoveAt(q, n) \in Seq(S)
         /\ Len(RemoveAt(q, n)) = Len(q) - 1
         /\ \A i \in 1..(Len(q) - 1) :
              RemoveAt(q, n)[i] = IF i < n THEN q[i] ELSE q[i + 1]
<1> DEFINE a == SubSeq(q, 1, n - 1)
           b == SubSeq(q, n + 1, Len(q))
<1>1. Len(q) \in Nat
  BY LenProperties
<1>2. a \in Seq(S) /\ Len(a) = n - 1 /\ \A i \in 1..(n - 1) : a[i] = q[i]
  <2>1. 1 \in 1..(Len(q) + 1) /\ n - 1 \in (1 - 1)..Len(q)
    BY <1>1
  <2>2. /\ a \in Seq(S) /\ Len(a) = (n - 1) - 1 + 1
        /\ \A i \in 1..((n - 1) - 1 + 1) : a[i] = q[1 + i - 1]
    BY <2>1, Cut
  <2>3. QED  BY <1>1, <2>2
<1>3. b \in Seq(S) /\ Len(b) = Len(q) - n /\ \A i \in 1..(Len(q) - n) : b[i] = q[n + i]
  <2>1. n + 1 \in 1..(Len(q) + 1) /\ Len(q) \in ((n + 1) - 1)..Len(q)
    BY <1>1
  <2>2. /\ b \in Seq(S) /\ Len(b) = Len(q) - (n + 1) + 1
        /\ \A i \in 1..(Len(q) - (n + 1) + 1) : b[i] = q[(n + 1) + i - 1]
    BY <2>1, Cut
  <2>3. QED  BY <1>1, <2>2
<1>4. RemoveAt(q, n) = a \o b
  BY DEF RemoveAt
<1> HIDE DEF a, b
<1>5. /\ a \o b \in Seq(S) /\ Len(a \o b) = Len(a) + Len(b)
      /\ \A i \in 1..(Len(a) + Len(b)) : (a \o b)[i] = IF i <= Len(a) THEN a[i] ELSE b[i - Len(a)]
  BY <1>2, <1>3, ConcatProperties
<1>6. ASSUME NEW i \in 1..(Len(q) - 1)
      PROVE  (a \o b)[i] = IF i < n THEN q[i] ELSE q[i + 1]
  <2>1. i \in 1..(Len(a) + Len(b))
    BY <1>1, <1>2, <1>3
  <2>2. CASE i < n
    BY <1>1, <1>2, <1>5, <2>1, <2>2
  <2>3. CASE i >= n
    <3>1. (a \o b)[i] = b[i - (n - 1)]
      BY <1>1, <1>2, <1>5, <2>1, <2>3
    <3>2. i - (n - 1) \in 1..(Len(q) - n) /\ n + (i - (n - 1)) = i + 1
      BY <1>1, <2>3
    <3>3. b[i - (n - 1)] = q[n + (i - (n - 1))]
      BY <1>3, <3>2
    <3>4. ~(i < n)
      BY <1>1, <2>3
    <3>5. QED  BY <3>1, <3>2, <3>3, <3>4
  <2>4. i < n \/ i >= n
    BY <1>1
  <2>5. QED  BY <2>2, <2>3, <2>4
<1>7. QED  BY <1>1, <1>2, <1>3, <1>4, <1>5, <1>6

\* A sequence with e before its entry n.
LEMMA InsertedAt ==
  ASSUME NEW S, NEW q \in Seq(S), NEW n \in 1..Len(q), NEW e \in S
  PROVE  /\ InsertAt(q, n, e) \in Seq(S)
         /\ Len(InsertAt(q, n, e)) = Len(q) + 1
         /\ \A i \in 1..(Len(q) + 1) :
              InsertAt(q, n, e)[i] = IF i < n THEN q[i] ELSE IF i = n THEN e ELSE q[i - 1]
<1> DEFINE a == SubSeq(q, 1, n - 1)
           b == SubSeq(q, n, Len(q))
           m == <<e>>
           c == a \o m
<1>1. Len(q) \in Nat
  BY LenProperties
<1>2. a \in Seq(S) /\ Len(a) = n - 1 /\ \A i \in 1..(n - 1) : a[i] = q[i]
  <2>1. 1 \in 1..(Len(q) + 1) /\ n - 1 \in (1 - 1)..Len(q)
    BY <1>1
  <2>2. /\ a \in Seq(S) /\ Len(a) = (n - 1) - 1 + 1
        /\ \A i \in 1..((n - 1) - 1 + 1) : a[i] = q[1 + i - 1]
    BY <2>1, Cut
  <2>3. QED  BY <1>1, <2>2
<1>3. /\ b \in Seq(S) /\ Len(b) = Len(q) - n + 1
      /\ \A i \in 1..(Len(q) - n + 1) : b[i] = q[n + i - 1]
  <2>1. n \in 1..(Len(q) + 1) /\ Len(q) \in (n - 1)..Len(q)
    BY <1>1
  <2>2. QED  BY <2>1, Cut
<1>4. m \in Seq(S) /\ Len(m) = 1 /\ m[1] = e
  OBVIOUS
<1>5. InsertAt(q, n, e) = c \o b
  BY DEF InsertAt
<1> HIDE DEF a, b, m
<1>6. /\ c \in Seq(S) /\ Len(c) = n /\ \A i \in 1..n : c[i] = IF i < n THEN q[i] ELSE e
  <2>1. /\ c \in Seq(S) /\ Len(c) = Len(a) + Len(m)
        /\ \A i \in 1..(Len(a) + Len(m)) : c[i] = IF i <= Len(a) THEN a[i] ELSE m[i - Len(a)]
    BY <1>2, <1>4, ConcatProperties
  <2> HIDE DEF c
  <2>2. Len(c) = n
    BY <1>1, <1>2, <1>4, <2>1
  <2>3. ASSUME NEW i \in 1..n PROVE c[i] = IF i < n THEN q[i] ELSE e
    <3>1. c[i] = IF i <= n - 1 THEN a[i] ELSE m[i - (n - 1)]
      BY <1>1, <1>2, <1>4, <2>1
    <3>2. CASE i < n
      BY <1>1, <1>2, <3>1, <3>2
    <3>3. CASE i = n
      <4>1. i - (n - 1) = 1 /\ ~(i <= n - 1)
        BY <1>1, <3>3
      <4>2. c[i] = m[1]
        BY <3>1, <4>1
      <4>3. QED  BY <1>4, <3>3, <4>2
    <3>4. QED  BY <1>1, <3>2, <3>3
  <2>4. QED  BY <2>1, <2>2, <2>3
<1> HIDE DEF c
<1>7. /\ c \o b \in Seq(S) /\ Len(c \o b) = Len(c) + Len(b)
      /\ \A i \in 1..(Len(c) + Len(b)) : (c \o b)[i] = IF i <= Len(c) THEN c[i] ELSE b[i - Len(c)]
  BY <1>3, <1>6, ConcatProperties
<1>8. ASSUME NEW i \in 1..(Len(q) + 1)
      PROVE  (c \o b)[i] = IF i < n THEN q[i] ELSE IF i = n THEN e ELSE q[i - 1]
  <2>1. i \in 1..(Len(c) + Len(b))
    BY <1>1, <1>3, <1>6
  <2>2. CASE i <= n
    <3>1. (c \o b)[i] = c[i] /\ i \in 1..n
      BY <1>1, <1>6, <1>7, <2>1, <2>2
    <3>2. i < n \/ i = n
      BY <1>1, <2>2
    <3>3. QED  BY <1>1, <1>6, <3>1, <3>2
  <2>3. CASE i > n
    <3>1. (c \o b)[i] = b[i - n]
      BY <1>1, <1>6, <1>7, <2>1, <2>3
    <3>2. i - n \in 1..(Len(q) - n + 1) /\ n + (i - n) - 1 = i - 1 /\ ~(i < n) /\ i # n
      BY <1>1, <2>3
    <3>3. b[i - n] = q[n + (i - n) - 1]
      BY <1>3, <3>2
    <3>4. QED  BY <3>1, <3>2, <3>3
  <2>4. i <= n \/ i > n
    BY <1>1
  <2>5. QED  BY <2>2, <2>3, <2>4
<1>9. QED  BY <1>1, <1>3, <1>5, <1>6, <1>7, <1>8

\* Every set of naturals that is not empty has a least element.
LEMMA LeastElement ==
  ASSUME NEW T \in SUBSET Nat, T # {}
  PROVE  \E m \in T : \A k \in T : m <= k
<1> DEFINE U == {1..k : k \in T}
<1>1. IsWellFoundedOn(StrictSubsetOrdering(Nat), FiniteSubsetsOf(Nat))
  BY FS_StrictSubsetOrderingWellFounded
<1>2. \A k \in T : k \in Nat /\ IsFiniteSet(1..k)
  BY FS_Interval
<1>3. U \subseteq FiniteSubsetsOf(Nat) /\ U # {}
  <2>1. \A k \in T : 1..k \in FiniteSubsetsOf(Nat)
    <3>1. \A k \in Nat : 1..k \in SUBSET Nat
      OBVIOUS
    <3>2. QED  BY <1>2, <3>1 DEF FiniteSubsetsOf
  <2>2. QED  BY <2>1
<1>4. PICK x \in U : \A y \in U : <<y, x>> \notin StrictSubsetOrdering(Nat)
  BY <1>1, <1>3, WFMin, Zenon
<1>5. PICK m \in T : x = 1..m
  BY <1>4
<1>6. ASSUME NEW k \in T, k < m PROVE FALSE
  <2>1. 1..k \in SUBSET Nat /\ 1..m \in SUBSET Nat /\ 1..k \subseteq 1..m /\ m \in 1..m /\ m \notin 1..k
    BY <1>6
  <2>2. <<1..k, 1..m>> \in StrictSubsetOrdering(Nat)
    BY <2>1 DEF StrictSubsetOrdering
  <2>3. QED  BY <1>4, <1>5, <1>6, <2>2
<1>7. QED  BY <1>6

\* Which Min is.
LEMMA Least ==
  ASSUME NEW D \in SUBSET Nat, D # {}
  PROVE  Min(D) \in D /\ \A k \in D : Min(D) <= k
<1>1. \E m \in D : \A k \in D : m <= k
  BY LeastElement
<1>2. QED  BY <1>1 DEF Min

\* Without its head, or one other entry, the requests of a queue still come first.
LEMMA RestKeeps ==
  ASSUME NEW q \in Seq(Tracks)
  PROVE  /\ Rest(q) \in Seq(Tracks)
         /\ ManualFirst(q) => ManualFirst(Rest(q))
<1>1. CASE q = <<>>
  BY <1>1 DEF Rest
<1>2. CASE q # <<>>
  <2>1. Rest(q) = Tail(q)
    BY <1>2 DEF Rest
  <2>2. /\ Tail(q) \in Seq(Tracks) /\ Len(Tail(q)) = Len(q) - 1 /\ Len(q) \in Nat
        /\ \A i \in 1..(Len(q) - 1) : Tail(q)[i] = q[i + 1]
    BY <1>2, HeadTailProperties, LenProperties
  <2>3. ASSUME ManualFirst(q) PROVE ManualFirst(Tail(q))
    <3>1. ASSUME NEW m \in 2..Len(Tail(q)), NEW n \in 2..Len(Tail(q)), m < n,
                 Manual(Tail(q)[n])
          PROVE  Manual(Tail(q)[m])
      <4>1. m + 1 \in 2..Len(q) /\ n + 1 \in 2..Len(q) /\ m + 1 < n + 1
        BY <2>2, <3>1
      <4>2. Tail(q)[m] = q[m + 1] /\ Tail(q)[n] = q[n + 1]
        BY <2>2
      <4>3. QED  BY <2>3, <3>1, <4>1, <4>2 DEF ManualFirst
    <3>2. QED  BY <3>1 DEF ManualFirst
  <2>4. QED  BY <2>1, <2>2, <2>3
<1>3. QED  BY <1>1, <1>2

LEMMA RemovedKeeps ==
  ASSUME NEW q \in Seq(Tracks), NEW i
  PROVE  /\ RemoveFirst(q, i) \in Seq(Tracks)
         /\ ManualFirst(q) => ManualFirst(RemoveFirst(q, i))
<1> DEFINE D == {n \in 1..Len(q) : q[n] = i}
<1>1. CASE D = {}
  <2>1. RemoveFirst(q, i) = q
    BY <1>1 DEF RemoveFirst
  <2>2. QED  BY <2>1
<1>2. CASE D # {}
  <2>1. Len(q) \in Nat
    BY LenProperties
  <2>2. PICK k \in D : k = Min(D)
    <3>1. D \in SUBSET Nat
      BY <2>1
    <3>2. QED  BY <1>2, <3>1, Least
  <2>3. PICK p : p = RemoveAt(q, k)
    OBVIOUS
  <2>4. RemoveFirst(q, i) = p
    BY <1>2, <2>2, <2>3 DEF RemoveFirst, SelectInSeq
  <2>5. /\ p \in Seq(Tracks) /\ Len(p) = Len(q) - 1
        /\ \A n \in 1..(Len(q) - 1) : p[n] = IF n < k THEN q[n] ELSE q[n + 1]
    BY <2>3, RemovedAt
  <2>6. ASSUME ManualFirst(q), NEW m \in 2..Len(p), NEW n \in 2..Len(p), m < n,
               Manual(p[n])
        PROVE  Manual(p[m])
    <3>1. \A j \in 2..Len(p) : \E x \in 2..Len(q) : p[j] = q[x] /\ x = IF j < k THEN j ELSE j + 1
      <4>1. ASSUME NEW j \in 2..Len(p)
            PROVE  \E x \in 2..Len(q) : p[j] = q[x] /\ x = IF j < k THEN j ELSE j + 1
        <5>1. CASE j < k
          BY <2>1, <2>5, <5>1
        <5>2. CASE ~(j < k)
          <6>1. j + 1 \in 2..Len(q) /\ p[j] = q[j + 1]
            BY <2>1, <2>5, <5>2
          <6>2. QED  BY <5>2, <6>1
        <5>3. QED  BY <5>1, <5>2
      <4>2. QED  BY <4>1
    <3>2. PICK x \in 2..Len(q) : p[m] = q[x] /\ x = IF m < k THEN m ELSE m + 1
      BY <3>1
    <3>3. PICK y \in 2..Len(q) : p[n] = q[y] /\ y = IF n < k THEN n ELSE n + 1
      BY <3>1
    <3>4. x < y
      BY <2>1, <2>5, <2>6, <3>2, <3>3
    <3>5. QED  BY <2>6, <3>2, <3>3, <3>4 DEF ManualFirst
  <2>7. QED  BY <2>4, <2>5, <2>6 DEF ManualFirst
<1>3. QED  BY <1>1, <1>2

\* Queue.add puts a request before the AI DJ tracks that wait, and those last.
LEMMA InsertedKeeps ==
  ASSUME NEW q \in Seq(Tracks), NEW i \in Tracks
  PROVE  /\ Inserted(q, i) \in Seq(Tracks)
         /\ ManualFirst(q) => ManualFirst(Inserted(q, i))
<1> DEFINE D == {n \in 2..Len(q) : Manual(i) /\ ~Manual(q[n])}
<1>1. Len(q) \in Nat
  BY LenProperties
<1>2. CASE D = {}
  <2>1. PICK p : p = Append(q, i)
    OBVIOUS
  <2>2. Inserted(q, i) = p
    BY <1>2, <2>1 DEF Inserted
  <2>3. /\ p \in Seq(Tracks) /\ Len(p) = Len(q) + 1 /\ p[Len(q) + 1] = i
        /\ \A n \in 1..Len(q) : p[n] = q[n]
    BY <2>1, AppendProperties
  <2>4. ASSUME ManualFirst(q), NEW m \in 2..Len(p), NEW n \in 2..Len(p), m < n,
               Manual(p[n])
        PROVE  Manual(p[m])
    <3>1. m \in 2..Len(q) /\ p[m] = q[m]
      BY <1>1, <2>3, <2>4
    <3>2. CASE n \in 2..Len(q)
      <4>1. p[n] = q[n]
        BY <1>1, <2>3, <3>2
      <4>2. QED  BY <2>4, <3>1, <3>2, <4>1 DEF ManualFirst
    <3>3. CASE n = Len(q) + 1
      <4>1. Manual(i)
        BY <2>3, <2>4, <3>3
      <4>2. QED  BY <1>2, <3>1, <4>1
    <3>4. QED  BY <1>1, <2>3, <3>2, <3>3
  <2>5. QED  BY <2>2, <2>3, <2>4 DEF ManualFirst
<1>3. CASE D # {}
  <2>1. PICK k \in D : k = Min(D) /\ \A n \in D : k <= n
    <3>1. D \in SUBSET Nat
      BY <1>1
    <3>2. QED  BY <1>3, <3>1, Least
  <2>2. PICK p : p = InsertAt(q, k, i)
    OBVIOUS
  <2>3. Inserted(q, i) = p
    BY <1>3, <2>1, <2>2 DEF Inserted
  <2>4. /\ p \in Seq(Tracks) /\ Len(p) = Len(q) + 1
        /\ \A n \in 1..(Len(q) + 1) : p[n] = IF n < k THEN q[n] ELSE IF n = k THEN i ELSE q[n - 1]
    <3>1. k \in 1..Len(q)
      BY <1>1
    <3>2. ASSUME NEW j \in 1..Len(q)
          PROVE  /\ InsertAt(q, j, i) \in Seq(Tracks) /\ Len(InsertAt(q, j, i)) = Len(q) + 1
                 /\ \A n \in 1..(Len(q) + 1) :
                      InsertAt(q, j, i)[n]
                        = IF n < j THEN q[n] ELSE IF n = j THEN i ELSE q[n - 1]
      BY InsertedAt
    <3>3. QED  BY <2>2, <3>1, <3>2
  <2>5. Manual(i) /\ k \in 2..Len(q) /\ ~Manual(q[k])
    OBVIOUS
  <2>6. \A n \in 2..Len(q) : n < k => Manual(q[n])
    BY <1>1, <2>1, <2>5
  <2>7. ASSUME ManualFirst(q), NEW m \in 2..Len(p), NEW n \in 2..Len(p), m < n,
               Manual(p[n])
        PROVE  Manual(p[m])
    <3>1. CASE m < k
      BY <1>1, <2>4, <2>5, <2>6, <3>1
    <3>2. CASE m = k
      BY <1>1, <2>4, <2>5, <3>2
    <3>3. CASE m > k
      <4>1. n - 1 \in 2..Len(q) /\ k < n - 1 /\ p[n] = q[n - 1]
        BY <1>1, <2>4, <2>5, <2>7, <3>3
      <4>2. QED  BY <2>5, <2>7, <4>1 DEF ManualFirst
    <3>4. QED  BY <1>1, <2>4, <2>5, <3>1, <3>2, <3>3
  <2>8. QED  BY <2>3, <2>4, <2>7 DEF ManualFirst
<1>4. QED  BY <1>2, <1>3

\* deque.rotate
LEMMA RotatedEntries ==
  ASSUME NEW S, NEW q \in Seq(S), NEW n \in Int, NEW k \in 0..(Len(q) - 1), k = n % Len(q)
  PROVE  /\ Rotated(q, n) \in Seq(S) /\ Len(Rotated(q, n)) = Len(q)
         /\ \A i \in 1..Len(q) : Rotated(q, n)[i] =
              IF i <= k THEN q[Len(q) - k + i] ELSE q[i - k]
<1> DEFINE a == SubSeq(q, Len(q) - k + 1, Len(q))
           b == SubSeq(q, 1, Len(q) - k)
<1>1. Len(q) \in Nat \ {0} /\ q # <<>>
  BY LenProperties
<1>2. a \in Seq(S) /\ Len(a) = k /\ \A i \in 1..k : a[i] = q[Len(q) - k + i]
  <2>1. Len(q) - k + 1 \in 1..(Len(q) + 1) /\ Len(q) \in ((Len(q) - k + 1) - 1)..Len(q)
    BY <1>1
  <2>2. /\ a \in Seq(S) /\ Len(a) = Len(q) - (Len(q) - k + 1) + 1
        /\ \A i \in 1..(Len(q) - (Len(q) - k + 1) + 1) : a[i] = q[(Len(q) - k + 1) + i - 1]
    BY <2>1, Cut
  <2> HIDE DEF a
  <2>3. Len(q) - (Len(q) - k + 1) + 1 = k
    BY <1>1
  <2>4. \A i \in 1..k : (Len(q) - k + 1) + i - 1 = Len(q) - k + i
    BY <1>1
  <2>5. QED  BY <2>2, <2>3, <2>4
<1>3. b \in Seq(S) /\ Len(b) = Len(q) - k /\ \A i \in 1..(Len(q) - k) : b[i] = q[i]
  <2>1. 1 \in 1..(Len(q) + 1) /\ Len(q) - k \in (1 - 1)..Len(q)
    BY <1>1
  <2>2. /\ b \in Seq(S) /\ Len(b) = Len(q) - k - 1 + 1
        /\ \A i \in 1..(Len(q) - k - 1 + 1) : b[i] = q[1 + i - 1]
    BY <2>1, Cut
  <2> HIDE DEF b
  <2>3. QED  BY <1>1, <2>2
<1>4. Rotated(q, n) = a \o b
  BY <1>1 DEF Rotated
<1> HIDE DEF a, b
<1>5. /\ a \o b \in Seq(S) /\ Len(a \o b) = Len(a) + Len(b)
      /\ \A i \in 1..(Len(a) + Len(b)) : (a \o b)[i] = IF i <= Len(a) THEN a[i] ELSE b[i - Len(a)]
  BY <1>2, <1>3, ConcatProperties
<1>6. ASSUME NEW i \in 1..Len(q)
      PROVE  (a \o b)[i] = IF i <= k THEN q[Len(q) - k + i] ELSE q[i - k]
  <2>1. (a \o b)[i] = IF i <= k THEN a[i] ELSE b[i - k]
    BY <1>1, <1>2, <1>3, <1>5
  <2>2. CASE i <= k
    BY <1>1, <1>2, <2>1, <2>2
  <2>3. CASE ~(i <= k)
    <3>1. i - k \in 1..(Len(q) - k)
      BY <1>1, <2>3
    <3>2. QED  BY <1>3, <2>1, <2>3, <3>1
  <2>4. QED  BY <2>2, <2>3
<1>7. QED  BY <1>1, <1>2, <1>3, <1>4, <1>5, <1>6

\* The head replaced.
LEMMA NewHead ==
  ASSUME NEW q \in Seq(Tracks), NEW i \in Tracks
  PROVE  /\ <<i>> \o Rest(q) \in Seq(Tracks)
         /\ Len(<<i>> \o Rest(q)) = IF q = <<>> THEN 1 ELSE Len(q)
         /\ \A n \in 2..Len(q) : (<<i>> \o Rest(q))[n] = q[n]
<1> DEFINE a == <<i>>
           b == Rest(q)
<1>1. a \in Seq(Tracks) /\ Len(a) = 1
  OBVIOUS
<1>2. /\ b \in Seq(Tracks) /\ Len(q) \in Nat
      /\ q = <<>> => Len(b) = 0
      /\ q # <<>> => Len(b) = Len(q) - 1
      /\ \A n \in 1..(Len(q) - 1) : b[n] = q[n + 1]
  <2>1. Len(q) \in Nat
    BY LenProperties
  <2>2. CASE q = <<>>
    BY <2>2 DEF Rest
  <2>3. CASE q # <<>>
    <3>1. b = Tail(q)
      BY <2>3 DEF Rest
    <3>2. /\ Tail(q) \in Seq(Tracks) /\ Len(Tail(q)) = Len(q) - 1
          /\ \A n \in 1..Len(Tail(q)) : Tail(q)[n] = q[n + 1]
      BY <2>3, HeadTailProperties
    <3>3. QED  BY <2>1, <2>3, <3>1, <3>2
  <2>4. QED  BY <2>2, <2>3
<1> HIDE DEF a, b
<1>3. /\ a \o b \in Seq(Tracks) /\ Len(a \o b) = Len(a) + Len(b)
      /\ \A n \in 1..(Len(a) + Len(b)) : (a \o b)[n] = IF n <= Len(a) THEN a[n] ELSE b[n - Len(a)]
  <2>1. a \in Seq(Tracks) /\ b \in Seq(Tracks)
    BY <1>1, <1>2
  <2>2. QED  BY <2>1, ConcatProperties
<1>4. Len(a \o b) = IF q = <<>> THEN 1 ELSE Len(q)
  BY <1>1, <1>2, <1>3
<1>5. ASSUME NEW n \in 2..Len(q) PROVE (a \o b)[n] = q[n]
  <2>1. q # <<>> /\ Len(b) = Len(q) - 1
    <3>1. q # <<>>
      BY <1>2, <1>5
    <3>2. QED  BY <1>2, <3>1
  <2>2. n \in 1..(Len(a) + Len(b)) /\ ~(n <= Len(a)) /\ n - 1 \in 1..(Len(q) - 1) /\ (n - 1) + 1 = n
    BY <1>1, <1>2, <2>1
  <2>3. (a \o b)[n] = b[n - 1] /\ b[n - 1] = q[(n - 1) + 1]
    BY <1>1, <1>2, <1>3, <2>2
  <2>4. QED  BY <2>2, <2>3
<1>6. QED  BY <1>3, <1>4, <1>5 DEF a, b

\* A rotation keeps the members.
LEMMA RotatedIs ==
  ASSUME NEW S, NEW q \in Seq(S), NEW n \in Int
  PROVE  Rotated(q, n) \in Seq(S) /\ Len(Rotated(q, n)) = Len(q)
<1>1. CASE q = <<>>
  BY <1>1 DEF Rotated
<1>2. CASE q # <<>>
  <2>1. Len(q) \in Nat \ {0}
    BY <1>2, LenProperties, EmptySeq
  <2>2. n % Len(q) \in 0..(Len(q) - 1)
    BY <2>1
  <2>3. QED  BY <2>2, RotatedEntries
<1>3. QED  BY <1>1, <1>2

\* Queue.force_add with an index of the queue removes just the track at that index.
LEMMA ForcedEntries ==
  ASSUME NEW S, NEW r \in Seq(S), NEW pos \in 1..(Len(r) - 1)
  PROVE  LET f == Rotated(Tail(Rotated(r, -pos)), pos)
         IN  /\ f \in Seq(S) /\ Len(f) = Len(r) - 1
             /\ \A i \in 1..(Len(r) - 1) : f[i] = IF i <= pos THEN r[i] ELSE r[i + 1]
<1>1. PICK n : n = Len(r)
  OBVIOUS
<1>2. n \in Nat /\ n > 1 /\ pos \in 1..(n - 1)
  BY <1>1, LenProperties
<1>3. PICK a : a = Rotated(r, -pos)
  OBVIOUS
<1>4. /\ a \in Seq(S) /\ Len(a) = n
      /\ \A i \in 1..n : a[i] = IF i <= n - pos THEN r[pos + i] ELSE r[i - (n - pos)]
  <2>1. -pos \in Int /\ n - pos \in 0..(n - 1) /\ n - pos = (-pos) % n
    BY <1>2
  <2>2. /\ a \in Seq(S) /\ Len(a) = n
        /\ \A i \in 1..n : a[i] = IF i <= n - pos THEN r[n - (n - pos) + i] ELSE r[i - (n - pos)]
    <3>1. PICK p \in Int : p = -pos
      BY <2>1
    <3>2. PICK j \in 0..(Len(r) - 1) : j = n - pos /\ j = p % Len(r)
      BY <1>1, <2>1, <3>1
    <3>3. /\ Rotated(r, p) \in Seq(S) /\ Len(Rotated(r, p)) = Len(r)
          /\ \A i \in 1..Len(r) : Rotated(r, p)[i] =
               IF i <= j THEN r[Len(r) - j + i] ELSE r[i - j]
      BY <3>2, RotatedEntries
    <3>4. QED  BY <1>1, <1>3, <3>1, <3>2, <3>3
  <2>3. n - (n - pos) = pos
    BY <1>2
  <2>4. QED  BY <2>2, <2>3
<1>5. PICK b : b = Tail(a)
  OBVIOUS
<1>6. b \in Seq(S) /\ Len(b) = n - 1 /\ \A i \in 1..(n - 1) : b[i] = a[i + 1]
  <2>1. a # <<>>
    BY <1>2, <1>4
  <2>2. QED  BY <1>4, <1>5, <2>1, HeadTailProperties
<1>7. PICK k \in 0..(n - 2) : k = pos % (n - 1) /\ (pos < n - 1 => k = pos) /\ (pos = n - 1 => k = 0)
  BY <1>2
<1>8. PICK f : f = Rotated(b, pos)
  OBVIOUS
<1>9. /\ f \in Seq(S) /\ Len(f) = n - 1
      /\ \A i \in 1..(n - 1) : f[i] = IF i <= k THEN b[(n - 1) - k + i] ELSE b[i - k]
  <2>1. pos \in Int /\ k \in 0..(Len(b) - 1) /\ k = pos % Len(b)
    BY <1>2, <1>6, <1>7
  <2>2. /\ f \in Seq(S) /\ Len(f) = Len(b)
        /\ \A i \in 1..Len(b) : f[i] = IF i <= k THEN b[Len(b) - k + i] ELSE b[i - k]
    BY <1>6, <1>8, <2>1, RotatedEntries
  <2>3. QED  BY <1>6, <2>2
<1>10. ASSUME NEW i \in 1..(n - 1) PROVE f[i] = IF i <= pos THEN r[i] ELSE r[i + 1]
  <2>1. CASE pos < n - 1
    <3>1. CASE i <= pos
      <4>1. f[i] = b[(n - 1) - pos + i]
        BY <1>7, <1>9, <2>1, <3>1
      <4>2. /\ (n - 1) - pos + i \in 1..(n - 1) /\ ((n - 1) - pos + i) + 1 = n - pos + i
            /\ n - pos + i \in 1..n /\ ~(n - pos + i <= n - pos) /\ (n - pos + i) - (n - pos) = i
        BY <1>2, <2>1, <3>1
      <4>3. b[(n - 1) - pos + i] = a[n - pos + i] /\ a[n - pos + i] = r[i]
        BY <1>4, <1>6, <4>2
      <4>4. QED  BY <3>1, <4>1, <4>3
    <3>2. CASE ~(i <= pos)
      <4>1. f[i] = b[i - pos]
        BY <1>7, <1>9, <2>1, <3>2
      <4>2. /\ i - pos \in 1..(n - 1) /\ (i - pos) + 1 \in 1..n /\ (i - pos) + 1 <= n - pos
            /\ pos + ((i - pos) + 1) = i + 1
        BY <1>2, <3>2
      <4>3. b[i - pos] = a[(i - pos) + 1] /\ a[(i - pos) + 1] = r[i + 1]
        BY <1>4, <1>6, <4>2
      <4>4. QED  BY <3>2, <4>1, <4>3
    <3>3. QED  BY <3>1, <3>2
  <2>2. CASE pos = n - 1
    <3>1. f[i] = b[i]
      <4>1. ~(i <= k) /\ i - k = i
        BY <1>2, <1>7, <2>2
      <4>2. QED  BY <1>9, <4>1
    <3>2. i + 1 \in 1..n /\ ~(i + 1 <= n - pos) /\ (i + 1) - (n - pos) = i /\ i <= pos
      BY <1>2, <2>2
    <3>3. b[i] = a[i + 1] /\ a[i + 1] = r[i]
      BY <1>4, <1>6, <3>2
    <3>4. QED  BY <3>1, <3>2, <3>3
  <2>3. QED  BY <1>2, <2>1, <2>2
<1>11. QED  BY <1>1, <1>3, <1>5, <1>8, <1>9, <1>10

\* So it keeps the requests first.
LEMMA ForcedKeeps ==
  ASSUME NEW q \in Seq(Tracks), NEW i \in Tracks, NEW pos \in Nat
  PROVE  /\ Forced(q, i, pos) \in Seq(Tracks)
         /\ ManualFirst(q) /\ pos < Len(q) => ManualFirst(Forced(q, i, pos))
<1>1. PICK r : r = <<i>> \o Rest(q)
  OBVIOUS
<1>2. /\ r \in Seq(Tracks) /\ Len(q) \in Nat /\ Len(r) = IF q = <<>> THEN 1 ELSE Len(q)
      /\ \A n \in 2..Len(q) : r[n] = q[n]
  BY <1>1, NewHead, LenProperties
<1>3. ManualFirst(q) /\ pos < Len(q) => Len(r) = Len(q) /\ ManualFirst(r)
  <2> SUFFICES ASSUME ManualFirst(q), pos < Len(q)
               PROVE  Len(r) = Len(q) /\ ManualFirst(r)
    OBVIOUS
  <2>1. q # <<>>
    BY <1>2
  <2>2. Len(r) = Len(q)
    BY <1>2, <2>1
  <2>3. QED  BY <1>2, <2>2 DEF ManualFirst
<1>4. CASE pos = 0
  <2>1. Forced(q, i, pos) = r
    BY <1>1, <1>4 DEF Forced
  <2>2. QED  BY <1>2, <1>3, <2>1
<1>5. CASE pos # 0
  <2>1. PICK f : f = Rotated(Tail(Rotated(r, -pos)), pos)
    OBVIOUS
  <2>2. Forced(q, i, pos) = f
    BY <1>1, <1>5, <2>1 DEF Forced
  <2>3. f \in Seq(Tracks)
    <3>1. PICK a : a = Rotated(r, -pos)
      OBVIOUS
    <3>2. pos \in Int /\ -pos \in Int
      OBVIOUS
    <3>3. a \in Seq(Tracks) /\ Len(a) = Len(r)
      BY <1>2, <3>1, <3>2, RotatedIs
    <3>4. Len(r) # 0 /\ a # <<>>
      <4>1. Len(r) # 0
        BY <1>2, EmptySeq
      <4>2. QED  BY <3>3, <4>1, EmptySeq
    <3>5. PICK b : b = Tail(a)
      OBVIOUS
    <3>6. b \in Seq(Tracks)
      BY <3>3, <3>4, <3>5, HeadTailProperties
    <3>7. f = Rotated(b, pos)
      BY <2>1, <3>1, <3>5
    <3>8. QED  BY <3>2, <3>6, <3>7, RotatedIs
  <2>4. ASSUME ManualFirst(q), pos < Len(q) PROVE ManualFirst(f)
    <3>1. Len(r) \in Nat /\ pos \in 1..(Len(r) - 1) /\ ManualFirst(r)
      BY <1>2, <1>3, <1>5, <2>4
    <3>2. /\ Len(f) = Len(r) - 1
          /\ \A n \in 1..(Len(r) - 1) : f[n] = IF n <= pos THEN r[n] ELSE r[n + 1]
      BY <1>2, <2>1, <3>1, ForcedEntries
    <3>3. ASSUME NEW m \in 2..Len(f), NEW n \in 2..Len(f), m < n, Manual(f[n])
          PROVE  Manual(f[m])
      <4>1. \A j \in 2..Len(f) :
              \E x \in 2..Len(r) : f[j] = r[x] /\ x = IF j <= pos THEN j ELSE j + 1
        <5>1. ASSUME NEW j \in 2..Len(f)
              PROVE  \E x \in 2..Len(r) : f[j] = r[x] /\ x = IF j <= pos THEN j ELSE j + 1
          <6>1. CASE j <= pos
            BY <3>1, <3>2, <6>1
          <6>2. CASE ~(j <= pos)
            <7>1. j + 1 \in 2..Len(r) /\ f[j] = r[j + 1]
              BY <3>1, <3>2, <6>2
            <7>2. QED  BY <6>2, <7>1
          <6>3. QED  BY <6>1, <6>2
        <5>2. QED  BY <5>1
      <4>2. PICK x \in 2..Len(r) : f[m] = r[x] /\ x = IF m <= pos THEN m ELSE m + 1
        BY <4>1
      <4>3. PICK y \in 2..Len(r) : f[n] = r[y] /\ y = IF n <= pos THEN n ELSE n + 1
        BY <4>1
      <4>4. x < y
        BY <3>1, <3>2, <3>3, <4>2, <4>3
      <4>5. QED  BY <3>1, <3>3, <4>2, <4>3, <4>4 DEF ManualFirst
    <3>4. QED  BY <3>3 DEF ManualFirst
  <2>5. QED  BY <2>2, <2>3, <2>4
<1>6. QED  BY <1>4, <1>5

-----------------------------------------------------------------------------
(* The coroutines of the queue.                                                *)

Fielded(r) == DOMAIN r = {"at", "why", "own", "item", "by", "local", "again", "pos",
                          "locks", "frames"}

\* A force deals with a track and has read an index.
Told(r) == Fielded(r) /\ (r.at = "forcing" => r.item \in Tracks /\ r.pos \in Nat)

Coroutines == DOMAIN task = Tasks /\ \A t \in Tasks : Told(task[t])

\* What queues are made of; with it a force removes one track.
QueueInv == queue \in Seq(Tracks) /\ Coroutines

\* What steps other than a force do to the queue.
QueueMoves ==
    \/ queue' \in {queue, <<>>, Rest(queue)}
    \/ \E i : queue' = RemoveFirst(queue, i)
    \/ \E i \in Tracks : queue' = Inserted(queue, i) \/ queue' = <<i>>

LEMMA MovesKeep ==
  ASSUME queue \in Seq(Tracks), QueueMoves
  PROVE  /\ queue' \in Seq(Tracks)
         /\ ManualFirst(queue) => ManualFirst(queue')
<1>1. CASE queue' = queue
  BY <1>1
<1>2. CASE queue' = <<>>
  <2>1. Len(<<>>) = 0 /\ <<>> \in Seq(Tracks)
    BY EmptySeq
  <2>2. QED  BY <1>2, <2>1 DEF ManualFirst
<1>3. CASE queue' = Rest(queue)
  BY <1>3, RestKeeps
<1>4. ASSUME NEW i, queue' = RemoveFirst(queue, i)
      PROVE  /\ queue' \in Seq(Tracks)
             /\ ManualFirst(queue) => ManualFirst(queue')
  BY <1>4, RemovedKeeps
<1>5. ASSUME NEW i \in Tracks, queue' = Inserted(queue, i)
      PROVE  /\ queue' \in Seq(Tracks)
             /\ ManualFirst(queue) => ManualFirst(queue')
  BY <1>5, InsertedKeeps
<1>6. ASSUME NEW i \in Tracks, queue' = <<i>>
      PROVE  /\ queue' \in Seq(Tracks)
             /\ ManualFirst(queue) => ManualFirst(queue')
  <2>1. <<i>> \in Seq(Tracks) /\ Len(<<i>>) = 1
    OBVIOUS
  <2>2. QED  BY <1>6, <2>1 DEF ManualFirst
<1>7. QED  BY <1>1, <1>2, <1>3, <1>4, <1>5, <1>6 DEF QueueMoves

\* A step that changes the coroutine t and ends others.
LEMMA OneMoves ==
  ASSUME Coroutines, NEW t \in Tasks, DOMAIN task' = Tasks,
         \A u \in Tasks \ {t} : task'[u] \in {task[u], Idle},
         Fielded(task'[t]), task'[t].at # "forcing"
  PROVE  Coroutines'
<1>1. Told(Idle)
  BY DEF Told, Fielded, Idle
<1>2. QED  BY <1>1 DEF Coroutines, Told, Fielded

\* A coroutine that returns.
LEMMA ReturnKeeps ==
  ASSUME DOMAIN task = Tasks, \A u \in Tasks : Fielded(task[u]), NEW t \in Tasks, NEW b,
         Return(t, b)
  PROVE  /\ DOMAIN task' = Tasks /\ Fielded(task'[t]) /\ task'[t].at # "forcing"
         /\ \A u \in Tasks \ {t} : task'[u] \in {task[u], Idle}
<1>1. CASE task[t].why = "initial" /\ ~b
  <2>1. PICK phase \in {"cleaning", "stopping"} : phase = StopOf(queue')
    BY DEF StopOf
  <2>2. task' = [task EXCEPT ![t] = [Idle EXCEPT !.at = phase, !.why = "stop"]]
    BY <1>1, <2>1 DEF Return
  <2>3. QED  BY <2>2 DEF Idle, Fielded
<1>2. CASE ~(task[t].why = "initial" /\ ~b)
  <2>1. task' = [task EXCEPT ![t] = Idle]
    BY <1>2 DEF Return
  <2>2. QED  BY <2>1 DEF Idle, Fielded
<1>3. QED  BY <1>1, <1>2

LEMMA KindsAreTracks == Requests \subseteq Tracks /\ Recommended \subseteq Tracks
BY DEF Tracks

\* The steps of a coroutine that forces nothing.
LEMMA StepsKeep ==
  ASSUME QueueInv, NEW t \in Tasks,
         \/ Body(t) \/ Start(t) \/ Watched(t) \/ StopCleans(t)
         \/ StopLeaves(t) \/ Noticed(t) \/ PlayFirst(t) \/ PlayLater(t)
         \/ Skip(t) \/ Stop(t) \/ Again(t) \/ Cancel(t) \/ HearEnd(t)
  PROVE  QueueMoves /\ Coroutines'
<1>0. /\ DOMAIN task = Tasks /\ \A u \in Tasks : Fielded(task[u])
      /\ Fielded(Idle) /\ Coroutines
  BY DEF QueueInv, Coroutines, Told, Idle, Fielded
<1>1. CASE Acquire(t)
  <2>1. QueueMoves
    BY <1>1 DEF Acquire, QueueMoves, queueVars
  <2>2. /\ DOMAIN task' = Tasks /\ Fielded(task'[t]) /\ task'[t].at # "forcing"
        /\ \A u \in Tasks \ {t} : task'[u] \in {task[u], Idle}
    BY <1>0, <1>1 DEF Acquire, StopOf, Idle, Fielded
  <2>3. QED  BY <1>0, <2>1, <2>2, OneMoves
<1>2. CASE Begin(t)
  <2>1. QueueMoves
    BY <1>2 DEF Begin, QueueMoves, queueVars
  <2>2. /\ DOMAIN task' = Tasks /\ Fielded(task'[t]) /\ task'[t].at # "forcing"
        /\ \A u \in Tasks \ {t} : task'[u] \in {task[u], Idle}
    BY <1>0, <1>2 DEF Begin, StopOf, Idle, Fielded, GoWith
  <2>3. QED  BY <1>0, <2>1, <2>2, OneMoves
<1>3. CASE Replay(t)
  <2>1. QueueMoves
    BY <1>3 DEF Replay, QueueMoves, queueVars, Return
  <2>2. /\ DOMAIN task' = Tasks /\ Fielded(task'[t]) /\ task'[t].at # "forcing"
        /\ \A u \in Tasks \ {t} : task'[u] \in {task[u], Idle}
    <3>1. CASE call
      BY <1>0, <1>3, <3>1 DEF Replay, Fielded
    <3>2. CASE ~call
      BY <1>0, <1>3, <3>2, ReturnKeeps DEF Replay
    <3>3. QED  BY <3>1, <3>2
  <2>3. QED  BY <1>0, <2>1, <2>2, OneMoves
<1>4. CASE Pop(t)
  <2>1. QueueMoves
    BY <1>4 DEF Pop, QueueMoves, queueVars
  <2>2. /\ DOMAIN task' = Tasks /\ Fielded(task'[t]) /\ task'[t].at # "forcing"
        /\ \A u \in Tasks \ {t} : task'[u] \in {task[u], Idle}
    <3>1. PICK r : r = WithoutWatchers(t)
      OBVIOUS
    <3>2. /\ DOMAIN r = Tasks /\ Fielded(r[t])
          /\ \A u \in Tasks \ {t} : r[u] \in {task[u], Idle}
      BY <1>0, <3>1 DEF WithoutWatchers, Watchers
    <3>3. PICK phase \in {"readying", "choosing", "cleaning"} :
            task' = [r EXCEPT ![t].at = phase,
                              ![t].item = IF queue' = <<>> THEN @ ELSE Head(queue')]
      BY <1>4, <3>1 DEF Pop
    <3>4. PICK i : task' = [r EXCEPT ![t].at = phase, ![t].item = i]
      <4>1. CASE queue' = <<>>
        BY <3>3, <4>1
      <4>2. CASE queue' # <<>>
        BY <3>3, <4>2
      <4>3. QED  BY <4>1, <4>2
    <3>5. QED  BY <3>2, <3>4 DEF Fielded
  <2>3. QED  BY <1>0, <2>1, <2>2, OneMoves
<1>5. CASE Recommend(t)
  <2>1. QueueMoves
    BY <1>5, KindsAreTracks DEF Recommend, QueueMoves, queueVars
  <2>2. /\ DOMAIN task' = Tasks /\ Fielded(task'[t]) /\ task'[t].at # "forcing"
        /\ \A u \in Tasks \ {t} : task'[u] \in {task[u], Idle}
    BY <1>0, <1>5 DEF Recommend, StopOf, Idle, Fielded, GoWith
  <2>3. QED  BY <1>0, <2>1, <2>2, OneMoves
<1>6. CASE RecommendNothing(t)
  <2>1. QueueMoves
    BY <1>6 DEF RecommendNothing, QueueMoves, queueVars
  <2>2. /\ DOMAIN task' = Tasks /\ Fielded(task'[t]) /\ task'[t].at # "forcing"
        /\ \A u \in Tasks \ {t} : task'[u] \in {task[u], Idle}
    BY <1>0, <1>6 DEF RecommendNothing, StopOf, Idle, Fielded, Go
  <2>3. QED  BY <1>0, <2>1, <2>2, OneMoves
<1>7. CASE Ready(t)
  <2>1. QueueMoves
    BY <1>7 DEF Ready, QueueMoves, queueVars
  <2>2. /\ DOMAIN task' = Tasks /\ Fielded(task'[t]) /\ task'[t].at # "forcing"
        /\ \A u \in Tasks \ {t} : task'[u] \in {task[u], Idle}
    BY <1>0, <1>7 DEF Ready, StopOf, Idle, Fielded
  <2>3. QED  BY <1>0, <2>1, <2>2, OneMoves
<1>8. CASE Unplayable(t)
  <2>1. QueueMoves
    BY <1>8 DEF Unplayable, QueueMoves, queueVars
  <2>2. /\ DOMAIN task' = Tasks /\ Fielded(task'[t]) /\ task'[t].at # "forcing"
        /\ \A u \in Tasks \ {t} : task'[u] \in {task[u], Idle}
    BY <1>0, <1>8 DEF Unplayable, StopOf, Idle, Fielded, Go
  <2>3. QED  BY <1>0, <2>1, <2>2, OneMoves
<1>9. CASE PlayLocal(t)
  <2>1. QueueMoves
    BY <1>9 DEF PlayLocal, QueueMoves, queueVars, Return
  <2>2. /\ DOMAIN task' = Tasks /\ Fielded(task'[t]) /\ task'[t].at # "forcing"
        /\ \A u \in Tasks \ {t} : task'[u] \in {task[u], Idle}
    BY <1>0, <1>9, ReturnKeeps DEF PlayLocal
  <2>3. QED  BY <1>0, <2>1, <2>2, OneMoves
<1>10. CASE PlayDetached(t)
  <2>1. QueueMoves
    BY <1>10 DEF PlayDetached, QueueMoves, queueVars
  <2>2. /\ DOMAIN task' = Tasks /\ Fielded(task'[t]) /\ task'[t].at # "forcing"
        /\ \A u \in Tasks \ {t} : task'[u] \in {task[u], Idle}
    BY <1>0, <1>10 DEF PlayDetached, StopOf, Idle, Fielded
  <2>3. QED  BY <1>0, <2>1, <2>2, OneMoves
<1>11. CASE PlayDirect(t)
  <2>1. QueueMoves
    BY <1>11 DEF PlayDirect, QueueMoves, queueVars
  <2>2. /\ DOMAIN task' = Tasks /\ Fielded(task'[t]) /\ task'[t].at # "forcing"
        /\ \A u \in Tasks \ {t} : task'[u] \in {task[u], Idle}
    BY <1>0, <1>11 DEF PlayDirect, StopOf, Idle, Fielded, Go
  <2>3. QED  BY <1>0, <2>1, <2>2, OneMoves
<1>12. CASE ProofHolds(t)
  <2>1. QueueMoves
    BY <1>12 DEF ProofHolds, QueueMoves, queueVars, Return
  <2>2. /\ DOMAIN task' = Tasks /\ Fielded(task'[t]) /\ task'[t].at # "forcing"
        /\ \A u \in Tasks \ {t} : task'[u] \in {task[u], Idle}
    BY <1>0, <1>12, ReturnKeeps DEF ProofHolds
  <2>3. QED  BY <1>0, <2>1, <2>2, OneMoves
<1>13. CASE ProofFails(t)
  <2>1. QueueMoves
    BY <1>13 DEF ProofFails, QueueMoves, queueVars
  <2>2. /\ DOMAIN task' = Tasks /\ Fielded(task'[t]) /\ task'[t].at # "forcing"
        /\ \A u \in Tasks \ {t} : task'[u] \in {task[u], Idle}
    BY <1>0, <1>13 DEF ProofFails, StopOf, Idle, Fielded
  <2>3. QED  BY <1>0, <2>1, <2>2, OneMoves
<1>14. CASE Refuse(t)
  <2>1. QueueMoves
    BY <1>14 DEF Refuse, QueueMoves, queueVars, Return
  <2>2. /\ DOMAIN task' = Tasks /\ Fielded(task'[t]) /\ task'[t].at # "forcing"
        /\ \A u \in Tasks \ {t} : task'[u] \in {task[u], Idle}
    BY <1>0, <1>14, ReturnKeeps DEF Refuse
  <2>3. QED  BY <1>0, <2>1, <2>2, OneMoves
<1>15. CASE GiveUp(t)
  <2>1. QueueMoves
    BY <1>15 DEF GiveUp, QueueMoves, queueVars
  <2>2. /\ DOMAIN task' = Tasks /\ Fielded(task'[t]) /\ task'[t].at # "forcing"
        /\ \A u \in Tasks \ {t} : task'[u] \in {task[u], Idle}
    BY <1>0, <1>15 DEF GiveUp, StopOf, Idle, Fielded, Advance, Go
  <2>3. QED  BY <1>0, <2>1, <2>2, OneMoves
<1>16. CASE NoVoiceChat(t)
  <2>1. QueueMoves
    BY <1>16 DEF NoVoiceChat, QueueMoves, queueVars
  <2>2. /\ DOMAIN task' = Tasks /\ Fielded(task'[t]) /\ task'[t].at # "forcing"
        /\ \A u \in Tasks \ {t} : task'[u] \in {task[u], Idle}
    BY <1>0, <1>16 DEF NoVoiceChat, StopOf, Idle, Fielded, Go
  <2>3. QED  BY <1>0, <2>1, <2>2, OneMoves
<1>17. CASE Raise(t)
  <2>1. QueueMoves
    BY <1>17
       DEF Raise, QueueMoves, queueVars, RaiseInBody, RaiseInLoop,
           RaiseInFailover, RaiseInCommand, Return
  <2>2. /\ DOMAIN task' = Tasks /\ Fielded(task'[t]) /\ task'[t].at # "forcing"
        /\ \A u \in Tasks \ {t} : task'[u] \in {task[u], Idle}
    <3>1. CASE RaiseInBody(t)
      BY <1>0, <3>1 DEF RaiseInBody, Advance, Go, Fielded
    <3>2. CASE RaiseInLoop(t)
      <4>1. CASE task[t].why = "end"
        BY <1>0, <3>2, <4>1 DEF RaiseInLoop, StopOf, Idle, Fielded
      <4>2. CASE task[t].why # "end"
        BY <1>0, <3>2, <4>2, ReturnKeeps DEF RaiseInLoop
      <4>3. QED  BY <4>1, <4>2
    <3>3. CASE RaiseInFailover(t)
      BY <1>0, <3>3 DEF RaiseInFailover, NoFailover, Advance, Go, Fielded
    <3>4. CASE RaiseInCommand(t)
      <4>1. CASE task[t].why = "play" /\ Current = task[t].own /\ Len(queue) > 1
        BY <1>0, <3>4, <4>1 DEF RaiseInCommand, Advance, Go, Fielded
      <4>2. CASE ~(task[t].why = "play" /\ Current = task[t].own /\ Len(queue) > 1)
        <5>1. task' = [task EXCEPT ![t] =
                IF task[t].why = "initial" /\ ~call
                THEN [Idle EXCEPT !.at = StopOf(queue'), !.why = "stop"]
                ELSE Idle]
          BY <3>4, <4>2 DEF RaiseInCommand
        <5>2. QED  BY <1>0, <5>1 DEF StopOf, Idle, Fielded
      <4>3. QED  BY <4>1, <4>2
    <3>5. QED  BY <1>17, <3>1, <3>2, <3>3, <3>4 DEF Raise
  <2>3. QED  BY <1>0, <2>1, <2>2, OneMoves
<1>18. CASE Attach(t)
  <2>1. QueueMoves
    BY <1>18 DEF Attach, QueueMoves, queueVars
  <2>2. /\ DOMAIN task' = Tasks /\ Fielded(task'[t]) /\ task'[t].at # "forcing"
        /\ \A u \in Tasks \ {t} : task'[u] \in {task[u], Idle}
    BY <1>0, <1>18 DEF Attach, StopOf, Idle, Fielded, Go
  <2>3. QED  BY <1>0, <2>1, <2>2, OneMoves
<1>19. CASE AttachFails(t)
  <2>1. QueueMoves
    BY <1>19 DEF AttachFails, QueueMoves, queueVars
  <2>2. /\ DOMAIN task' = Tasks /\ Fielded(task'[t]) /\ task'[t].at # "forcing"
        /\ \A u \in Tasks \ {t} : task'[u] \in {task[u], Idle}
    BY <1>0, <1>19 DEF AttachFails, StopOf, Idle, Fielded, Go
  <2>3. QED  BY <1>0, <2>1, <2>2, OneMoves
<1>20. CASE Watch(t)
  <2>1. QueueMoves
    BY <1>20 DEF Watch, QueueMoves, queueVars
  <2>2. /\ DOMAIN task' = Tasks /\ Fielded(task'[t]) /\ task'[t].at # "forcing"
        /\ \A u \in Tasks \ {t} : task'[u] \in {task[u], Idle}
    <3>1. CASE task' = [task EXCEPT ![t] = Idle]
      BY <1>0, <3>1 DEF Idle, Fielded
    <3>2. CASE Go(t, "failing over")
      BY <1>0, <3>2 DEF Go, Fielded
    <3>3. QED  BY <1>20, <3>1, <3>2 DEF Watch
  <2>3. QED  BY <1>0, <2>1, <2>2, OneMoves
<1>21. CASE FailoverStopped(t)
  <2>1. QueueMoves
    BY <1>21 DEF FailoverStopped, QueueMoves, queueVars
  <2>2. /\ DOMAIN task' = Tasks /\ Fielded(task'[t]) /\ task'[t].at # "forcing"
        /\ \A u \in Tasks \ {t} : task'[u] \in {task[u], Idle}
    BY <1>0, <1>21 DEF FailoverStopped, StopOf, Idle, Fielded
  <2>3. QED  BY <1>0, <2>1, <2>2, OneMoves
<1>22. CASE FailoverRefused(t)
  <2>1. QueueMoves
    BY <1>22 DEF FailoverRefused, QueueMoves, queueVars
  <2>2. /\ DOMAIN task' = Tasks /\ Fielded(task'[t]) /\ task'[t].at # "forcing"
        /\ \A u \in Tasks \ {t} : task'[u] \in {task[u], Idle}
    BY <1>0, <1>22
       DEF FailoverRefused, StopOf, Idle, Fielded, NoFailover,
           Advance, Go
  <2>3. QED  BY <1>0, <2>1, <2>2, OneMoves
<1>23. CASE Failover(t)
  <2>1. QueueMoves
    BY <1>23 DEF Failover, QueueMoves, queueVars
  <2>2. /\ DOMAIN task' = Tasks /\ Fielded(task'[t]) /\ task'[t].at # "forcing"
        /\ \A u \in Tasks \ {t} : task'[u] \in {task[u], Idle}
    BY <1>0, <1>23 DEF Failover, StopOf, Idle, Fielded
  <2>3. QED  BY <1>0, <2>1, <2>2, OneMoves
<1>24. CASE StopCleans(t)
  <2>1. QueueMoves
    BY <1>24 DEF StopCleans, QueueMoves, queueVars
  <2>2. /\ DOMAIN task' = Tasks /\ Fielded(task'[t]) /\ task'[t].at # "forcing"
        /\ \A u \in Tasks \ {t} : task'[u] \in {task[u], Idle}
    BY <1>0, <1>24 DEF StopCleans, StopOf, Idle, Fielded, WithoutWatchers
  <2>3. QED  BY <1>0, <2>1, <2>2, OneMoves
<1>25. CASE StopLeaves(t)
  <2>1. QueueMoves
    BY <1>25 DEF StopLeaves, QueueMoves, queueVars, Return
  <2>2. /\ DOMAIN task' = Tasks /\ Fielded(task'[t]) /\ task'[t].at # "forcing"
        /\ \A u \in Tasks \ {t} : task'[u] \in {task[u], Idle}
    <3>1. CASE task[t].again
      BY <1>0, <1>25, <3>1 DEF StopLeaves, Fielded
    <3>2. CASE ~task[t].again
      BY <1>0, <1>25, <3>2, ReturnKeeps DEF StopLeaves
    <3>3. QED  BY <3>1, <3>2
  <2>3. QED  BY <1>0, <2>1, <2>2, OneMoves
<1>26. CASE Noticed(t)
  <2>1. QueueMoves
    BY <1>26 DEF Noticed, QueueMoves, queueVars
  <2>2. /\ DOMAIN task' = Tasks /\ Fielded(task'[t]) /\ task'[t].at # "forcing"
        /\ \A u \in Tasks \ {t} : task'[u] \in {task[u], Idle}
    BY <1>0, <1>26 DEF Noticed, StopOf, Idle, Fielded
  <2>3. QED  BY <1>0, <2>1, <2>2, OneMoves
<1>27. CASE PlayFirst(t)
  <2>1. QueueMoves
    BY <1>27, KindsAreTracks DEF PlayFirst, QueueMoves, queueVars
  <2>2. /\ DOMAIN task' = Tasks /\ Fielded(task'[t]) /\ task'[t].at # "forcing"
        /\ \A u \in Tasks \ {t} : task'[u] \in {task[u], Idle}
    <3>1. PICK i : task' = [task EXCEPT ![t] = [Idle EXCEPT
                     !.at = "starting", !.why = "initial", !.own = i, !.item = i]]
      BY <1>27 DEF PlayFirst
    <3>2. QED  BY <1>0, <3>1 DEF Idle, Fielded
  <2>3. QED  BY <1>0, <2>1, <2>2, OneMoves
<1>28. CASE PlayLater(t)
  <2>1. QueueMoves
    BY <1>28, KindsAreTracks DEF PlayLater, QueueMoves, queueVars
  <2>2. /\ DOMAIN task' = Tasks /\ Fielded(task'[t]) /\ task'[t].at # "forcing"
        /\ \A u \in Tasks \ {t} : task'[u] \in {task[u], Idle}
    <3>1. PICK i \in Requests, phase \in {"starting", "queued"} :
            task' = [task EXCEPT ![t] = [Idle EXCEPT
                       !.at = phase, !.why = "play", !.own = i, !.item = i]]
      <4>1. PICK phase \in {"starting", "queued"} :
              phase = IF queue = <<>> THEN "starting" ELSE "queued"
        OBVIOUS
      <4>2. QED  BY <1>28, <4>1 DEF PlayLater
    <3>2. QED  BY <1>0, <3>1 DEF Idle, Fielded
  <2>3. QED  BY <1>0, <2>1, <2>2, OneMoves
<1>29. CASE Skip(t)
  <2>1. QueueMoves
    BY <1>29 DEF Skip, QueueMoves, queueVars
  <2>2. /\ DOMAIN task' = Tasks /\ Fielded(task'[t]) /\ task'[t].at # "forcing"
        /\ \A u \in Tasks \ {t} : task'[u] \in {task[u], Idle}
    BY <1>0, <1>29 DEF Skip, StopOf, Idle, Fielded
  <2>3. QED  BY <1>0, <2>1, <2>2, OneMoves
<1>30. CASE Stop(t)
  <2>1. QueueMoves
    BY <1>30 DEF Stop, QueueMoves, queueVars
  <2>2. /\ DOMAIN task' = Tasks /\ Fielded(task'[t]) /\ task'[t].at # "forcing"
        /\ \A u \in Tasks \ {t} : task'[u] \in {task[u], Idle}
    BY <1>0, <1>30 DEF Stop, StopOf, Idle, Fielded
  <2>3. QED  BY <1>0, <2>1, <2>2, OneMoves
<1>31. CASE Again(t)
  <2>1. QueueMoves
    BY <1>31 DEF Again, QueueMoves, queueVars
  <2>2. /\ DOMAIN task' = Tasks /\ Fielded(task'[t]) /\ task'[t].at # "forcing"
        /\ \A u \in Tasks \ {t} : task'[u] \in {task[u], Idle}
    BY <1>0, <1>31 DEF Again, StopOf, Idle, Fielded
  <2>3. QED  BY <1>0, <2>1, <2>2, OneMoves
<1>32. CASE Cancel(t)
  <2>1. QueueMoves
    BY <1>32 DEF Cancel, QueueMoves, queueVars
  <2>2. /\ DOMAIN task' = Tasks /\ Fielded(task'[t]) /\ task'[t].at # "forcing"
        /\ \A u \in Tasks \ {t} : task'[u] \in {task[u], Idle}
    BY <1>0, <1>32 DEF Cancel, StopOf, Idle, Fielded
  <2>3. QED  BY <1>0, <2>1, <2>2, OneMoves
<1>33. CASE HearEnd(t)
  <2>1. QueueMoves
    BY <1>33 DEF HearEnd, QueueMoves, queueVars
  <2>2. /\ DOMAIN task' = Tasks /\ Fielded(task'[t]) /\ task'[t].at # "forcing"
        /\ \A u \in Tasks \ {t} : task'[u] \in {task[u], Idle}
    BY <1>0, <1>33 DEF HearEnd, StopOf, Idle, Fielded
  <2>3. QED  BY <1>0, <2>1, <2>2, OneMoves
<1>34. QED
  BY <1>1, <1>2, <1>3, <1>4, <1>5, <1>6, <1>7, <1>8, <1>9, <1>10, <1>11, <1>12, <1>13, <1>14,
     <1>15, <1>16, <1>17, <1>18, <1>19, <1>20, <1>21, <1>22, <1>23, <1>24, <1>25, <1>26, <1>27,
     <1>28, <1>29, <1>30, <1>31, <1>32, <1>33
     DEF Body, Start, Watched

\* A force reads an index of the queue and the track that is there.
LEMMA ForceReads ==
  ASSUME QueueInv, NEW t \in Tasks, PlayNow(t)
  PROVE  QueueMoves /\ Coroutines'
<1>1. PICK n \in DOMAIN queue :
        task' = [task EXCEPT ![t] = [Idle EXCEPT !.at = "forcing", !.why = "force",
                   !.own = queue[n], !.item = queue[n], !.pos = n - 1]]
  BY DEF PlayNow
<1>2. queue[n] \in Tracks /\ n - 1 \in Nat
  <2>1. n \in 1..Len(queue) /\ Len(queue) \in Nat
    BY LenProperties DEF QueueInv
  <2>2. queue[n] \in Tracks
    BY <2>1, ElementOfSeq DEF QueueInv
  <2>3. QED  BY <2>1, <2>2
<1>3. PICK i \in Tracks, p \in Nat :
        task' = [task EXCEPT ![t] = [Idle EXCEPT !.at = "forcing", !.why = "force",
                   !.own = i, !.item = i, !.pos = p]]
  BY <1>1, <1>2
<1>4. DOMAIN task' = Tasks /\ Told(task'[t]) /\ \A u \in Tasks \ {t} : task'[u] = task[u]
  BY <1>3 DEF QueueInv, Coroutines, Told, Fielded, Idle
<1>5. Coroutines'
  BY <1>4 DEF QueueInv, Coroutines, Told, Fielded
<1>6. QueueMoves
  BY DEF PlayNow, queueVars, QueueMoves
<1>7. QED  BY <1>5, <1>6

\* A step other than a force that goes through.
LEMMA OthersKeep ==
  ASSUME QueueInv, [Next]_vars, \A t \in Tasks : ~ForceAdd(t)
  PROVE  QueueMoves /\ Coroutines'
<1>1. ASSUME UNCHANGED <<queue, task>> PROVE QueueMoves /\ Coroutines'
  BY <1>1 DEF QueueInv, Coroutines, Told, Fielded, QueueMoves
<1>2. CASE UNCHANGED vars
  BY <1>1, <1>2 DEF vars, queueVars
<1>3. CASE TrackEnds \/ SwitchEnds \/ DebounceEnds \/ HearNothing \/ HearFatal
  BY <1>1, <1>3 DEF TrackEnds, SwitchEnds, DebounceEnds, HearNothing,
                    HearFatal, queueVars
<1>4. ASSUME NEW t \in Tasks, SetLoop(t) PROVE QueueMoves /\ Coroutines'
  BY <1>1, <1>4 DEF SetLoop
<1>5. ASSUME NEW t \in Tasks, PlayNow(t) PROVE QueueMoves /\ Coroutines'
  BY <1>5, ForceReads
<1>6. ASSUME NEW t \in Tasks,
             \/ Body(t) \/ Start(t) \/ Watched(t) \/ StopCleans(t)
             \/ StopLeaves(t) \/ Noticed(t) \/ PlayFirst(t) \/ PlayLater(t)
             \/ Skip(t) \/ Stop(t) \/ Again(t) \/ Cancel(t) \/ HearEnd(t)
      PROVE  QueueMoves /\ Coroutines'
  BY <1>6, StepsKeep
<1>7. QED
  BY <1>2, <1>3, <1>4, <1>5, <1>6 DEF Next, Update, Runs, Command

\* A force that goes through.
LEMMA ForceAddKeeps ==
  ASSUME QueueInv, NEW t \in Tasks, ForceAdd(t)
  PROVE  /\ QueueInv'
         /\ ManualFirst(queue) /\ task[t].pos < Len(queue) => ManualFirst(queue')
<1>1. task[t].item \in Tracks /\ task[t].pos \in Nat /\ Fielded(task[t])
  BY DEF ForceAdd, On, At, QueueInv, Coroutines, Told
<1>2. PICK i \in Tracks, p \in Nat : i = task[t].item /\ p = task[t].pos
  BY <1>1
<1>3. queue' = Forced(queue, i, p)
  BY <1>2 DEF ForceAdd
<1>4. /\ queue' \in Seq(Tracks)
      /\ ManualFirst(queue) /\ p < Len(queue) => ManualFirst(queue')
  BY <1>3, ForcedKeeps DEF QueueInv
<1>5. task' = [task EXCEPT ![t].at = "starting"]
  BY DEF ForceAdd, Go
<1>6. /\ DOMAIN task' = Tasks /\ Fielded(task'[t]) /\ task'[t].at # "forcing"
      /\ \A u \in Tasks \ {t} : task'[u] = task[u]
  BY <1>1, <1>5 DEF QueueInv, Coroutines, Fielded
<1>7. Coroutines'
  BY <1>6, OneMoves DEF QueueInv
<1>8. QED  BY <1>2, <1>4, <1>7 DEF QueueInv

LEMMA QueueStep ==
  ASSUME QueueInv, [Next]_vars
  PROVE  /\ QueueInv'
         /\ ManualFirst(queue) /\ (\A t \in Tasks : Fresh(t)) => ManualFirst(queue')
<1>1. CASE \A t \in Tasks : ~ForceAdd(t)
  <2>1. QueueMoves /\ Coroutines'
    BY <1>1, OthersKeep
  <2>2. QED  BY <2>1, MovesKeep DEF QueueInv
<1>2. ASSUME NEW t \in Tasks, ForceAdd(t)
      PROVE  /\ QueueInv'
             /\ ManualFirst(queue) /\ (\A u \in Tasks : Fresh(u)) => ManualFirst(queue')
  <2>1. (\A u \in Tasks : Fresh(u)) => task[t].pos < Len(queue)
    BY <1>2 DEF Fresh
  <2>2. QED  BY <1>2, <2>1, ForceAddKeeps
<1>3. QED  BY <1>1, <1>2

\* Coroutines force only tracks that a queue had, at an index that it had.
THEOREM QueueInvHolds == Spec => []QueueInv
<1>1. Init => QueueInv
  <2> SUFFICES ASSUME Init PROVE QueueInv
    OBVIOUS
  <2>1. queue \in Seq(Tracks)
    BY EmptySeq DEF Init
  <2>2. Coroutines
    BY DEF Init, Idle, Coroutines, Told, Fielded
  <2>3. QED  BY <2>1, <2>2 DEF QueueInv
<1>2. QueueInv /\ [Next]_vars => QueueInv'
  BY QueueStep
<1>3. QED  BY <1>1, <1>2, PTL DEF Spec

\* However requests, recommendations, removals, advances, stops and forces take
\* turns in a chat, the requests that wait stay before the AI DJ tracks, unless a
\* force uses an index that the queue no longer has.
THEOREM KeepsManualFirstHolds == Spec => KeepsManualFirst
<1>1. QueueInv /\ [Next]_vars =>
        [ManualFirst(queue) /\ (\A t \in Tasks : Fresh(t))
           => ManualFirst(queue')]_vars
  BY QueueStep
<1>2. QED  BY <1>1, QueueInvHolds, PTL DEF Spec, KeepsManualFirst
=============================================================================
