---------------------------- MODULE HistoryProofs ----------------------------
(***************************************************************************)
(* Proofs about the native pair that need the history of the folder, for   *)
(* any number of files, paths and revisions, any folding of paths, any     *)
(* number of aborts, skips and resets.                                     *)
(*                                                                         *)
(* DeletesJustified   Spec => []DeletesOnlyWhatIsGone, if Mirroring        *)
(* NoChangeMissed     Spec => []NothingMissed, if Recording                *)
(* PinsKept           Spec => PinnedPathIsKept, if renames are ignored     *)
(*                                                                         *)
(* The first follows from HistoryInv.  An attempt looks only at what       *)
(* changed since its cursor, so what it plans is right only if the map is  *)
(* right about everything before: HistoryInv says what the history tells   *)
(* of a file (FolderHistory), that each map is truthful up to its cursor   *)
(* (Maps), that what is planned leads to what was listed (Sound), that     *)
(* everything listed is planned (ListedIsPlanned), and that the tombstone  *)
(* of a renamed file is not taken for a deletion (TombstonesTold).  The    *)
(* second follows from KeptInv, which says as much of the files a listing  *)
(* has to show and nothing of the others.                                  *)
(***************************************************************************)
EXTENDS FileTransferProofs

\* What the first theorem holds under: the stream mirrors the whole folder and propagates
\* renames, the folder does not change while it is listed, and no file grows past the
\* limit.
Mirroring ==
    /\ RenamePolicy = "propagate"
    /\ GlobPaths = Paths
    /\ ~Paged
    /\ \A q, r \in Revs : q < r /\ TooLarge(r) => TooLarge(q)

-----------------------------------------------------------------------------
(* The folder l and its history j, of any two states.                      *)

EventsIn(j, id) == {k \in DOMAIN j : j[k].id = id}

LatestIn(j, k) == \A m \in (k + 1) .. Len(j) : ~SamePath(j[m].path, j[k].path)

\* Event k is the last of file id, and says where it is and what it holds.
Current(l, j, id, k) ==
    /\ k \in EventsIn(j, id)
    /\ j[k].path = l[id].path /\ j[k].rev = l[id].rev
    /\ LatestIn(j, k)
    /\ \A i \in EventsIn(j, id) : i <= k /\ j[i].rev <= l[id].rev

\* Event m is the deletion that the file, whose last event is k, went away with.
Withdrawn(j, id, k, m) ==
    /\ k \in EventsIn(j, id) /\ m \in DOMAIN j /\ j[m].id = 0
    /\ \A i \in EventsIn(j, id) : i <= k
    /\ k < m /\ SamePath(j[k].path, j[m].path)

HistoryOf(l, j, id) ==
    /\ l[id] # Absent => \E k \in DOMAIN j : Current(l, j, id, k)
    /\ l[id] = Absent /\ EventsIn(j, id) # {} => \E k, m \in DOMAIN j : Withdrawn(j, id, k, m)
    /\ \A i, k \in EventsIn(j, id) : i < k => ~LatestIn(j, i)

FolderHistory(l, j) == \A id \in Ids : HistoryOf(l, j, id)

\* No two files of the folder are at one path.
LEMMA UniquePaths ==
  ASSUME NEW l, NEW j \in Seq(Event), FolderHistory(l, j), NEW a \in Ids, NEW b \in Ids,
         l[a] # Absent, l[b] # Absent, SamePath(l[a].path, l[b].path)
  PROVE  a = b
<1>1. PICK k \in DOMAIN j : Current(l, j, a, k)
  BY DEF FolderHistory, HistoryOf
<1>2. PICK m \in DOMAIN j : Current(l, j, b, m)
  BY DEF FolderHistory, HistoryOf
<1>3. k \in Int /\ m \in Int /\ DOMAIN j = 1 .. Len(j) /\ Len(j) \in Nat
  OBVIOUS
<1>4. j[k].id = a /\ j[m].id = b /\ SamePath(j[k].path, j[m].path)
  BY <1>1, <1>2 DEF Current, EventsIn, SamePath
<1>5. ~(k < m) /\ ~(m < k)
  BY <1>1, <1>2, <1>3, <1>4 DEF Current, LatestIn, SamePath
<1>6. QED
  BY <1>3, <1>4, <1>5

\* A change of the folder l with history j to l2 with j2 concerns one file.
Extends(j, j2) ==
    /\ j \in Seq(Event) /\ j2 \in Seq(Event) /\ Len(j) < Len(j2)
    /\ \A k \in DOMAIN j : j2[k] = j[k]

Fresh(j, j2) == (Len(j) + 1) .. Len(j2)

Arrives(l, j, l2, j2, id) ==
    /\ l2[id] \in Version
    /\ j2[Len(j2)] = FileAt(l2[id].path, id, l2[id].rev)
    /\ \A k \in Fresh(j, j2) \ {Len(j2)} :
          j2[k].id = 0 /\ j2[k].path = l[id].path /\ l[id] # Absent
    /\ l[id] # Absent => \E k \in Fresh(j, j2) : SamePath(j2[k].path, l[id].path)
    /\ l[id] = Absent => EventsIn(j, id) = {}
    /\ \A k \in EventsIn(j, id) : j[k].rev <= l2[id].rev
    /\ \A o \in Ids \ {id} : l[o] # Absent => ~SamePath(l[o].path, l2[id].path)

Leaves(l, j, l2, j2, id) ==
    /\ l[id] # Absent /\ l2[id] = Absent
    /\ \A k \in Fresh(j, j2) : k = Len(j2) /\ j2[k].id = 0 /\ j2[k].path = l[id].path

ChangeOf(l, j, l2, j2, id) ==
    /\ Extends(j, j2)
    /\ \A o \in Ids \ {id} : l2[o] = l[o]
    /\ Arrives(l, j, l2, j2, id) \/ Leaves(l, j, l2, j2, id)

\* What a change leaves of the events of the files it is not about.
LEMMA EventsKept ==
  ASSUME NEW l, NEW j, NEW l2, NEW j2, NEW id \in Ids, ChangeOf(l, j, l2, j2, id),
         NEW o \in Ids \ {id}
  PROVE  EventsIn(j2, o) = EventsIn(j, o) /\ l2[o] = l[o]
<1>1. /\ j \in Seq(Event) /\ j2 \in Seq(Event) /\ DOMAIN j = 1 .. Len(j) /\ DOMAIN j2 = 1 .. Len(j2)
      /\ Len(j) \in Nat /\ Len(j2) \in Nat /\ Len(j) < Len(j2)
      /\ \A k \in DOMAIN j : j2[k] = j[k]
  BY DEF ChangeOf, Extends
<1>2. \A k \in Fresh(j, j2) : j2[k].id \in {0, id}
  <2>1. CASE Arrives(l, j, l2, j2, id)
    <3>1. \A k \in Fresh(j, j2) : k = Len(j2) \/ k \in Fresh(j, j2) \ {Len(j2)}
      OBVIOUS
    <3>2. j2[Len(j2)].id = id
      BY <2>1 DEF Arrives, FileAt
    <3>3. QED
      BY <2>1, <3>1, <3>2 DEF Arrives
  <2>2. CASE Leaves(l, j, l2, j2, id)
    BY <2>2 DEF Leaves
  <2>3. QED
    BY <2>1, <2>2 DEF ChangeOf
<1>3. o # 0 /\ o # id
  BY FolderAssumption
<1>4. \A k \in DOMAIN j2 : k \in DOMAIN j \/ k \in Fresh(j, j2)
  BY <1>1 DEF Fresh
<1>5. \A k \in DOMAIN j : k \in DOMAIN j2
  BY <1>1
<1>6. EventsIn(j2, o) = EventsIn(j, o)
  BY <1>1, <1>2, <1>3, <1>4, <1>5 DEF EventsIn
<1>7. QED
  BY <1>6 DEF ChangeOf

\* An event that was superseded stays so.
LEMMA SupersededStays ==
  ASSUME NEW j, NEW j2, Extends(j, j2), NEW k \in DOMAIN j, ~LatestIn(j, k)
  PROVE  ~LatestIn(j2, k)
<1>1. /\ DOMAIN j = 1 .. Len(j) /\ DOMAIN j2 = 1 .. Len(j2)
      /\ Len(j) \in Nat /\ Len(j2) \in Nat /\ Len(j) < Len(j2)
      /\ \A i \in DOMAIN j : j2[i] = j[i]
  BY DEF Extends
<1>2. PICK m \in (k + 1) .. Len(j) : SamePath(j[m].path, j[k].path)
  BY DEF LatestIn
<1>3. m \in DOMAIN j /\ m \in (k + 1) .. Len(j2)
  BY <1>1
<1>4. SamePath(j2[m].path, j2[k].path)
  BY <1>1, <1>2, <1>3
<1>5. QED
  BY <1>3, <1>4 DEF LatestIn

\* An event stays the latest of its path unless a new event is at that path.
LEMMA LatestStays ==
  ASSUME NEW j, NEW j2, Extends(j, j2), NEW k \in DOMAIN j, LatestIn(j, k),
         \A m \in Fresh(j, j2) : ~SamePath(j2[m].path, j[k].path)
  PROVE  LatestIn(j2, k)
<1>1. /\ DOMAIN j = 1 .. Len(j) /\ DOMAIN j2 = 1 .. Len(j2)
      /\ Len(j) \in Nat /\ Len(j2) \in Nat /\ Len(j) < Len(j2)
      /\ \A i \in DOMAIN j : j2[i] = j[i]
  BY DEF Extends
<1>2. ASSUME NEW m \in (k + 1) .. Len(j2) PROVE ~SamePath(j2[m].path, j2[k].path)
  <2>1. CASE m \in Fresh(j, j2)
    BY <1>1, <2>1
  <2>2. CASE m \notin Fresh(j, j2)
    <3>1. m \in (k + 1) .. Len(j) /\ m \in DOMAIN j
      BY <1>1, <2>2 DEF Fresh
    <3>2. QED
      BY <1>1, <3>1 DEF LatestIn
  <2>3. QED
    BY <2>1, <2>2
<1>3. QED
  BY <1>2 DEF LatestIn

\* A change leaves the history of the files it is not about as it was.
LEMMA OthersHistory ==
  ASSUME NEW l, NEW j, NEW l2, NEW j2, NEW id \in Ids, FolderHistory(l, j),
         ChangeOf(l, j, l2, j2, id), NEW o \in Ids \ {id}
  PROVE  HistoryOf(l2, j2, o)
<1>1. EventsIn(j2, o) = EventsIn(j, o) /\ l2[o] = l[o]
  BY EventsKept
<1>2. /\ Extends(j, j2) /\ j \in Seq(Event) /\ HistoryOf(l, j, o)
      /\ DOMAIN j = 1 .. Len(j) /\ DOMAIN j2 = 1 .. Len(j2) /\ Len(j) \in Nat /\ Len(j2) \in Nat
      /\ Len(j) < Len(j2) /\ \A k \in DOMAIN j : j2[k] = j[k]
  BY DEF ChangeOf, Extends, FolderHistory
<1>3. \A k \in EventsIn(j, o) : k \in DOMAIN j
  BY DEF EventsIn
<1>4. ASSUME l[o] # Absent PROVE \E k \in DOMAIN j2 : Current(l2, j2, o, k)
  <2>1. PICK k \in DOMAIN j : Current(l, j, o, k)
    BY <1>2, <1>4 DEF HistoryOf
  <2>2. l[id] # Absent => ~SamePath(l[id].path, l[o].path)
    BY <1>2, <1>4, UniquePaths
  <2>3. \A m \in Fresh(j, j2) : ~SamePath(j2[m].path, l[o].path)
    <3>1. CASE Arrives(l, j, l2, j2, id)
      BY <1>4, <2>2, <3>1 DEF Arrives, FileAt, SamePath
    <3>2. CASE Leaves(l, j, l2, j2, id)
      BY <2>2, <3>2 DEF Leaves
    <3>3. QED
      BY <3>1, <3>2 DEF ChangeOf
  <2>4. LatestIn(j2, k)
    BY <1>2, <2>1, <2>3, LatestStays DEF Current
  <2>5. Current(l2, j2, o, k)
    BY <1>1, <1>2, <1>3, <2>1, <2>4 DEF Current
  <2>6. QED
    BY <1>2, <2>5
<1>5. ASSUME l[o] = Absent, EventsIn(j, o) # {}
      PROVE  \E k, m \in DOMAIN j2 : Withdrawn(j2, o, k, m)
  <2>1. PICK k \in DOMAIN j, m \in DOMAIN j : Withdrawn(j, o, k, m)
    BY <1>2, <1>5 DEF HistoryOf
  <2>2. k \in DOMAIN j2 /\ m \in DOMAIN j2
    BY <1>2
  <2>3. Withdrawn(j2, o, k, m)
    BY <1>1, <1>2, <2>1, <2>2 DEF Withdrawn
  <2>4. QED
    BY <2>2, <2>3
<1>6. ASSUME NEW i \in EventsIn(j, o), NEW k \in EventsIn(j, o), i < k
      PROVE  ~LatestIn(j2, i)
  BY <1>2, <1>3, <1>6, SupersededStays DEF HistoryOf
<1>7. QED
  BY <1>1, <1>4, <1>5, <1>6 DEF HistoryOf

\* A file that arrives, or changes where it is or what it holds, has a history again.
LEMMA ArrivedHistory ==
  ASSUME NEW l, NEW j, NEW l2, NEW j2, NEW id \in Ids, FolderHistory(l, j),
         Extends(j, j2), Arrives(l, j, l2, j2, id)
  PROVE  HistoryOf(l2, j2, id)
<1>1. /\ j \in Seq(Event) /\ j2 \in Seq(Event) /\ HistoryOf(l, j, id)
      /\ DOMAIN j = 1 .. Len(j) /\ DOMAIN j2 = 1 .. Len(j2) /\ Len(j) \in Nat /\ Len(j2) \in Nat
      /\ Len(j) < Len(j2) /\ \A k \in DOMAIN j : j2[k] = j[k]
  BY DEF Extends, FolderHistory
<1>2. PICK n : n = Len(j2)
  OBVIOUS
<1>3. /\ n \in DOMAIN j2 /\ n \notin DOMAIN j /\ n \in Nat
      /\ j2[n].id = id /\ j2[n].path = l2[id].path /\ j2[n].rev = l2[id].rev
      /\ l2[id] # Absent
  BY <1>1, <1>2, AbsentIsNoVersion DEF Arrives, FileAt
<1>4. id # 0
  BY FolderAssumption
<1>5. EventsIn(j2, id) = EventsIn(j, id) \cup {n}
  <2>1. \A k \in DOMAIN j2 : k = n \/ k \in DOMAIN j \/ j2[k].id = 0
    <3>1. \A k \in DOMAIN j2 : k = n \/ k \in DOMAIN j \/ k \in Fresh(j, j2) \ {Len(j2)}
      BY <1>1, <1>2 DEF Fresh
    <3>2. QED
      BY <3>1 DEF Arrives
  <2>2. \A k \in DOMAIN j : k \in DOMAIN j2
    BY <1>1
  <2>3. QED
    BY <1>1, <1>3, <1>4, <2>1, <2>2 DEF EventsIn
<1>6. \A k \in EventsIn(j, id) : k \in DOMAIN j /\ k \in Nat /\ k < n
  BY <1>1, <1>2 DEF EventsIn
<1>7. Current(l2, j2, id, n)
  <2>1. LatestIn(j2, n)
    BY <1>2, <1>3 DEF LatestIn
  <2>2. l2[id].rev <= l2[id].rev
    <3>1. l2[id].rev \in Revs
      BY DEF Arrives, Version
    <3>2. l2[id].rev \in Int
      BY <3>1, FolderAssumption
    <3>3. QED
      BY <3>2
  <2>3. \A i \in EventsIn(j, id) : j2[i].rev <= l2[id].rev
    BY <1>1, <1>6 DEF Arrives
  <2>4. \A i \in EventsIn(j2, id) : i <= n /\ j2[i].rev <= l2[id].rev
    BY <1>3, <1>5, <1>6, <2>2, <2>3
  <2>5. QED
    BY <1>3, <1>5, <2>1, <2>4 DEF Current
<1>8. ASSUME NEW i \in EventsIn(j2, id), NEW k \in EventsIn(j2, id), i < k
      PROVE  ~LatestIn(j2, i)
  <2>1. i \in EventsIn(j, id) /\ i \in DOMAIN j
    BY <1>3, <1>5, <1>6, <1>8
  <2>2. l[id] # Absent
    BY <2>1 DEF Arrives
  <2>3. PICK last \in DOMAIN j : Current(l, j, id, last)
    BY <1>1, <2>2 DEF HistoryOf
  <2>4. CASE i < last
    <3>1. ~LatestIn(j, i)
      BY <1>1, <2>1, <2>3, <2>4 DEF HistoryOf, Current
    <3>2. QED
      BY <2>1, <3>1, SupersededStays
  <2>5. CASE ~(i < last)
    <3>1. i = last
      BY <1>1, <2>1, <2>3, <2>5 DEF Current
    <3>2. PICK m \in Fresh(j, j2) : SamePath(j2[m].path, l[id].path)
      BY <2>2 DEF Arrives
    <3>3. SamePath(j2[m].path, j2[i].path)
      BY <1>1, <2>1, <2>3, <3>1, <3>2 DEF Current
    <3>4. m \in (i + 1) .. Len(j2)
      BY <1>1, <2>1 DEF Fresh
    <3>5. QED
      BY <3>3, <3>4 DEF LatestIn
  <2>6. QED
    BY <2>4, <2>5
<1>9. QED
  BY <1>1, <1>3, <1>7, <1>8 DEF HistoryOf

\* A file that leaves has a history that ends with its deletion.
LEMMA LeftHistory ==
  ASSUME NEW l, NEW j, NEW l2, NEW j2, NEW id \in Ids, FolderHistory(l, j),
         Extends(j, j2), Leaves(l, j, l2, j2, id)
  PROVE  HistoryOf(l2, j2, id)
<1>1. /\ j \in Seq(Event) /\ j2 \in Seq(Event) /\ HistoryOf(l, j, id)
      /\ DOMAIN j = 1 .. Len(j) /\ DOMAIN j2 = 1 .. Len(j2) /\ Len(j) \in Nat /\ Len(j2) \in Nat
      /\ Len(j) < Len(j2) /\ \A k \in DOMAIN j : j2[k] = j[k]
  BY DEF Extends, FolderHistory
<1>2. PICK k \in DOMAIN j : Current(l, j, id, k)
  BY <1>1 DEF Leaves, HistoryOf
<1>3. PICK n : n = Len(j2)
  OBVIOUS
<1>4. n \in Fresh(j, j2) /\ n \in DOMAIN j2 /\ k \in DOMAIN j2 /\ k < n
      /\ j2[n].id = 0 /\ j2[n].path = l[id].path
  <2>1. n \in Fresh(j, j2) /\ n \in DOMAIN j2 /\ k \in DOMAIN j2 /\ k < n
    BY <1>1, <1>3 DEF Fresh
  <2>2. QED
    BY <2>1 DEF Leaves
<1>5. EventsIn(j2, id) = EventsIn(j, id)
  <2>1. \A i \in DOMAIN j2 : i \in DOMAIN j \/ j2[i].id = 0
    <3>1. \A i \in DOMAIN j2 : i \in DOMAIN j \/ i \in Fresh(j, j2)
      BY <1>1 DEF Fresh
    <3>2. QED
      BY <3>1 DEF Leaves
  <2>2. id # 0 /\ \A i \in DOMAIN j : i \in DOMAIN j2
    BY <1>1, FolderAssumption
  <2>3. QED
    BY <1>1, <2>1, <2>2 DEF EventsIn
<1>6. Withdrawn(j2, id, k, n)
  <2>1. SamePath(j2[k].path, j2[n].path)
    BY <1>1, <1>2, <1>4 DEF Current, SamePath
  <2>2. QED
    BY <1>2, <1>4, <1>5, <2>1 DEF Withdrawn, Current
<1>7. ASSUME NEW i \in EventsIn(j, id), NEW m \in EventsIn(j, id), i < m
      PROVE  ~LatestIn(j2, i)
  BY <1>1, <1>7, SupersededStays DEF HistoryOf, EventsIn
<1>8. QED
  BY <1>4, <1>5, <1>6, <1>7 DEF HistoryOf, Leaves

\* A change of one file keeps the history of the folder.
LEMMA HistoryKept ==
  ASSUME NEW l, NEW j, NEW l2, NEW j2, NEW id \in Ids, FolderHistory(l, j),
         ChangeOf(l, j, l2, j2, id)
  PROVE  FolderHistory(l2, j2)
<1>1. HistoryOf(l2, j2, id)
  BY ArrivedHistory, LeftHistory DEF ChangeOf
<1>2. \A o \in Ids \ {id} : HistoryOf(l2, j2, o)
  BY OthersHistory
<1>3. QED
  BY <1>1, <1>2 DEF FolderHistory

\* The folder's own operations are such changes.
LEMMA FolderChanges ==
  ASSUME TypeInv, FolderHistory(live, journal), FolderChange
  PROVE  \E id \in Ids : ChangeOf(live, journal, live', journal', id)
<1>1. /\ live \in [Ids -> Version \cup {Absent}] /\ journal \in Seq(Event)
      /\ DOMAIN journal = 1 .. Len(journal) /\ Len(journal) \in Nat
  BY DEF TypeInv, TypeOK, FolderTypeOK
<1>2. PICK id \in Ids : \/ \E p \in Paths, r \in Revs : Create(id, p, r)
                        \/ \E r \in Revs : Write(id, r)
                        \/ \E p \in Paths : Rename(id, p)
                        \/ Remove(id)
  BY DEF FolderChange
<1>3. Exists(id) => live[id] \in Version
  BY <1>1 DEF Exists
<1>4. ASSUME NEW e \in Event, Record(<<e>>)
      PROVE  /\ Extends(journal, journal') /\ Len(journal') = Len(journal) + 1
             /\ journal'[Len(journal')] = e /\ Fresh(journal, journal') = {Len(journal')}
  <2>1. journal' = journal \o <<e>> /\ journal' \in Seq(Event)
    BY <1>1, <1>4 DEF Record
  <2>2. Len(journal') = Len(journal) + 1 /\ journal'[Len(journal')] = e
        /\ \A k \in DOMAIN journal : journal'[k] = journal[k]
    BY <1>1, <2>1
  <2>3. Fresh(journal, journal') = {Len(journal')}
    BY <1>1, <2>2 DEF Fresh
  <2>4. Extends(journal, journal')
    BY <1>1, <2>1, <2>2 DEF Extends
  <2>5. QED
    BY <2>2, <2>3, <2>4
<1>5. \A p \in Paths : Tombstone(p) \in Event
  BY DEF Tombstone, Event
<1>6. \A p \in Paths, r \in Revs : FileAt(p, id, r) \in Event
  BY DEF FileAt, Event
<1>7. ASSUME NEW r \in Revs, r \in FreshRevs
      PROVE  \A k \in EventsIn(journal, id) : journal[k].rev <= r
  <2>1. ASSUME NEW k \in EventsIn(journal, id) PROVE journal[k].rev <= r
    <3>1. k \in DOMAIN journal /\ journal[k] \in Event /\ journal[k].id = id /\ id # 0
      BY <1>1, FolderAssumption DEF EventsIn
    <3>2. journal[k].rev \in Revs
      BY <3>1 DEF Event
    <3>3. \A q \in Revs : q # 0 /\ q \in Int
      BY FolderAssumption
    <3>4. journal[k].rev # 0 /\ journal[k].rev \in Int /\ r \in Int
      BY <3>2, <3>3
    <3>5. journal[k].rev \in Written
      BY <3>1, <3>4 DEF Written
    <3>6. QED
      BY <1>7, <3>4, <3>5 DEF FreshRevs
  <2>2. QED
    BY <2>1
<1>8. ASSUME NEW p \in Paths, NEW r \in Revs, Create(id, p, r)
      PROVE  ChangeOf(live, journal, live', journal', id)
  <2>1. Record(<<FileAt(p, id, r)>>) /\ MayTake(id, p) /\ r \in FreshRevs
        /\ live' = [live EXCEPT ![id] = [path |-> p, rev |-> r]]
        /\ \A k \in DOMAIN journal : journal[k].id # id
    BY <1>8 DEF Create, NextRev
  <2>2. live'[id] = [path |-> p, rev |-> r] /\ live'[id] \in Version
        /\ \A o \in Ids \ {id} : live'[o] = live[o]
    BY <1>1, <2>1 DEF Version
  <2>3. EventsIn(journal, id) = {}
    BY <2>1 DEF EventsIn
  <2>4. live[id] = Absent
    <3>1. live[id] # Absent => \E k \in DOMAIN journal : Current(live, journal, id, k)
      BY DEF FolderHistory, HistoryOf
    <3>2. QED
      BY <2>3, <3>1 DEF Current
  <2>5. \A o \in Ids \ {id} : live[o] # Absent => ~SamePath(live[o].path, live'[id].path)
    BY <2>1, <2>2 DEF MayTake, Exists
  <2>6. /\ Extends(journal, journal') /\ Fresh(journal, journal') = {Len(journal')}
        /\ journal'[Len(journal')] = FileAt(p, id, r)
    BY <1>4, <1>6, <2>1
  <2>7. Arrives(live, journal, live', journal', id)
    BY <2>2, <2>3, <2>4, <2>5, <2>6 DEF Arrives
  <2>8. QED
    BY <2>2, <2>6, <2>7 DEF ChangeOf
<1>9. ASSUME NEW r \in Revs, Write(id, r)
      PROVE  ChangeOf(live, journal, live', journal', id)
  <2>1. Record(<<FileAt(live[id].path, id, r)>>) /\ r \in FreshRevs /\ live[id] # Absent
        /\ live' = [live EXCEPT ![id].rev = r] /\ live[id] \in Version
    BY <1>3, <1>9 DEF Write, NextRev, Exists
  <2>2. live'[id] \in Version /\ live'[id].path = live[id].path /\ live'[id].rev = r
        /\ \A o \in Ids \ {id} : live'[o] = live[o]
    BY <1>1, <2>1 DEF Version
  <2>3. /\ Extends(journal, journal') /\ Fresh(journal, journal') = {Len(journal')}
        /\ journal'[Len(journal')] = FileAt(live'[id].path, id, live'[id].rev)
    BY <1>4, <1>6, <2>1, <2>2 DEF Version
  <2>4. SamePath(journal'[Len(journal')].path, live[id].path)
    BY <2>2, <2>3 DEF FileAt, SamePath
  <2>5. ASSUME NEW o \in Ids \ {id}, live[o] # Absent
        PROVE  ~SamePath(live[o].path, live'[id].path)
    BY <1>1, <2>1, <2>2, <2>5, UniquePaths
  <2>6. \A k \in EventsIn(journal, id) : journal[k].rev <= live'[id].rev
    BY <1>7, <2>1, <2>2
  <2>7. Arrives(live, journal, live', journal', id)
    BY <2>1, <2>2, <2>3, <2>4, <2>5, <2>6 DEF Arrives
  <2>8. QED
    BY <2>2, <2>3, <2>7 DEF ChangeOf
<1>10. ASSUME NEW p \in Paths, Rename(id, p)
       PROVE  ChangeOf(live, journal, live', journal', id)
  <2>1. live[id] # Absent /\ live[id] \in Version /\ MayTake(id, p)
        /\ live' = [live EXCEPT ![id].path = p]
    BY <1>3, <1>10 DEF Rename, Exists
  <2>2. live'[id] \in Version /\ live'[id].path = p /\ live'[id].rev = live[id].rev
        /\ \A o \in Ids \ {id} : live'[o] = live[o]
    BY <1>1, <2>1 DEF Version
  <2>3. \A o \in Ids \ {id} : live[o] # Absent => ~SamePath(live[o].path, live'[id].path)
    BY <2>1, <2>2 DEF MayTake, Exists
  <2>4. \A k \in EventsIn(journal, id) : journal[k].rev <= live'[id].rev
    <3>1. PICK k \in DOMAIN journal : Current(live, journal, id, k)
      BY <2>1 DEF FolderHistory, HistoryOf
    <3>2. QED
      BY <2>2, <3>1 DEF Current
  <2>5. CASE SamePath(p, live[id].path)
    <3>1. Record(<<FileAt(p, id, live[id].rev)>>)
      BY <1>10, <2>5 DEF Rename, Record
    <3>2. /\ Extends(journal, journal') /\ Fresh(journal, journal') = {Len(journal')}
          /\ journal'[Len(journal')] = FileAt(live'[id].path, id, live'[id].rev)
      BY <1>4, <1>6, <2>1, <2>2, <3>1 DEF Version
    <3>3. SamePath(journal'[Len(journal')].path, live[id].path)
      BY <2>2, <2>5, <3>2 DEF FileAt
    <3>4. Arrives(live, journal, live', journal', id)
      BY <2>1, <2>2, <2>3, <2>4, <3>2, <3>3 DEF Arrives
    <3>5. QED
      BY <2>2, <3>2, <3>4 DEF ChangeOf
  <2>6. CASE ~SamePath(p, live[id].path)
    <3>1. PICK a \in Event, b \in Event : a = Tombstone(live[id].path) /\ b = FileAt(p, id, live[id].rev)
      BY <1>5, <1>6, <2>1 DEF Version
    <3>2. journal' = journal \o (<<a>> \o <<b>>)
      BY <1>10, <2>6, <3>1 DEF Rename, Record
    <3>3. /\ journal' \in Seq(Event) /\ Len(journal') = Len(journal) + 2
          /\ \A k \in DOMAIN journal : journal'[k] = journal[k]
          /\ journal'[Len(journal) + 1] = a /\ journal'[Len(journal) + 2] = b
      BY <1>1, <3>2
    <3>4. Fresh(journal, journal') = {Len(journal) + 1, Len(journal')}
      BY <1>1, <3>3 DEF Fresh
    <3>5. Extends(journal, journal')
      BY <1>1, <3>3 DEF Extends
    <3>6. a.id = 0 /\ a.path = live[id].path /\ b = FileAt(live'[id].path, id, live'[id].rev)
      BY <2>2, <3>1 DEF Tombstone
    <3>7. SamePath(journal'[Len(journal) + 1].path, live[id].path)
      BY <3>3, <3>6 DEF SamePath
    <3>8. Arrives(live, journal, live', journal', id)
      BY <2>1, <2>2, <2>3, <2>4, <3>3, <3>4, <3>6, <3>7 DEF Arrives
    <3>9. QED
      BY <2>2, <3>5, <3>8 DEF ChangeOf
  <2>7. QED
    BY <2>5, <2>6
<1>11. ASSUME Remove(id)
       PROVE  ChangeOf(live, journal, live', journal', id)
  <2>1. live[id] # Absent /\ live[id] \in Version /\ Record(<<Tombstone(live[id].path)>>)
        /\ live' = [live EXCEPT ![id] = Absent]
    BY <1>3, <1>11 DEF Remove, Exists
  <2>2. live'[id] = Absent /\ \A o \in Ids \ {id} : live'[o] = live[o]
    BY <1>1, <2>1
  <2>3. /\ Extends(journal, journal') /\ Fresh(journal, journal') = {Len(journal')}
        /\ journal'[Len(journal')] = Tombstone(live[id].path)
    BY <1>4, <1>5, <2>1 DEF Version
  <2>4. Leaves(live, journal, live', journal', id)
    BY <2>1, <2>2, <2>3 DEF Leaves, Tombstone
  <2>5. QED
    BY <2>2, <2>3, <2>4 DEF ChangeOf
<1>12. QED
  BY <1>2, <1>8, <1>9, <1>10, <1>11

-----------------------------------------------------------------------------
(* What a map says of the folder l with history j.                         *)

\* File id is there and every change of it lies at or before position c.
Settled(l, j, id, c) == l[id] # Absent /\ \A k \in EventsIn(j, id) : k <= c

\* The entry is what the folder holds: its path, and its bytes unless too large.
Good(entry, version) ==
    /\ entry # Absent => entry.path = version.path
    /\ ~TooLarge(version.rev) => entry # Absent /\ entry.rev = version.rev

\* The entry is of a revision the file had and that could be transferred.
Had(j, id, r) == ~TooLarge(r) /\ \E k \in EventsIn(j, id) : j[k].rev = r

Truthful(map, c, l, j) ==
    \A id \in Ids : /\ map[id] # Absent => Had(j, id, map[id].rev)
                    /\ Settled(l, j, id, c) => Good(map[id], l[id])

\* A file that is gone, and was so at position n of the history.
GoneAt(j, id, n) ==
    LET seen == {k \in 1 .. n : j[k].id = id}
    IN  seen # {} => \E m \in 1 .. n :
            /\ j[m].id = 0
            /\ \A k \in seen : k < m
            /\ \E k \in seen : /\ \A i \in seen : i <= k
                               /\ SamePath(j[k].path, j[m].path)

Gone(l, j, id, n) == l[id] = Absent /\ EventsIn(j, id) # {} /\ GoneAt(j, id, n)

\* What is settled after a change was settled before and is the same file.
LEMMA SettledStays ==
  ASSUME NEW l, NEW j, NEW l2, NEW j2, NEW id \in Ids, ChangeOf(l, j, l2, j2, id),
         NEW c \in Int, c <= Len(j), NEW o \in Ids, Settled(l2, j2, o, c)
  PROVE  Settled(l, j, o, c) /\ l2[o] = l[o]
<1>1. CASE o # id
  BY <1>1, EventsKept DEF Settled
<1>2. CASE o = id
  <2>1. Arrives(l, j, l2, j2, id)
    BY <1>2 DEF ChangeOf, Leaves, Settled
  <2>2. /\ Len(j) \in Nat /\ Len(j2) \in Nat /\ Len(j) < Len(j2) /\ DOMAIN j2 = 1 .. Len(j2)
    BY DEF ChangeOf, Extends
  <2>3. Len(j2) \in EventsIn(j2, id)
    BY <2>1, <2>2 DEF Arrives, FileAt, EventsIn
  <2>4. Len(j2) <= c
    BY <1>2, <2>3 DEF Settled
  <2>5. FALSE
    BY <2>2, <2>4
  <2>6. QED
    BY <2>5
<1>3. QED
  BY <1>1, <1>2

\* A revision the file had stays one it had.
LEMMA HadStays ==
  ASSUME NEW j, NEW j2, Extends(j, j2), NEW id, NEW r, Had(j, id, r)
  PROVE  Had(j2, id, r)
<1>1. PICK k \in EventsIn(j, id) : j[k].rev = r
  BY DEF Had
<1>2. k \in EventsIn(j2, id) /\ j2[k].rev = r
  BY <1>1 DEF EventsIn, Extends
<1>3. QED
  BY <1>2 DEF Had

\* A map that is truthful stays so when the folder changes.
LEMMA TruthStays ==
  ASSUME NEW l, NEW j, NEW l2, NEW j2, NEW id \in Ids, ChangeOf(l, j, l2, j2, id),
         NEW c \in Int, c <= Len(j), NEW map, Truthful(map, c, l, j)
  PROVE  Truthful(map, c, l2, j2)
<1>1. ASSUME NEW o \in Ids, map[o] # Absent PROVE Had(j2, o, map[o].rev)
  BY <1>1, HadStays DEF ChangeOf, Truthful
<1>2. ASSUME NEW o \in Ids, Settled(l2, j2, o, c) PROVE Good(map[o], l2[o])
  BY <1>2, SettledStays DEF Truthful
<1>3. QED
  BY <1>1, <1>2 DEF Truthful

\* A file that is gone does not come back, and the position it was gone at stays so.
LEMMA GoneStays ==
  ASSUME NEW l, NEW j, NEW l2, NEW j2, NEW id \in Ids, ChangeOf(l, j, l2, j2, id),
         NEW n \in Nat, n <= Len(j), NEW o \in Ids, Gone(l, j, o, n)
  PROVE  Gone(l2, j2, o, n)
<1>1. /\ DOMAIN j = 1 .. Len(j) /\ DOMAIN j2 = 1 .. Len(j2) /\ Len(j) \in Nat /\ Len(j2) \in Nat
      /\ Len(j) < Len(j2) /\ \A k \in DOMAIN j : j2[k] = j[k]
  BY DEF ChangeOf, Extends
<1>2. o # id
  BY DEF ChangeOf, Arrives, Leaves, Gone
<1>3. l2[o] = l[o] /\ EventsIn(j2, o) = EventsIn(j, o)
  BY <1>2, EventsKept
<1>4. \A k \in 1 .. n : j2[k] = j[k]
  BY <1>1
<1>5. GoneAt(j2, o, n)
  BY <1>4 DEF Gone, GoneAt
<1>6. QED
  BY <1>3, <1>5 DEF Gone

\* What the folder does not hold at the end of its history is gone there.
LEMMA AbsentIsGone ==
  ASSUME NEW l, NEW j \in Seq(Event), NEW id \in Ids, HistoryOf(l, j, id), l[id] = Absent,
         EventsIn(j, id) # {}
  PROVE  Gone(l, j, id, Len(j))
<1>1. DOMAIN j = 1 .. Len(j) /\ Len(j) \in Nat
  OBVIOUS
<1>2. PICK k \in DOMAIN j, m \in DOMAIN j : Withdrawn(j, id, k, m)
  BY DEF HistoryOf
<1>3. {i \in 1 .. Len(j) : j[i].id = id} = EventsIn(j, id)
  BY <1>1 DEF EventsIn
<1>4. \A i \in EventsIn(j, id) : i < m
  BY <1>1, <1>2 DEF Withdrawn, EventsIn
<1>5. GoneAt(j, id, Len(j))
  BY <1>1, <1>2, <1>3, <1>4 DEF GoneAt, Withdrawn
<1>6. QED
  BY <1>5 DEF Gone

-----------------------------------------------------------------------------
(* What an attempt has planned, from the map m, with the operations o and  *)
(* the transfers t still to do.                                            *)

\* The file is at its path in the map, or a move is planned; the map has its bytes, or
\* a transfer is planned.
PathPlanned(m, o, l, id) ==
    \/ m[id] # Absent => m[id].path = l[id].path
    \/ \E i \in DOMAIN o : o[i].kind = "move" /\ o[i].id = id

BytesPlanned(m, t, l, id) ==
    \/ TooLarge(l[id].rev)
    \/ m[id] # Absent /\ m[id].rev = l[id].rev
    \/ \E i \in DOMAIN t : t[i].id = id

Planned(m, o, t, l, id) == PathPlanned(m, o, l, id) /\ BytesPlanned(m, t, l, id)

\* Nothing is planned for a file that has not changed since position c; and while a file
\* is as it was at position n, what is planned for it leads to where and what it is.
MovesSound(o, c, n, l, j) ==
    \A i \in DOMAIN o : o[i].kind = "move" =>
        /\ ~Settled(l, j, o[i].id, c)
        /\ Settled(l, j, o[i].id, n) => o[i].new = l[o[i].id].path

TransfersSound(t, c, n, l, j) ==
    \A i \in DOMAIN t :
        /\ Had(j, t[i].id, t[i].rev)
        /\ ~Settled(l, j, t[i].id, c)
        /\ Settled(l, j, t[i].id, n) => t[i].path = l[t[i].id].path /\ t[i].rev = l[t[i].id].rev

DeletesSound(s, n, l, j) ==
    \A i \in DOMAIN s : s[i].kind = "delete" => Gone(l, j, s[i].id, n)

StatesTruthful(s, l, j) ==
    \A i \in DOMAIN s : s[i].kind = "state" => Truthful(s[i].state.files, s[i].state.cursor, l, j)

-----------------------------------------------------------------------------
(* The invariant.                                                          *)

Listing == {"delta", "tombstones", "snapshot", "relist", "inventory", "removals"}
Underway == Listing \cup {"emit", "transfer"}

\* The folder stands still from the page that was listed to the first download.
Phases ==
    /\ pc \in Listing \cup {"idle"} => ~sawError /\ channel = <<>>
    /\ pc \in {"idle", "snapshot", "relist"} => ops = <<>> /\ transfers = <<>>
    /\ pc = "idle" => deleted = {} /\ consumed = {}
    /\ pc \in Listing => files = durable.files
    /\ pc \in Underway => cursor = durable.cursor
    /\ pc = "delta" => pos >= cursor
    /\ pc = "delta" /\ more =>
          /\ ops = <<>> /\ transfers = <<>> /\ deleted = {} /\ consumed = {}
          /\ pos = cursor /\ pageEnd = cursor
    /\ pc = "relist" => ~more
    /\ pc \in Underway \ {"delta", "snapshot"} => pos = pageEnd
    /\ pc \in Underway \ {"snapshot", "transfer"} /\ ~(pc = "delta" /\ more) => pageEnd = Len(journal)
    /\ pc \in {"transfer", "done"} => ops = <<>>
    /\ pc \in {"relist", "inventory", "removals"} => inventory = live

Maps ==
    /\ Truthful(durable.files, durable.cursor, live, journal)
    /\ pc \in Underway => Truthful(files, cursor, live, journal)
    /\ StatesTruthful(channel, live, journal)

Sound ==
    /\ pc \in Underway => MovesSound(ops, cursor, pageEnd, live, journal)
    /\ pc \in Underway => TransfersSound(transfers, cursor, pageEnd, live, journal)
    /\ DeletesSound(ops, pageEnd, live, journal)
    /\ DeletesSound(channel, pageEnd, live, journal)

\* What is listed is planned, until a file is skipped.
ListedIsPlanned ==
    /\ \/ pc \in {"delta", "tombstones", "removals", "emit"}
       \/ pc = "transfer" /\ ~sawError
       => \A id \in Ids : Settled(live, journal, id, pos) => Planned(files, ops, transfers, live, id)
    /\ pc = "inventory" =>
          \A id \in Ids \ todo : Exists(id) => Planned(files, ops, transfers, live, id)
    /\ pc = "removals" => \A id \in todo : ~Exists(id)

\* The tombstones a renamed file left behind are told from those of deleted files.
TombstonesTold ==
    pc \in {"delta", "tombstones"} =>
        /\ \A id \in Ids : Settled(live, journal, id, pos) /\ Tracked(id) /\ files[id].path # live[id].path =>
              Fold[files[id].path] \in consumed
        /\ \A p \in deleted : \E m \in DOMAIN journal :
              journal[m].id = 0 /\ journal[m].path = p /\ LatestIn(journal, m)

HistoryInv ==
    /\ FolderHistory(live, journal)
    /\ Phases
    /\ Maps
    /\ Sound
    /\ ListedIsPlanned
    /\ TombstonesTold

\* The parts of the types that the proofs use.
LEMMA AttemptTypes ==
  ASSUME TypeInv
  PROVE  /\ files \in FileMap /\ durable.files \in FileMap
         /\ cursor \in Int /\ durable.cursor \in Int /\ pos \in Nat /\ pageEnd \in Nat
         /\ cursor <= Len(journal) /\ durable.cursor <= Len(journal)
         /\ pos <= pageEnd /\ pageEnd <= Len(journal) /\ Len(journal) \in Nat
         /\ journal \in Seq(Event) /\ live \in [Ids -> Version \cup {Absent}]
         /\ ops \in Seq(MoveOps \cup DeleteOps) /\ transfers \in Seq(Transfers)
         /\ channel \in Seq(Records \cup StateMsgs)
         /\ pc \in PCs
<1>1. /\ files \in FileMap /\ pos \in Nat /\ pageEnd \in Nat /\ cursor \in Int
      /\ cursor <= Len(journal) /\ durable.cursor <= Len(journal)
      /\ pos <= pageEnd /\ pageEnd <= Len(journal)
      /\ journal \in Seq(Event) /\ live \in [Ids -> Version \cup {Absent}]
      /\ ops \in Seq(MoveOps \cup DeleteOps) /\ transfers \in Seq(Transfers)
      /\ channel \in Seq(Records \cup StateMsgs) /\ pc \in PCs
      /\ durable \in State
  BY DEF TypeInv, TypeOK, FolderTypeOK, SourceTypeOK, CursorTypeOK, InHistory, InListing, NoCursor
<1>2. durable.files \in FileMap /\ durable.cursor \in Int
  BY <1>1 DEF State, NoCursor
<1>3. Len(journal) \in Nat
  BY <1>1
<1>4. QED
  BY <1>1, <1>2, <1>3

-----------------------------------------------------------------------------
(* A change of the folder.                                                 *)

\* A planned file that has not changed since is planned still.
LEMMA PlannedStays ==
  ASSUME NEW m, NEW o, NEW t, NEW l, NEW l2, NEW id, l2[id] = l[id], Planned(m, o, t, l, id)
  PROVE  Planned(m, o, t, l2, id)
BY DEF Planned, PathPlanned, BytesPlanned

\* A sound deletion stays sound when the folder changes.
LEMMA DeletesStay ==
  ASSUME NEW l, NEW j, NEW l2, NEW j2, NEW id \in Ids, ChangeOf(l, j, l2, j2, id),
         NEW n \in Nat, n <= Len(j), NEW s, \A i \in DOMAIN s : s[i].kind = "delete" => s[i].id \in Ids,
         DeletesSound(s, n, l, j)
  PROVE  DeletesSound(s, n, l2, j2)
BY GoneStays DEF DeletesSound

\* Truthful states stay truthful when the folder changes.
LEMMA StatesStay ==
  ASSUME NEW l, NEW j, NEW l2, NEW j2, NEW id \in Ids, ChangeOf(l, j, l2, j2, id),
         NEW s, \A i \in DOMAIN s : s[i].kind = "state" =>
                    s[i].state.cursor \in Int /\ s[i].state.cursor <= Len(j),
         StatesTruthful(s, l, j)
  PROVE  StatesTruthful(s, l2, j2)
BY TruthStays DEF StatesTruthful

\* Sound transfers stay sound when the folder changes.
LEMMA TransfersStay ==
  ASSUME NEW l, NEW j, NEW l2, NEW j2, NEW id \in Ids, ChangeOf(l, j, l2, j2, id),
         NEW c \in Int, c <= Len(j), NEW n \in Nat, n <= Len(j), NEW t \in Seq(Transfers),
         TransfersSound(t, c, n, l, j)
  PROVE  TransfersSound(t, c, n, l2, j2)
<1>1. ASSUME NEW i \in DOMAIN t
      PROVE  /\ Had(j2, t[i].id, t[i].rev)
             /\ ~Settled(l2, j2, t[i].id, c)
             /\ Settled(l2, j2, t[i].id, n) => t[i].path = l2[t[i].id].path /\ t[i].rev = l2[t[i].id].rev
  <2>1. t[i].id \in Ids
    <3>1. t[i] \in Transfers
      BY <1>1
    <3>2. QED
      BY <3>1 DEF Transfers
  <2>2. Had(j2, t[i].id, t[i].rev)
    BY <1>1, HadStays DEF TransfersSound, ChangeOf
  <2>3. ~Settled(l2, j2, t[i].id, c)
    BY <1>1, <2>1, SettledStays DEF TransfersSound
  <2>4. Settled(l2, j2, t[i].id, n) => Settled(l, j, t[i].id, n) /\ l2[t[i].id] = l[t[i].id]
    BY <2>1, SettledStays
  <2>5. QED
    BY <1>1, <2>2, <2>3, <2>4 DEF TransfersSound
<1>2. QED
  BY <1>1 DEF TransfersSound

\* What the channel holds, as the history sees it.
LEMMA SentTypes ==
  ASSUME TypeInv
  PROVE  /\ \A i \in DOMAIN channel : channel[i].kind = "delete" => channel[i].id \in Ids
         /\ \A i \in DOMAIN channel : channel[i].kind = "state" =>
               channel[i].state.cursor \in Int /\ channel[i].state.cursor <= Len(journal)
         /\ \A i \in DOMAIN ops : ops[i].id \in Ids
<1>1. channel \in Seq(Records \cup StateMsgs) /\ ops \in Seq(MoveOps \cup DeleteOps)
  BY AttemptTypes
<1>2. ASSUME NEW i \in DOMAIN channel, channel[i].kind = "delete" PROVE channel[i].id \in Ids
  BY <1>1, <1>2 DEF Records, StateMsgs, MoveOps, DeleteOps, FileMsgs
<1>3. ASSUME NEW i \in DOMAIN channel, channel[i].kind = "state"
      PROVE  channel[i].state.cursor \in Int /\ channel[i].state.cursor <= Len(journal)
  <2>1. channel[i] \in StateMsgs
    BY <1>1, <1>3, RecordKinds
  <2>2. channel[i].state.cursor \in Int
    BY <2>1 DEF StateMsgs, State, NoCursor
  <2>3. QED
    BY <1>3, <2>2 DEF TypeInv, InHistory, CursorsSent
<1>4. \A i \in DOMAIN ops : ops[i].id \in Ids
  BY <1>1 DEF MoveOps, DeleteOps
<1>5. QED
  BY <1>2, <1>3, <1>4

\* A change of the folder keeps the invariant: it happens only while nothing is listed.
LEMMA ChangeHistoryInv ==
  ASSUME Mirroring, TypeInv, HistoryInv, Change
  PROVE  HistoryInv'
<1>1. PICK id \in Ids : ChangeOf(live, journal, live', journal', id)
  BY FolderChanges DEF HistoryInv, Change
<1>2. /\ UNCHANGED <<files, cursor, pc, pos, pageEnd, more, inventory, todo, deleted, consumed, ops,
                     transfers, sawError, channel, durable>>
      /\ pc \in {"idle", "transfer"}
  BY DEF Change, AwaitsDropbox, Mirroring, sourceVars, cursorVars, listVars, planVars
<1>3. FolderHistory(live', journal')
  BY <1>1, HistoryKept DEF HistoryInv
<1>4. Phases'
  BY <1>2, Zenon DEF HistoryInv, Phases, Underway, Listing
<1>5. Maps'
  <2>1. Truthful(durable.files, durable.cursor, live', journal')
    BY <1>1, AttemptTypes, TruthStays DEF HistoryInv, Maps
  <2>2. pc \in Underway => Truthful(files, cursor, live', journal')
    BY <1>1, AttemptTypes, TruthStays DEF HistoryInv, Maps
  <2>3. StatesTruthful(channel, live', journal')
    BY <1>1, SentTypes, StatesStay DEF HistoryInv, Maps
  <2>4. QED
    BY <1>2, <2>1, <2>2, <2>3 DEF Maps
<1>6. Sound'
  <2>1. ops = <<>>
    BY <1>2 DEF HistoryInv, Phases
  <2>2. pc \in Underway => TransfersSound(transfers, cursor, pageEnd, live', journal')
    BY <1>1, AttemptTypes, TransfersStay DEF HistoryInv, Sound
  <2>3. DeletesSound(channel, pageEnd, live', journal')
    BY <1>1, AttemptTypes, SentTypes, DeletesStay DEF HistoryInv, Sound
  <2>4. MovesSound(ops, cursor, pageEnd, live', journal') /\ DeletesSound(ops, pageEnd, live', journal')
    BY <2>1 DEF MovesSound, DeletesSound
  <2>5. QED
    BY <1>2, <2>2, <2>3, <2>4 DEF Sound
<1>7. ListedIsPlanned'
  <2>1. ASSUME pc = "transfer", ~sawError, NEW o \in Ids, Settled(live', journal', o, pos)
        PROVE  Planned(files, ops, transfers, live', o)
    <3>1. Settled(live, journal, o, pos) /\ live'[o] = live[o]
      BY <1>1, <2>1, AttemptTypes, SettledStays
    <3>2. QED
      BY <2>1, <3>1, PlannedStays DEF HistoryInv, ListedIsPlanned
  <2>2. QED
    BY <1>2, <2>1 DEF ListedIsPlanned
<1>8. TombstonesTold'
  BY <1>2 DEF TombstonesTold
<1>9. QED
  BY <1>3, <1>4, <1>5, <1>6, <1>7, <1>8 DEF HistoryInv

-----------------------------------------------------------------------------
(* Planning.                                                               *)

\* What the planning of file id, listed as e, adds to the operations and the transfers.
OpsGrow(o, id, e) ==
    /\ \A i \in DOMAIN ops : i \in DOMAIN o /\ o[i] = ops[i]
    /\ \A i \in DOMAIN o : \/ i \in DOMAIN ops
                           \/ /\ o[i].kind = "move" /\ o[i].id = id /\ o[i].new = e.path
                              /\ files[id] # Absent /\ files[id].path # e.path
    /\ files[id] # Absent /\ files[id].path # e.path =>
          \E i \in DOMAIN o : o[i].kind = "move" /\ o[i].id = id

TransfersGrow(t, id, e) ==
    /\ \A i \in DOMAIN transfers : i \in DOMAIN t /\ t[i] = transfers[i]
    /\ \A i \in DOMAIN t : \/ i \in DOMAIN transfers
                           \/ /\ t[i].id = id /\ t[i].path = e.path /\ t[i].rev = e.rev
                              /\ files[id] # Absent => files[id].rev # e.rev
    /\ files[id] = Absent \/ files[id].rev # e.rev => \E i \in DOMAIN t : t[i].id = id

\* What is planned for one listed file.
LEMMA FilePlans ==
  ASSUME Mirroring, TypeInv, NEW id \in Ids, NEW e, e.path \in Paths, e.rev \in Revs
  PROVE  /\ OpsGrow(ops \o PlannedOps(id, e), id, e)
         /\ TransfersGrow(transfers \o PlannedTransfers(id, e), id, e)
<1>0. PICK o, t : o = ops \o PlannedOps(id, e) /\ t = transfers \o PlannedTransfers(id, e)
  OBVIOUS
<1>1. ops \in Seq(MoveOps \cup DeleteOps) /\ transfers \in Seq(Transfers) /\ files \in FileMap
  BY AttemptTypes
<1>2. RenamePolicy = "propagate"
  BY DEF Mirroring
<1>3. OpsGrow(o, id, e)
  <2>1. CASE files[id] # Absent /\ files[id].path # e.path
    <3>1. PICK op : op = MoveOp(id, files[id], e)
      OBVIOUS
    <3>2. op.kind = "move" /\ op.id = id /\ op.new = e.path
      BY <3>1 DEF MoveOp
    <3>3. o = ops \o <<op>>
      BY <1>0, <1>2, <2>1, <3>1 DEF PlannedOps, Tracked
    <3>4. /\ Len(o) = Len(ops) + 1 /\ o[Len(ops) + 1] = op
          /\ DOMAIN o = 1 .. (Len(ops) + 1) /\ DOMAIN ops = 1 .. Len(ops) /\ Len(ops) \in Nat
          /\ \A i \in DOMAIN ops : o[i] = ops[i]
      BY <1>1, <3>3
    <3>5. \A i \in DOMAIN o : i \in DOMAIN ops \/ i = Len(ops) + 1
      BY <3>4
    <3>6. Len(ops) + 1 \in DOMAIN o /\ \A i \in DOMAIN ops : i \in DOMAIN o
      BY <3>4
    <3>7. QED
      BY <2>1, <3>2, <3>4, <3>5, <3>6 DEF OpsGrow
  <2>2. CASE ~(files[id] # Absent /\ files[id].path # e.path)
    <3>1. o = ops \o <<>>
      BY <1>0, <2>2 DEF PlannedOps, Tracked
    <3>2. o = ops
      BY <1>1, <3>1
    <3>3. QED
      BY <2>2, <3>2 DEF OpsGrow
  <2>3. QED
    BY <2>1, <2>2
<1>4. TransfersGrow(t, id, e)
  <2>1. CASE files[id] = Absent \/ files[id].rev # e.rev
    <3>1. PICK x : x = Transfer(id, e.path, e.rev)
      OBVIOUS
    <3>2. x.id = id /\ x.path = e.path /\ x.rev = e.rev
      BY <3>1 DEF Transfer
    <3>3. t = transfers \o <<x>>
      BY <1>0, <1>2, <2>1, <3>1 DEF PlannedTransfers, Tracked, BytesChanged
    <3>4. /\ Len(t) = Len(transfers) + 1 /\ t[Len(transfers) + 1] = x
          /\ DOMAIN t = 1 .. (Len(transfers) + 1) /\ DOMAIN transfers = 1 .. Len(transfers)
          /\ Len(transfers) \in Nat
          /\ \A i \in DOMAIN transfers : t[i] = transfers[i]
      BY <1>1, <3>3
    <3>5. \A i \in DOMAIN t : i \in DOMAIN transfers \/ i = Len(transfers) + 1
      BY <3>4
    <3>6. Len(transfers) + 1 \in DOMAIN t /\ \A i \in DOMAIN transfers : i \in DOMAIN t
      BY <3>4
    <3>7. QED
      BY <2>1, <3>2, <3>4, <3>5, <3>6 DEF TransfersGrow
  <2>2. CASE ~(files[id] = Absent \/ files[id].rev # e.rev)
    <3>1. t = transfers \o <<>>
      BY <1>0, <2>2 DEF PlannedTransfers, Tracked, BytesChanged
    <3>2. t = transfers
      BY <1>1, <3>1
    <3>3. QED
      BY <2>2, <3>2 DEF TransfersGrow
  <2>3. QED
    BY <2>1, <2>2
<1>5. QED
  BY <1>0, <1>3, <1>4

\* Planning file id as the folder holds it plans it, and what was planned stays so.
LEMMA PlannedNow ==
  ASSUME NEW id, NEW e, NEW o, OpsGrow(o, id, e), NEW t, TransfersGrow(t, id, e)
  PROVE  /\ live[id].path = e.path /\ live[id].rev = e.rev => Planned(files, o, t, live, id)
         /\ \A other : Planned(files, ops, transfers, live, other) => Planned(files, o, t, live, other)
BY DEF OpsGrow, TransfersGrow, Planned, PathPlanned, BytesPlanned

\* Planning a file that has changed since the cursor is sound when the folder holds no
\* other version of it.
LEMMA SoundNow ==
  ASSUME NEW id, NEW e, NEW o, OpsGrow(o, id, e), NEW t, TransfersGrow(t, id, e),
         MovesSound(ops, cursor, pageEnd, live, journal),
         TransfersSound(transfers, cursor, pageEnd, live, journal),
         DeletesSound(ops, pageEnd, live, journal),
         Settled(live, journal, id, cursor) =>
            /\ files[id] # Absent /\ files[id].rev = e.rev
            /\ files[id].path = e.path,
         Exists(id) => live[id].path = e.path /\ live[id].rev = e.rev,
         Had(journal, id, e.rev)
  PROVE  /\ MovesSound(o, cursor, pageEnd, live, journal)
         /\ TransfersSound(t, cursor, pageEnd, live, journal)
         /\ DeletesSound(o, pageEnd, live, journal)
<1>1. MovesSound(o, cursor, pageEnd, live, journal)
  <2>1. ASSUME NEW i \in DOMAIN o, o[i].kind = "move"
        PROVE  /\ ~Settled(live, journal, o[i].id, cursor)
               /\ Settled(live, journal, o[i].id, pageEnd) => o[i].new = live[o[i].id].path
    <3>1. CASE i \in DOMAIN ops
      BY <2>1, <3>1 DEF MovesSound, OpsGrow
    <3>2. CASE i \notin DOMAIN ops
      <4>1. /\ o[i].id = id /\ o[i].new = e.path /\ files[id] # Absent /\ files[id].path # e.path
        BY <2>1, <3>2 DEF OpsGrow
      <4>2. QED
        BY <4>1 DEF Settled, Exists
    <3>3. QED
      BY <3>1, <3>2
  <2>2. QED
    BY <2>1 DEF MovesSound
<1>2. TransfersSound(t, cursor, pageEnd, live, journal)
  <2>1. ASSUME NEW i \in DOMAIN t
        PROVE  /\ Had(journal, t[i].id, t[i].rev)
               /\ ~Settled(live, journal, t[i].id, cursor)
               /\ Settled(live, journal, t[i].id, pageEnd) =>
                     t[i].path = live[t[i].id].path /\ t[i].rev = live[t[i].id].rev
    <3>1. CASE i \in DOMAIN transfers
      BY <2>1, <3>1 DEF TransfersSound, TransfersGrow
    <3>2. CASE i \notin DOMAIN transfers
      <4>1. /\ t[i].id = id /\ t[i].path = e.path /\ t[i].rev = e.rev
            /\ files[id] # Absent => files[id].rev # e.rev
        BY <2>1, <3>2 DEF TransfersGrow
      <4>2. QED
        BY <4>1 DEF Settled, Exists
    <3>3. QED
      BY <3>1, <3>2
  <2>2. QED
    BY <2>1 DEF TransfersSound
<1>3. DeletesSound(o, pageEnd, live, journal)
  <2>1. ASSUME NEW i \in DOMAIN o, o[i].kind = "delete" PROVE Gone(live, journal, o[i].id, pageEnd)
    <3>1. i \in DOMAIN ops /\ o[i] = ops[i]
      BY <2>1 DEF OpsGrow
    <3>2. QED
      BY <2>1, <3>1 DEF DeletesSound
  <2>2. QED
    BY <2>1 DEF DeletesSound
<1>4. QED
  BY <1>1, <1>2, <1>3

\* A deletion planned of a file the folder does not hold is sound.
LEMMA DeletePlanned ==
  ASSUME TypeInv, NEW id \in Ids, NEW o, o = Append(ops, DeleteOp(id, files[id])),
         Gone(live, journal, id, pageEnd),
         DeletesSound(ops, pageEnd, live, journal), MovesSound(ops, cursor, pageEnd, live, journal)
  PROVE  /\ DeletesSound(o, pageEnd, live, journal)
         /\ MovesSound(o, cursor, pageEnd, live, journal)
         /\ \A t, other : Planned(files, ops, t, live, other) => Planned(files, o, t, live, other)
<1>1. PICK op : op = DeleteOp(id, files[id])
  OBVIOUS
<1>2. op.kind = "delete" /\ op.id = id
  BY <1>1 DEF DeleteOp
<1>3. /\ \A i \in DOMAIN ops : i \in DOMAIN o /\ o[i] = ops[i]
      /\ \A i \in DOMAIN o : i \in DOMAIN ops \/ o[i] = op
  <2>1. ops \in Seq(MoveOps \cup DeleteOps) /\ o = Append(ops, op)
    BY <1>1, AttemptTypes
  <2>2. QED
    BY <2>1
<1>4. DeletesSound(o, pageEnd, live, journal)
  BY <1>2, <1>3 DEF DeletesSound
<1>5. MovesSound(o, cursor, pageEnd, live, journal)
  BY <1>2, <1>3 DEF MovesSound
<1>6. \A t, other : Planned(files, ops, t, live, other) => Planned(files, o, t, live, other)
  BY <1>3 DEF Planned, PathPlanned
<1>7. QED
  BY <1>4, <1>5, <1>6

\* A map that is truthful has no entry of a file that is too large.
LEMMA TooLargeIsUntracked ==
  ASSUME Mirroring, TypeInv, FolderHistory(live, journal), NEW id \in Ids, Exists(id),
         TooLarge(live[id].rev), NEW c, Truthful(files, c, live, journal)
  PROVE  files[id] = Absent
<1> SUFFICES ASSUME files[id] # Absent PROVE FALSE
  OBVIOUS
<1>1. Had(journal, id, files[id].rev)
  BY DEF Truthful
<1>2. PICK k \in DOMAIN journal : Current(live, journal, id, k)
  BY DEF FolderHistory, HistoryOf, Exists
<1>3. files[id].rev <= live[id].rev
  BY <1>1, <1>2 DEF Had, Current
<1>4. files[id] \in Version /\ live[id] \in Version
  BY AttemptTypes DEF Exists, FileMap
<1>5. files[id].rev \in Revs /\ live[id].rev \in Revs
  BY <1>4 DEF Version
<1>6. \A q \in Revs : q \in Int
  BY FolderAssumption
<1>7. files[id].rev < live[id].rev \/ files[id].rev = live[id].rev
  BY <1>3, <1>5, <1>6
<1>8. TooLarge(files[id].rev)
  BY <1>5, <1>7 DEF Mirroring
<1>9. QED
  BY <1>1, <1>8 DEF Had

\* The end of the history is where every change of it lies.
LEMMA AllSettled ==
  ASSUME TypeInv, NEW id \in Ids, Exists(id)
  PROVE  Settled(live, journal, id, Len(journal))
<1>1. \A k \in EventsIn(journal, id) : k <= Len(journal)
  BY AttemptTypes DEF EventsIn
<1>2. QED
  BY <1>1 DEF Settled, Exists

-----------------------------------------------------------------------------
(* The steps of an attempt.                                                *)

\* What a map that is truthful says needs nothing to be planned.
LEMMA GoodIsPlanned ==
  ASSUME NEW m, NEW c, NEW l, NEW j, Truthful(m, c, l, j), NEW id \in Ids, Settled(l, j, id, c),
         NEW o, NEW t
  PROVE  /\ Planned(m, o, t, l, id)
         /\ m[id] # Absent => m[id].path = l[id].path
BY DEF Truthful, Good, Planned, PathPlanned, BytesPlanned

\* A step that leaves the folder, the durable state, the map and the channel alone.
LEMMA QuietMaps ==
  ASSUME HistoryInv, UNCHANGED <<live, journal, durable, files, cursor, channel>>,
         pc \in Underway
  PROVE  FolderHistory(live', journal') /\ Maps'
BY DEF HistoryInv, Maps

\* Nothing is wrong with an attempt that has planned nothing.
LEMMA NothingPlanned ==
  ASSUME NEW c, NEW n, NEW l, NEW j
  PROVE  MovesSound(<<>>, c, n, l, j) /\ TransfersSound(<<>>, c, n, l, j) /\ DeletesSound(<<>>, n, l, j)
BY DEF MovesSound, TransfersSound, DeletesSound

\* An attempt starts from the durable state.
LEMMA StartHistory ==
  ASSUME Mirroring, TypeInv, HistoryInv, Start
  PROVE  HistoryInv'
<1>1. /\ pc = "idle" /\ files' = durable.files /\ cursor' = durable.cursor
      /\ UNCHANGED <<live, journal, durable, inventory, todo, deleted, consumed, ops, transfers,
                     sawError, channel>>
      /\ more' = TRUE
      /\ \/ pc' = "delta" /\ pos' = durable.cursor /\ pageEnd' = durable.cursor
         \/ pc' = "snapshot"
  BY DEF Start, StartAttempt, SetInitialState, folderVars, planVars
<1>2. channel = <<>> /\ ops = <<>> /\ transfers = <<>> /\ deleted = {} /\ consumed = {}
  BY <1>1 DEF HistoryInv, Phases
<1>3. ~sawError
  BY <1>1, Zenon DEF HistoryInv, Phases
<1>4. Truthful(durable.files, durable.cursor, live, journal)
  BY DEF HistoryInv, Maps
<1>5. FolderHistory(live', journal')
  BY <1>1 DEF HistoryInv
<1>6. Maps'
  BY <1>1, <1>2, <1>4 DEF Maps, StatesTruthful
<1>7. Phases'
  <2>1. durable.cursor \in Int
    BY AttemptTypes
  <2>2. (pc \in Listing \cup {"idle"} => ~sawError /\ channel = <<>>)'
    BY <1>1, <1>2, <1>3, Zenon
  <2>3. CASE pc' = "delta" /\ pos' = durable.cursor /\ pageEnd' = durable.cursor
    BY <1>1, <1>2, <2>1, <2>2, <2>3 DEF Phases, Underway, Listing
  <2>4. CASE pc' = "snapshot"
    BY <1>1, <1>2, <2>1, <2>2, <2>4 DEF Phases, Underway, Listing
  <2>5. QED
    BY <1>1, <2>3, <2>4
<1>8. Sound'
  BY <1>1, <1>2, NothingPlanned DEF Sound
<1>9. ListedIsPlanned'
  <2>1. ASSUME pc' = "delta", NEW id \in Ids, Settled(live, journal, id, durable.cursor)
        PROVE  Planned(durable.files, ops, transfers, live, id)
    BY <1>4, <2>1, GoodIsPlanned
  <2>2. QED
    BY <1>1, <2>1 DEF ListedIsPlanned
<1>10. TombstonesTold'
  <2>1. ASSUME NEW id \in Ids, Settled(live, journal, id, durable.cursor), durable.files[id] # Absent
        PROVE  durable.files[id].path = live[id].path
    BY <1>4, <2>1, GoodIsPlanned
  <2>2. QED
    BY <1>1, <1>2, <2>1 DEF TombstonesTold, Tracked
<1>11. QED
  BY <1>5, <1>6, <1>7, <1>8, <1>9, <1>10 DEF HistoryInv

\* A page of the change feed is listed to the end of the history.
LEMMA PageHistory ==
  ASSUME Mirroring, TypeInv, HistoryInv, UNCHANGED <<live, journal, durable>>,
         NEW last, DeltaPage(last)
  PROVE  HistoryInv'
<1>1. /\ pc = "delta" /\ pc' = "delta" /\ pos = pageEnd /\ more
      /\ UNCHANGED <<files, cursor, channel, pos, inventory, todo, deleted, consumed, ops, transfers,
                     sawError>>
      /\ pageEnd' = last /\ last = Len(journal) /\ more' = (last < Len(journal))
  BY AttemptTypes DEF DeltaPage, Mirroring, cursorVars, planVars
<1>2. ~more'
  <2>1. ~(last < Len(journal))
    BY <1>1, AttemptTypes
  <2>2. QED
    BY <1>1, <2>1, Zenon
<1>3. ops = <<>> /\ transfers = <<>> /\ channel = <<>>
  BY <1>1 DEF HistoryInv, Phases, Listing
<1>4. FolderHistory(live', journal') /\ Maps'
  BY <1>1, QuietMaps DEF Underway, Listing
<1>5. Phases'
  <2>1. (pc \in Listing \cup {"idle"} => ~sawError /\ channel = <<>>)'
    BY <1>1, Zenon DEF HistoryInv, Phases
  <2>2. QED
    BY <1>1, <1>2, <1>3, <2>1 DEF HistoryInv, Phases, Underway, Listing
<1>6. Sound'
  BY <1>1, <1>3, NothingPlanned DEF Sound
<1>7. ListedIsPlanned' /\ TombstonesTold'
  BY <1>1 DEF HistoryInv, ListedIsPlanned, TombstonesTold, Tracked
<1>8. QED
  BY <1>4, <1>5, <1>6, <1>7 DEF HistoryInv

\* A cursor that was reset leads to a snapshot.
LEMMA ResetHistory ==
  ASSUME Mirroring, TypeInv, HistoryInv, UNCHANGED <<live, journal, durable>>, CursorReset
  PROVE  HistoryInv'
<1>1. /\ pc = "delta" /\ pc' = "snapshot"
      /\ UNCHANGED <<files, cursor, channel, more, inventory, todo, sawError>>
      /\ ops' = <<>> /\ transfers' = <<>>
  BY DEF CursorReset, cursorVars
<1>2. channel = <<>>
  BY <1>1 DEF HistoryInv, Phases, Listing
<1>3. FolderHistory(live', journal') /\ Maps'
  BY <1>1, QuietMaps DEF Underway, Listing
<1>4. Phases'
  <2>1. (pc \in Listing \cup {"idle"} => ~sawError /\ channel = <<>>)'
    BY <1>1, Zenon DEF HistoryInv, Phases, Listing
  <2>2. QED
    BY <1>1, <2>1 DEF HistoryInv, Phases, Underway, Listing
<1>5. Sound'
  BY <1>1, <1>2, NothingPlanned DEF Sound
<1>6. ListedIsPlanned' /\ TombstonesTold'
  BY <1>1 DEF ListedIsPlanned, TombstonesTold
<1>7. QED
  BY <1>3, <1>4, <1>5, <1>6 DEF HistoryInv

\* The version of a listed file that the folder still holds is the one it holds.
LEMMA ListedIsCurrent ==
  ASSUME NEW l, NEW j \in Seq(Event), NEW id \in Ids, HistoryOf(l, j, id), l[id] # Absent,
         NEW k \in EventsIn(j, id), LatestIn(j, k) \/ \A i \in EventsIn(j, id) : i <= k
  PROVE  Current(l, j, id, k)
<1>1. PICK m \in DOMAIN j : Current(l, j, id, m)
  BY DEF HistoryOf
<1>2. m \in EventsIn(j, id) /\ m \in Int /\ k \in Int
  BY <1>1 DEF Current, EventsIn
<1>3. ~(k < m)
  BY <1>1, <1>2 DEF HistoryOf
<1>4. k = m
  BY <1>1, <1>2, <1>3 DEF Current
<1>5. QED
  BY <1>1, <1>4

\* A file settles with the event that lists it.
LEMMA SettlesWith ==
  ASSUME NEW l, NEW j \in Seq(Event), NEW id \in Ids, NEW p \in Nat,
         Settled(l, j, id, p + 1), ~Settled(l, j, id, p)
  PROVE  p + 1 \in EventsIn(j, id) /\ \A i \in EventsIn(j, id) : i <= p + 1
<1>1. \A i \in EventsIn(j, id) : i \in Nat /\ i <= p + 1
  BY DEF Settled, EventsIn
<1>2. PICK i \in EventsIn(j, id) : ~(i <= p)
  BY DEF Settled
<1>3. i = p + 1
  BY <1>1, <1>2
<1>4. QED
  BY <1>1, <1>2, <1>3

\* A listed entry is planned, or left to the tombstones.
LEMMA EntryHistory ==
  ASSUME Mirroring, TypeInv, HistoryInv, UNCHANGED <<live, journal, durable>>, DeltaEntry
  PROVE  HistoryInv'
<1> DEFINE e == journal[pos + 1]
<1>1. /\ pc = "delta" /\ pc' = "delta" /\ pos < pageEnd /\ pos' = pos + 1
      /\ UNCHANGED <<files, cursor, channel, pageEnd, more, inventory, todo, sawError>>
  BY DEF DeltaEntry, cursorVars
<1>2. \/ ~Latest(pos + 1) /\ UNCHANGED <<deleted, consumed, ops, transfers>>
      \/ /\ Latest(pos + 1) /\ e.id = 0 /\ deleted' = deleted \cup {e.path}
         /\ UNCHANGED <<consumed, ops, transfers>>
      \/ Latest(pos + 1) /\ e.id # 0 /\ PlanChangedFile(e)
  BY DEF DeltaEntry
<1>3. /\ pos \in Nat /\ pageEnd \in Nat /\ cursor \in Int /\ journal \in Seq(Event)
      /\ pos + 1 \in DOMAIN journal /\ e \in Event /\ pos >= cursor
      /\ live \in [Ids -> Version \cup {Absent}]
  <2>1. /\ pos \in Nat /\ pageEnd \in Nat /\ cursor \in Int /\ journal \in Seq(Event)
        /\ pageEnd <= Len(journal) /\ live \in [Ids -> Version \cup {Absent}]
    BY AttemptTypes
  <2>2. pos + 1 \in DOMAIN journal
    BY <1>1, <2>1
  <2>3. pos >= cursor
    BY <1>1 DEF HistoryInv, Phases
  <2>4. e \in Event
    BY <2>1, <2>2
  <2>5. QED
    BY <2>1, <2>2, <2>3, <2>4
<1>4. Latest(pos + 1) <=> LatestIn(journal, pos + 1)
  BY DEF Latest, LatestIn
<1>5. ~more
  BY <1>1, <1>3 DEF HistoryInv, Phases
<1>6. channel = <<>> /\ pageEnd = Len(journal) /\ cursor = durable.cursor /\ files = durable.files
  BY <1>1, <1>5 DEF HistoryInv, Phases, Underway, Listing
<1>7. /\ MovesSound(ops, cursor, pageEnd, live, journal)
      /\ TransfersSound(transfers, cursor, pageEnd, live, journal)
      /\ DeletesSound(ops, pageEnd, live, journal)
      /\ Truthful(files, cursor, live, journal)
      /\ FolderHistory(live, journal)
  BY <1>1 DEF HistoryInv, Sound, Maps, Underway, Listing
<1>8. FolderHistory(live', journal') /\ Maps'
  BY <1>1, QuietMaps DEF Underway, Listing
<1>9. Phases'
  <2>1. (pc \in Listing \cup {"idle"} => ~sawError /\ channel = <<>>)'
    BY <1>1, Zenon DEF HistoryInv, Phases
  <2>2. pos' >= cursor'
    BY <1>1, <1>3
  <2>3. ~more'
    BY <1>1, <1>5, Zenon
  <2>4. QED
    BY <1>1, <1>5, <1>6, <2>1, <2>2, <2>3 DEF HistoryInv, Phases, Underway, Listing
<1>10. ASSUME NEW id \in Ids, Settled(live, journal, id, pos + 1), ~Settled(live, journal, id, pos)
       PROVE  /\ e.id = id /\ id # 0 /\ Latest(pos + 1)
              /\ e.path = live[id].path /\ e.rev = live[id].rev
  <2>1. pos + 1 \in EventsIn(journal, id) /\ \A i \in EventsIn(journal, id) : i <= pos + 1
    BY <1>3, <1>10, SettlesWith
  <2>2. Current(live, journal, id, pos + 1)
    BY <1>3, <1>7, <1>10, <2>1, ListedIsCurrent DEF FolderHistory, Settled
  <2>3. id # 0
    BY FolderAssumption
  <2>4. QED
    BY <1>4, <2>1, <2>2, <2>3 DEF Current, EventsIn
<1>11. /\ \A id \in Ids : Settled(live, journal, id, pos) => Planned(files, ops, transfers, live, id)
       /\ \A id \in Ids : Settled(live, journal, id, pos) /\ Tracked(id) /\ files[id].path # live[id].path
             => Fold[files[id].path] \in consumed
       /\ \A p \in deleted : \E m \in DOMAIN journal :
             journal[m].id = 0 /\ journal[m].path = p /\ LatestIn(journal, m)
  BY <1>1 DEF HistoryInv, ListedIsPlanned, TombstonesTold
<1>12. ASSUME NEW id \in Ids, Exists(id), TooLarge(live[id].rev)
       PROVE  files[id] = Absent /\ \A o, t : Planned(files, o, t, live, id)
  <2>1. files[id] = Absent
    BY <1>7, <1>12, TooLargeIsUntracked
  <2>2. QED
    BY <1>12, <2>1 DEF Planned, PathPlanned, BytesPlanned
<1>13. CASE UNCHANGED <<consumed, ops, transfers>> /\ (e.id = 0 \/ TooLarge(e.rev) \/ ~Latest(pos + 1))
  <2>1. ASSUME NEW id \in Ids, Settled(live, journal, id, pos + 1), ~Settled(live, journal, id, pos)
        PROVE  files[id] = Absent /\ Planned(files, ops, transfers, live, id)
    <3>1. TooLarge(live[id].rev) /\ Exists(id)
      BY <1>10, <1>13, <2>1 DEF Settled, Exists
    <3>2. QED
      BY <1>12, <3>1
  <2>2. ASSUME NEW p \in deleted'
        PROVE  \E m \in DOMAIN journal : journal[m].id = 0 /\ journal[m].path = p /\ LatestIn(journal, m)
    <3>1. CASE p \in deleted
      BY <1>11, <3>1
    <3>2. CASE p \notin deleted
      <4>1. p = e.path /\ e.id = 0 /\ Latest(pos + 1)
        BY <1>2, <2>2, <3>2 DEF PlanChangedFile
      <4>2. QED
        BY <1>3, <1>4, <4>1
    <3>3. QED
      BY <3>1, <3>2
  <2>3. Sound'
    BY <1>1, <1>6, <1>7, <1>13, NothingPlanned DEF Sound
  <2>4. ListedIsPlanned'
    <3>1. \A id \in Ids : Settled(live, journal, id, pos + 1) => Planned(files, ops, transfers, live, id)
      BY <1>11, <2>1
    <3>2. QED
      BY <1>1, <1>13, <3>1 DEF ListedIsPlanned
  <2>5. TombstonesTold'
    <3>1. \A id \in Ids : Settled(live, journal, id, pos + 1) /\ files[id] # Absent /\ files[id].path # live[id].path
             => Fold[files[id].path] \in consumed
      BY <1>11, <2>1 DEF Tracked
    <3>2. QED
      BY <1>1, <1>13, <2>2, <3>1 DEF TombstonesTold, Tracked
  <2>6. QED
    BY <1>8, <1>9, <2>3, <2>4, <2>5 DEF HistoryInv
<1>14. CASE Latest(pos + 1) /\ e.id # 0 /\ PlanChangedFile(e) /\ ~TooLarge(e.rev)
  <2>1. e.id \in Ids /\ e.path \in Paths /\ e.rev \in Revs
    BY <1>3, <1>14 DEF Event
  <2>2. PICK id \in Ids : id = e.id
    BY <2>1
  <2>3. /\ UNCHANGED deleted
        /\ consumed' = IF Tracked(id) /\ files[id].path # e.path
                         THEN consumed \cup {Fold[files[id].path]} ELSE consumed
        /\ ops' = ops \o PlannedOps(id, e)
        /\ transfers' = transfers \o PlannedTransfers(id, e)
    BY <1>14, <2>1, <2>2 DEF PlanChangedFile, Selected, Mirroring
  <2>4. OpsGrow(ops', id, e) /\ TransfersGrow(transfers', id, e)
    BY <2>1, <2>3, FilePlans
  <2>5. pos + 1 \in EventsIn(journal, id)
    BY <1>3, <2>2 DEF EventsIn
  <2>6. Exists(id) => live[id].path = e.path /\ live[id].rev = e.rev
    BY <1>3, <1>4, <1>7, <1>14, <2>5, ListedIsCurrent DEF FolderHistory, Exists, Current
  <2>7. Had(journal, id, e.rev)
    BY <1>14, <2>5 DEF Had
  <2>8. ~Settled(live, journal, id, cursor)
    BY <1>3, <2>5 DEF Settled
  <2>9. /\ MovesSound(ops', cursor, pageEnd, live, journal)
        /\ TransfersSound(transfers', cursor, pageEnd, live, journal)
        /\ DeletesSound(ops', pageEnd, live, journal)
    BY <1>7, <2>4, <2>6, <2>7, <2>8, SoundNow
  <2>10. Sound'
    BY <1>1, <1>6, <2>9, NothingPlanned DEF Sound
  <2>11. /\ live[id].path = e.path /\ live[id].rev = e.rev => Planned(files, ops', transfers', live, id)
         /\ \A other : Planned(files, ops, transfers, live, other) => Planned(files, ops', transfers', live, other)
    BY <2>4, PlannedNow
  <2>12. ListedIsPlanned'
    <3>1. ASSUME NEW o \in Ids, Settled(live, journal, o, pos + 1)
          PROVE  Planned(files, ops', transfers', live, o)
      BY <1>10, <1>11, <2>2, <2>11, <3>1
    <3>2. QED
      BY <1>1, <3>1 DEF ListedIsPlanned
  <2>13. TombstonesTold'
    <3>1. ASSUME NEW o \in Ids, Settled(live, journal, o, pos + 1), Tracked(o), files[o].path # live[o].path
          PROVE  Fold[files[o].path] \in consumed'
      BY <1>10, <1>11, <2>2, <2>3, <3>1
    <3>2. QED
      BY <1>1, <1>11, <2>3, <3>1 DEF TombstonesTold, Tracked
  <2>14. QED
    BY <1>8, <1>9, <2>10, <2>12, <2>13 DEF HistoryInv
<1>15. QED
  <2>1. Latest(pos + 1) /\ e.id # 0 /\ PlanChangedFile(e) /\ TooLarge(e.rev)
        => UNCHANGED <<consumed, ops, transfers>>
    BY DEF PlanChangedFile
  <2>2. QED
    BY <1>2, <1>13, <1>14, <2>1

\* The last listed entry leads to the tombstones, the last tombstone to the emission.
LEMMA DeltaPlannedHistory ==
  ASSUME Mirroring, TypeInv, HistoryInv, UNCHANGED <<live, journal, durable>>,
         DeltaListed \/ TombstonesPlanned
  PROVE  HistoryInv'
<1>1. /\ pc \in {"delta", "tombstones"} /\ pc' \in {"tombstones", "emit"}
      /\ UNCHANGED <<files, cursor, channel, pos, pageEnd, more, inventory, todo, deleted, consumed,
                     ops, transfers, sawError>>
      /\ pc = "delta" => pos = pageEnd /\ ~more
  BY DEF DeltaListed, TombstonesPlanned, cursorVars, listVars, planVars
<1>2. FolderHistory(live', journal') /\ Maps'
  BY <1>1, QuietMaps DEF Underway, Listing
<1>3. Phases'
  <2>1. (pc \in Listing \cup {"idle"} => ~sawError /\ channel = <<>>)'
    BY <1>1, Zenon DEF HistoryInv, Phases, Listing
  <2>2. QED
    BY <1>1, <2>1 DEF HistoryInv, Phases, Underway, Listing
<1>4. Sound'
  BY <1>1 DEF HistoryInv, Sound, Underway, Listing
<1>5. ListedIsPlanned' /\ TombstonesTold'
  BY <1>1 DEF HistoryInv, ListedIsPlanned, TombstonesTold, Tracked
<1>6. QED
  BY <1>2, <1>3, <1>4, <1>5 DEF HistoryInv

\* A tracked file that the folder does not hold is gone.
LEMMA TrackedIsGone ==
  ASSUME TypeInv, FolderHistory(live, journal), NEW c, Truthful(files, c, live, journal),
         NEW id \in Ids, Tracked(id), ~Exists(id), pageEnd = Len(journal)
  PROVE  Gone(live, journal, id, pageEnd)
<1>1. EventsIn(journal, id) # {}
  BY DEF Truthful, Had, Tracked
<1>2. QED
  BY <1>1, AttemptTypes, AbsentIsGone DEF FolderHistory, Exists

\* A tombstone deletes the file at its path, unless the file was renamed away from there.
LEMMA TombstoneHistory ==
  ASSUME Mirroring, TypeInv, HistoryInv, UNCHANGED <<live, journal, durable>>,
         NEW p \in Paths, PlanTombstone(p)
  PROVE  HistoryInv'
<1>1. /\ pc = "tombstones" /\ pc' = pc /\ p \in deleted /\ deleted' = deleted \ {p}
      /\ UNCHANGED <<files, cursor, channel, pos, pageEnd, more, inventory, todo, consumed, transfers,
                     sawError>>
      /\ \/ UNCHANGED ops
         \/ \E id \in Ids : /\ Fold[p] \notin consumed /\ Tracked(id) /\ Fold[files[id].path] = Fold[p]
                            /\ ops' = Append(ops, DeleteOp(id, files[id]))
  BY DEF PlanTombstone, ByPath, PinnedTo, cursorVars, listVars
<1>2. /\ pos = pageEnd /\ pageEnd = Len(journal)
  BY <1>1 DEF HistoryInv, Phases, Underway, Listing
<1>3. /\ MovesSound(ops, cursor, pageEnd, live, journal)
      /\ TransfersSound(transfers, cursor, pageEnd, live, journal)
      /\ DeletesSound(ops, pageEnd, live, journal)
      /\ DeletesSound(channel, pageEnd, live, journal)
      /\ Truthful(files, cursor, live, journal)
      /\ FolderHistory(live, journal)
  BY <1>1 DEF HistoryInv, Sound, Maps, Underway, Listing
<1>4. FolderHistory(live', journal') /\ Maps'
  BY <1>1, QuietMaps DEF Underway, Listing
<1>5. Phases'
  <2>1. (pc \in Listing \cup {"idle"} => ~sawError /\ channel = <<>>)'
    BY <1>1, Zenon DEF HistoryInv, Phases
  <2>2. QED
    BY <1>1, <2>1 DEF HistoryInv, Phases, Underway, Listing
<1>6. TombstonesTold'
  BY <1>1 DEF HistoryInv, TombstonesTold, Tracked
<1>7. /\ MovesSound(ops', cursor, pageEnd, live, journal)
      /\ DeletesSound(ops', pageEnd, live, journal)
      /\ \A id : Planned(files, ops, transfers, live, id) => Planned(files, ops', transfers, live, id)
  <2>1. CASE UNCHANGED ops
    BY <1>3, <2>1
  <2>2. ASSUME NEW id \in Ids, Fold[p] \notin consumed, Tracked(id), Fold[files[id].path] = Fold[p],
               ops' = Append(ops, DeleteOp(id, files[id]))
        PROVE  /\ MovesSound(ops', cursor, pageEnd, live, journal)
               /\ DeletesSound(ops', pageEnd, live, journal)
               /\ \A o : Planned(files, ops, transfers, live, o) => Planned(files, ops', transfers, live, o)
    <3>1. PICK m \in DOMAIN journal : journal[m].id = 0 /\ journal[m].path = p /\ LatestIn(journal, m)
      BY <1>1 DEF HistoryInv, TombstonesTold
    <3>2. ~Exists(id)
      <4> SUFFICES ASSUME Exists(id) PROVE FALSE
        OBVIOUS
      <4>1. Settled(live, journal, id, pos)
        BY <1>2, AllSettled
      <4>2. files[id].path = live[id].path
        BY <1>1, <2>2, <4>1 DEF HistoryInv, TombstonesTold
      <4>3. PICK k \in DOMAIN journal : Current(live, journal, id, k)
        BY <1>3 DEF FolderHistory, HistoryOf, Exists
      <4>4. SamePath(journal[m].path, journal[k].path) /\ SamePath(journal[k].path, journal[m].path)
        BY <2>2, <3>1, <4>2, <4>3 DEF SamePath, Current
      <4>5. k # m
        BY <3>1, <4>3, FolderAssumption DEF Current, EventsIn
      <4>6. DOMAIN journal = 1 .. Len(journal) /\ Len(journal) \in Nat
        BY AttemptTypes
      <4>7. ~(k < m) /\ ~(m < k)
        BY <3>1, <4>3, <4>4, <4>6 DEF Current, LatestIn
      <4>8. QED
        BY <4>5, <4>6, <4>7
    <3>3. Gone(live, journal, id, pageEnd)
      BY <1>2, <1>3, <2>2, <3>2, TrackedIsGone
    <3>4. QED
      BY <1>3, <2>2, <3>3, DeletePlanned
  <2>3. QED
    BY <1>1, <2>1, <2>2
<1>8. Sound'
  BY <1>1, <1>3, <1>7 DEF Sound
<1>9. ListedIsPlanned'
  BY <1>1, <1>7 DEF HistoryInv, ListedIsPlanned
<1>10. QED
  BY <1>4, <1>5, <1>6, <1>8, <1>9 DEF HistoryInv

-----------------------------------------------------------------------------
(* A snapshot.                                                             *)

\* A snapshot lists the folder as it is.
LEMMA ListHistory ==
  ASSUME Mirroring, TypeInv, HistoryInv, UNCHANGED <<live, journal, durable>>,
         ListFolder \/ SnapshotListed
  PROVE  HistoryInv'
<1>1. /\ pc \in {"snapshot", "relist"}
      /\ UNCHANGED <<files, cursor, channel, deleted, consumed, ops, transfers, sawError>>
  BY DEF ListFolder, SnapshotListed, cursorVars
<1>2. ops = <<>> /\ transfers = <<>> /\ channel = <<>> /\ cursor = durable.cursor /\ files = durable.files
  BY <1>1 DEF HistoryInv, Phases, Underway, Listing
<1>3. FolderHistory(live', journal') /\ Maps'
  BY <1>1, QuietMaps DEF Underway, Listing
<1>4. \/ /\ pc' = "relist" /\ inventory' = live /\ pos' = Len(journal) /\ pageEnd' = Len(journal)
         /\ ~more'
      \/ /\ pc = "relist" /\ pc' = "inventory" /\ todo' = {id \in Ids : inventory[id] # Absent}
         /\ UNCHANGED <<pos, pageEnd, more, inventory>>
  <2>1. CASE ListFolder
    <3>1. live \in [Ids -> Version \cup {Absent}]
      BY AttemptTypes
    <3>2. ASSUME NEW id \in Ids
          PROVE  (IF Exists(id) /\ Selected(live[id].path) THEN live[id] ELSE Absent) = live[id]
      <4>1. Exists(id) => live[id].path \in Paths
        BY <3>1 DEF Exists, Version
      <4>2. QED
        BY <4>1 DEF Exists, Selected, Mirroring
    <3>3. inventory' = [id \in Ids |-> live[id]]
      BY <2>1, <3>2 DEF ListFolder
    <3>4. inventory' = live
      BY <3>1, <3>3
    <3>5. ~more'
      <4>1. more' \in {FALSE, Paged} /\ ~Paged
        BY <2>1 DEF ListFolder, Mirroring
      <4>2. QED
        BY <4>1, Zenon
    <3>6. QED
      BY <2>1, <3>4, <3>5 DEF ListFolder
  <2>2. CASE SnapshotListed
    BY <2>2 DEF SnapshotListed, listVars
  <2>3. QED
    BY <2>1, <2>2
<1>5. Phases'
  <2>1. (pc \in Listing \cup {"idle"} => ~sawError /\ channel = <<>>)'
    BY <1>1, Zenon DEF HistoryInv, Phases, Listing
  <2>2. QED
    BY <1>1, <1>2, <1>4, <2>1 DEF HistoryInv, Phases, Underway, Listing
<1>6. Sound'
  BY <1>1, <1>2, NothingPlanned DEF Sound
<1>7. ListedIsPlanned'
  <2>1. pc = "relist" => inventory = live
    BY DEF HistoryInv, Phases
  <2>2. QED
    BY <1>4, <2>1 DEF ListedIsPlanned, Exists
<1>8. TombstonesTold'
  BY <1>4 DEF TombstonesTold
<1>9. QED
  BY <1>3, <1>5, <1>6, <1>7, <1>8 DEF HistoryInv

\* A file of the inventory is planned.
LEMMA InventoryHistory ==
  ASSUME Mirroring, TypeInv, HistoryInv, UNCHANGED <<live, journal, durable>>,
         NEW id \in Ids, PlanInventory(id)
  PROVE  HistoryInv'
<1> DEFINE e == inventory[id]
<1>1. /\ pc = "inventory" /\ pc' = pc /\ id \in todo /\ todo' = todo \ {id}
      /\ UNCHANGED <<files, cursor, channel, pos, pageEnd, more, inventory, deleted, consumed, sawError>>
      /\ ops' = ops \o PlannedOps(id, e)
      /\ transfers' = IF TooLarge(e.rev) THEN transfers ELSE transfers \o PlannedTransfers(id, e)
  BY DEF PlanInventory, cursorVars, listVars
<1>2. /\ inventory = live /\ pageEnd = Len(journal) /\ channel = <<>>
  BY <1>1 DEF HistoryInv, Phases, Underway, Listing
<1>3. /\ MovesSound(ops, cursor, pageEnd, live, journal)
      /\ TransfersSound(transfers, cursor, pageEnd, live, journal)
      /\ DeletesSound(ops, pageEnd, live, journal)
      /\ Truthful(files, cursor, live, journal)
      /\ FolderHistory(live, journal)
  BY <1>1 DEF HistoryInv, Sound, Maps, Underway, Listing
<1>4. FolderHistory(live', journal') /\ Maps'
  BY <1>1, QuietMaps DEF Underway, Listing
<1>5. Phases'
  <2>1. (pc \in Listing \cup {"idle"} => ~sawError /\ channel = <<>>)'
    BY <1>1, Zenon DEF HistoryInv, Phases
  <2>2. QED
    BY <1>1, <2>1 DEF HistoryInv, Phases, Underway, Listing
<1>6. TombstonesTold'
  BY <1>1 DEF TombstonesTold
<1>7. e = live[id] /\ Exists(id) /\ e.path \in Paths /\ e.rev \in Revs
  <2>1. inventory[id] # Absent
    BY <1>1 DEF TypeInv, InHistory, InListing
  <2>2. live[id] \in Version
    BY <1>2, <2>1, AttemptTypes
  <2>3. QED
    BY <1>2, <2>1, <2>2 DEF Exists, Version
<1>8. OpsGrow(ops \o PlannedOps(id, e), id, e) /\ TransfersGrow(transfers \o PlannedTransfers(id, e), id, e)
  BY <1>7, FilePlans
<1>9. ASSUME ~TooLarge(e.rev)
      PROVE  Sound' /\ ListedIsPlanned'
  <2>1. OpsGrow(ops', id, e) /\ TransfersGrow(transfers', id, e)
    BY <1>1, <1>8, <1>9
  <2>2. Settled(live, journal, id, cursor) =>
            files[id] # Absent /\ files[id].rev = e.rev /\ files[id].path = e.path
    BY <1>3, <1>7, <1>9 DEF Truthful, Good
  <2>3. Had(journal, id, e.rev)
    <3>1. PICK k \in DOMAIN journal : Current(live, journal, id, k)
      BY <1>3, <1>7 DEF FolderHistory, HistoryOf, Exists
    <3>2. QED
      BY <1>7, <1>9, <3>1 DEF Had, Current
  <2>4. /\ MovesSound(ops', cursor, pageEnd, live, journal)
        /\ TransfersSound(transfers', cursor, pageEnd, live, journal)
        /\ DeletesSound(ops', pageEnd, live, journal)
    BY <1>3, <1>7, <2>1, <2>2, <2>3, SoundNow
  <2>5. Sound'
    BY <1>1, <1>2, <2>4, NothingPlanned DEF Sound
  <2>6. /\ Planned(files, ops', transfers', live, id)
        /\ \A o : Planned(files, ops, transfers, live, o) => Planned(files, ops', transfers', live, o)
    BY <1>7, <2>1, PlannedNow
  <2>7. ListedIsPlanned'
    BY <1>1, <2>6 DEF HistoryInv, ListedIsPlanned, Exists
  <2>8. QED
    BY <2>5, <2>7
<1>10. ASSUME TooLarge(e.rev)
       PROVE  Sound' /\ ListedIsPlanned'
  <2>1. files[id] = Absent
    BY <1>3, <1>7, <1>10, TooLargeIsUntracked
  <2>2. transfers' = transfers /\ ops' = ops \o <<>>
    BY <1>1, <1>10, <2>1 DEF PlannedOps, Tracked
  <2>3. ops' = ops
    BY <2>2, AttemptTypes
  <2>4. Sound'
    BY <1>1, <1>2, <1>3, <2>2, <2>3, NothingPlanned DEF Sound
  <2>5. Planned(files, ops, transfers, live, id)
    BY <1>7, <1>10, <2>1 DEF Planned, PathPlanned, BytesPlanned
  <2>6. ListedIsPlanned'
    BY <1>1, <2>2, <2>3, <2>5 DEF HistoryInv, ListedIsPlanned, Exists
  <2>7. QED
    BY <2>4, <2>6
<1>11. QED
  BY <1>4, <1>5, <1>6, <1>9, <1>10 DEF HistoryInv

\* After the inventory the files that are tracked and not in it are left.
LEMMA InventoryPlannedHistory ==
  ASSUME Mirroring, TypeInv, HistoryInv, UNCHANGED <<live, journal, durable>>,
         InventoryPlanned \/ RemovalsPlanned
  PROVE  HistoryInv'
<1>1. /\ pc \in {"inventory", "removals"} /\ pc' \in {"removals", "emit"}
      /\ UNCHANGED <<files, cursor, channel, pos, pageEnd, more, inventory, deleted, consumed, ops,
                     transfers, sawError>>
      /\ pc = "inventory" => todo = {}
      /\ pc' = "removals" => todo' = {id \in Ids : Tracked(id) /\ inventory[id] = Absent}
  BY DEF InventoryPlanned, RemovalsPlanned, cursorVars, listVars, planVars
<1>2. inventory = live
  BY <1>1 DEF HistoryInv, Phases
<1>3. FolderHistory(live', journal') /\ Maps'
  BY <1>1, QuietMaps DEF Underway, Listing
<1>4. Phases'
  <2>1. (pc \in Listing \cup {"idle"} => ~sawError /\ channel = <<>>)'
    BY <1>1, Zenon DEF HistoryInv, Phases, Listing
  <2>2. QED
    BY <1>1, <2>1 DEF HistoryInv, Phases, Underway, Listing
<1>5. Sound'
  BY <1>1 DEF HistoryInv, Sound, Underway, Listing
<1>6. ListedIsPlanned'
  <2>1. \A id \in Ids : Settled(live, journal, id, pos) => Planned(files, ops, transfers, live, id)
    BY <1>1 DEF HistoryInv, ListedIsPlanned, Settled, Exists
  <2>2. pc' = "removals" => \A id \in todo' : live[id] = Absent
    BY <1>1, <1>2
  <2>3. QED
    BY <1>1, <2>1, <2>2 DEF ListedIsPlanned, Exists
<1>7. TombstonesTold'
  BY <1>1 DEF TombstonesTold
<1>8. QED
  BY <1>3, <1>4, <1>5, <1>6, <1>7 DEF HistoryInv

\* A tracked file that is not in the inventory is deleted.
LEMMA RemovalHistory ==
  ASSUME Mirroring, TypeInv, HistoryInv, UNCHANGED <<live, journal, durable>>,
         NEW id \in Ids, PlanRemoval(id)
  PROVE  HistoryInv'
<1>1. /\ pc = "removals" /\ pc' = pc /\ id \in todo /\ todo' = todo \ {id}
      /\ UNCHANGED <<files, cursor, channel, pos, pageEnd, more, inventory, deleted, consumed, transfers,
                     sawError>>
      /\ ops' = Append(ops, DeleteOp(id, files[id]))
  BY DEF PlanRemoval, cursorVars, listVars
<1>2. pageEnd = Len(journal)
  BY <1>1 DEF HistoryInv, Phases, Underway, Listing
<1>3. /\ MovesSound(ops, cursor, pageEnd, live, journal)
      /\ TransfersSound(transfers, cursor, pageEnd, live, journal)
      /\ DeletesSound(ops, pageEnd, live, journal)
      /\ DeletesSound(channel, pageEnd, live, journal)
      /\ Truthful(files, cursor, live, journal)
      /\ FolderHistory(live, journal)
  BY <1>1 DEF HistoryInv, Sound, Maps, Underway, Listing
<1>4. FolderHistory(live', journal') /\ Maps'
  BY <1>1, QuietMaps DEF Underway, Listing
<1>5. Phases'
  <2>1. (pc \in Listing \cup {"idle"} => ~sawError /\ channel = <<>>)'
    BY <1>1, Zenon DEF HistoryInv, Phases
  <2>2. QED
    BY <1>1, <2>1 DEF HistoryInv, Phases, Underway, Listing
<1>6. Tracked(id) /\ ~Exists(id)
  BY <1>1 DEF TypeInv, InHistory, InListing, HistoryInv, ListedIsPlanned
<1>7. Gone(live, journal, id, pageEnd)
  BY <1>2, <1>3, <1>6, TrackedIsGone
<1>8. /\ MovesSound(ops', cursor, pageEnd, live, journal)
      /\ DeletesSound(ops', pageEnd, live, journal)
      /\ \A o : Planned(files, ops, transfers, live, o) => Planned(files, ops', transfers, live, o)
  BY <1>1, <1>3, <1>7, DeletePlanned
<1>9. Sound'
  BY <1>1, <1>3, <1>8 DEF Sound
<1>10. ListedIsPlanned'
  BY <1>1, <1>8 DEF HistoryInv, ListedIsPlanned, Exists
<1>11. TombstonesTold'
  BY <1>1 DEF TombstonesTold
<1>12. QED
  BY <1>4, <1>5, <1>9, <1>10, <1>11 DEF HistoryInv

-----------------------------------------------------------------------------
(* Sending.                                                                *)

\* A message that is appended adds at most its own deletion.
LEMMA AppendedDeletes ==
  ASSUME NEW T, NEW s \in Seq(T), NEW m, NEW n, NEW l, NEW j, DeletesSound(s, n, l, j),
         m.kind = "delete" => Gone(l, j, m.id, n)
  PROVE  DeletesSound(Append(s, m), n, l, j)
<1>1. \A i \in DOMAIN Append(s, m) : \/ i \in DOMAIN s /\ Append(s, m)[i] = s[i]
                                 \/ Append(s, m)[i] = m
  OBVIOUS
<1>2. QED
  BY <1>1 DEF DeletesSound

\* A message that is appended adds at most its own state.
LEMMA AppendedStates ==
  ASSUME NEW T, NEW s \in Seq(T), NEW m, NEW l, NEW j, StatesTruthful(s, l, j),
         m.kind = "state" => Truthful(m.state.files, m.state.cursor, l, j)
  PROVE  StatesTruthful(Append(s, m), l, j)
<1>1. \A i \in DOMAIN Append(s, m) : \/ i \in DOMAIN s /\ Append(s, m)[i] = s[i]
                                 \/ Append(s, m)[i] = m
  OBVIOUS
<1>2. QED
  BY <1>1 DEF StatesTruthful

\* What follows the head of a sequence was in it.
LEMMA TailElements ==
  ASSUME NEW T, NEW s \in Seq(T), s # <<>>
  PROVE  /\ Head(s) = s[1] /\ 1 \in DOMAIN s
         /\ \A i \in DOMAIN Tail(s) : i + 1 \in DOMAIN s /\ Tail(s)[i] = s[i + 1]
         /\ \A i \in DOMAIN s : i = 1 \/ (i - 1 \in DOMAIN Tail(s) /\ Tail(s)[i - 1] = s[i])
<1>1. Head(s) = s[1] /\ 1 \in DOMAIN s
  OBVIOUS
<1>2. \A i \in DOMAIN Tail(s) : i + 1 \in DOMAIN s /\ Tail(s)[i] = s[i + 1]
  OBVIOUS
<1>3. ASSUME NEW i \in DOMAIN s, i # 1
      PROVE  i - 1 \in DOMAIN Tail(s) /\ Tail(s)[i - 1] = s[i]
  <2>1. DOMAIN s = 1 .. Len(s) /\ DOMAIN Tail(s) = 1 .. (Len(s) - 1) /\ Len(s) \in Nat
    OBVIOUS
  <2>2. i - 1 \in DOMAIN Tail(s) /\ (i - 1) + 1 = i
    BY <1>3, <2>1
  <2>3. QED
    BY <1>2, <2>2
<1>4. QED
  BY <1>1, <1>2, <1>3

\* What is sound and truthful stays so when the head is taken.
LEMMA TailsSound ==
  ASSUME NEW T, NEW s \in Seq(T), s # <<>>, NEW c, NEW n, NEW l, NEW j
  PROVE  /\ MovesSound(s, c, n, l, j) => MovesSound(Tail(s), c, n, l, j)
         /\ TransfersSound(s, c, n, l, j) => TransfersSound(Tail(s), c, n, l, j)
         /\ DeletesSound(s, n, l, j) => DeletesSound(Tail(s), n, l, j)
         /\ StatesTruthful(s, l, j) => StatesTruthful(Tail(s), l, j)
<1>1. \A i \in DOMAIN Tail(s) : i + 1 \in DOMAIN s /\ Tail(s)[i] = s[i + 1]
  BY TailElements
<1>2. QED
  BY <1>1 DEF MovesSound, TransfersSound, DeletesSound, StatesTruthful

\* An operation that is sent changes the map to what it does.
LEMMA EmitHistory ==
  ASSUME Mirroring, TypeInv, HistoryInv, UNCHANGED <<live, journal, durable>>, EmitOperation
  PROVE  HistoryInv'
<1>1. PICK op : op = Head(ops)
  OBVIOUS
<1>2. /\ pc = "emit" /\ ops # <<>> /\ channel' = Append(channel, op)
      /\ UNCHANGED <<cursor, pos, pageEnd, more, inventory, todo, deleted, consumed, transfers, sawError>>
      /\ \/ Tracked(op.id) /\ op.kind = "move" /\ MarkMove(op) /\ ops' = Tail(ops) /\ pc' = pc
         \/ Tracked(op.id) /\ op.kind # "move" /\ MarkDelete(op) /\ ops' = Tail(ops) /\ pc' = pc
         \/ pc' = "failed" /\ UNCHANGED <<files, ops>>
  BY <1>1 DEF EmitOperation, listVars, planVars
<1>3. /\ files \in FileMap /\ ops \in Seq(MoveOps \cup DeleteOps)
      /\ channel \in Seq(Records \cup StateMsgs)
  BY AttemptTypes
<1>4. op \in MoveOps \cup DeleteOps /\ op = ops[1] /\ 1 \in DOMAIN ops
  BY <1>1, <1>2, <1>3
<1>5. /\ op.id \in Ids /\ op.kind \in {"move", "delete"}
      /\ op.kind = "move" => op.new \in Paths
  BY <1>4 DEF MoveOps, DeleteOps
<1>6. /\ MovesSound(ops, cursor, pageEnd, live, journal)
      /\ TransfersSound(transfers, cursor, pageEnd, live, journal)
      /\ DeletesSound(ops, pageEnd, live, journal)
      /\ DeletesSound(channel, pageEnd, live, journal)
      /\ Truthful(files, cursor, live, journal)
      /\ StatesTruthful(channel, live, journal)
      /\ cursor = durable.cursor /\ pos = pageEnd /\ pageEnd = Len(journal)
  BY <1>2 DEF HistoryInv, Sound, Maps, Phases, Underway, Listing
<1>7. FolderHistory(live', journal')
  BY DEF HistoryInv
<1>8. DeletesSound(channel', pageEnd, live, journal)
  <2>1. op.kind = "delete" => Gone(live, journal, op.id, pageEnd)
    BY <1>4, <1>6 DEF DeletesSound
  <2>2. QED
    BY <1>2, <1>3, <1>6, <2>1, AppendedDeletes
<1>9. StatesTruthful(channel', live, journal)
  BY <1>2, <1>3, <1>5, <1>6, AppendedStates
<1>10. Phases'
  <2>1. pc' \in {"emit", "failed"}
    BY <1>2
  <2>2. (pc \in Listing \cup {"idle"} => ~sawError /\ channel = <<>>)'
    BY <2>1, Zenon DEF Listing
  <2>3. QED
    BY <1>2, <1>6, <2>1, <2>2 DEF Phases, Underway, Listing
<1>11. TombstonesTold'
  BY <1>2 DEF TombstonesTold
<1>12. CASE pc' = "failed" /\ UNCHANGED <<files, ops>>
  <2>1. Maps'
    BY <1>9, <1>12 DEF HistoryInv, Maps, Underway, Listing
  <2>2. Sound'
    BY <1>2, <1>6, <1>8, <1>12 DEF Sound, Underway, Listing
  <2>3. ListedIsPlanned'
    BY <1>12 DEF ListedIsPlanned
  <2>4. QED
    BY <1>7, <1>10, <1>11, <2>1, <2>2, <2>3 DEF HistoryInv
<1>13. ASSUME ops' = Tail(ops), pc' = "emit", Truthful(files', cursor, live, journal),
              \A id \in Ids : Settled(live, journal, id, pos) => Planned(files', ops', transfers, live, id)
       PROVE  HistoryInv'
  <2>1. Maps'
    BY <1>2, <1>9, <1>13 DEF HistoryInv, Maps
  <2>2. Sound'
    <3>1. MovesSound(ops', cursor, pageEnd, live, journal) /\ DeletesSound(ops', pageEnd, live, journal)
      BY <1>2, <1>3, <1>6, <1>13, TailsSound
    <3>2. QED
      BY <1>2, <1>6, <1>8, <3>1 DEF Sound
  <2>3. ListedIsPlanned'
    BY <1>2, <1>13 DEF ListedIsPlanned
  <2>4. QED
    BY <1>7, <1>10, <1>11, <2>1, <2>2, <2>3 DEF HistoryInv
<1>14. \A id \in Ids : Settled(live, journal, id, pos) => Planned(files, ops, transfers, live, id)
  BY <1>2 DEF HistoryInv, ListedIsPlanned
<1>15. CASE Tracked(op.id) /\ op.kind = "move" /\ MarkMove(op) /\ ops' = Tail(ops) /\ pc' = pc
  <2>1. files[op.id] \in Version
    BY <1>3, <1>5, <1>15, TrackedIsVersion
  <2>2. /\ files'[op.id] = [path |-> op.new, rev |-> files[op.id].rev]
        /\ \A id \in Ids \ {op.id} : files'[id] = files[id]
    BY <1>3, <1>5, <1>15, <2>1 DEF MarkMove, FileMap, Version
  <2>3. files'[op.id].path = op.new /\ files'[op.id].rev = files[op.id].rev /\ files'[op.id] # Absent
    <3>1. files'[op.id] \in Version
      BY <1>5, <1>15, <2>1, <2>2 DEF Version
    <3>2. QED
      BY <2>2, <3>1, AbsentIsNoVersion
  <2>4. /\ ~Settled(live, journal, op.id, cursor)
        /\ Settled(live, journal, op.id, pageEnd) => op.new = live[op.id].path
    BY <1>4, <1>6, <1>15 DEF MovesSound
  <2>5. Truthful(files', cursor, live, journal)
    BY <1>6, <1>15, <2>2, <2>3, <2>4 DEF Truthful, Tracked
  <2>6. ASSUME NEW id \in Ids, Settled(live, journal, id, pos)
        PROVE  Planned(files', ops', transfers, live, id)
    <3>1. CASE id = op.id
      <4>1. PathPlanned(files', ops', live, id)
        BY <1>6, <2>3, <2>4, <2>6, <3>1 DEF PathPlanned
      <4>2. BytesPlanned(files', transfers, live, id)
        BY <1>14, <1>15, <2>3, <2>6, <3>1 DEF Planned, BytesPlanned, Tracked
      <4>3. QED
        BY <4>1, <4>2 DEF Planned
    <3>2. CASE id # op.id
      <4>1. \A i \in DOMAIN ops : ops[i].id = id =>
               i - 1 \in DOMAIN Tail(ops) /\ Tail(ops)[i - 1] = ops[i]
        BY <1>2, <1>3, <1>4, <3>2, TailElements
      <4>2. QED
        BY <1>14, <1>15, <2>2, <2>6, <3>2, <4>1 DEF Planned, PathPlanned, BytesPlanned
    <3>3. QED
      BY <3>1, <3>2
  <2>7. QED
    BY <1>2, <1>13, <1>15, <2>5, <2>6
<1>16. CASE Tracked(op.id) /\ op.kind # "move" /\ MarkDelete(op) /\ ops' = Tail(ops) /\ pc' = pc
  <2>1. files'[op.id] = Absent /\ \A id \in Ids \ {op.id} : files'[id] = files[id]
    BY <1>3, <1>5, <1>16 DEF MarkDelete, FileMap
  <2>2. live[op.id] = Absent
    BY <1>4, <1>5, <1>6, <1>16 DEF DeletesSound, Gone
  <2>3. Truthful(files', cursor, live, journal)
    BY <1>6, <2>1, <2>2 DEF Truthful, Settled
  <2>4. ASSUME NEW id \in Ids, Settled(live, journal, id, pos)
        PROVE  Planned(files', ops', transfers, live, id)
    <3>1. id # op.id
      BY <2>2, <2>4 DEF Settled
    <3>2. \A i \in DOMAIN ops : ops[i].id = id =>
             i - 1 \in DOMAIN Tail(ops) /\ Tail(ops)[i - 1] = ops[i]
      BY <1>2, <1>3, <1>4, <3>1, TailElements
    <3>3. QED
      BY <1>14, <1>16, <2>1, <2>4, <3>1, <3>2 DEF Planned, PathPlanned, BytesPlanned
  <2>5. QED
    BY <1>2, <1>13, <1>16, <2>3, <2>4
<1>17. QED
  BY <1>2, <1>12, <1>15, <1>16

\* After the operations come the transfers.
LEMMA EmittedHistory ==
  ASSUME Mirroring, TypeInv, HistoryInv, UNCHANGED <<live, journal, durable>>, OperationsEmitted
  PROVE  HistoryInv'
<1>1. /\ pc = "emit" /\ pc' = "transfer" /\ ops = <<>>
      /\ UNCHANGED <<files, cursor, channel, pos, pageEnd, more, inventory, todo, deleted, consumed, ops,
                     transfers, sawError>>
  BY DEF OperationsEmitted, cursorVars, listVars, planVars
<1>2. FolderHistory(live', journal') /\ Maps'
  BY <1>1, QuietMaps DEF Underway, Listing
<1>3. Phases'
  <2>1. (pc \in Listing \cup {"idle"} => ~sawError /\ channel = <<>>)'
    BY <1>1, Zenon DEF Listing
  <2>2. QED
    BY <1>1, <2>1 DEF HistoryInv, Phases, Underway, Listing
<1>4. Sound'
  BY <1>1 DEF HistoryInv, Sound, Underway, Listing
<1>5. ListedIsPlanned' /\ TombstonesTold'
  BY <1>1 DEF HistoryInv, ListedIsPlanned, TombstonesTold
<1>6. QED
  BY <1>2, <1>3, <1>4, <1>5 DEF HistoryInv

\* A transfer changes the map to the version that is sent.
LEMMA TransferHistory ==
  ASSUME Mirroring, TypeInv, HistoryInv, UNCHANGED <<live, journal, durable>>, TransferFile
  PROVE  HistoryInv'
<1>1. PICK t : t = Head(transfers)
  OBVIOUS
<1>2. /\ pc = "transfer" /\ pc' = pc /\ transfers # <<>> /\ transfers' = Tail(transfers)
      /\ channel' = Append(channel, FileMsg(t)) /\ AddFile(t)
      /\ UNCHANGED <<cursor, pos, pageEnd, more, inventory, todo, deleted, consumed, ops, sawError>>
  BY <1>1 DEF TransferFile, listVars, planVars
<1>3. /\ files \in FileMap /\ transfers \in Seq(Transfers) /\ channel \in Seq(Records \cup StateMsgs)
  BY AttemptTypes
<1>4. t \in Transfers /\ t = transfers[1] /\ 1 \in DOMAIN transfers
  BY <1>1, <1>2, <1>3
<1>5. t.id \in Ids /\ t.path \in Paths /\ t.rev \in Revs
  BY <1>4 DEF Transfers
<1>6. /\ MovesSound(ops, cursor, pageEnd, live, journal)
      /\ TransfersSound(transfers, cursor, pageEnd, live, journal)
      /\ DeletesSound(ops, pageEnd, live, journal)
      /\ DeletesSound(channel, pageEnd, live, journal)
      /\ Truthful(files, cursor, live, journal)
      /\ StatesTruthful(channel, live, journal)
      /\ cursor = durable.cursor /\ pos = pageEnd /\ ops = <<>>
  BY <1>2 DEF HistoryInv, Sound, Maps, Phases, Underway, Listing
<1>7. FolderHistory(live', journal')
  BY DEF HistoryInv
<1>8. FileMsg(t).kind = "file"
  BY DEF FileMsg
<1>9. /\ DeletesSound(channel', pageEnd, live, journal)
      /\ StatesTruthful(channel', live, journal)
  BY <1>2, <1>3, <1>6, <1>8, AppendedDeletes, AppendedStates
<1>10. Phases'
  <2>1. (pc \in Listing \cup {"idle"} => ~sawError /\ channel = <<>>)'
    BY <1>2, Zenon DEF Listing
  <2>2. QED
    BY <1>2, <1>6, <2>1 DEF HistoryInv, Phases, Underway, Listing
<1>11. TombstonesTold'
  BY <1>2 DEF TombstonesTold
<1>12. /\ files'[t.id] = [path |-> t.path, rev |-> t.rev]
       /\ \A id \in Ids \ {t.id} : files'[id] = files[id]
  BY <1>2, <1>3, <1>5 DEF AddFile, FileMap
<1>13. files'[t.id] # Absent /\ files'[t.id].path = t.path /\ files'[t.id].rev = t.rev
  <2>1. files'[t.id] \in Version
    BY <1>5, <1>12 DEF Version
  <2>2. QED
    BY <1>12, <2>1, AbsentIsNoVersion
<1>14. /\ Had(journal, t.id, t.rev)
       /\ ~Settled(live, journal, t.id, cursor)
       /\ Settled(live, journal, t.id, pageEnd) => t.path = live[t.id].path /\ t.rev = live[t.id].rev
  BY <1>4, <1>6 DEF TransfersSound
<1>15. Truthful(files', cursor, live, journal)
  BY <1>6, <1>12, <1>13, <1>14 DEF Truthful
<1>16. Maps'
  BY <1>2, <1>9, <1>15 DEF HistoryInv, Maps
<1>17. Sound'
  <2>1. TransfersSound(transfers', cursor, pageEnd, live, journal)
    BY <1>2, <1>3, <1>6, TailsSound
  <2>2. QED
    BY <1>2, <1>6, <1>9, <2>1 DEF Sound
<1>18. ListedIsPlanned'
  <2>1. ASSUME ~sawError, NEW id \in Ids, Settled(live, journal, id, pos)
        PROVE  Planned(files', ops, transfers', live, id)
    <3>1. Planned(files, ops, transfers, live, id)
      BY <1>2, <2>1 DEF HistoryInv, ListedIsPlanned
    <3>2. CASE id = t.id
      BY <1>6, <1>13, <1>14, <2>1, <3>2 DEF Planned, PathPlanned, BytesPlanned
    <3>3. CASE id # t.id
      <4>1. \A i \in DOMAIN transfers : transfers[i].id = id =>
               i - 1 \in DOMAIN Tail(transfers) /\ Tail(transfers)[i - 1] = transfers[i]
        BY <1>2, <1>3, <1>4, <3>3, TailElements
      <4>2. QED
        BY <1>2, <1>12, <3>1, <3>3, <4>1 DEF Planned, PathPlanned, BytesPlanned
    <3>4. QED
      BY <3>2, <3>3
  <2>2. QED
    BY <1>2, <2>1 DEF ListedIsPlanned
<1>19. QED
  BY <1>7, <1>10, <1>11, <1>16, <1>17, <1>18 DEF HistoryInv

\* A file that is skipped leaves the map alone, and the attempt has an error to report.
LEMMA SkipHistory ==
  ASSUME Mirroring, TypeInv, HistoryInv, UNCHANGED <<live, journal, durable>>, SkipFile
  PROVE  HistoryInv'
<1>1. /\ pc = "transfer" /\ pc' = pc /\ transfers # <<>> /\ transfers' = Tail(transfers)
      /\ sawError' = TRUE
      /\ UNCHANGED <<files, channel, cursor, pos, pageEnd, more, inventory, todo, deleted, consumed, ops>>
  BY DEF SkipFile, cursorVars, listVars, planVars
<1>2. FolderHistory(live', journal') /\ Maps'
  BY <1>1, QuietMaps DEF Underway, Listing
<1>3. Phases'
  <2>1. (pc \in Listing \cup {"idle"} => ~sawError /\ channel = <<>>)'
    BY <1>1, Zenon DEF Listing
  <2>2. QED
    BY <1>1, <2>1 DEF HistoryInv, Phases, Underway, Listing
<1>4. Sound'
  <2>1. TransfersSound(transfers', cursor, pageEnd, live, journal)
    BY <1>1, AttemptTypes, TailsSound DEF HistoryInv, Sound, Underway, Listing
  <2>2. QED
    BY <1>1, <2>1 DEF HistoryInv, Sound
<1>5. ListedIsPlanned' /\ TombstonesTold'
  BY <1>1 DEF ListedIsPlanned, TombstonesTold
<1>6. QED
  BY <1>2, <1>3, <1>4, <1>5 DEF HistoryInv

\* The state that is sent after the records says what the cursor it carries implies.
LEMMA FinishHistory ==
  ASSUME Mirroring, TypeInv, HistoryInv, UNCHANGED <<live, journal, durable>>, Finish
  PROVE  HistoryInv'
<1>1. PICK m : m = StateMsg([files |-> files, cursor |-> cursor'])
  OBVIOUS
<1>2. m.kind = "state" /\ m.state.files = files /\ m.state.cursor = cursor'
  BY <1>1 DEF StateMsg
<1>3. /\ pc = "transfer" /\ pc' = "done" /\ transfers = <<>> /\ channel' = Append(channel, m)
      /\ cursor' = IF sawError THEN cursor ELSE pageEnd
      /\ UNCHANGED <<files, pageEnd, ops>>
  BY <1>1 DEF Finish, listVars
<1>4. /\ DeletesSound(channel, pageEnd, live, journal)
      /\ Truthful(files, cursor, live, journal)
      /\ StatesTruthful(channel, live, journal)
      /\ pos = pageEnd /\ ops = <<>>
  BY <1>3 DEF HistoryInv, Sound, Maps, Phases, Underway, Listing
<1>5. Truthful(files, cursor', live, journal)
  <2>1. CASE sawError
    BY <1>3, <1>4, <2>1
  <2>2. CASE ~sawError
    <3>1. \A id \in Ids : Settled(live, journal, id, pageEnd) => Good(files[id], live[id])
      BY <1>3, <1>4, <2>2 DEF HistoryInv, ListedIsPlanned, Planned, PathPlanned, BytesPlanned, Good
    <3>2. cursor' = pageEnd
      BY <1>3, <2>2
    <3>3. QED
      BY <1>4, <3>1, <3>2 DEF Truthful
  <2>3. QED
    BY <2>1, <2>2
<1>6. /\ DeletesSound(channel', pageEnd, live, journal)
      /\ StatesTruthful(channel', live, journal)
  BY <1>2, <1>3, <1>4, <1>5, AttemptTypes, AppendedDeletes, AppendedStates
<1>7. FolderHistory(live', journal')
  BY DEF HistoryInv
<1>8. Phases'
  <2>1. (pc \in Listing \cup {"idle"} => ~sawError /\ channel = <<>>)'
    BY <1>3, Zenon DEF Listing
  <2>2. QED
    BY <1>3, <1>4, <2>1 DEF Phases, Underway, Listing
<1>9. Maps' /\ Sound'
  BY <1>3, <1>4, <1>6, NothingPlanned DEF HistoryInv, Maps, Sound, Underway, Listing
<1>10. ListedIsPlanned' /\ TombstonesTold'
  BY <1>3 DEF ListedIsPlanned, TombstonesTold
<1>11. QED
  BY <1>7, <1>8, <1>9, <1>10 DEF HistoryInv

-----------------------------------------------------------------------------
(* The destination and the platform.                                       *)

\* The destination does not change what the source knows.
LEMMA DeliverHistory ==
  ASSUME TypeInv, HistoryInv, Deliver
  PROVE  HistoryInv'
<1>1. /\ channel # <<>> /\ channel' = Tail(channel)
      /\ UNCHANGED <<live, journal, durable, files, cursor, pc, pos, pageEnd, more, inventory, todo, deleted,
                     consumed, ops, transfers, sawError>>
  BY DEF Deliver, folderVars, cursorVars, listVars, planVars
<1>2. pc \notin Listing \cup {"idle"}
  BY <1>1 DEF HistoryInv, Phases
<1>3. /\ DeletesSound(channel', pageEnd, live, journal)
      /\ StatesTruthful(channel', live, journal)
  BY <1>1, AttemptTypes, TailsSound DEF HistoryInv, Sound, Maps
<1>4. Phases'
  <2>1. (pc \in Listing \cup {"idle"} => ~sawError /\ channel = <<>>)'
    BY <1>1, <1>2, Zenon
  <2>2. QED
    BY <1>1, <2>1 DEF HistoryInv, Phases
<1>5. FolderHistory(live', journal') /\ Maps' /\ Sound'
  BY <1>1, <1>3 DEF HistoryInv, Maps, Sound
<1>6. ListedIsPlanned' /\ TombstonesTold'
  BY <1>1 DEF HistoryInv, ListedIsPlanned, TombstonesTold, Tracked, Exists
<1>7. QED
  BY <1>4, <1>5, <1>6 DEF HistoryInv

\* An attempt that ends leaves a durable state that is truthful.
LEMMA EndHistory ==
  ASSUME TypeInv, HistoryInv, Refuse \/ Checkpoint \/ SourceFailed \/ Abort
  PROVE  HistoryInv'
<1>1. EndAttempt /\ UNCHANGED <<live, journal>>
  BY DEF Refuse, Checkpoint, SourceFailed, Abort, folderVars
<1>2. /\ pc' = "idle" /\ channel' = <<>> /\ ops' = <<>> /\ transfers' = <<>> /\ deleted' = {}
      /\ consumed' = {} /\ sawError' = FALSE
  BY <1>1 DEF EndAttempt
<1>3. Truthful(durable'.files, durable'.cursor, live, journal)
  <2>1. CASE UNCHANGED durable
    BY <2>1 DEF HistoryInv, Maps
  <2>2. CASE Checkpoint
    <3>1. 1 \in DOMAIN channel /\ Head(channel) = channel[1] /\ channel[1].kind = "state"
      BY <2>2, AttemptTypes DEF Checkpoint
    <3>2. QED
      BY <2>2, <3>1 DEF Checkpoint, HistoryInv, Maps, StatesTruthful
  <2>3. QED
    BY <2>1, <2>2 DEF Refuse, SourceFailed, Abort
<1>4. FolderHistory(live', journal')
  BY <1>1 DEF HistoryInv
<1>5. Maps'
  BY <1>1, <1>2, <1>3 DEF Maps, StatesTruthful, Underway, Listing
<1>6. Phases'
  <2>1. (pc \in Listing \cup {"idle"} => ~sawError /\ channel = <<>>)'
    BY <1>2, Zenon
  <2>2. QED
    BY <1>2, <2>1 DEF Phases, Underway, Listing
<1>7. Sound'
  BY <1>2, NothingPlanned DEF Sound
<1>8. ListedIsPlanned' /\ TombstonesTold'
  BY <1>2 DEF ListedIsPlanned, TombstonesTold
<1>9. QED
  BY <1>4, <1>5, <1>6, <1>7, <1>8 DEF HistoryInv

-----------------------------------------------------------------------------
\* Every step keeps the invariant.
LEMMA HistoryInductive ==
  ASSUME Mirroring
  PROVE  TypeInv /\ HistoryInv /\ [Next]_vars => HistoryInv'
<1> SUFFICES ASSUME TypeInv, HistoryInv, [Next]_vars PROVE HistoryInv'
  OBVIOUS
<1>1. CASE Change
  BY <1>1, ChangeHistoryInv
<1>2. CASE Start
  BY <1>2, StartHistory
<1>3. CASE Source
  <2>1. SourceStep /\ UNCHANGED <<live, journal, durable>>
    BY <1>3 DEF Source, folderVars
  <2>2. CASE \E last \in 0 .. MaxEvents : DeltaPage(last)
    BY <2>1, <2>2, PageHistory
  <2>3. CASE DeltaEntry
    BY <2>1, <2>3, EntryHistory
  <2>4. CASE DeltaListed \/ TombstonesPlanned
    BY <2>1, <2>4, DeltaPlannedHistory
  <2>5. CASE \E p \in Paths : PlanTombstone(p)
    BY <2>1, <2>5, TombstoneHistory
  <2>6. CASE ListFolder \/ SnapshotListed
    BY <2>1, <2>6, ListHistory
  <2>7. CASE SnapshotPage
    BY <2>7 DEF SnapshotPage, HistoryInv, Phases
  <2>8. CASE \E id \in Ids : PlanInventory(id)
    BY <2>1, <2>8, InventoryHistory
  <2>9. CASE InventoryPlanned \/ RemovalsPlanned
    BY <2>1, <2>9, InventoryPlannedHistory
  <2>10. CASE \E id \in Ids : PlanRemoval(id)
    BY <2>1, <2>10, RemovalHistory
  <2>11. CASE EmitOperation
    BY <2>1, <2>11, EmitHistory
  <2>12. CASE OperationsEmitted
    BY <2>1, <2>12, EmittedHistory
  <2>13. CASE TransferFile
    BY <2>1, <2>13, TransferHistory
  <2>14. CASE Finish
    BY <2>1, <2>14, FinishHistory
  <2>15. QED
    BY <2>1, <2>2, <2>3, <2>4, <2>5, <2>6, <2>7, <2>8, <2>9, <2>10, <2>11, <2>12, <2>13, <2>14
    DEF SourceStep
<1>4. CASE Skip
  BY <1>4, SkipHistory DEF Skip, folderVars
<1>5. CASE Reset
  BY <1>5, ResetHistory DEF Reset, folderVars
<1>6. CASE Deliver
  BY <1>6, DeliverHistory
<1>7. CASE Refuse \/ Checkpoint \/ SourceFailed \/ Abort
  BY <1>7, EndHistory
<1>8. CASE UNCHANGED vars
  <2>1. UNCHANGED <<live, journal, durable, files, cursor, channel, pc, pos, pageEnd, more, inventory, todo,
                    deleted, consumed, ops, transfers, sawError>>
    BY <1>8 DEF vars, folderVars, sourceVars, cursorVars, listVars, planVars
  <2>2. FolderHistory(live', journal') /\ Maps' /\ Sound' /\ ListedIsPlanned' /\ TombstonesTold'
    BY <2>1 DEF HistoryInv, Maps, Sound, ListedIsPlanned, TombstonesTold, Tracked, Exists
  <2>3. Phases'
    <3>1. (pc \in Listing \cup {"idle"} => ~sawError /\ channel = <<>>)'
      BY <2>1, Zenon DEF HistoryInv, Phases
    <3>2. QED
      BY <2>1, <3>1 DEF HistoryInv, Phases
  <2>4. QED
    BY <2>2, <2>3 DEF HistoryInv
<1>9. QED
  BY <1>1, <1>2, <1>3, <1>4, <1>5, <1>6, <1>7, <1>8 DEF Next

\* It holds at first.
LEMMA HistoryInit == Init => HistoryInv
<1> SUFFICES ASSUME Init PROVE HistoryInv
  OBVIOUS
<1>1. /\ live = [id \in Ids |-> Absent] /\ journal = <<>>
      /\ pc = "idle" /\ channel = <<>> /\ ops = <<>> /\ transfers = <<>> /\ deleted = {} /\ consumed = {}
      /\ sawError = FALSE
      /\ durable.files = [id \in Ids |-> Absent]
  BY DEF Init, FolderInit, NoAttempt, NoState, NoFiles
<1>2. DOMAIN journal = {}
  BY <1>1
<1>3. FolderHistory(live, journal)
  BY <1>1, <1>2 DEF FolderHistory, HistoryOf, EventsIn
<1>4. Maps
  BY <1>1 DEF Maps, StatesTruthful, Truthful, Settled, Underway, Listing
<1>5. Phases
  <2>1. pc \in Listing \cup {"idle"} => ~sawError /\ channel = <<>>
    BY <1>1, Zenon
  <2>2. QED
    BY <1>1, <2>1 DEF Phases, Underway, Listing
<1>6. Sound /\ ListedIsPlanned /\ TombstonesTold
  BY <1>1, NothingPlanned DEF Sound, ListedIsPlanned, TombstonesTold, Underway, Listing
<1>7. QED
  BY <1>3, <1>4, <1>5, <1>6 DEF HistoryInv

\* Hence it holds of every reachable state.
LEMMA HistoryInvariant ==
  ASSUME Mirroring
  PROVE  Spec => [](TypeInv /\ HistoryInv)
<1>1. Init => TypeInv /\ HistoryInv
  BY InitTypeInv, HistoryInit
<1>2. TypeInv /\ HistoryInv /\ [Next]_vars => (TypeInv /\ HistoryInv)'
  BY TypeInvInductive, HistoryInductive
<1>3. QED
  BY <1>1, <1>2, PTL DEF Spec

\* A planned or travelling deletion is of a file that the folder does not hold any more as
\* far as it was listed (cursor.py plan_tombstones and the removals of a snapshot, reader.py
\* emitting them): the tombstone of a rename, or of a path that another file took, deletes
\* nothing that is there.
THEOREM DeletesJustified ==
  ASSUME Mirroring
  PROVE  Spec => []DeletesOnlyWhatIsGone
<1>1. HistoryInv => DeletesOnlyWhatIsGone
  <2> SUFFICES ASSUME HistoryInv PROVE DeletesOnlyWhatIsGone
    OBVIOUS
  <2>1. \A id : Gone(live, journal, id, pageEnd) => GoneAsListed(id)
    BY DEF Gone, GoneAt, GoneAsListed
  <2>2. QED
    BY <2>1 DEF HistoryInv, Sound, DeletesSound, DeletesOnlyWhatIsGone, Deletions
<1>2. QED
  BY <1>1, HistoryInvariant, PTL

-----------------------------------------------------------------------------
(* That no change is lost.  Only the files a listing has to show are       *)
(* looked at, and the paths of the map only where deletions are planned    *)
(* from them.                                                              *)

\* What it holds under: deletions are ignored, or renames are propagated and the folder
\* does not change while it is listed.
Recording == DeletePolicy = "ignore" \/ (RenamePolicy = "propagate" /\ ~Paged)

\* File id is one to copy, and every change of it lies at or before position c.
Wanted(l, j, id, c) ==
    Settled(l, j, id, c) /\ Selected(l[id].path) /\ ~TooLarge(l[id].rev)

AsHeld(entry, version) ==
    /\ entry.rev = version.rev
    /\ DeletePolicy = "delete" => entry.path = version.path

UpToDate(map, c, l, j) == \A id \in Ids : Wanted(l, j, id, c) => AsHeld(map[id], l[id])

StatesUpToDate(s, l, j) ==
    \A i \in DOMAIN s : s[i].kind = "state" => UpToDate(s[i].state.files, s[i].state.cursor, l, j)

\* What is planned for a file that has not changed since leads to where it is, and deletes
\* no such file.
MovesLead(o, n, l, j) ==
    \A i \in DOMAIN o : o[i].kind = "move" /\ DeletePolicy = "delete" =>
        (Wanted(l, j, o[i].id, n) => o[i].new = l[o[i].id].path)

TransfersLead(t, n, l, j) ==
    \A i \in DOMAIN t : DeletePolicy = "delete" =>
        (Wanted(l, j, t[i].id, n) => t[i].path = l[t[i].id].path)

DeletesSpare(o, n, l, j) ==
    \A i \in DOMAIN o : o[i].kind = "delete" =>
        DeletePolicy = "delete" /\ ~Wanted(l, j, o[i].id, n)

Leads(o, t, n, l, j) == MovesLead(o, n, l, j) /\ TransfersLead(t, n, l, j) /\ DeletesSpare(o, n, l, j)

\* The map is right about the file once the transfers, and the moves, are made.
Scheduled(m, o, t, l, id) ==
    /\ m[id].rev = l[id].rev \/ \E i \in DOMAIN t : t[i].id = id
    /\ DeletePolicy = "delete" => PathPlanned(m, o, l, id)

Positions ==
    /\ pc \in {"idle", "snapshot", "relist"} => ops = <<>> /\ transfers = <<>>
    /\ pc = "idle" => deleted = {}
    /\ pc \in Underway \ {"snapshot"} => cursor <= pos
    /\ pc \in Underway \ {"delta", "snapshot"} => pos = pageEnd
    /\ pc = "delta" /\ more /\ DeletePolicy = "delete" =>
          ops = <<>> /\ transfers = <<>> /\ pos = pageEnd
    /\ pc \in {"tombstones", "removals"} => DeletePolicy = "delete"
    /\ pc \in {"transfer", "done"} => ops = <<>>

MapsUpToDate ==
    /\ UpToDate(durable.files, durable.cursor, live, journal)
    /\ pc \in Underway => UpToDate(files, cursor, live, journal)
    /\ StatesUpToDate(channel, live, journal)

\* What is listed is in the inventory of a snapshot and is scheduled.
WantedIsScheduled ==
    /\ \/ pc \in {"delta", "tombstones", "removals", "emit"}
       \/ pc = "transfer" /\ ~sawError
       => \A id \in Ids : Wanted(live, journal, id, pos) => Scheduled(files, ops, transfers, live, id)
    /\ pc \in {"relist", "inventory"} =>
          \A id \in Ids : Wanted(live, journal, id, pos) => inventory[id] = live[id]
    /\ pc = "inventory" =>
          \A id \in Ids \ todo : Wanted(live, journal, id, pos) =>
              Scheduled(files, ops, transfers, live, id)
    /\ pc = "removals" => \A id \in todo : ~Wanted(live, journal, id, pos)

\* Where deletions are planned, the tombstone of a renamed file is known as one.
RenamesTold ==
    pc \in {"delta", "tombstones"} /\ DeletePolicy = "delete" =>
        /\ \A id \in Ids :
              Wanted(live, journal, id, pos) /\ Tracked(id) /\ files[id].path # live[id].path =>
                  Fold[files[id].path] \in consumed
        /\ \A p \in deleted : \E m \in DOMAIN journal :
              journal[m].id = 0 /\ journal[m].path = p /\ LatestIn(journal, m)

KeptInv ==
    /\ FolderHistory(live, journal)
    /\ Positions
    /\ MapsUpToDate
    /\ pc \in Underway => Leads(ops, transfers, pageEnd, live, journal)
    /\ WantedIsScheduled
    /\ RenamesTold

\* What is wanted after a change was wanted before and is the same file.
LEMMA WantedStays ==
  ASSUME NEW l, NEW j, NEW l2, NEW j2, NEW id \in Ids, ChangeOf(l, j, l2, j2, id),
         NEW c \in Int, c <= Len(j), NEW o \in Ids, Wanted(l2, j2, o, c)
  PROVE  Wanted(l, j, o, c) /\ l2[o] = l[o]
BY SettledStays DEF Wanted

\* What is wanted as of a position is wanted as of a later one.
LEMMA WantedLater ==
  ASSUME NEW l, NEW j \in Seq(Event), NEW id, NEW c \in Int, NEW n \in Int, c <= n, Wanted(l, j, id, c)
  PROVE  Wanted(l, j, id, n)
<1>1. ASSUME NEW k \in EventsIn(j, id) PROVE k <= n
  <2>1. k \in Int /\ k <= c
    BY <1>1 DEF EventsIn, Wanted, Settled
  <2>2. QED
    BY <2>1
<1>2. QED
  BY <1>1 DEF Wanted, Settled

\* A map that is up to date stays so when the folder changes.
LEMMA UpToDateStays ==
  ASSUME NEW l, NEW j, NEW l2, NEW j2, NEW id \in Ids, ChangeOf(l, j, l2, j2, id),
         NEW c \in Int, c <= Len(j), NEW map, UpToDate(map, c, l, j)
  PROVE  UpToDate(map, c, l2, j2)
BY WantedStays DEF UpToDate

\* So do the states that were sent.
LEMMA SentUpToDateStays ==
  ASSUME NEW l, NEW j, NEW l2, NEW j2, NEW id \in Ids, ChangeOf(l, j, l2, j2, id),
         NEW s, \A i \in DOMAIN s : s[i].kind = "state" =>
                    s[i].state.cursor \in Int /\ s[i].state.cursor <= Len(j),
         StatesUpToDate(s, l, j)
  PROVE  StatesUpToDate(s, l2, j2)
BY UpToDateStays DEF StatesUpToDate

\* Plans that lead to where files are do so still.
LEMMA LeadsStay ==
  ASSUME NEW l, NEW j, NEW l2, NEW j2, NEW id \in Ids, ChangeOf(l, j, l2, j2, id),
         NEW n \in Nat, n <= Len(j), NEW t, \A i \in DOMAIN t : t[i].id \in Ids,
         NEW o, \A i \in DOMAIN o : o[i].id \in Ids, Leads(o, t, n, l, j)
  PROVE  Leads(o, t, n, l2, j2)
<1>1. MovesLead(o, n, l2, j2)
  BY WantedStays DEF Leads, MovesLead
<1>2. TransfersLead(t, n, l2, j2)
  BY WantedStays DEF Leads, TransfersLead
<1>3. DeletesSpare(o, n, l2, j2)
  BY WantedStays DEF Leads, DeletesSpare
<1>4. QED
  BY <1>1, <1>2, <1>3 DEF Leads

\* A file that is scheduled and has not changed since is scheduled still.
LEMMA ScheduledStays ==
  ASSUME NEW m, NEW o, NEW t, NEW l, NEW l2, NEW id, l2[id] = l[id], Scheduled(m, o, t, l, id)
  PROVE  Scheduled(m, o, t, l2, id)
BY DEF Scheduled, PathPlanned

\* Nothing is wrong with plans that are empty.
LEMMA NothingLeads ==
  ASSUME NEW n, NEW l, NEW j
  PROVE  Leads(<<>>, <<>>, n, l, j)
BY DEF Leads, MovesLead, TransfersLead, DeletesSpare

\* Planned operations and transfers are of files.
LEMMA PlannedIds ==
  ASSUME TypeInv
  PROVE  (\A i \in DOMAIN ops : ops[i].id \in Ids) /\ (\A i \in DOMAIN transfers : transfers[i].id \in Ids)
<1>1. transfers \in Seq(Transfers)
  BY AttemptTypes
<1>2. ASSUME NEW i \in DOMAIN transfers PROVE transfers[i].id \in Ids
  <2>1. transfers[i] \in Transfers
    BY <1>1
  <2>2. QED
    BY <2>1 DEF Transfers
<1>3. QED
  BY <1>2, SentTypes

-----------------------------------------------------------------------------
\* A change of the folder, which happens while something is listed only if nothing is deleted.
LEMMA ChangeKept ==
  ASSUME Recording, TypeInv, KeptInv, Change
  PROVE  KeptInv'
<1>1. PICK id \in Ids : ChangeOf(live, journal, live', journal', id)
  BY FolderChanges DEF KeptInv, Change
<1>2. /\ UNCHANGED <<files, cursor, pc, pos, pageEnd, more, inventory, todo, deleted, consumed, ops,
                     transfers, sawError, channel, durable>>
      /\ pc \in {"idle", "transfer"} \/ (pc \in {"delta", "relist"} /\ Paged)
  BY DEF Change, AwaitsDropbox, sourceVars, cursorVars, listVars, planVars
<1>3. FolderHistory(live', journal')
  BY <1>1, HistoryKept DEF KeptInv
<1>4. Positions'
  BY <1>2, Zenon DEF KeptInv, Positions, Underway, Listing
<1>5. MapsUpToDate'
  <2>1. UpToDate(durable.files, durable.cursor, live', journal')
    BY <1>1, AttemptTypes, UpToDateStays DEF KeptInv, MapsUpToDate
  <2>2. pc \in Underway => UpToDate(files, cursor, live', journal')
    BY <1>1, AttemptTypes, UpToDateStays DEF KeptInv, MapsUpToDate
  <2>3. StatesUpToDate(channel, live', journal')
    BY <1>1, SentTypes, SentUpToDateStays DEF KeptInv, MapsUpToDate
  <2>4. QED
    BY <1>2, <2>1, <2>2, <2>3 DEF MapsUpToDate
<1>6. (pc \in Underway => Leads(ops, transfers, pageEnd, live, journal))'
  BY <1>1, <1>2, AttemptTypes, PlannedIds, LeadsStay DEF KeptInv
<1>7. ASSUME NEW o \in Ids, Wanted(live', journal', o, pos)
      PROVE  Wanted(live, journal, o, pos) /\ live'[o] = live[o]
  <2>1. pos \in Int /\ pos <= Len(journal)
    BY AttemptTypes
  <2>2. QED
    BY <1>1, <1>7, <2>1, WantedStays
<1>8. WantedIsScheduled'
  <2>1. ASSUME NEW o \in Ids, Wanted(live', journal', o, pos), Scheduled(files, ops, transfers, live, o)
        PROVE  Scheduled(files, ops, transfers, live', o)
    BY <1>7, <2>1, ScheduledStays
  <2>2. QED
    BY <1>2, <1>7, <2>1 DEF KeptInv, WantedIsScheduled
<1>9. RenamesTold'
  <2>1. pc \in {"delta", "tombstones"} => DeletePolicy # "delete"
    BY <1>2, Zenon DEF Recording
  <2>2. QED
    BY <1>2, <2>1 DEF RenamesTold
<1>10. QED
  BY <1>3, <1>4, <1>5, <1>6, <1>8, <1>9 DEF KeptInv

-----------------------------------------------------------------------------
(* Planning.                                                               *)

\* What the planning of file id, listed as e, adds.
TransfersAdd(t, id, e) ==
    /\ \A i \in DOMAIN transfers : i \in DOMAIN t /\ t[i] = transfers[i]
    /\ \A i \in DOMAIN t : i \in DOMAIN transfers
                             \/ (t[i].id = id /\ (DeletePolicy = "delete" => t[i].path = e.path))
    /\ files[id].rev # e.rev => \E i \in DOMAIN t : t[i].id = id

OpsAdd(o, id, e) ==
    /\ \A i \in DOMAIN ops : i \in DOMAIN o /\ o[i] = ops[i]
    /\ \A i \in DOMAIN o : i \in DOMAIN ops \/ (o[i].kind = "move" /\ o[i].id = id /\ o[i].new = e.path)
    /\ DeletePolicy = "delete" /\ files[id] # Absent /\ files[id].path # e.path =>
          \E i \in DOMAIN o : o[i].kind = "move" /\ o[i].id = id

\* An element that is appended is the only new one.
LEMMA Appended ==
  ASSUME NEW T, NEW s \in Seq(T), NEW x
  PROVE  /\ \A i \in DOMAIN s : i \in DOMAIN (s \o <<x>>) /\ (s \o <<x>>)[i] = s[i]
         /\ \A i \in DOMAIN (s \o <<x>>) : i \in DOMAIN s \/ (s \o <<x>>)[i] = x
         /\ \E i \in DOMAIN (s \o <<x>>) : (s \o <<x>>)[i] = x
<1>1. PICK t : t = s \o <<x>>
  OBVIOUS
<1>2. /\ Len(t) = Len(s) + 1 /\ t[Len(s) + 1] = x /\ Len(s) \in Nat
      /\ DOMAIN t = 1 .. (Len(s) + 1) /\ DOMAIN s = 1 .. Len(s)
      /\ \A i \in DOMAIN s : t[i] = s[i]
  BY <1>1
<1>3. \A i \in DOMAIN s : i \in DOMAIN t
  BY <1>2
<1>4. \A i \in DOMAIN t : i \in DOMAIN s \/ i = Len(s) + 1
  BY <1>2
<1>5. Len(s) + 1 \in DOMAIN t
  BY <1>2
<1>6. QED
  BY <1>1, <1>2, <1>3, <1>4, <1>5

\* What planning a file adds is for that file, and no deletion.
LEMMA FileAdds ==
  ASSUME Recording, TypeInv, NEW id \in Ids, NEW e
  PROVE  /\ OpsAdd(ops \o PlannedOps(id, e), id, e)
         /\ TransfersAdd(transfers \o PlannedTransfers(id, e), id, e)
<1>1. ops \in Seq(MoveOps \cup DeleteOps) /\ transfers \in Seq(Transfers) /\ files \in FileMap
  BY AttemptTypes
<1>2. ops \o <<>> = ops /\ transfers \o <<>> = transfers
  BY <1>1
<1>3. DeletePolicy = "delete" => RenamePolicy = "propagate"
  BY DEF Recording
<1>4. OpsAdd(ops \o PlannedOps(id, e), id, e)
  <2>1. CASE Tracked(id) /\ files[id].path # e.path /\ RenamePolicy = "propagate"
    <3>1. PICK op : op = MoveOp(id, files[id], e)
      OBVIOUS
    <3>2. op.kind = "move" /\ op.id = id /\ op.new = e.path
      BY <3>1 DEF MoveOp
    <3>3. PlannedOps(id, e) = <<op>>
      BY <2>1, <3>1 DEF PlannedOps
    <3>4. PICK o : o = ops \o <<op>>
      OBVIOUS
    <3>5. /\ \A i \in DOMAIN ops : i \in DOMAIN o /\ o[i] = ops[i]
          /\ \A i \in DOMAIN o : i \in DOMAIN ops \/ o[i] = op
          /\ \E i \in DOMAIN o : o[i] = op
      BY <1>1, <3>4, Appended
    <3>6. OpsAdd(o, id, e)
      BY <3>2, <3>5 DEF OpsAdd
    <3>7. QED
      BY <3>3, <3>4, <3>6
  <2>2. CASE ~(Tracked(id) /\ files[id].path # e.path /\ RenamePolicy = "propagate")
    <3>1. PlannedOps(id, e) = <<>>
      BY <2>2 DEF PlannedOps
    <3>2. OpsAdd(ops, id, e)
      BY <1>3, <2>2 DEF OpsAdd, Tracked
    <3>3. QED
      BY <1>2, <3>1, <3>2
  <2>3. QED
    BY <2>1, <2>2
<1>5. TransfersAdd(transfers \o PlannedTransfers(id, e), id, e)
  <2>1. CASE ~Tracked(id) \/ BytesChanged(files[id], e)
    <3>1. PICK x : /\ PlannedTransfers(id, e) = <<x>>
                   /\ x.id = id /\ (DeletePolicy = "delete" => x.path = e.path)
      <4>1. CASE ~Tracked(id)
        BY <4>1 DEF PlannedTransfers, Transfer
      <4>2. CASE Tracked(id)
        <5>1. PlannedTransfers(id, e) =
                <<Transfer(id, IF RenamePolicy = "propagate" THEN e.path ELSE files[id].path, e.rev)>>
          BY <2>1, <4>2 DEF PlannedTransfers
        <5>2. QED
          BY <1>3, <5>1 DEF Transfer
      <4>3. QED
        BY <4>1, <4>2
    <3>2. PICK t : t = transfers \o <<x>>
      OBVIOUS
    <3>3. /\ \A i \in DOMAIN transfers : i \in DOMAIN t /\ t[i] = transfers[i]
          /\ \A i \in DOMAIN t : i \in DOMAIN transfers \/ t[i] = x
          /\ \E i \in DOMAIN t : t[i] = x
      BY <1>1, <3>2, Appended
    <3>4. TransfersAdd(t, id, e)
      BY <3>1, <3>3 DEF TransfersAdd
    <3>5. QED
      BY <3>1, <3>2, <3>4
  <2>2. CASE Tracked(id) /\ ~BytesChanged(files[id], e)
    <3>1. PlannedTransfers(id, e) = <<>> /\ files[id].rev = e.rev
      BY <2>2 DEF PlannedTransfers, BytesChanged
    <3>2. TransfersAdd(transfers, id, e)
      BY <3>1 DEF TransfersAdd
    <3>3. QED
      BY <1>2, <3>1, <3>2
  <2>3. QED
    BY <2>1, <2>2
<1>6. QED
  BY <1>4, <1>5

\* Planning file id as the folder holds it schedules it, and what was scheduled stays so.
LEMMA ScheduledNow ==
  ASSUME NEW id, NEW e, NEW o, OpsAdd(o, id, e), NEW t, TransfersAdd(t, id, e)
  PROVE  /\ live[id].path = e.path /\ live[id].rev = e.rev => Scheduled(files, o, t, live, id)
         /\ \A other : Scheduled(files, ops, transfers, live, other) => Scheduled(files, o, t, live, other)
BY DEF OpsAdd, TransfersAdd, Scheduled, PathPlanned

\* Planning a file leads to where it is, if it was listed as it is or has changed since.
LEMMA LeadsNow ==
  ASSUME NEW id, NEW e, NEW o, OpsAdd(o, id, e), NEW t, TransfersAdd(t, id, e) \/ t = transfers,
         NEW n, Leads(ops, transfers, n, live, journal),
         Wanted(live, journal, id, n) => live[id].path = e.path
  PROVE  Leads(o, t, n, live, journal)
<1>1. MovesLead(o, n, live, journal)
  BY DEF Leads, MovesLead, OpsAdd
<1>2. TransfersLead(t, n, live, journal)
  BY DEF Leads, TransfersLead, TransfersAdd
<1>3. DeletesSpare(o, n, live, journal)
  <2>1. ASSUME NEW i \in DOMAIN o, o[i].kind = "delete"
        PROVE  DeletePolicy = "delete" /\ ~Wanted(live, journal, o[i].id, n)
    <3>1. i \in DOMAIN ops /\ o[i] = ops[i]
      BY <2>1 DEF OpsAdd
    <3>2. QED
      BY <2>1, <3>1 DEF Leads, DeletesSpare
  <2>2. QED
    BY <2>1 DEF DeletesSpare
<1>4. QED
  BY <1>1, <1>2, <1>3 DEF Leads

\* Deleting a file that is not wanted spares the others.
LEMMA DeleteLeads ==
  ASSUME TypeInv, NEW id \in Ids, NEW n, Leads(ops, transfers, n, live, journal),
         DeletePolicy = "delete", ~Wanted(live, journal, id, n),
         NEW o, o = Append(ops, DeleteOp(id, files[id]))
  PROVE  /\ Leads(o, transfers, n, live, journal)
         /\ \A other : Scheduled(files, ops, transfers, live, other) =>
                           Scheduled(files, o, transfers, live, other)
<1>1. PICK op : op = DeleteOp(id, files[id])
  OBVIOUS
<1>2. op.kind = "delete" /\ op.id = id
  BY <1>1 DEF DeleteOp
<1>3. /\ \A i \in DOMAIN ops : i \in DOMAIN o /\ o[i] = ops[i]
      /\ \A i \in DOMAIN o : i \in DOMAIN ops \/ o[i] = op
  <2>1. ops \in Seq(MoveOps \cup DeleteOps) /\ o = Append(ops, op)
    BY <1>1, AttemptTypes
  <2>2. QED
    BY <2>1
<1>4. MovesLead(o, n, live, journal) /\ DeletesSpare(o, n, live, journal)
  BY <1>2, <1>3 DEF Leads, MovesLead, DeletesSpare
<1>5. \A other : Scheduled(files, ops, transfers, live, other) =>
                     Scheduled(files, o, transfers, live, other)
  BY <1>3 DEF Scheduled, PathPlanned
<1>6. QED
  BY <1>4, <1>5 DEF Leads

-----------------------------------------------------------------------------
(* The steps of an attempt.                                                *)

\* A step that leaves the folder, the durable state, the map and the channel alone.
LEMMA QuietKept ==
  ASSUME KeptInv, UNCHANGED <<live, journal, durable, files, cursor, channel>>, pc \in Underway
  PROVE  FolderHistory(live', journal') /\ MapsUpToDate'
BY DEF KeptInv, MapsUpToDate

\* While deletions are ignored no path matters and nothing is deleted.
LEMMA LeadsAnyway ==
  ASSUME NEW o, NEW t, NEW n, NEW m, NEW l, NEW j, Leads(o, t, n, l, j), DeletePolicy # "delete"
  PROVE  Leads(o, t, m, l, j)
BY DEF Leads, MovesLead, TransfersLead, DeletesSpare

\* An attempt starts from the durable state.
LEMMA StartKept ==
  ASSUME TypeInv, KeptInv, Start
  PROVE  KeptInv'
<1>1. /\ pc = "idle" /\ files' = durable.files /\ cursor' = durable.cursor
      /\ UNCHANGED <<live, journal, durable, inventory, todo, deleted, consumed, ops, transfers,
                     sawError, channel>>
      /\ \/ pc' = "delta" /\ pos' = durable.cursor /\ pageEnd' = durable.cursor
         \/ pc' = "snapshot"
  BY DEF Start, StartAttempt, SetInitialState, folderVars, planVars
<1>2. ops = <<>> /\ transfers = <<>> /\ deleted = {}
  BY <1>1 DEF KeptInv, Positions
<1>3. UpToDate(durable.files, durable.cursor, live, journal)
  BY DEF KeptInv, MapsUpToDate
<1>4. FolderHistory(live', journal')
  BY <1>1 DEF KeptInv
<1>5. MapsUpToDate'
  BY <1>1, <1>3 DEF KeptInv, MapsUpToDate
<1>6. Positions'
  <2>1. durable.cursor \in Int
    BY AttemptTypes
  <2>2. CASE pc' = "delta" /\ pos' = durable.cursor /\ pageEnd' = durable.cursor
    BY <1>1, <1>2, <2>1, <2>2 DEF Positions, Underway, Listing
  <2>3. CASE pc' = "snapshot"
    BY <1>1, <1>2, <2>3 DEF Positions, Underway, Listing
  <2>4. QED
    BY <1>1, <2>2, <2>3
<1>7. (pc \in Underway => Leads(ops, transfers, pageEnd, live, journal))'
  BY <1>1, <1>2, NothingLeads
<1>8. ASSUME NEW id \in Ids, Wanted(live, journal, id, durable.cursor)
      PROVE  /\ Scheduled(durable.files, ops, transfers, live, id)
             /\ DeletePolicy = "delete" => durable.files[id].path = live[id].path
  BY <1>3, <1>8 DEF UpToDate, AsHeld, Scheduled, PathPlanned
<1>9. WantedIsScheduled'
  BY <1>1, <1>8 DEF WantedIsScheduled
<1>10. RenamesTold'
  BY <1>1, <1>2, <1>8 DEF RenamesTold, Tracked
<1>11. QED
  BY <1>4, <1>5, <1>6, <1>7, <1>9, <1>10 DEF KeptInv

\* A page of the change feed.
LEMMA PageKept ==
  ASSUME Recording, TypeInv, KeptInv, UNCHANGED <<live, journal, durable>>, NEW last, DeltaPage(last)
  PROVE  KeptInv'
<1>1. /\ pc = "delta" /\ pc' = "delta" /\ pos = pageEnd /\ more
      /\ UNCHANGED <<files, cursor, channel, pos, inventory, todo, deleted, consumed, ops, transfers,
                     sawError>>
      /\ more' = (last < Len(journal)) /\ (last < Len(journal) => Paged)
  BY DEF DeltaPage, cursorVars, planVars
<1>2. DeletePolicy = "delete" => ~more'
  BY <1>1, Zenon DEF Recording
<1>3. FolderHistory(live', journal') /\ MapsUpToDate'
  BY <1>1, QuietKept DEF Underway, Listing
<1>4. Positions'
  <2>1. cursor <= pos
    BY <1>1 DEF KeptInv, Positions, Underway, Listing
  <2>2. QED
    BY <1>1, <1>2, <2>1 DEF Positions, Underway, Listing
<1>5. (pc \in Underway => Leads(ops, transfers, pageEnd, live, journal))'
  <2>1. CASE DeletePolicy = "delete"
    <3>1. ops = <<>> /\ transfers = <<>>
      BY <1>1, <2>1 DEF KeptInv, Positions
    <3>2. QED
      BY <1>1, <3>1, NothingLeads
  <2>2. CASE DeletePolicy # "delete"
    BY <1>1, <2>2, LeadsAnyway DEF KeptInv, Underway, Listing
  <2>3. QED
    BY <2>1, <2>2
<1>6. WantedIsScheduled' /\ RenamesTold'
  BY <1>1 DEF KeptInv, WantedIsScheduled, RenamesTold, Tracked
<1>7. QED
  BY <1>3, <1>4, <1>5, <1>6 DEF KeptInv

\* A cursor that was reset leads to a snapshot.
LEMMA ResetKept ==
  ASSUME TypeInv, KeptInv, UNCHANGED <<live, journal, durable>>, CursorReset
  PROVE  KeptInv'
<1>1. /\ pc = "delta" /\ pc' = "snapshot" /\ UNCHANGED <<files, cursor, channel>>
      /\ ops' = <<>> /\ transfers' = <<>>
  BY DEF CursorReset, cursorVars
<1>2. FolderHistory(live', journal') /\ MapsUpToDate'
  BY <1>1, QuietKept DEF Underway, Listing
<1>3. Positions'
  BY <1>1 DEF Positions, Underway, Listing
<1>4. (pc \in Underway => Leads(ops, transfers, pageEnd, live, journal))'
  BY <1>1, NothingLeads
<1>5. WantedIsScheduled' /\ RenamesTold'
  BY <1>1 DEF WantedIsScheduled, RenamesTold
<1>6. QED
  BY <1>2, <1>3, <1>4, <1>5 DEF KeptInv

\* A listed entry is scheduled, or left to the tombstones.
LEMMA EntryKept ==
  ASSUME Recording, TypeInv, KeptInv, UNCHANGED <<live, journal, durable>>, DeltaEntry
  PROVE  KeptInv'
<1> DEFINE e == journal[pos + 1]
<1>1. /\ pc = "delta" /\ pc' = "delta" /\ pos < pageEnd /\ pos' = pos + 1
      /\ UNCHANGED <<files, cursor, channel, pageEnd, more, inventory, todo, sawError>>
  BY DEF DeltaEntry, cursorVars
<1>2. \/ ~Latest(pos + 1) /\ UNCHANGED <<deleted, consumed, ops, transfers>>
      \/ /\ Latest(pos + 1) /\ e.id = 0 /\ deleted' = deleted \cup {e.path}
         /\ UNCHANGED <<consumed, ops, transfers>>
      \/ Latest(pos + 1) /\ e.id # 0 /\ PlanChangedFile(e)
  BY DEF DeltaEntry
<1>3. /\ pos \in Nat /\ pageEnd \in Nat /\ cursor \in Int /\ journal \in Seq(Event)
      /\ pos + 1 \in DOMAIN journal /\ e \in Event /\ cursor <= pos
  <2>1. /\ pos \in Nat /\ pageEnd \in Nat /\ cursor \in Int /\ journal \in Seq(Event)
        /\ pageEnd <= Len(journal)
    BY AttemptTypes
  <2>2. pos + 1 \in DOMAIN journal
    BY <1>1, <2>1
  <2>3. cursor <= pos
    BY <1>1 DEF KeptInv, Positions, Underway, Listing
  <2>4. e \in Event
    BY <2>1, <2>2
  <2>5. QED
    BY <2>1, <2>2, <2>3, <2>4
<1>4. Latest(pos + 1) <=> LatestIn(journal, pos + 1)
  BY DEF Latest, LatestIn
<1>5. /\ FolderHistory(live, journal)
      /\ Leads(ops, transfers, pageEnd, live, journal)
      /\ \A id \in Ids : Wanted(live, journal, id, pos) => Scheduled(files, ops, transfers, live, id)
  BY <1>1 DEF KeptInv, WantedIsScheduled, Underway, Listing
<1>6. FolderHistory(live', journal') /\ MapsUpToDate'
  BY <1>1, QuietKept DEF Underway, Listing
<1>7. Positions'
  <2>1. ~(more /\ DeletePolicy = "delete")
    BY <1>1, <1>3 DEF KeptInv, Positions
  <2>2. cursor <= pos + 1
    BY <1>3
  <2>3. QED
    BY <1>1, <2>1, <2>2 DEF Positions, Underway, Listing
<1>8. ASSUME NEW id \in Ids, Wanted(live, journal, id, pos + 1), ~Wanted(live, journal, id, pos)
      PROVE  /\ e.id = id /\ id # 0 /\ Latest(pos + 1)
             /\ e.path = live[id].path /\ e.rev = live[id].rev
             /\ Selected(e.path) /\ ~TooLarge(e.rev)
  <2>1. Settled(live, journal, id, pos + 1) /\ ~Settled(live, journal, id, pos) /\ live[id] # Absent
    BY <1>8 DEF Wanted, Settled
  <2>2. pos + 1 \in EventsIn(journal, id) /\ \A i \in EventsIn(journal, id) : i <= pos + 1
    BY <1>3, <2>1, SettlesWith
  <2>3. Current(live, journal, id, pos + 1)
    BY <1>3, <1>5, <2>1, <2>2, ListedIsCurrent DEF FolderHistory
  <2>4. id # 0
    BY FolderAssumption
  <2>5. QED
    BY <1>4, <1>8, <2>2, <2>3, <2>4 DEF Current, EventsIn, Wanted
<1>9. DeletePolicy = "delete" =>
        /\ \A id \in Ids : Wanted(live, journal, id, pos) /\ Tracked(id) /\ files[id].path # live[id].path
              => Fold[files[id].path] \in consumed
        /\ \A p \in deleted : \E m \in DOMAIN journal :
              journal[m].id = 0 /\ journal[m].path = p /\ LatestIn(journal, m)
  BY <1>1 DEF KeptInv, RenamesTold
<1>10. CASE /\ UNCHANGED <<consumed, ops, transfers>>
            /\ e.id = 0 \/ TooLarge(e.rev) \/ ~Selected(e.path) \/ ~Latest(pos + 1)
  <2>1. \A id \in Ids : Wanted(live, journal, id, pos + 1) => Wanted(live, journal, id, pos)
    BY <1>8, <1>10
  <2>2. ASSUME DeletePolicy = "delete", NEW p \in deleted'
        PROVE  \E m \in DOMAIN journal : journal[m].id = 0 /\ journal[m].path = p /\ LatestIn(journal, m)
    <3>1. CASE p \in deleted
      BY <1>9, <2>2, <3>1
    <3>2. CASE p \notin deleted
      <4>1. p = e.path /\ e.id = 0 /\ Latest(pos + 1)
        BY <1>2, <2>2, <3>2 DEF PlanChangedFile
      <4>2. QED
        BY <1>3, <1>4, <4>1
    <3>3. QED
      BY <3>1, <3>2
  <2>3. (pc \in Underway => Leads(ops, transfers, pageEnd, live, journal))'
    BY <1>1, <1>5, <1>10
  <2>4. WantedIsScheduled'
    BY <1>1, <1>5, <1>10, <2>1 DEF WantedIsScheduled
  <2>5. RenamesTold'
    BY <1>1, <1>9, <1>10, <2>1, <2>2 DEF RenamesTold, Tracked
  <2>6. QED
    BY <1>6, <1>7, <2>3, <2>4, <2>5 DEF KeptInv
<1>11. CASE Latest(pos + 1) /\ e.id # 0 /\ PlanChangedFile(e) /\ ~TooLarge(e.rev) /\ Selected(e.path)
  <2>1. e.id \in Ids
    BY <1>3, <1>11 DEF Event
  <2>2. PICK id \in Ids : id = e.id
    BY <2>1
  <2>3. /\ UNCHANGED deleted
        /\ consumed' = IF Tracked(id) /\ files[id].path # e.path
                         THEN consumed \cup {Fold[files[id].path]} ELSE consumed
        /\ ops' = ops \o PlannedOps(id, e)
        /\ transfers' = transfers \o PlannedTransfers(id, e)
    BY <1>11, <2>2 DEF PlanChangedFile
  <2>4. OpsAdd(ops', id, e) /\ TransfersAdd(transfers', id, e)
    BY <2>3, FileAdds
  <2>5. pos + 1 \in EventsIn(journal, id)
    BY <1>3, <2>2 DEF EventsIn
  <2>6. live[id] # Absent => live[id].path = e.path /\ live[id].rev = e.rev
    BY <1>3, <1>4, <1>5, <1>11, <2>5, ListedIsCurrent DEF FolderHistory, Current
  <2>7. Leads(ops', transfers', pageEnd, live, journal)
    BY <1>5, <2>4, <2>6, LeadsNow DEF Wanted, Settled
  <2>8. /\ live[id].path = e.path /\ live[id].rev = e.rev => Scheduled(files, ops', transfers', live, id)
        /\ \A other : Scheduled(files, ops, transfers, live, other) =>
                          Scheduled(files, ops', transfers', live, other)
    BY <2>4, ScheduledNow
  <2>9. WantedIsScheduled'
    <3>1. ASSUME NEW o \in Ids, Wanted(live, journal, o, pos + 1)
          PROVE  Scheduled(files, ops', transfers', live, o)
      BY <1>5, <1>8, <2>2, <2>8, <3>1
    <3>2. QED
      BY <1>1, <3>1 DEF WantedIsScheduled
  <2>10. RenamesTold'
    <3>1. ASSUME DeletePolicy = "delete", NEW o \in Ids, Wanted(live, journal, o, pos + 1), Tracked(o),
                 files[o].path # live[o].path
          PROVE  Fold[files[o].path] \in consumed'
      BY <1>8, <1>9, <2>2, <2>3, <3>1
    <3>2. QED
      BY <1>1, <1>9, <2>3, <3>1 DEF RenamesTold, Tracked
  <2>11. QED
    BY <1>1, <1>6, <1>7, <2>7, <2>9, <2>10 DEF KeptInv
<1>12. QED
  <2>1. Latest(pos + 1) /\ e.id # 0 /\ PlanChangedFile(e) /\ (TooLarge(e.rev) \/ ~Selected(e.path))
        => UNCHANGED <<consumed, ops, transfers>>
    BY DEF PlanChangedFile
  <2>2. QED
    BY <1>2, <1>10, <1>11, <2>1

\* The last listed entry leads to the tombstones, the last tombstone to the emission.
LEMMA DeltaPlannedKept ==
  ASSUME TypeInv, KeptInv, UNCHANGED <<live, journal, durable>>, DeltaListed \/ TombstonesPlanned
  PROVE  KeptInv'
<1>1. /\ pc \in {"delta", "tombstones"} /\ pc' \in {"tombstones", "emit"}
      /\ UNCHANGED <<files, cursor, channel, pos, pageEnd, more, inventory, todo, deleted, consumed,
                     ops, transfers, sawError>>
      /\ pc = "delta" => pos = pageEnd
      /\ pc' = "tombstones" => DeletePolicy = "delete"
  BY DEF DeltaListed, TombstonesPlanned, cursorVars, listVars, planVars
<1>2. FolderHistory(live', journal') /\ MapsUpToDate'
  BY <1>1, QuietKept DEF Underway, Listing
<1>3. Positions'
  <2>1. cursor <= pos /\ pos = pageEnd
    BY <1>1 DEF KeptInv, Positions, Underway, Listing
  <2>2. QED
    BY <1>1, <2>1 DEF Positions, Underway, Listing
<1>4. (pc \in Underway => Leads(ops, transfers, pageEnd, live, journal))'
  BY <1>1 DEF KeptInv, Underway, Listing
<1>5. WantedIsScheduled' /\ RenamesTold'
  BY <1>1 DEF KeptInv, WantedIsScheduled, RenamesTold, Tracked
<1>6. QED
  BY <1>2, <1>3, <1>4, <1>5 DEF KeptInv

\* A tombstone deletes no file that is wanted: of one that is at the path in the map there
\* is a later event at that path, and one that was renamed away has its old path consumed.
LEMMA TombstoneKept ==
  ASSUME TypeInv, KeptInv, UNCHANGED <<live, journal, durable>>, NEW p \in Paths, PlanTombstone(p)
  PROVE  KeptInv'
<1>1. /\ pc = "tombstones" /\ pc' = pc /\ p \in deleted /\ deleted' = deleted \ {p}
      /\ UNCHANGED <<files, cursor, channel, pos, pageEnd, more, inventory, todo, consumed, transfers,
                     sawError>>
      /\ \/ UNCHANGED ops
         \/ \E id \in Ids : /\ Fold[p] \notin consumed /\ Tracked(id) /\ Fold[files[id].path] = Fold[p]
                            /\ ops' = Append(ops, DeleteOp(id, files[id]))
  BY DEF PlanTombstone, ByPath, PinnedTo, cursorVars, listVars
<1>2. /\ pos = pageEnd /\ cursor <= pos /\ DeletePolicy = "delete"
      /\ Leads(ops, transfers, pageEnd, live, journal)
      /\ FolderHistory(live, journal)
  BY <1>1 DEF KeptInv, Positions, Underway, Listing
<1>3. FolderHistory(live', journal') /\ MapsUpToDate'
  BY <1>1, QuietKept DEF Underway, Listing
<1>4. Positions'
  BY <1>1, <1>2 DEF Positions, Underway, Listing
<1>5. RenamesTold'
  BY <1>1 DEF KeptInv, RenamesTold, Tracked
<1>6. /\ Leads(ops', transfers, pageEnd, live, journal)
      /\ \A id : Scheduled(files, ops, transfers, live, id) => Scheduled(files, ops', transfers, live, id)
  <2>1. CASE UNCHANGED ops
    BY <1>2, <2>1
  <2>2. ASSUME NEW id \in Ids, Fold[p] \notin consumed, Tracked(id), Fold[files[id].path] = Fold[p],
               ops' = Append(ops, DeleteOp(id, files[id]))
        PROVE  /\ Leads(ops', transfers, pageEnd, live, journal)
               /\ \A o : Scheduled(files, ops, transfers, live, o) => Scheduled(files, ops', transfers, live, o)
    <3>1. PICK m \in DOMAIN journal : journal[m].id = 0 /\ journal[m].path = p /\ LatestIn(journal, m)
      BY <1>1, <1>2 DEF KeptInv, RenamesTold
    <3>2. ~Wanted(live, journal, id, pageEnd)
      <4> SUFFICES ASSUME Wanted(live, journal, id, pageEnd) PROVE FALSE
        OBVIOUS
      <4>1. files[id].path = live[id].path
        BY <1>1, <1>2, <2>2 DEF KeptInv, RenamesTold
      <4>2. PICK k \in DOMAIN journal : Current(live, journal, id, k)
        BY <1>2 DEF FolderHistory, HistoryOf, Wanted, Settled
      <4>3. SamePath(journal[m].path, journal[k].path) /\ SamePath(journal[k].path, journal[m].path)
        BY <2>2, <3>1, <4>1, <4>2 DEF SamePath, Current
      <4>4. k # m
        BY <3>1, <4>2, FolderAssumption DEF Current, EventsIn
      <4>5. DOMAIN journal = 1 .. Len(journal) /\ Len(journal) \in Nat
        BY AttemptTypes
      <4>6. ~(k < m) /\ ~(m < k)
        BY <3>1, <4>2, <4>3, <4>5 DEF Current, LatestIn
      <4>7. QED
        BY <4>4, <4>5, <4>6
    <3>3. QED
      BY <1>2, <2>2, <3>2, DeleteLeads
  <2>3. QED
    BY <1>1, <2>1, <2>2
<1>7. WantedIsScheduled'
  BY <1>1, <1>6 DEF KeptInv, WantedIsScheduled
<1>8. QED
  BY <1>1, <1>3, <1>4, <1>5, <1>6, <1>7 DEF KeptInv

-----------------------------------------------------------------------------
(* A snapshot.                                                             *)

\* A snapshot lists the selected files as they are.
LEMMA ListKept ==
  ASSUME TypeInv, KeptInv, UNCHANGED <<live, journal, durable>>, ListFolder
  PROVE  KeptInv'
<1>1. /\ pc = "snapshot" /\ pc' = "relist" /\ pos' = Len(journal) /\ pageEnd' = Len(journal)
      /\ UNCHANGED <<files, cursor, channel, ops, transfers>>
      /\ inventory' = [id \in Ids |->
                          IF Exists(id) /\ Selected(live[id].path) THEN live[id] ELSE Absent]
  BY DEF ListFolder, cursorVars
<1>2. ops = <<>> /\ transfers = <<>>
  BY <1>1 DEF KeptInv, Positions
<1>3. FolderHistory(live', journal') /\ MapsUpToDate'
  BY <1>1, QuietKept DEF Underway, Listing
<1>4. Positions'
  BY <1>1, <1>2, AttemptTypes DEF Positions, Underway, Listing
<1>5. (pc \in Underway => Leads(ops, transfers, pageEnd, live, journal))'
  BY <1>1, <1>2, NothingLeads
<1>6. WantedIsScheduled'
  BY <1>1 DEF WantedIsScheduled, Wanted, Settled, Exists
<1>7. RenamesTold'
  BY <1>1 DEF RenamesTold
<1>8. QED
  BY <1>3, <1>4, <1>5, <1>6, <1>7 DEF KeptInv

\* A further page has the files that changed since, or the attempt fails.
LEMMA SnapshotPageKept ==
  ASSUME TypeInv, KeptInv, UNCHANGED <<live, journal, durable>>, SnapshotPage
  PROVE  KeptInv'
<1>1. /\ pc = "relist" /\ pos' = Len(journal) /\ pageEnd' = Len(journal)
      /\ UNCHANGED <<files, cursor, channel, ops, transfers>>
      /\ \/ pc' = "failed"
         \/ /\ pc' = pc
            /\ \A k \in Relisted : inventory[journal[k].id] = Absent
            /\ inventory' = [id \in Ids |->
                    IF \E k \in Relisted : journal[k].id = id
                      THEN LET k == CHOOSE k \in Relisted : journal[k].id = id
                           IN  [path |-> journal[k].path, rev |-> journal[k].rev]
                      ELSE inventory[id]]
  BY DEF SnapshotPage, cursorVars
<1>2. ops = <<>> /\ transfers = <<>>
  BY <1>1 DEF KeptInv, Positions
<1>3. FolderHistory(live', journal') /\ MapsUpToDate'
  BY <1>1, QuietKept DEF Underway, Listing
<1>4. Positions'
  BY <1>1, <1>2, AttemptTypes DEF Positions, Underway, Listing
<1>5. (pc \in Underway => Leads(ops, transfers, pageEnd, live, journal))'
  BY <1>1, <1>2, NothingLeads
<1>6. ASSUME pc' = "relist", NEW id \in Ids, Wanted(live, journal, id, Len(journal))
      PROVE  inventory'[id] = live[id]
  <2>1. /\ pos \in Nat /\ Len(journal) \in Nat /\ DOMAIN journal = 1 .. Len(journal)
        /\ journal \in Seq(Event) /\ live \in [Ids -> Version \cup {Absent}]
    BY AttemptTypes
  <2>2. HistoryOf(live, journal, id) /\ live[id] # Absent /\ live[id] \in Version /\ id # 0
    BY <1>6, <2>1, FolderAssumption DEF KeptInv, FolderHistory, Wanted, Settled
  <2>3. PICK c \in DOMAIN journal : Current(live, journal, id, c)
    BY <2>2 DEF HistoryOf
  <2>4. c \in EventsIn(journal, id) /\ journal[c].id = id /\ LatestIn(journal, c) /\ c \in Int
    BY <2>1, <2>3 DEF Current, EventsIn
  <2>5. ASSUME NEW k \in Relisted, journal[k].id = id
        PROVE  [path |-> journal[k].path, rev |-> journal[k].rev] = live[id]
    <3>1. k \in EventsIn(journal, id) /\ LatestIn(journal, k)
      BY <2>1, <2>5 DEF Relisted, Latest, LatestIn, EventsIn
    <3>2. Current(live, journal, id, k)
      BY <2>1, <2>2, <3>1, ListedIsCurrent
    <3>3. QED
      BY <2>2, <3>2 DEF Current, Version
  <2>6. CASE \E k \in Relisted : journal[k].id = id
    <3>1. PICK k \in Relisted : /\ journal[k].id = id
                                /\ inventory'[id] = [path |-> journal[k].path, rev |-> journal[k].rev]
      <4>1. (CHOOSE k \in Relisted : journal[k].id = id) \in Relisted
            /\ journal[CHOOSE k \in Relisted : journal[k].id = id].id = id
        BY <2>6
      <4>2. QED
        BY <1>1, <1>6, <2>6, <4>1
    <3>2. QED
      BY <2>5, <3>1
  <2>7. CASE ~ \E k \in Relisted : journal[k].id = id
    <3>1. c <= pos
      <4> SUFFICES ASSUME ~(c <= pos) PROVE FALSE
        OBVIOUS
      <4>1. c \in (pos + 1) .. Len(journal)
        BY <2>1, <2>3
      <4>2. Selected(journal[c].path)
        BY <1>6, <2>3 DEF Current, Wanted
      <4>3. c \in Relisted
        BY <2>2, <2>4, <4>1, <4>2 DEF Relisted, Latest, LatestIn
      <4>4. QED
        BY <2>4, <2>7, <4>3
    <3>2. Wanted(live, journal, id, pos)
      <4>1. \A k \in EventsIn(journal, id) : k <= c /\ k \in Int
        BY <2>1, <2>3 DEF Current, EventsIn
      <4>2. \A k \in EventsIn(journal, id) : k <= pos
        BY <2>1, <2>4, <3>1, <4>1
      <4>3. QED
        BY <1>6, <4>2 DEF Wanted, Settled
    <3>3. inventory[id] = live[id]
      BY <1>1, <3>2 DEF KeptInv, WantedIsScheduled
    <3>4. QED
      BY <1>1, <1>6, <2>7, <3>3
  <2>8. QED
    BY <2>6, <2>7
<1>7. WantedIsScheduled'
  BY <1>1, <1>6 DEF WantedIsScheduled
<1>8. RenamesTold'
  BY <1>1 DEF RenamesTold
<1>9. QED
  BY <1>3, <1>4, <1>5, <1>7, <1>8 DEF KeptInv

\* The inventory is complete.
LEMMA SnapshotListedKept ==
  ASSUME TypeInv, KeptInv, UNCHANGED <<live, journal, durable>>, SnapshotListed
  PROVE  KeptInv'
<1>1. /\ pc = "relist" /\ pc' = "inventory" /\ todo' = {id \in Ids : inventory[id] # Absent}
      /\ UNCHANGED <<files, cursor, channel, pos, pageEnd, more, inventory, ops, transfers>>
  BY DEF SnapshotListed, cursorVars, listVars
<1>2. FolderHistory(live', journal') /\ MapsUpToDate'
  BY <1>1, QuietKept DEF Underway, Listing
<1>3. Positions'
  <2>1. cursor <= pos /\ pos = pageEnd
    BY <1>1 DEF KeptInv, Positions, Underway, Listing
  <2>2. QED
    BY <1>1, <2>1 DEF Positions, Underway, Listing
<1>4. (pc \in Underway => Leads(ops, transfers, pageEnd, live, journal))'
  BY <1>1 DEF KeptInv, Underway, Listing
<1>5. WantedIsScheduled'
  BY <1>1 DEF KeptInv, WantedIsScheduled, Wanted, Settled
<1>6. RenamesTold'
  BY <1>1 DEF RenamesTold
<1>7. QED
  BY <1>2, <1>3, <1>4, <1>5, <1>6 DEF KeptInv

\* A file of the inventory is scheduled.
LEMMA InventoryKept ==
  ASSUME Recording, TypeInv, KeptInv, UNCHANGED <<live, journal, durable>>,
         NEW id \in Ids, PlanInventory(id)
  PROVE  KeptInv'
<1> DEFINE e == inventory[id]
<1>1. /\ pc = "inventory" /\ pc' = pc /\ id \in todo /\ todo' = todo \ {id}
      /\ UNCHANGED <<files, cursor, channel, pos, pageEnd, more, inventory, deleted, consumed, sawError>>
      /\ ops' = ops \o PlannedOps(id, e)
      /\ transfers' = IF TooLarge(e.rev) THEN transfers ELSE transfers \o PlannedTransfers(id, e)
  BY DEF PlanInventory, cursorVars, listVars
<1>2. /\ Leads(ops, transfers, pageEnd, live, journal)
      /\ pos = pageEnd /\ cursor <= pos
      /\ \A o \in Ids : Wanted(live, journal, o, pos) => inventory[o] = live[o]
      /\ \A o \in Ids \ todo : Wanted(live, journal, o, pos) => Scheduled(files, ops, transfers, live, o)
  BY <1>1 DEF KeptInv, Positions, WantedIsScheduled, Underway, Listing
<1>3. FolderHistory(live', journal') /\ MapsUpToDate'
  BY <1>1, QuietKept DEF Underway, Listing
<1>4. Positions'
  BY <1>1, <1>2 DEF Positions, Underway, Listing
<1>5. OpsAdd(ops', id, e) /\ TransfersAdd(transfers \o PlannedTransfers(id, e), id, e)
  BY <1>1, FileAdds
<1>6. TransfersAdd(transfers', id, e) \/ (TooLarge(e.rev) /\ transfers' = transfers)
  BY <1>1, <1>5
<1>7. Leads(ops', transfers', pageEnd, live, journal)
  BY <1>2, <1>5, <1>6, LeadsNow
<1>8. ASSUME NEW o \in Ids \ (todo \ {id}), Wanted(live, journal, o, pos)
      PROVE  Scheduled(files, ops', transfers', live, o)
  <2>1. CASE o = id
    <3>1. e = live[id] /\ ~TooLarge(e.rev)
      BY <1>2, <1>8, <2>1 DEF Wanted
    <3>2. QED
      BY <1>5, <1>6, <2>1, <3>1, ScheduledNow
  <2>2. CASE o # id
    <3>1. Scheduled(files, ops, transfers, live, o)
      BY <1>2, <1>8, <2>2
    <3>2. CASE TransfersAdd(transfers', id, e)
      BY <1>5, <3>1, <3>2, ScheduledNow
    <3>3. CASE transfers' = transfers
      BY <1>5, <3>1, <3>3 DEF Scheduled, PathPlanned, OpsAdd
    <3>4. QED
      BY <1>6, <3>2, <3>3
  <2>3. QED
    BY <2>1, <2>2
<1>9. WantedIsScheduled'
  BY <1>1, <1>2, <1>8 DEF WantedIsScheduled
<1>10. RenamesTold'
  BY <1>1 DEF RenamesTold
<1>11. QED
  BY <1>1, <1>3, <1>4, <1>7, <1>9, <1>10 DEF KeptInv

\* After the inventory the files that are tracked and not in it are left.
LEMMA InventoryPlannedKept ==
  ASSUME TypeInv, KeptInv, UNCHANGED <<live, journal, durable>>, InventoryPlanned \/ RemovalsPlanned
  PROVE  KeptInv'
<1>1. /\ pc \in {"inventory", "removals"} /\ pc' \in {"removals", "emit"}
      /\ UNCHANGED <<files, cursor, channel, pos, pageEnd, more, inventory, deleted, consumed, ops,
                     transfers, sawError>>
      /\ pc = "inventory" => todo = {}
      /\ pc' = "removals" => /\ pc = "inventory" /\ DeletePolicy = "delete"
                             /\ todo' = {id \in Ids : Tracked(id) /\ inventory[id] = Absent}
  BY DEF InventoryPlanned, RemovalsPlanned, cursorVars, listVars, planVars
<1>2. FolderHistory(live', journal') /\ MapsUpToDate'
  BY <1>1, QuietKept DEF Underway, Listing
<1>3. Positions'
  <2>1. cursor <= pos /\ pos = pageEnd
    BY <1>1 DEF KeptInv, Positions, Underway, Listing
  <2>2. QED
    BY <1>1, <2>1 DEF Positions, Underway, Listing
<1>4. (pc \in Underway => Leads(ops, transfers, pageEnd, live, journal))'
  BY <1>1 DEF KeptInv, Underway, Listing
<1>5. WantedIsScheduled'
  <2>1. \A id \in Ids : Wanted(live, journal, id, pos) => Scheduled(files, ops, transfers, live, id)
    BY <1>1 DEF KeptInv, WantedIsScheduled
  <2>2. ASSUME pc' = "removals", NEW id \in todo' PROVE ~Wanted(live, journal, id, pos)
    BY <1>1, <2>2 DEF KeptInv, WantedIsScheduled, Wanted, Settled
  <2>3. QED
    BY <1>1, <2>1, <2>2 DEF WantedIsScheduled
<1>6. RenamesTold'
  BY <1>1 DEF RenamesTold
<1>7. QED
  BY <1>2, <1>3, <1>4, <1>5, <1>6 DEF KeptInv

\* A tracked file that is not in the inventory is not wanted, and is deleted.
LEMMA RemovalKept ==
  ASSUME TypeInv, KeptInv, UNCHANGED <<live, journal, durable>>, NEW id \in Ids, PlanRemoval(id)
  PROVE  KeptInv'
<1>1. /\ pc = "removals" /\ pc' = pc /\ id \in todo /\ todo' = todo \ {id}
      /\ UNCHANGED <<files, cursor, channel, pos, pageEnd, more, inventory, deleted, consumed,
                     transfers, sawError>>
      /\ ops' = Append(ops, DeleteOp(id, files[id]))
  BY DEF PlanRemoval, cursorVars, listVars
<1>2. /\ pos = pageEnd /\ cursor <= pos /\ DeletePolicy = "delete"
      /\ Leads(ops, transfers, pageEnd, live, journal)
      /\ ~Wanted(live, journal, id, pos)
  BY <1>1 DEF KeptInv, Positions, WantedIsScheduled, Underway, Listing
<1>3. FolderHistory(live', journal') /\ MapsUpToDate'
  BY <1>1, QuietKept DEF Underway, Listing
<1>4. Positions'
  BY <1>1, <1>2 DEF Positions, Underway, Listing
<1>5. /\ Leads(ops', transfers, pageEnd, live, journal)
      /\ \A o : Scheduled(files, ops, transfers, live, o) => Scheduled(files, ops', transfers, live, o)
  BY <1>1, <1>2, DeleteLeads
<1>6. WantedIsScheduled'
  BY <1>1, <1>5 DEF KeptInv, WantedIsScheduled
<1>7. RenamesTold'
  BY <1>1 DEF RenamesTold
<1>8. QED
  BY <1>1, <1>3, <1>4, <1>5, <1>6, <1>7 DEF KeptInv

-----------------------------------------------------------------------------
(* Sending.                                                                *)

\* A message that is appended adds at most its own state.
LEMMA AppendedUpToDate ==
  ASSUME NEW T, NEW s \in Seq(T), NEW m, NEW l, NEW j, StatesUpToDate(s, l, j),
         m.kind = "state" => UpToDate(m.state.files, m.state.cursor, l, j)
  PROVE  StatesUpToDate(Append(s, m), l, j)
<1>1. \A i \in DOMAIN Append(s, m) : \/ i \in DOMAIN s /\ Append(s, m)[i] = s[i]
                                 \/ Append(s, m)[i] = m
  OBVIOUS
<1>2. QED
  BY <1>1 DEF StatesUpToDate

\* What leads to where files are, and is up to date, stays so when the head is taken.
LEMMA TailsLead ==
  ASSUME NEW T, NEW s \in Seq(T), s # <<>>, NEW n, NEW l, NEW j
  PROVE  /\ MovesLead(s, n, l, j) => MovesLead(Tail(s), n, l, j)
         /\ TransfersLead(s, n, l, j) => TransfersLead(Tail(s), n, l, j)
         /\ DeletesSpare(s, n, l, j) => DeletesSpare(Tail(s), n, l, j)
         /\ StatesUpToDate(s, l, j) => StatesUpToDate(Tail(s), l, j)
<1>1. \A i \in DOMAIN Tail(s) : i + 1 \in DOMAIN s /\ Tail(s)[i] = s[i + 1]
  BY TailElements
<1>2. QED
  BY <1>1 DEF MovesLead, TransfersLead, DeletesSpare, StatesUpToDate

\* An operation that is sent changes the map to what it does.
LEMMA EmitKept ==
  ASSUME TypeInv, KeptInv, UNCHANGED <<live, journal, durable>>, EmitOperation
  PROVE  KeptInv'
<1>1. PICK op : op = Head(ops)
  OBVIOUS
<1>2. /\ pc = "emit" /\ ops # <<>> /\ channel' = Append(channel, op)
      /\ UNCHANGED <<cursor, pos, pageEnd, more, inventory, todo, deleted, consumed, transfers, sawError>>
      /\ \/ Tracked(op.id) /\ op.kind = "move" /\ MarkMove(op) /\ ops' = Tail(ops) /\ pc' = pc
         \/ Tracked(op.id) /\ op.kind # "move" /\ MarkDelete(op) /\ ops' = Tail(ops) /\ pc' = pc
         \/ pc' = "failed" /\ UNCHANGED <<files, ops>>
  BY <1>1 DEF EmitOperation, listVars, planVars
<1>3. /\ files \in FileMap /\ ops \in Seq(MoveOps \cup DeleteOps)
      /\ channel \in Seq(Records \cup StateMsgs) /\ journal \in Seq(Event)
      /\ cursor \in Int /\ pos \in Int
  BY AttemptTypes
<1>4. op \in MoveOps \cup DeleteOps /\ op = ops[1] /\ 1 \in DOMAIN ops
  BY <1>1, <1>2, <1>3
<1>5. /\ op.id \in Ids /\ op.kind \in {"move", "delete"}
      /\ op.kind = "move" => op.new \in Paths
  BY <1>4 DEF MoveOps, DeleteOps
<1>6. /\ MovesLead(ops, pageEnd, live, journal)
      /\ TransfersLead(transfers, pageEnd, live, journal)
      /\ DeletesSpare(ops, pageEnd, live, journal)
      /\ UpToDate(files, cursor, live, journal)
      /\ StatesUpToDate(channel, live, journal)
      /\ cursor <= pos /\ pos = pageEnd
      /\ \A id \in Ids : Wanted(live, journal, id, pos) => Scheduled(files, ops, transfers, live, id)
  BY <1>2 DEF KeptInv, Leads, MapsUpToDate, Positions, WantedIsScheduled, Underway, Listing
<1>7. FolderHistory(live', journal')
  BY DEF KeptInv
<1>8. StatesUpToDate(channel', live, journal)
  BY <1>2, <1>3, <1>5, <1>6, AppendedUpToDate
<1>9. Positions'
  BY <1>2, <1>6 DEF Positions, Underway, Listing
<1>10. RenamesTold'
  BY <1>2 DEF RenamesTold
<1>11. CASE pc' = "failed" /\ UNCHANGED <<files, ops>>
  <2>1. MapsUpToDate'
    BY <1>8, <1>11 DEF KeptInv, MapsUpToDate, Underway, Listing
  <2>2. WantedIsScheduled' /\ (pc \in Underway => Leads(ops, transfers, pageEnd, live, journal))'
    BY <1>11 DEF WantedIsScheduled, Underway, Listing
  <2>3. QED
    BY <1>7, <1>9, <1>10, <2>1, <2>2 DEF KeptInv
<1>12. ASSUME ops' = Tail(ops), pc' = "emit", UpToDate(files', cursor, live, journal),
              \A id \in Ids : Wanted(live, journal, id, pos) => Scheduled(files', ops', transfers, live, id)
       PROVE  KeptInv'
  <2>1. MapsUpToDate'
    BY <1>2, <1>8, <1>12 DEF KeptInv, MapsUpToDate
  <2>2. Leads(ops', transfers, pageEnd, live, journal)
    BY <1>2, <1>3, <1>6, <1>12, TailsLead DEF Leads
  <2>3. WantedIsScheduled'
    BY <1>2, <1>12 DEF WantedIsScheduled
  <2>4. QED
    BY <1>2, <1>7, <1>9, <1>10, <2>1, <2>2, <2>3 DEF KeptInv
<1>13. \A id \in Ids : Wanted(live, journal, id, cursor) => Wanted(live, journal, id, pos)
  BY <1>3, <1>6, WantedLater
<1>14. ASSUME NEW id \in Ids, id # op.id, files'[id] = files[id], Scheduled(files, ops, transfers, live, id)
       PROVE  Scheduled(files', Tail(ops), transfers, live, id)
  <2>1. \A i \in DOMAIN ops : ops[i].id = id => i - 1 \in DOMAIN Tail(ops) /\ Tail(ops)[i - 1] = ops[i]
    BY <1>2, <1>3, <1>4, <1>14, TailElements
  <2>2. QED
    BY <1>14, <2>1 DEF Scheduled, PathPlanned
<1>15. CASE Tracked(op.id) /\ op.kind = "move" /\ MarkMove(op) /\ ops' = Tail(ops) /\ pc' = pc
  <2>1. files[op.id] \in Version
    BY <1>3, <1>5, <1>15, TrackedIsVersion
  <2>2. /\ files'[op.id] = [path |-> op.new, rev |-> files[op.id].rev]
        /\ \A id \in Ids \ {op.id} : files'[id] = files[id]
    BY <1>3, <1>5, <1>15, <2>1 DEF MarkMove, FileMap, Version
  <2>3. files'[op.id].path = op.new /\ files'[op.id].rev = files[op.id].rev
    BY <2>2
  <2>4. DeletePolicy = "delete" /\ Wanted(live, journal, op.id, pos) => op.new = live[op.id].path
    BY <1>4, <1>6, <1>15 DEF MovesLead
  <2>5. UpToDate(files', cursor, live, journal)
    BY <1>6, <1>13, <2>2, <2>3, <2>4 DEF UpToDate, AsHeld
  <2>6. ASSUME NEW id \in Ids, Wanted(live, journal, id, pos)
        PROVE  Scheduled(files', Tail(ops), transfers, live, id)
    <3>1. CASE id = op.id
      BY <1>6, <2>3, <2>4, <2>6, <3>1 DEF Scheduled, PathPlanned
    <3>2. CASE id # op.id
      BY <1>6, <1>14, <2>2, <2>6, <3>2
    <3>3. QED
      BY <3>1, <3>2
  <2>7. QED
    BY <1>2, <1>12, <1>15, <2>5, <2>6
<1>16. CASE Tracked(op.id) /\ op.kind # "move" /\ MarkDelete(op) /\ ops' = Tail(ops) /\ pc' = pc
  <2>1. files'[op.id] = Absent /\ \A id \in Ids \ {op.id} : files'[id] = files[id]
    BY <1>3, <1>5, <1>16 DEF MarkDelete, FileMap
  <2>2. ~Wanted(live, journal, op.id, pos)
    BY <1>4, <1>5, <1>6, <1>16 DEF DeletesSpare
  <2>3. UpToDate(files', cursor, live, journal)
    BY <1>6, <1>13, <2>1, <2>2 DEF UpToDate
  <2>4. ASSUME NEW id \in Ids, Wanted(live, journal, id, pos)
        PROVE  Scheduled(files', Tail(ops), transfers, live, id)
    BY <1>6, <1>14, <2>1, <2>2, <2>4
  <2>5. QED
    BY <1>2, <1>12, <1>16, <2>3, <2>4
<1>17. QED
  BY <1>2, <1>11, <1>15, <1>16

\* After the operations come the transfers.
LEMMA EmittedKept ==
  ASSUME TypeInv, KeptInv, UNCHANGED <<live, journal, durable>>, OperationsEmitted
  PROVE  KeptInv'
<1>1. /\ pc = "emit" /\ pc' = "transfer" /\ ops = <<>>
      /\ UNCHANGED <<files, cursor, channel, pos, pageEnd, more, inventory, todo, deleted, consumed, ops,
                     transfers, sawError>>
  BY DEF OperationsEmitted, cursorVars, listVars, planVars
<1>2. FolderHistory(live', journal') /\ MapsUpToDate'
  BY <1>1, QuietKept DEF Underway, Listing
<1>3. Positions'
  <2>1. cursor <= pos /\ pos = pageEnd
    BY <1>1 DEF KeptInv, Positions, Underway, Listing
  <2>2. QED
    BY <1>1, <2>1 DEF Positions, Underway, Listing
<1>4. (pc \in Underway => Leads(ops, transfers, pageEnd, live, journal))'
  BY <1>1 DEF KeptInv, Underway, Listing
<1>5. WantedIsScheduled' /\ RenamesTold'
  BY <1>1 DEF KeptInv, WantedIsScheduled, RenamesTold
<1>6. QED
  BY <1>2, <1>3, <1>4, <1>5 DEF KeptInv

\* A transfer changes the map to the version that is sent, which is the one the folder holds.
LEMMA TransferKept ==
  ASSUME TypeInv, KeptInv, UNCHANGED <<live, journal, durable>>, TransferFile
  PROVE  KeptInv'
<1>1. PICK t : t = Head(transfers)
  OBVIOUS
<1>2. /\ pc = "transfer" /\ pc' = pc /\ transfers # <<>> /\ transfers' = Tail(transfers)
      /\ channel' = Append(channel, FileMsg(t)) /\ AddFile(t) /\ live[t.id].rev = t.rev
      /\ UNCHANGED <<cursor, pos, pageEnd, more, inventory, todo, deleted, consumed, ops, sawError>>
  BY <1>1 DEF TransferFile, listVars, planVars
<1>3. /\ files \in FileMap /\ transfers \in Seq(Transfers) /\ channel \in Seq(Records \cup StateMsgs)
      /\ journal \in Seq(Event) /\ cursor \in Int /\ pos \in Int
  BY AttemptTypes
<1>4. t \in Transfers /\ t = transfers[1] /\ 1 \in DOMAIN transfers
  BY <1>1, <1>2, <1>3
<1>5. t.id \in Ids
  BY <1>4 DEF Transfers
<1>6. /\ Leads(ops, transfers, pageEnd, live, journal)
      /\ UpToDate(files, cursor, live, journal)
      /\ StatesUpToDate(channel, live, journal)
      /\ cursor <= pos /\ pos = pageEnd /\ ops = <<>>
  BY <1>2 DEF KeptInv, MapsUpToDate, Positions, Underway, Listing
<1>7. FolderHistory(live', journal')
  BY DEF KeptInv
<1>8. FileMsg(t).kind = "file"
  BY DEF FileMsg
<1>9. StatesUpToDate(channel', live, journal)
  BY <1>2, <1>3, <1>6, <1>8, AppendedUpToDate
<1>10. Positions'
  BY <1>2, <1>6 DEF Positions, Underway, Listing
<1>11. RenamesTold'
  BY <1>2 DEF RenamesTold
<1>12. /\ files'[t.id].path = t.path /\ files'[t.id].rev = live[t.id].rev
       /\ \A id \in Ids \ {t.id} : files'[id] = files[id]
  BY <1>2, <1>3, <1>5 DEF AddFile, FileMap
<1>13. DeletePolicy = "delete" /\ Wanted(live, journal, t.id, pos) => t.path = live[t.id].path
  BY <1>4, <1>6 DEF Leads, TransfersLead
<1>14. \A id \in Ids : Wanted(live, journal, id, cursor) => Wanted(live, journal, id, pos)
  BY <1>3, <1>6, WantedLater
<1>15. UpToDate(files', cursor, live, journal)
  BY <1>6, <1>12, <1>13, <1>14 DEF UpToDate, AsHeld
<1>16. MapsUpToDate'
  BY <1>2, <1>9, <1>15 DEF KeptInv, MapsUpToDate
<1>17. (pc \in Underway => Leads(ops, transfers, pageEnd, live, journal))'
  BY <1>2, <1>3, <1>6, TailsLead DEF Leads
<1>18. WantedIsScheduled'
  <2>1. ASSUME ~sawError, NEW id \in Ids, Wanted(live, journal, id, pos)
        PROVE  Scheduled(files', ops, transfers', live, id)
    <3>1. Scheduled(files, ops, transfers, live, id)
      BY <1>2, <2>1 DEF KeptInv, WantedIsScheduled
    <3>2. CASE id = t.id
      BY <1>12, <1>13, <2>1, <3>2 DEF Scheduled, PathPlanned
    <3>3. CASE id # t.id
      <4>1. \A i \in DOMAIN transfers : transfers[i].id = id =>
               i - 1 \in DOMAIN Tail(transfers) /\ Tail(transfers)[i - 1] = transfers[i]
        BY <1>2, <1>3, <1>4, <3>3, TailElements
      <4>2. QED
        BY <1>2, <1>12, <3>1, <3>3, <4>1 DEF Scheduled, PathPlanned
    <3>4. QED
      BY <3>2, <3>3
  <2>2. QED
    BY <1>2, <2>1 DEF WantedIsScheduled
<1>19. QED
  BY <1>7, <1>10, <1>11, <1>16, <1>17, <1>18 DEF KeptInv

\* A file that is skipped leaves the map alone, and the attempt has an error to report.
LEMMA SkipKept ==
  ASSUME TypeInv, KeptInv, UNCHANGED <<live, journal, durable>>, SkipFile
  PROVE  KeptInv'
<1>1. /\ pc = "transfer" /\ pc' = pc /\ transfers # <<>> /\ transfers' = Tail(transfers)
      /\ sawError' = TRUE
      /\ UNCHANGED <<files, channel, cursor, pos, pageEnd, more, inventory, todo, deleted, consumed, ops>>
  BY DEF SkipFile, cursorVars, listVars, planVars
<1>2. FolderHistory(live', journal') /\ MapsUpToDate'
  BY <1>1, QuietKept DEF Underway, Listing
<1>3. Positions'
  BY <1>1 DEF KeptInv, Positions, Underway, Listing
<1>4. (pc \in Underway => Leads(ops, transfers, pageEnd, live, journal))'
  BY <1>1, AttemptTypes, TailsLead DEF KeptInv, Leads, Underway, Listing
<1>5. WantedIsScheduled' /\ RenamesTold'
  BY <1>1 DEF WantedIsScheduled, RenamesTold
<1>6. QED
  BY <1>2, <1>3, <1>4, <1>5 DEF KeptInv

\* The state that is sent has the cursor of this listing only if nothing was skipped.
LEMMA FinishKept ==
  ASSUME TypeInv, KeptInv, UNCHANGED <<live, journal, durable>>, Finish
  PROVE  KeptInv'
<1>1. PICK m : m = StateMsg([files |-> files, cursor |-> cursor'])
  OBVIOUS
<1>2. m.kind = "state" /\ m.state.files = files /\ m.state.cursor = cursor'
  BY <1>1 DEF StateMsg
<1>3. /\ pc = "transfer" /\ pc' = "done" /\ transfers = <<>> /\ channel' = Append(channel, m)
      /\ cursor' = IF sawError THEN cursor ELSE pageEnd
      /\ UNCHANGED <<files, pageEnd, ops>>
  BY <1>1 DEF Finish, listVars
<1>4. /\ UpToDate(files, cursor, live, journal)
      /\ StatesUpToDate(channel, live, journal)
      /\ pos = pageEnd /\ ops = <<>>
  BY <1>3 DEF KeptInv, MapsUpToDate, Positions, Underway, Listing
<1>5. UpToDate(files, cursor', live, journal)
  <2>1. CASE sawError
    BY <1>3, <1>4, <2>1
  <2>2. CASE ~sawError
    <3>1. ASSUME NEW id \in Ids, Wanted(live, journal, id, pageEnd) PROVE AsHeld(files[id], live[id])
      <4>1. Scheduled(files, ops, transfers, live, id)
        BY <1>3, <1>4, <2>2, <3>1 DEF KeptInv, WantedIsScheduled
      <4>2. files[id].rev = live[id].rev
        BY <1>3, <4>1 DEF Scheduled
      <4>3. live[id] \in Version
        BY <3>1, AttemptTypes DEF Wanted, Settled
      <4>4. files[id] # Absent
        BY <4>2, <4>3, FolderAssumption DEF Absent, Version
      <4>5. QED
        BY <1>4, <4>1, <4>2, <4>4 DEF Scheduled, PathPlanned, AsHeld
    <3>2. cursor' = pageEnd
      BY <1>3, <2>2
    <3>3. QED
      BY <3>1, <3>2 DEF UpToDate
  <2>3. QED
    BY <2>1, <2>2
<1>6. StatesUpToDate(channel', live, journal)
  BY <1>2, <1>3, <1>4, <1>5, AttemptTypes, AppendedUpToDate
<1>7. FolderHistory(live', journal')
  BY DEF KeptInv
<1>8. Positions'
  BY <1>3, <1>4 DEF Positions, Underway, Listing
<1>9. MapsUpToDate' /\ (pc \in Underway => Leads(ops, transfers, pageEnd, live, journal))'
  BY <1>3, <1>6 DEF KeptInv, MapsUpToDate, Underway, Listing
<1>10. WantedIsScheduled' /\ RenamesTold'
  BY <1>3 DEF WantedIsScheduled, RenamesTold
<1>11. QED
  BY <1>7, <1>8, <1>9, <1>10 DEF KeptInv

-----------------------------------------------------------------------------
(* The destination and the platform.                                       *)

\* The destination does not change what the source knows.
LEMMA DeliverKept ==
  ASSUME TypeInv, KeptInv, Deliver
  PROVE  KeptInv'
<1>1. /\ channel # <<>> /\ channel' = Tail(channel)
      /\ UNCHANGED <<live, journal, durable, files, cursor, pc, pos, pageEnd, more, inventory, todo, deleted,
                     consumed, ops, transfers, sawError>>
  BY DEF Deliver, folderVars, cursorVars, listVars, planVars
<1>2. StatesUpToDate(channel', live, journal)
  BY <1>1, AttemptTypes, TailsLead DEF KeptInv, MapsUpToDate
<1>3. Positions'
  BY <1>1 DEF KeptInv, Positions
<1>4. FolderHistory(live', journal') /\ MapsUpToDate'
  BY <1>1, <1>2 DEF KeptInv, MapsUpToDate
<1>5. /\ (pc \in Underway => Leads(ops, transfers, pageEnd, live, journal))'
      /\ WantedIsScheduled' /\ RenamesTold'
  BY <1>1 DEF KeptInv, WantedIsScheduled, RenamesTold, Tracked
<1>6. QED
  BY <1>3, <1>4, <1>5 DEF KeptInv

\* An attempt that ends leaves a durable state that is up to date.
LEMMA EndKept ==
  ASSUME TypeInv, KeptInv, Refuse \/ Checkpoint \/ SourceFailed \/ Abort
  PROVE  KeptInv'
<1>1. EndAttempt /\ UNCHANGED <<live, journal>>
  BY DEF Refuse, Checkpoint, SourceFailed, Abort, folderVars
<1>2. pc' = "idle" /\ channel' = <<>> /\ ops' = <<>> /\ transfers' = <<>> /\ deleted' = {}
  BY <1>1 DEF EndAttempt
<1>3. UpToDate(durable'.files, durable'.cursor, live, journal)
  <2>1. CASE UNCHANGED durable
    BY <2>1 DEF KeptInv, MapsUpToDate
  <2>2. CASE Checkpoint
    <3>1. 1 \in DOMAIN channel /\ Head(channel) = channel[1] /\ channel[1].kind = "state"
      BY <2>2, AttemptTypes DEF Checkpoint
    <3>2. QED
      BY <2>2, <3>1 DEF Checkpoint, KeptInv, MapsUpToDate, StatesUpToDate
  <2>3. QED
    BY <2>1, <2>2 DEF Refuse, SourceFailed, Abort
<1>4. FolderHistory(live', journal')
  BY <1>1 DEF KeptInv
<1>5. MapsUpToDate'
  BY <1>1, <1>2, <1>3 DEF MapsUpToDate, StatesUpToDate, Underway, Listing
<1>6. Positions'
  BY <1>2 DEF Positions, Underway, Listing
<1>7. /\ (pc \in Underway => Leads(ops, transfers, pageEnd, live, journal))'
      /\ WantedIsScheduled' /\ RenamesTold'
  BY <1>2 DEF WantedIsScheduled, RenamesTold, Underway, Listing
<1>8. QED
  BY <1>4, <1>5, <1>6, <1>7 DEF KeptInv

-----------------------------------------------------------------------------
\* Every step keeps the invariant.
LEMMA KeptInductive ==
  ASSUME Recording
  PROVE  TypeInv /\ KeptInv /\ [Next]_vars => KeptInv'
<1> SUFFICES ASSUME TypeInv, KeptInv, [Next]_vars PROVE KeptInv'
  OBVIOUS
<1>1. CASE Change
  BY <1>1, ChangeKept
<1>2. CASE Start
  BY <1>2, StartKept
<1>3. CASE Source
  <2>1. SourceStep /\ UNCHANGED <<live, journal, durable>>
    BY <1>3 DEF Source, folderVars
  <2>2. CASE \E last \in 0 .. MaxEvents : DeltaPage(last)
    BY <2>1, <2>2, PageKept
  <2>3. CASE DeltaEntry
    BY <2>1, <2>3, EntryKept
  <2>4. CASE DeltaListed \/ TombstonesPlanned
    BY <2>1, <2>4, DeltaPlannedKept
  <2>5. CASE \E p \in Paths : PlanTombstone(p)
    BY <2>1, <2>5, TombstoneKept
  <2>6. CASE ListFolder
    BY <2>1, <2>6, ListKept
  <2>7. CASE SnapshotPage
    BY <2>1, <2>7, SnapshotPageKept
  <2>8. CASE SnapshotListed
    BY <2>1, <2>8, SnapshotListedKept
  <2>9. CASE \E id \in Ids : PlanInventory(id)
    BY <2>1, <2>9, InventoryKept
  <2>10. CASE InventoryPlanned \/ RemovalsPlanned
    BY <2>1, <2>10, InventoryPlannedKept
  <2>11. CASE \E id \in Ids : PlanRemoval(id)
    BY <2>1, <2>11, RemovalKept
  <2>12. CASE EmitOperation
    BY <2>1, <2>12, EmitKept
  <2>13. CASE OperationsEmitted
    BY <2>1, <2>13, EmittedKept
  <2>14. CASE TransferFile
    BY <2>1, <2>14, TransferKept
  <2>15. CASE Finish
    BY <2>1, <2>15, FinishKept
  <2>16. QED
    BY <2>1, <2>2, <2>3, <2>4, <2>5, <2>6, <2>7, <2>8, <2>9, <2>10, <2>11, <2>12, <2>13, <2>14, <2>15
    DEF SourceStep
<1>4. CASE Skip
  BY <1>4, SkipKept DEF Skip, folderVars
<1>5. CASE Reset
  BY <1>5, ResetKept DEF Reset, folderVars
<1>6. CASE Deliver
  BY <1>6, DeliverKept
<1>7. CASE Refuse \/ Checkpoint \/ SourceFailed \/ Abort
  BY <1>7, EndKept
<1>8. CASE UNCHANGED vars
  <2>1. UNCHANGED <<live, journal, durable, files, cursor, channel, pc, pos, pageEnd, more, inventory, todo,
                    deleted, consumed, ops, transfers, sawError>>
    BY <1>8 DEF vars, folderVars, sourceVars, cursorVars, listVars, planVars
  <2>2. /\ FolderHistory(live', journal') /\ MapsUpToDate' /\ WantedIsScheduled' /\ RenamesTold'
        /\ (pc \in Underway => Leads(ops, transfers, pageEnd, live, journal))'
    BY <2>1 DEF KeptInv, MapsUpToDate, WantedIsScheduled, RenamesTold, Tracked
  <2>3. Positions'
    BY <2>1 DEF KeptInv, Positions
  <2>4. QED
    BY <2>2, <2>3 DEF KeptInv
<1>9. QED
  BY <1>1, <1>2, <1>3, <1>4, <1>5, <1>6, <1>7, <1>8 DEF Next

\* It holds at first.
LEMMA KeptInit == Init => KeptInv
<1> SUFFICES ASSUME Init PROVE KeptInv
  OBVIOUS
<1>1. /\ live = [id \in Ids |-> Absent] /\ journal = <<>>
      /\ pc = "idle" /\ channel = <<>> /\ ops = <<>> /\ transfers = <<>> /\ deleted = {}
  BY DEF Init, FolderInit, NoAttempt
<1>2. FolderHistory(live, journal)
  BY HistoryInit DEF HistoryInv
<1>3. MapsUpToDate
  BY <1>1 DEF MapsUpToDate, StatesUpToDate, UpToDate, Wanted, Settled, Underway, Listing
<1>4. Positions
  BY <1>1 DEF Positions, Underway, Listing
<1>5. /\ pc \in Underway => Leads(ops, transfers, pageEnd, live, journal)
      /\ WantedIsScheduled /\ RenamesTold
  BY <1>1 DEF WantedIsScheduled, RenamesTold, Underway, Listing
<1>6. QED
  BY <1>2, <1>3, <1>4, <1>5 DEF KeptInv

\* No change is lost: a file whose every change lies behind the durable cursor is in the
\* durable state with the revision the folder holds (reader.py, which keeps the cursor back
\* when a file was skipped, and the platform, which keeps the last state it has).
THEOREM NoChangeMissed ==
  ASSUME Recording
  PROVE  Spec => []NothingMissed
<1>1. KeptInv => NothingMissed
  <2> SUFFICES ASSUME KeptInv, NEW id \in Ids, Eligible(id), Handled(id)
               PROVE  durable.files[id].rev = live[id].rev
    BY DEF NothingMissed
  <2>1. Wanted(live, journal, id, durable.cursor)
    BY DEF Wanted, Settled, EventsIn, Handled, Eligible, Exists
  <2>2. QED
    BY <2>1 DEF KeptInv, MapsUpToDate, UpToDate, AsHeld
<1>2. Init => TypeInv /\ KeptInv
  BY InitTypeInv, KeptInit
<1>3. TypeInv /\ KeptInv /\ [Next]_vars => (TypeInv /\ KeptInv)'
  BY TypeInvInductive, KeptInductive
<1>4. QED
  BY <1>1, <1>2, <1>3, PTL DEF Spec

-----------------------------------------------------------------------------
(* Files stay pinned to the path they were first written to while renames  *)
(* are ignored.  Between its start and its end an attempt may say of a     *)
(* file, in the map, in a planned transfer or in a state on the channel,   *)
(* only the path the durable state has, if the durable state has it.       *)

Keeps(map, was) == \A id \in Ids : was[id] # Absent /\ map[id] # Absent => map[id].path = was[id].path

TransfersKeep(t, was) ==
    \A i \in DOMAIN t : was[t[i].id] # Absent => t[i].path = was[t[i].id].path

StatesKeep(s, was) ==
    \A i \in DOMAIN s : s[i].kind = "state" => Keeps(s[i].state.files, was)

PinInv ==
    /\ pc = "idle" => channel = <<>> /\ ops = <<>> /\ transfers = <<>>
    /\ pc # "idle" => Keeps(files, durable.files)
    /\ pc \in Listing => files = durable.files
    /\ \A i \in DOMAIN ops : ops[i].kind = "delete"
    /\ TransfersKeep(transfers, durable.files)
    /\ StatesKeep(channel, durable.files)

\* While renames are ignored only deletions are planned, and a transfer of a tracked file
\* is to the path of the map.
LEMMA PinnedPlans ==
  ASSUME RenamePolicy = "ignore", TypeInv, PinInv, files = durable.files, NEW id \in Ids, NEW e
  PROVE  /\ ops \o PlannedOps(id, e) = ops
         /\ TransfersKeep(transfers \o PlannedTransfers(id, e), durable.files)
<1>1. ops \in Seq(MoveOps \cup DeleteOps) /\ transfers \in Seq(Transfers)
  BY AttemptTypes
<1>2. ops \o PlannedOps(id, e) = ops
  <2>1. PlannedOps(id, e) = <<>>
    BY DEF PlannedOps
  <2>2. QED
    BY <1>1, <2>1
<1>3. CASE PlannedTransfers(id, e) = <<>>
  <2>1. transfers \o <<>> = transfers
    BY <1>1
  <2>2. QED
    BY <1>2, <1>3, <2>1 DEF PinInv
<1>4. ASSUME NEW t, t.id = id, PlannedTransfers(id, e) = <<t>>,
             files[id] # Absent => t.path = files[id].path
      PROVE  TransfersKeep(transfers \o PlannedTransfers(id, e), durable.files)
  <2>1. PICK s : s = transfers \o <<t>>
    OBVIOUS
  <2>2. \A i \in DOMAIN s : \/ i \in DOMAIN transfers /\ s[i] = transfers[i]
                            \/ s[i] = t
    BY <1>1, <2>1
  <2>3. TransfersKeep(s, durable.files)
    BY <1>4, <2>2 DEF PinInv, TransfersKeep
  <2>4. QED
    BY <1>4, <2>1, <2>3
<1>5. CASE ~Tracked(id)
  <2>1. Transfer(id, e.path, e.rev).id = id
    BY DEF Transfer
  <2>2. QED
    BY <1>2, <1>4, <1>5, <2>1 DEF PlannedTransfers, Tracked
<1>6. CASE Tracked(id) /\ BytesChanged(files[id], e)
  <2>1. PICK t : t = Transfer(id, files[id].path, e.rev)
    OBVIOUS
  <2>2. t.id = id /\ t.path = files[id].path
    BY <2>1 DEF Transfer
  <2>3. PlannedTransfers(id, e) = <<t>>
    BY <1>6, <2>1 DEF PlannedTransfers
  <2>4. QED
    BY <1>2, <1>4, <2>2, <2>3
<1>7. QED
  BY <1>2, <1>3, <1>5, <1>6 DEF PlannedTransfers

\* A step of the listing and the planning leaves the map, and plans no move.
LEMMA ListingPins ==
  ASSUME RenamePolicy = "ignore", TypeInv, PinInv, UNCHANGED <<files, channel, durable>>,
         pc \in Listing, pc' \in Listing \cup {"emit", "failed"},
         \/ ops' = ops
         \/ ops' = <<>>
         \/ \E id \in Ids : \E e : ops' = ops \o PlannedOps(id, e)
         \/ \E id : ops' = Append(ops, DeleteOp(id, files[id])),
         \/ transfers' = transfers
         \/ transfers' = <<>>
         \/ \E id \in Ids : \E e : transfers' = transfers \o PlannedTransfers(id, e)
  PROVE  PinInv'
<1>1. files = durable.files /\ pc # "idle" /\ pc' # "idle"
  BY DEF PinInv, Listing
<1>2. \A i \in DOMAIN ops' : ops'[i].kind = "delete"
  <2>1. ASSUME NEW id, ops' = Append(ops, DeleteOp(id, files[id]))
        PROVE  \A i \in DOMAIN ops' : ops'[i].kind = "delete"
    <3>1. PICK op : op = DeleteOp(id, files[id])
      OBVIOUS
    <3>2. op.kind = "delete"
      BY <3>1 DEF DeleteOp
    <3>3. \A i \in DOMAIN ops' : \/ i \in DOMAIN ops /\ ops'[i] = ops[i]
                                 \/ ops'[i] = op
      BY <2>1, <3>1, AttemptTypes
    <3>4. QED
      BY <3>2, <3>3 DEF PinInv
  <2>2. CASE ops' = <<>>
    BY <2>2
  <2>3. CASE ops' = ops
    BY <2>3 DEF PinInv
  <2>4. ASSUME NEW id \in Ids, NEW e, ops' = ops \o PlannedOps(id, e) PROVE ops' = ops
    BY <1>1, <2>4, PinnedPlans
  <2>5. QED
    BY <2>1, <2>2, <2>3, <2>4
<1>3. TransfersKeep(transfers', durable.files)
  <2>1. TransfersKeep(<<>>, durable.files)
    BY DEF TransfersKeep
  <2>2. QED
    BY <1>1, <2>1, PinnedPlans DEF PinInv
<1>4. QED
  BY <1>1, <1>2, <1>3 DEF PinInv

\* The steps of an attempt.
LEMMA SourcePins ==
  ASSUME RenamePolicy = "ignore", TypeInv, PinInv, UNCHANGED durable, SourceStep \/ CursorReset
  PROVE  PinInv'
<1>0. /\ files \in FileMap /\ ops \in Seq(MoveOps \cup DeleteOps) /\ transfers \in Seq(Transfers)
      /\ channel \in Seq(Records \cup StateMsgs) /\ journal \in Seq(Event)
      /\ pos \in Nat /\ pageEnd \in Nat /\ pageEnd <= Len(journal)
  BY AttemptTypes
<1>1. CASE \/ \E last \in 0 .. MaxEvents : DeltaPage(last)
           \/ DeltaListed \/ TombstonesPlanned \/ ListFolder \/ SnapshotPage \/ SnapshotListed
           \/ InventoryPlanned \/ RemovalsPlanned \/ CursorReset
  <2>1. /\ UNCHANGED <<files, channel>> /\ pc \in Listing /\ pc' \in Listing \cup {"emit", "failed"}
        /\ ops' = ops \/ ops' = <<>>
        /\ transfers' = transfers \/ transfers' = <<>>
    BY <1>1 DEF DeltaPage, DeltaListed, TombstonesPlanned, ListFolder, SnapshotPage, SnapshotListed,
                InventoryPlanned, RemovalsPlanned, CursorReset, cursorVars, planVars, listVars, Listing
  <2>2. QED
    BY <2>1, ListingPins
<1>2. CASE DeltaEntry
  <2>1. PICK e : e = journal[pos + 1]
    OBVIOUS
  <2>2. e.id # 0 => e.id \in Ids
    <3>1. pos + 1 \in DOMAIN journal
      BY <1>0, <1>2 DEF DeltaEntry
    <3>2. e \in Event
      BY <1>0, <2>1, <3>1
    <3>3. QED
      BY <3>2 DEF Event
  <2>3. /\ UNCHANGED <<files, channel>> /\ pc = "delta" /\ pc' = pc
        /\ \/ UNCHANGED <<ops, transfers>>
           \/ /\ e.id # 0 /\ ops' = ops \o PlannedOps(e.id, e)
              /\ transfers' = transfers \o PlannedTransfers(e.id, e)
    BY <1>2, <2>1 DEF DeltaEntry, PlanChangedFile, cursorVars
  <2>4. pc \in Listing /\ pc' \in Listing \cup {"emit", "failed"}
    BY <2>3 DEF Listing
  <2>5. QED
    BY <2>2, <2>3, <2>4, ListingPins
<1>3. CASE \E p \in Paths : PlanTombstone(p)
  <2>1. /\ UNCHANGED <<files, channel, transfers>> /\ pc \in Listing /\ pc' \in Listing \cup {"emit", "failed"}
        /\ ops' = ops \/ \E id : ops' = Append(ops, DeleteOp(id, files[id]))
    BY <1>3 DEF PlanTombstone, cursorVars, Listing
  <2>2. QED
    BY <2>1, ListingPins
<1>4. CASE \E id \in Ids : PlanInventory(id)
  <2>1. PICK id \in Ids : PlanInventory(id)
    BY <1>4
  <2>2. /\ UNCHANGED <<files, channel>> /\ pc \in Listing /\ pc' \in Listing \cup {"emit", "failed"}
        /\ ops' = ops \o PlannedOps(id, inventory[id])
        /\ transfers' = transfers \/ transfers' = transfers \o PlannedTransfers(id, inventory[id])
    BY <2>1 DEF PlanInventory, cursorVars, Listing
  <2>3. QED
    BY <2>2, ListingPins
<1>5. CASE \E id \in Ids : PlanRemoval(id)
  <2>1. /\ UNCHANGED <<files, channel, transfers>> /\ pc \in Listing /\ pc' \in Listing \cup {"emit", "failed"}
        /\ \E id : ops' = Append(ops, DeleteOp(id, files[id]))
    BY <1>5 DEF PlanRemoval, cursorVars, Listing
  <2>2. QED
    BY <2>1, ListingPins
<1>6. CASE EmitOperation
  <2>1. PICK op : op = Head(ops)
    OBVIOUS
  <2>2. /\ pc = "emit" /\ ops # <<>> /\ channel' = Append(channel, op) /\ UNCHANGED transfers
        /\ op.kind = "delete" /\ op.id \in Ids
    <3>1. pc = "emit" /\ ops # <<>> /\ channel' = Append(channel, op) /\ UNCHANGED transfers
      BY <1>6, <2>1 DEF EmitOperation
    <3>2. 1 \in DOMAIN ops /\ op = ops[1] /\ op \in MoveOps \cup DeleteOps
      BY <1>0, <2>1, <3>1
    <3>3. op.kind = "delete"
      BY <3>2 DEF PinInv
    <3>4. op.id \in Ids
      BY <3>2 DEF MoveOps, DeleteOps
    <3>5. QED
      BY <3>1, <3>3, <3>4
  <2>3. \/ pc' = "emit" /\ MarkDelete(op) /\ ops' = Tail(ops)
        \/ pc' = "failed" /\ UNCHANGED <<files, ops>>
    BY <1>6, <2>1, <2>2 DEF EmitOperation
  <2>4. \A i \in DOMAIN ops' : ops'[i].kind = "delete"
    <3>1. \A i \in DOMAIN Tail(ops) : i + 1 \in DOMAIN ops /\ Tail(ops)[i] = ops[i + 1]
      BY <1>0, <2>2, TailElements
    <3>2. QED
      BY <2>3, <3>1 DEF PinInv
  <2>5. \A id \in Ids : files'[id] \in {files[id], Absent}
    BY <1>0, <2>2, <2>3 DEF MarkDelete, FileMap
  <2>6. Keeps(files', durable.files)
    BY <2>2, <2>5 DEF PinInv, Keeps
  <2>7. \A i \in DOMAIN channel' : \/ i \in DOMAIN channel /\ channel'[i] = channel[i]
                                   \/ channel'[i] = op
    BY <1>0, <2>2
  <2>8. StatesKeep(channel', durable.files)
    BY <2>2, <2>7 DEF PinInv, StatesKeep
  <2>9. QED
    BY <2>2, <2>3, <2>4, <2>6, <2>8 DEF PinInv, Listing
<1>7. CASE OperationsEmitted
  BY <1>7 DEF OperationsEmitted, PinInv, Listing, cursorVars
<1>8. CASE TransferFile
  <2>1. PICK t : t = Head(transfers)
    OBVIOUS
  <2>2. /\ pc = "transfer" /\ pc' = pc /\ transfers # <<>> /\ transfers' = Tail(transfers)
        /\ channel' = Append(channel, FileMsg(t)) /\ AddFile(t) /\ UNCHANGED ops
    BY <1>8, <2>1 DEF TransferFile
  <2>3. t \in Transfers /\ t = transfers[1] /\ 1 \in DOMAIN transfers
    BY <1>0, <2>1, <2>2
  <2>4. t.id \in Ids /\ (durable.files[t.id] # Absent => t.path = durable.files[t.id].path)
    BY <2>3 DEF Transfers, PinInv, TransfersKeep
  <2>5. /\ files'[t.id] = [path |-> t.path, rev |-> t.rev]
        /\ \A id \in Ids \ {t.id} : files'[id] = files[id]
    BY <1>0, <2>2, <2>4 DEF AddFile, FileMap
  <2>6. Keeps(files', durable.files)
    BY <2>2, <2>4, <2>5 DEF PinInv, Keeps
  <2>7. TransfersKeep(transfers', durable.files)
    BY <1>0, <2>2, TailElements DEF PinInv, TransfersKeep
  <2>8. FileMsg(t).kind = "file"
    BY DEF FileMsg
  <2>9. \A i \in DOMAIN channel' : \/ i \in DOMAIN channel /\ channel'[i] = channel[i]
                                   \/ channel'[i] = FileMsg(t)
    BY <1>0, <2>2
  <2>10. StatesKeep(channel', durable.files)
    BY <2>8, <2>9 DEF PinInv, StatesKeep
  <2>11. QED
    BY <2>2, <2>6, <2>7, <2>10 DEF PinInv, Listing
<1>9. CASE Finish
  <2>1. PICK m : m = StateMsg([files |-> files, cursor |-> cursor'])
    OBVIOUS
  <2>2. m.state.files = files
    BY <2>1 DEF StateMsg
  <2>3. pc = "transfer" /\ pc' = "done" /\ channel' = Append(channel, m) /\ UNCHANGED <<files, ops, transfers>>
    BY <1>9, <2>1 DEF Finish
  <2>4. \A i \in DOMAIN channel' : \/ i \in DOMAIN channel /\ channel'[i] = channel[i]
                                   \/ channel'[i] = m
    BY <1>0, <2>3
  <2>5. StatesKeep(channel', durable.files)
    BY <2>2, <2>3, <2>4 DEF PinInv, StatesKeep
  <2>6. QED
    BY <2>3, <2>5 DEF PinInv, Listing
<1>10. QED
  BY <1>1, <1>2, <1>3, <1>4, <1>5, <1>6, <1>7, <1>8, <1>9 DEF SourceStep

\* An attempt that ends leaves a durable state that keeps the paths of the one before.
LEMMA CheckpointPins ==
  ASSUME TypeInv, PinInv, Refuse \/ Checkpoint \/ SourceFailed \/ Abort
  PROVE  PinInv' /\ Keeps(durable'.files, durable.files)
<1>1. EndAttempt
  BY DEF Refuse, Checkpoint, SourceFailed, Abort
<1>2. PinInv'
  BY <1>1 DEF EndAttempt, PinInv, TransfersKeep, StatesKeep, Listing
<1>3. CASE Checkpoint
  <2>1. 1 \in DOMAIN channel /\ Head(channel) = channel[1] /\ channel[1].kind = "state"
    BY <1>3, AttemptTypes DEF Checkpoint
  <2>2. QED
    BY <1>2, <1>3, <2>1 DEF Checkpoint, PinInv, StatesKeep
<1>4. CASE UNCHANGED durable
  BY <1>2, <1>4 DEF Keeps
<1>5. QED
  BY <1>3, <1>4 DEF Refuse, SourceFailed, Abort

\* Every step keeps the invariant and the paths of the durable state.
LEMMA PinStep ==
  ASSUME RenamePolicy = "ignore"
  PROVE  TypeInv /\ PinInv /\ [Next]_vars => PinInv' /\ Keeps(durable'.files, durable.files)
<1> SUFFICES ASSUME TypeInv, PinInv, [Next]_vars
             PROVE  PinInv' /\ Keeps(durable'.files, durable.files)
  OBVIOUS
<1>1. UNCHANGED durable => Keeps(durable'.files, durable.files)
  BY DEF Keeps
<1>2. CASE Change \/ UNCHANGED vars
  <2>1. UNCHANGED <<files, pc, ops, transfers, channel, durable>>
    BY <1>2 DEF Change, vars, sourceVars, cursorVars
  <2>2. QED
    BY <1>1, <2>1 DEF PinInv
<1>3. CASE Start
  <2>1. /\ pc = "idle" /\ files' = durable.files /\ pc' \in {"delta", "snapshot"}
        /\ UNCHANGED <<ops, transfers, channel, durable>>
    BY <1>3 DEF Start, StartAttempt, SetInitialState
  <2>2. QED
    BY <1>1, <2>1 DEF PinInv, Keeps, Listing
<1>4. CASE Source \/ Reset
  BY <1>1, <1>4, SourcePins DEF Source, Reset
<1>5. CASE Skip
  <2>1. /\ UNCHANGED <<files, ops, channel, durable, pc>> /\ pc = "transfer" /\ transfers # <<>>
        /\ transfers' = Tail(transfers)
    BY <1>5 DEF Skip, SkipFile, cursorVars
  <2>2. TransfersKeep(transfers', durable.files)
    BY <2>1, AttemptTypes, TailElements DEF PinInv, TransfersKeep
  <2>3. QED
    BY <1>1, <2>1, <2>2 DEF PinInv
<1>6. CASE Deliver
  <2>1. UNCHANGED <<files, ops, transfers, durable, pc>> /\ channel # <<>> /\ channel' = Tail(channel)
    BY <1>6 DEF Deliver, cursorVars
  <2>2. StatesKeep(channel', durable.files)
    BY <2>1, AttemptTypes, TailElements DEF PinInv, StatesKeep
  <2>3. QED
    BY <1>1, <2>1, <2>2 DEF PinInv
<1>7. CASE Refuse \/ Checkpoint \/ SourceFailed \/ Abort
  BY <1>7, CheckpointPins
<1>8. QED
  BY <1>2, <1>3, <1>4, <1>5, <1>6, <1>7 DEF Next

\* With renames ignored no step moves a file in the durable state to another path, whatever
\* the folder, the listing, the globs and the other policies are (cursor.py, where the path
\* of a tracked file is taken from the map).
THEOREM PinsKept ==
  ASSUME RenamePolicy = "ignore"
  PROVE  Spec => PinnedPathIsKept
<1>1. Init => TypeInv /\ PinInv
  BY InitTypeInv DEF Init, NoAttempt, PinInv, TransfersKeep, StatesKeep, Listing
<1>2. TypeInv /\ PinInv /\ [Next]_vars => (TypeInv /\ PinInv)'
  BY TypeInvInductive, PinStep
<1>3. TypeInv /\ PinInv /\ [Next]_vars =>
        [\A id \in Ids : durable.files[id] # Absent /\ durable'.files[id] # Absent
            => durable'.files[id].path = durable.files[id].path]_vars
  BY PinStep DEF Keeps
<1>4. QED
  BY <1>1, <1>2, <1>3, PTL DEF Spec, PinnedPathIsKept
=====
