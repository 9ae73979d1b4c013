----------------------------- MODULE CopyProofs -----------------------------
(***************************************************************************)
(* Proofs about the native pair that need what the destination holds, for  *)
(* any number of files, paths and revisions, any globs, skips and resets,  *)
(* if no path is used by two files and no attempt aborted (Undisturbed).   *)
(*                                                                         *)
(* CopiesKept           Spec => []PinnedCopies                             *)
(* EverythingAccepted   Spec => []NothingRefused                           *)
(* ExactCopy            Spec => []Mirrored, if besides renames and         *)
(*                      deletions are propagated (Exact)                   *)
(*                                                                         *)
(* What the destination holds and what the map says differ by what is on   *)
(* the channel.  CopyInv says that the messages there lead, one by one,    *)
(* from the one to the other (Arriving): each finds what its hash says,    *)
(* and a state finds its own map in place.  So that the next message can   *)
(* join them, it says of what is still planned that it matches the map     *)
(* (OpsMatch, TransfersMatch), is planned once (PlannedOnce), and is of    *)
(* paths that belong to its file (PathsOwned).                             *)
(*                                                                         *)
(* For the exact copy, the map must also lose the files that are gone or   *)
(* were renamed out of the selection.  PlaceInv says of a file of the map  *)
(* that it was at its path as far as the cursor reaches, or came there     *)
(* later (PlacedAt); so if it is there no more, the deletion it left is    *)
(* still to be listed, and what was listed has become an operation by the  *)
(* time the cursor moves (GoneFound).                                      *)
(***************************************************************************)
EXTENDS HistoryProofs, WellFoundedInduction

-----------------------------------------------------------------------------
(* That the destination holds what the map says, once it has handled what  *)
(* is on the channel.                                                      *)

\* What this holds under: no path is shared by two files and no attempt is aborted, what is
\* there is overwritten, a listing that renames are followed from is of one moment, and a
\* path has one spelling wherever something is moved or deleted.
Undisturbed ==
    /\ ConflictPolicy = "overwrite"
    /\ MaxAborts = 0
    /\ ~ReusePaths
    /\ RenamePolicy = "propagate" => ~Paged
    /\ RenamePolicy = "propagate" \/ DeletePolicy = "delete" =>
          \A p, q \in Paths : SamePath(p, q) => p = q

Contents == [Keys -> Hashes \cup {NoFile}]

\* Every file of the map is at its path with its bytes and, where renames are followed,
\* there is nothing else.
Holds(d, map) ==
    /\ \A id \in Ids : map[id] # Absent => d[Fold[map[id].path]] = Hash[map[id].rev]
    /\ RenamePolicy = "propagate" =>
          \A k \in Keys : d[k] # NoFile => \E id \in Ids : map[id] # Absent /\ Fold[map[id].path] = k

\* A destination that holds a accepts the message r and holds b after it.
Handles(a, r, b) ==
    \/ r.kind = "file" /\ b = [a EXCEPT ![Fold[r.path]] = Hash[r.rev]]
    \/ /\ r.kind = "move"
       /\ a[Fold[r.old]] = r.oldHash /\ a[Fold[r.new]] = NoFile
       /\ b = [a EXCEPT ![Fold[r.new]] = a[Fold[r.old]], ![Fold[r.old]] = NoFile]
    \/ /\ r.kind = "delete"
       /\ a[Fold[r.old]] = r.oldHash
       /\ b = [a EXCEPT ![Fold[r.old]] = NoFile]
    \/ /\ r.kind = "state"
       /\ Holds(a, r.state.files)
       /\ b = a

\* The messages s lead by the contents w from what is there, d, to what the map says.
Course(w, d, s, map) ==
    /\ w \in [0 .. Len(s) -> Contents]
    /\ w[0] = d
    /\ \A i \in 1 .. Len(s) : Handles(w[i - 1], s[i], w[i])
    /\ Holds(w[Len(s)], map)

Arriving(d, s, map) == \E w : Course(w, d, s, map)

\* A path belongs to the one file that was ever there.
OneOwner(j) ==
    \A i, k \in DOMAIN j :
        j[i].id # 0 /\ j[k].id # 0 /\ SamePath(j[i].path, j[k].path) => j[i].id = j[k].id

Owned(j, id, p) == \E k \in DOMAIN j : j[k].id = id /\ SamePath(j[k].path, p)

MapOwned(map, j) == \A id \in Ids : map[id] # Absent => Owned(j, id, map[id].path)

OpsOwned(o, j) == \A i \in DOMAIN o : o[i].kind = "move" => Owned(j, o[i].id, o[i].new)

TransfersOwned(t, j) == \A i \in DOMAIN t : Owned(j, t[i].id, t[i].path)

StatesOwned(s, j) == \A i \in DOMAIN s : s[i].kind = "state" => MapOwned(s[i].state.files, j)

\* Each operation is of what the map says of its file, and there is one for a file.
OpsMatch(m, o) ==
    /\ \A i \in DOMAIN o :
          /\ m[o[i].id] # Absent
          /\ o[i].old = m[o[i].id].path /\ o[i].oldHash = Hash[m[o[i].id].rev]
          /\ o[i].kind = "move" => RenamePolicy = "propagate" /\ o[i].new # o[i].old
    /\ \A i, k \in DOMAIN o : o[i].id = o[k].id => i = k

\* Where renames are propagated, a file is transferred once, and to where its move leaves it.
TransfersMatch(m, o, t) ==
    RenamePolicy = "propagate" =>
        /\ \A i \in DOMAIN t, k \in DOMAIN o :
              o[k].kind = "move" /\ o[k].id = t[i].id => o[k].new = t[i].path
        /\ \A i \in DOMAIN t :
              \/ m[t[i].id] = Absent
              \/ m[t[i].id].path = t[i].path
              \/ \E k \in DOMAIN o : o[k].kind = "move" /\ o[k].id = t[i].id
        /\ \A i, k \in DOMAIN t : t[i].id = t[k].id => i = k

PathsOwned ==
    /\ OneOwner(journal)
    /\ MapOwned(durable.files, journal) /\ MapOwned(files, journal) /\ MapOwned(inventory, journal)
    /\ OpsOwned(ops, journal) /\ TransfersOwned(transfers, journal) /\ StatesOwned(channel, journal)

\* A file is listed once where renames are followed, and planned once.
PlannedOnce ==
    /\ pc = "delta" =>
          /\ \A i \in DOMAIN ops : ops[i].kind = "move"
          /\ RenamePolicy = "propagate" =>
                /\ \A i \in DOMAIN ops : \E k \in 1 .. pos : journal[k].id = ops[i].id /\ LatestIn(journal, k)
                /\ \A i \in DOMAIN transfers :
                      \E k \in 1 .. pos : journal[k].id = transfers[i].id /\ LatestIn(journal, k)
    /\ pc \in {"delta", "tombstones"} =>
          /\ \A i \in DOMAIN ops : ops[i].kind = "move" => Fold[ops[i].old] \in consumed
          /\ \A i \in DOMAIN ops : ops[i].kind # "move" => ops[i].old \notin deleted
    /\ pc = "inventory" =>
          /\ \A i \in DOMAIN ops : inventory[ops[i].id] # Absent /\ ops[i].id \notin todo
          /\ \A i \in DOMAIN transfers : transfers[i].id \notin todo
    /\ pc = "removals" => \A i \in DOMAIN ops : ops[i].id \notin todo
    /\ pc = "tombstones" => DeletePolicy = "delete"

Stages ==
    /\ pc \in Listing \cup {"idle", "failed"} => channel = <<>>
    /\ pc \in Listing \cup {"failed"} => files = durable.files
    /\ pc \in {"idle", "snapshot", "relist"} => ops = <<>> /\ transfers = <<>>
    /\ pc \in {"transfer", "done"} => ops = <<>>

Agreed ==
    /\ pc \in {"idle", "failed"} => Holds(dest, durable.files)
    /\ pc # "idle" => Arriving(dest, channel, files)

CopyInv ==
    /\ FolderHistory(live, journal)
    /\ PathsOwned
    /\ Stages
    /\ PlannedOnce
    /\ pc \in Underway => OpsMatch(files, ops) /\ TransfersMatch(files, ops, transfers)
    /\ Agreed

\* Nothing planned matches any map.
LEMMA NothingMatches ==
  ASSUME NEW m, NEW j
  PROVE  OpsMatch(m, <<>>) /\ TransfersMatch(m, <<>>, <<>>) /\ OpsOwned(<<>>, j) /\ TransfersOwned(<<>>, j)
         /\ StatesOwned(<<>>, j)
BY DEF OpsMatch, TransfersMatch, OpsOwned, TransfersOwned, StatesOwned

\* What a file owns it owns still as the history grows.
LEMMA OwnedStays ==
  ASSUME NEW j, NEW j2, Extends(j, j2), NEW id, NEW p, Owned(j, id, p)
  PROVE  Owned(j2, id, p)
<1>1. PICK k \in DOMAIN j : j[k].id = id /\ SamePath(j[k].path, p)
  BY DEF Owned
<1>2. k \in DOMAIN j2 /\ j2[k] = j[k]
  <2>1. DOMAIN j = 1 .. Len(j) /\ DOMAIN j2 = 1 .. Len(j2) /\ Len(j) \in Nat /\ Len(j2) \in Nat /\ Len(j) < Len(j2)
    BY DEF Extends
  <2>2. QED
    BY <1>1, <2>1 DEF Extends
<1>3. QED
  BY <1>1, <1>2 DEF Owned

\* A path has one owner.
LEMMA OwnerIsUnique ==
  ASSUME NEW j, OneOwner(j), NEW a \in Ids, NEW b \in Ids, NEW p, NEW q, Owned(j, a, p), Owned(j, b, q),
         SamePath(p, q)
  PROVE  a = b
<1>1. PICK i \in DOMAIN j : j[i].id = a /\ SamePath(j[i].path, p)
  BY DEF Owned
<1>2. PICK k \in DOMAIN j : j[k].id = b /\ SamePath(j[k].path, q)
  BY DEF Owned
<1>3. a # 0 /\ b # 0
  BY FolderAssumption
<1>4. SamePath(j[i].path, j[k].path)
  BY <1>1, <1>2 DEF SamePath
<1>5. QED
  BY <1>1, <1>2, <1>3, <1>4 DEF OneOwner

\* The owner of a file's own path in the folder is that file.
LEMMA LiveIsOwned ==
  ASSUME NEW l, NEW j, FolderHistory(l, j), NEW id \in Ids, l[id] # Absent
  PROVE  Owned(j, id, l[id].path)
<1>1. PICK k \in DOMAIN j : Current(l, j, id, k)
  BY DEF FolderHistory, HistoryOf
<1>2. QED
  BY <1>1 DEF Current, EventsIn, Owned, SamePath

\* Files that own the paths they have do so at different keys.
LEMMA KeysDiffer ==
  ASSUME NEW j, OneOwner(j), NEW map, MapOwned(map, j), NEW a \in Ids, NEW b \in Ids, map[a] # Absent,
         NEW p, Owned(j, b, p), Fold[map[a].path] = Fold[p]
  PROVE  a = b
BY OwnerIsUnique DEF MapOwned, SamePath

-----------------------------------------------------------------------------
(* What a record does to what is there.                                    *)

\* The keys of paths and the hashes of revisions.
LEMMA KeysOfPaths ==
  /\ \A p \in Paths : Fold[p] \in Keys
  /\ \A r \in Revs : Hash[r] \in Hashes /\ Hash[r] # NoFile
BY DestinationAssumption DEF Keys, Hashes

\* A file that is uploaded to a path it owns.
LEMMA HoldsUploaded ==
  ASSUME NEW j, OneOwner(j), NEW map \in FileMap, MapOwned(map, j), NEW a \in Contents, Holds(a, map),
         NEW id \in Ids, NEW v \in Version, Owned(j, id, v.path),
         RenamePolicy = "propagate" => map[id] = Absent \/ map[id].path = v.path,
         NEW b, b[Fold[v.path]] = Hash[v.rev], \A k \in Keys : k # Fold[v.path] => b[k] = a[k],
         NEW m, m[id] = v, \A o \in Ids \ {id} : m[o] = map[o]
  PROVE  Holds(b, m)
<1> DEFINE p == v.path
           r == v.rev
<1>1. /\ m[id] = v /\ \A o \in Ids \ {id} : m[o] = map[o]
      /\ m[id].path = p /\ m[id].rev = r /\ p \in Paths /\ r \in Revs
  BY DEF Version
<1>2. Fold[p] \in Keys /\ Hash[r] \in Hashes
  BY <1>1, KeysOfPaths
<1>3. b[Fold[p]] = Hash[r] /\ \A k \in Keys : k # Fold[p] => b[k] = a[k]
  OBVIOUS
<1>4. m[id] # Absent
  <2>1. p # 0
    BY <1>1, FolderAssumption
  <2>2. v.path # Absent.path
    BY <1>1, <2>1 DEF Absent
  <2>3. QED
    BY <1>1, <2>2
<1>5. ASSUME NEW o \in Ids, m[o] # Absent PROVE b[Fold[m[o].path]] = Hash[m[o].rev]
  <2>1. CASE o = id
    BY <1>1, <1>3, <2>1
  <2>2. CASE o # id
    <3>1. map[o] # Absent /\ m[o] = map[o]
      BY <1>1, <1>5, <2>2
    <3>2. map[o].path \in Paths
      BY <3>1 DEF FileMap, Version
    <3>3. Fold[map[o].path] # Fold[p]
      BY <2>2, <3>1, KeysDiffer
    <3>4. QED
      BY <1>3, <3>1, <3>2, <3>3, KeysOfPaths DEF Holds
  <2>3. QED
    BY <2>1, <2>2
<1>6. ASSUME RenamePolicy = "propagate", NEW k \in Keys, b[k] # NoFile
      PROVE  \E o \in Ids : m[o] # Absent /\ Fold[m[o].path] = k
  <2>1. CASE k = Fold[p]
    BY <1>1, <1>4, <2>1
  <2>2. CASE k # Fold[p]
    <3>1. PICK o \in Ids : map[o] # Absent /\ Fold[map[o].path] = k
      BY <1>3, <1>6, <2>2 DEF Holds
    <3>2. o # id
      BY <1>6, <2>2, <3>1
    <3>3. QED
      BY <1>1, <3>1, <3>2
  <2>3. QED
    BY <2>1, <2>2
<1>7. QED
  BY <1>5, <1>6 DEF Holds

\* A deletion of the file at the path it has in the map.
LEMMA HoldsDeleted ==
  ASSUME NEW j, OneOwner(j), NEW map \in FileMap, MapOwned(map, j), NEW a \in Contents, Holds(a, map),
         NEW id \in Ids, map[id] # Absent,
         NEW b, b = [a EXCEPT ![Fold[map[id].path]] = NoFile],
         NEW m, m = [map EXCEPT ![id] = Absent]
  PROVE  Holds(b, m) /\ b \in Contents
<1> DEFINE p == map[id].path
<1>1. m[id] = Absent /\ \A o \in Ids \ {id} : m[o] = map[o]
  BY DEF FileMap
<1>2. p \in Paths /\ Fold[p] \in Keys
  BY KeysOfPaths DEF FileMap, Version
<1>3. b[Fold[p]] = NoFile /\ b \in Contents /\ \A k \in Keys : k # Fold[p] => b[k] = a[k]
  BY <1>2 DEF Contents
<1>4. Owned(j, id, p)
  BY DEF MapOwned
<1>5. ASSUME NEW o \in Ids, m[o] # Absent PROVE b[Fold[m[o].path]] = Hash[m[o].rev]
  <2>1. o # id /\ map[o] # Absent /\ m[o] = map[o]
    BY <1>1, <1>5
  <2>2. map[o].path \in Paths
    BY <2>1 DEF FileMap, Version
  <2>3. Fold[map[o].path] # Fold[p]
    BY <1>4, <2>1, KeysDiffer
  <2>4. QED
    BY <1>3, <2>1, <2>2, <2>3, KeysOfPaths DEF Holds
<1>6. ASSUME RenamePolicy = "propagate", NEW k \in Keys, b[k] # NoFile
      PROVE  \E o \in Ids : m[o] # Absent /\ Fold[m[o].path] = k
  <2>1. k # Fold[p]
    BY <1>3, <1>6
  <2>2. PICK o \in Ids : map[o] # Absent /\ Fold[map[o].path] = k
    BY <1>3, <1>6, <2>1 DEF Holds
  <2>3. QED
    BY <1>1, <2>1, <2>2
<1>7. QED
  BY <1>3, <1>5, <1>6 DEF Holds

\* A move of the file to another path it owns, at which there is nothing.
LEMMA HoldsMoved ==
  ASSUME NEW j, OneOwner(j), NEW map \in FileMap, MapOwned(map, j), NEW a \in Contents, Holds(a, map),
         RenamePolicy = "propagate",
         NEW id \in Ids, map[id] # Absent, NEW q \in Paths, Owned(j, id, q), ~SamePath(map[id].path, q),
         NEW b, b = [a EXCEPT ![Fold[q]] = a[Fold[map[id].path]], ![Fold[map[id].path]] = NoFile],
         NEW m, m = [map EXCEPT ![id].path = q]
  PROVE  Holds(b, m) /\ b \in Contents /\ a[Fold[q]] = NoFile
<1> DEFINE p == map[id].path
<1>1. map[id] \in Version
  BY DEF FileMap
<1>2. /\ m[id].path = q /\ m[id].rev = map[id].rev /\ m[id] # Absent
      /\ \A o \in Ids \ {id} : m[o] = map[o]
  <2>1. m[id] = [path |-> q, rev |-> map[id].rev] /\ \A o \in Ids \ {id} : m[o] = map[o]
    BY <1>1 DEF FileMap, Version
  <2>2. q # 0
    BY FolderAssumption
  <2>3. QED
    BY <2>1, <2>2 DEF Absent
<1>3. p \in Paths /\ Fold[p] \in Keys /\ Fold[q] \in Keys /\ Fold[p] # Fold[q]
  BY <1>1, KeysOfPaths DEF Version, SamePath
<1>4. /\ b[Fold[p]] = NoFile /\ b[Fold[q]] = a[Fold[p]] /\ b \in Contents
      /\ \A k \in Keys : k # Fold[p] /\ k # Fold[q] => b[k] = a[k]
  BY <1>3 DEF Contents
<1>5. Owned(j, id, p)
  BY DEF MapOwned
<1>6. ASSUME NEW o \in Ids, m[o] # Absent PROVE b[Fold[m[o].path]] = Hash[m[o].rev]
  <2>1. CASE o = id
    <3>1. a[Fold[p]] = Hash[map[id].rev]
      BY DEF Holds
    <3>2. QED
      BY <1>2, <1>4, <2>1, <3>1
  <2>2. CASE o # id
    <3>1. map[o] # Absent /\ m[o] = map[o]
      BY <1>2, <1>6, <2>2
    <3>2. map[o].path \in Paths
      BY <3>1 DEF FileMap, Version
    <3>3. Fold[map[o].path] # Fold[p] /\ Fold[map[o].path] # Fold[q]
      BY <1>5, <2>2, <3>1, KeysDiffer
    <3>4. a[Fold[map[o].path]] = Hash[map[o].rev]
      BY <3>1 DEF Holds
    <3>5. Fold[map[o].path] \in Keys
      BY <3>2, KeysOfPaths
    <3>6. b[Fold[map[o].path]] = a[Fold[map[o].path]]
      BY <1>4, <3>3, <3>5
    <3>7. QED
      BY <3>1, <3>4, <3>6
  <2>3. QED
    BY <2>1, <2>2
<1>7. ASSUME NEW k \in Keys, b[k] # NoFile
      PROVE  \E o \in Ids : m[o] # Absent /\ Fold[m[o].path] = k
  <2>1. CASE k = Fold[q]
    BY <1>2, <2>1
  <2>2. CASE k # Fold[q]
    <3>1. k # Fold[p]
      BY <1>4, <1>7
    <3>2. PICK o \in Ids : map[o] # Absent /\ Fold[map[o].path] = k
      BY <1>4, <1>7, <2>2, <3>1 DEF Holds
    <3>3. QED
      BY <1>2, <3>1, <3>2
  <2>3. QED
    BY <2>1, <2>2
<1>8. a[Fold[q]] = NoFile
  <2> SUFFICES ASSUME a[Fold[q]] # NoFile PROVE FALSE
    OBVIOUS
  <2>1. PICK o \in Ids : map[o] # Absent /\ Fold[map[o].path] = Fold[q]
    BY <1>3 DEF Holds
  <2>2. o = id
    BY <2>1, KeysDiffer
  <2>3. QED
    BY <1>3, <2>1, <2>2
<1>9. QED
  BY <1>4, <1>6, <1>7, <1>8 DEF Holds

-----------------------------------------------------------------------------
(* The course of what is there.                                            *)

\* With nothing on the channel the destination holds what the map says.
LEMMA CourseEmpty ==
  ASSUME NEW d, NEW map
  PROVE  /\ d \in Contents /\ Holds(d, map) => Arriving(d, <<>>, map)
         /\ Arriving(d, <<>>, map) => Holds(d, map)
<1>1. ASSUME d \in Contents, Holds(d, map) PROVE Arriving(d, <<>>, map)
  <2>1. PICK w : w = [i \in 0 .. 0 |-> d]
    OBVIOUS
  <2>2. Len(<<>>) = 0 /\ w[0] = d /\ w \in [0 .. 0 -> Contents]
    BY <1>1, <2>1
  <2>3. Course(w, d, <<>>, map)
    BY <1>1, <2>2 DEF Course
  <2>4. QED
    BY <2>3 DEF Arriving
<1>2. ASSUME Arriving(d, <<>>, map) PROVE Holds(d, map)
  <2>1. PICK w : Course(w, d, <<>>, map)
    BY <1>2 DEF Arriving
  <2>2. QED
    BY <2>1 DEF Course
<1>3. QED
  BY <1>1, <1>2

\* A message that is sent leads on from where the others led.
LEMMA CourseSent ==
  ASSUME NEW T, NEW s \in Seq(T), NEW d, NEW map, NEW w, Course(w, d, s, map), NEW m \in T,
         NEW b \in Contents, Handles(w[Len(s)], m, b), NEW map2, Holds(b, map2)
  PROVE  Arriving(d, Append(s, m), map2)
<1>1. PICK n : n = Len(s) + 1
  OBVIOUS
<1>2. PICK v : v = [i \in 0 .. n |-> IF i = n THEN b ELSE w[i]]
  OBVIOUS
<1>3. PICK t : t = Append(s, m)
  OBVIOUS
<1>4. /\ Len(s) \in Nat /\ Len(t) = n /\ t[n] = m /\ \A i \in 1 .. Len(s) : t[i] = s[i]
  BY <1>1, <1>3
<1>5. /\ w \in [0 .. Len(s) -> Contents] /\ w[0] = d
      /\ \A i \in 1 .. Len(s) : Handles(w[i - 1], s[i], w[i])
  BY DEF Course
<1>6. v[n] = b /\ \A i \in 0 .. Len(s) : v[i] = w[i]
  BY <1>1, <1>2, <1>4
<1>7. v \in [0 .. n -> Contents]
  BY <1>1, <1>2, <1>4, <1>5
<1>8. ASSUME NEW i \in 1 .. n PROVE Handles(v[i - 1], t[i], v[i])
  <2>1. CASE i = n
    <3>1. v[i - 1] = w[Len(s)]
      BY <1>1, <1>4, <1>6, <2>1
    <3>2. QED
      BY <1>4, <1>6, <2>1, <3>1
  <2>2. CASE i # n
    <3>1. i \in 1 .. Len(s) /\ i - 1 \in 0 .. Len(s) /\ i \in 0 .. Len(s)
      BY <1>1, <1>4, <1>8, <2>2
    <3>2. QED
      BY <1>4, <1>5, <1>6, <3>1
  <2>3. QED
    BY <2>1, <2>2
<1>9. v[0] = d
  BY <1>4, <1>5, <1>6
<1>10. Course(v, d, t, map2)
  BY <1>4, <1>6, <1>7, <1>8, <1>9 DEF Course
<1>11. QED
  BY <1>3, <1>10 DEF Arriving

\* The message that is handled leads to where the others start.
LEMMA CourseHandled ==
  ASSUME NEW T, NEW s \in Seq(T), s # <<>>, NEW d, NEW map, Arriving(d, s, map)
  PROVE  \E b : Handles(d, Head(s), b) /\ Arriving(b, Tail(s), map)
<1>1. PICK w : Course(w, d, s, map)
  BY DEF Arriving
<1>2. PICK t : t = Tail(s)
  OBVIOUS
<1>3. /\ Len(s) \in Nat /\ Len(s) > 0 /\ Len(t) = Len(s) - 1 /\ Head(s) = s[1]
      /\ \A i \in 1 .. Len(t) : t[i] = s[i + 1]
  BY <1>2
<1>4. PICK v : v = [i \in 0 .. Len(t) |-> w[i + 1]]
  OBVIOUS
<1>5. /\ w \in [0 .. Len(s) -> Contents] /\ w[0] = d /\ Holds(w[Len(s)], map)
      /\ \A i \in 1 .. Len(s) : Handles(w[i - 1], s[i], w[i])
  BY <1>1 DEF Course
<1>6. \A i \in 0 .. Len(t) : v[i] = w[i + 1]
  BY <1>4
<1>7. v \in [0 .. Len(t) -> Contents] /\ v[0] = w[1] /\ v[Len(t)] = w[Len(s)]
  BY <1>3, <1>4, <1>5
<1>8. ASSUME NEW i \in 1 .. Len(t) PROVE Handles(v[i - 1], t[i], v[i])
  <2>1. i - 1 \in 0 .. Len(t) /\ i \in 0 .. Len(t) /\ i + 1 \in 1 .. Len(s) /\ i \in Int
    BY <1>3, <1>8
  <2>2. v[i - 1] = w[i] /\ v[i] = w[i + 1]
    BY <1>6, <2>1
  <2>3. Handles(w[(i + 1) - 1], s[i + 1], w[i + 1])
    BY <1>5, <2>1
  <2>4. (i + 1) - 1 = i
    BY <2>1
  <2>5. QED
    BY <1>3, <2>2, <2>3, <2>4
<1>9. Course(v, w[1], t, map)
  BY <1>5, <1>7, <1>8 DEF Course
<1>10. Handles(d, Head(s), w[1])
  <2>1. 1 \in 1 .. Len(s) /\ 1 - 1 = 0
    BY <1>3
  <2>2. Handles(w[1 - 1], s[1], w[1])
    BY <1>5, <2>1
  <2>3. QED
    BY <1>3, <1>5, <2>1, <2>2
<1>11. QED
  BY <1>2, <1>9, <1>10 DEF Arriving

-----------------------------------------------------------------------------
(* A change of the folder.                                                 *)

\* The parts of the types that the proofs use.
LEMMA CopyTypes ==
  ASSUME TypeInv
  PROVE  /\ inventory \in FileMap /\ todo \subseteq Ids /\ dest \in Contents
         /\ deleted \subseteq Paths
         /\ \A i \in DOMAIN ops : ops[i] \in MoveOps \cup DeleteOps /\ ops[i].id \in Ids
         /\ \A i \in DOMAIN transfers : transfers[i].id \in Ids
<1>1. /\ inventory \in FileMap /\ todo \subseteq Ids /\ dest \in Contents /\ deleted \subseteq Paths
      /\ ops \in Seq(MoveOps \cup DeleteOps) /\ transfers \in Seq(Transfers)
  BY DEF TypeInv, TypeOK, SourceTypeOK, Contents
<1>2. ASSUME NEW i \in DOMAIN ops PROVE ops[i] \in MoveOps \cup DeleteOps /\ ops[i].id \in Ids
  <2>1. ops[i] \in MoveOps \cup DeleteOps
    BY <1>1, <1>2
  <2>2. QED
    BY <2>1 DEF MoveOps, DeleteOps
<1>3. ASSUME NEW i \in DOMAIN transfers PROVE transfers[i].id \in Ids
  <2>1. transfers[i] \in Transfers
    BY <1>1, <1>3
  <2>2. QED
    BY <2>1 DEF Transfers
<1>4. QED
  BY <1>1, <1>2, <1>3

\* A change takes a path that is free or the file's own, since none is used again.
LEMMA PathIsFree ==
  ASSUME ~ReusePaths, TypeInv, FolderHistory(live, journal), OneOwner(journal),
         NEW id \in Ids, \/ \E p \in Paths, r \in Revs : Create(id, p, r)
                         \/ \E r \in Revs : Write(id, r)
                         \/ \E p \in Paths : Rename(id, p)
                         \/ Remove(id)
  PROVE  \/ live'[id] = Absent
         \/ \A k \in DOMAIN journal : SamePath(journal[k].path, live'[id].path) => journal[k].id \in {0, id}
<1>1. live \in [Ids -> Version \cup {Absent}]
  BY AttemptTypes
<1>2. ASSUME NEW p \in Paths, NEW r \in Revs, Create(id, p, r)
      PROVE  \A k \in DOMAIN journal : SamePath(journal[k].path, live'[id].path) => journal[k].id \in {0, id}
  <2>1. live'[id].path = p
    BY <1>1, <1>2 DEF Create
  <2>2. QED
    BY <1>2, <2>1 DEF Create, MayTake
<1>3. ASSUME NEW r \in Revs, Write(id, r)
      PROVE  \A k \in DOMAIN journal : SamePath(journal[k].path, live'[id].path) => journal[k].id \in {0, id}
  <2>1. live[id] \in Version /\ live[id] # Absent
    BY <1>1, <1>3 DEF Write, Exists
  <2>2. live'[id].path = live[id].path
    BY <1>1, <1>3, <2>1 DEF Write, Version
  <2>3. Owned(journal, id, live[id].path)
    BY <2>1, LiveIsOwned
  <2>4. PICK i \in DOMAIN journal : journal[i].id = id /\ SamePath(journal[i].path, live[id].path)
    BY <2>3 DEF Owned
  <2>5. id # 0
    BY FolderAssumption
  <2>6. ASSUME NEW k \in DOMAIN journal, SamePath(journal[k].path, live[id].path), journal[k].id # 0
        PROVE  journal[k].id = id
    BY <2>4, <2>5, <2>6 DEF OneOwner, SamePath
  <2>7. QED
    BY <2>2, <2>6
<1>4. ASSUME NEW p \in Paths, Rename(id, p)
      PROVE  \A k \in DOMAIN journal : SamePath(journal[k].path, live'[id].path) => journal[k].id \in {0, id}
  <2>1. live[id] \in Version
    BY <1>1, <1>4 DEF Rename, Exists
  <2>2. live'[id].path = p
    BY <1>1, <1>4, <2>1 DEF Rename, Version
  <2>3. QED
    BY <1>4, <2>2 DEF Rename, MayTake
<1>5. Remove(id) => live'[id] = Absent
  BY <1>1 DEF Remove
<1>6. QED
  BY <1>2, <1>3, <1>4, <1>5

\* A path keeps its owner.
LEMMA OwnersStay ==
  ASSUME ~ReusePaths, TypeInv, FolderHistory(live, journal), OneOwner(journal), FolderChange
  PROVE  /\ OneOwner(journal') /\ FolderHistory(live', journal')
         /\ Extends(journal, journal')
<1>1. PICK id \in Ids : \/ \E p \in Paths, r \in Revs : Create(id, p, r)
                        \/ \E r \in Revs : Write(id, r)
                        \/ \E p \in Paths : Rename(id, p)
                        \/ Remove(id)
  BY DEF FolderChange
<1>2. PICK o \in Ids : ChangeOf(live, journal, live', journal', o)
  BY FolderChanges
<1>3. /\ Extends(journal, journal') /\ Len(journal) \in Nat /\ Len(journal') \in Nat
      /\ DOMAIN journal = 1 .. Len(journal) /\ DOMAIN journal' = 1 .. Len(journal')
      /\ \A k \in DOMAIN journal : journal'[k] = journal[k]
  BY <1>2 DEF ChangeOf, Extends
<1>4. \A x \in Ids \ {id} : live'[x] = live[x]
  <2>1. live \in [Ids -> Version \cup {Absent}]
    BY AttemptTypes
  <2>2. QED
    BY <1>1, <2>1 DEF Create, Write, Rename, Remove
<1>5. ASSUME NEW k \in Fresh(journal, journal'), journal'[k].id # 0
      PROVE  /\ journal'[k].id = o
             /\ k = Len(journal')
             /\ \A i \in DOMAIN journal : SamePath(journal[i].path, journal'[k].path) => journal[i].id \in {0, o}
  <2>1. Arrives(live, journal, live', journal', o)
    BY <1>2, <1>5 DEF ChangeOf, Leaves
  <2>2. k = Len(journal') /\ journal'[k] = FileAt(live'[o].path, o, live'[o].rev) /\ live'[o] \in Version
    BY <1>5, <2>1 DEF Arrives
  <2>3. journal'[k].id = o /\ journal'[k].path = live'[o].path /\ live'[o] # Absent
    BY <2>2, AbsentIsNoVersion DEF FileAt
  <2>4. \A i \in DOMAIN journal : SamePath(journal[i].path, live'[o].path) => journal[i].id \in {0, o}
    <3>1. CASE o = id
      BY <1>1, <2>3, <3>1, PathIsFree
    <3>2. CASE o # id
      <4>1. live[o] = live'[o]
        BY <1>4, <3>2
      <4>2. PICK m \in DOMAIN journal : journal[m].id = o /\ SamePath(journal[m].path, live'[o].path)
        BY <2>3, <4>1, LiveIsOwned DEF Owned
      <4>3. o # 0
        BY FolderAssumption
      <4>4. QED
        BY <4>2, <4>3 DEF OneOwner, SamePath
    <3>3. QED
      BY <3>1, <3>2
  <2>5. QED
    BY <2>2, <2>3, <2>4
<1>6. OneOwner(journal')
  <2> SUFFICES ASSUME NEW i \in DOMAIN journal', NEW k \in DOMAIN journal', journal'[i].id # 0, journal'[k].id # 0,
                      SamePath(journal'[i].path, journal'[k].path)
               PROVE  journal'[i].id = journal'[k].id
    BY DEF OneOwner
  <2>1. /\ i \in DOMAIN journal \/ i \in Fresh(journal, journal')
        /\ k \in DOMAIN journal \/ k \in Fresh(journal, journal')
    BY <1>3 DEF Fresh
  <2>2. CASE i \in DOMAIN journal /\ k \in DOMAIN journal
    BY <1>3, <2>2 DEF OneOwner
  <2>3. CASE i \in DOMAIN journal /\ k \in Fresh(journal, journal')
    BY <1>3, <1>5, <2>3
  <2>4. CASE i \in Fresh(journal, journal') /\ k \in DOMAIN journal
    <3>1. SamePath(journal[k].path, journal'[i].path)
      BY <1>3, <2>4 DEF SamePath
    <3>2. QED
      BY <1>3, <1>5, <2>4, <3>1
  <2>5. CASE i \in Fresh(journal, journal') /\ k \in Fresh(journal, journal')
    BY <1>5, <2>5
  <2>6. QED
    BY <2>1, <2>2, <2>3, <2>4, <2>5
<1>7. QED
  BY <1>2, <1>3, <1>6, HistoryKept

\* A change of the folder changes nothing at the destination and leaves what is owned owned.
LEMMA ChangeCopies ==
  ASSUME Undisturbed, TypeInv, CopyInv, Change
  PROVE  CopyInv'
<1>1. /\ UNCHANGED <<files, pc, pos, inventory, todo, deleted, consumed, ops, transfers, channel, dest, durable>>
      /\ FolderChange
      /\ pc \in {"idle", "transfer"} \/ (pc \in {"delta", "relist"} /\ Paged)
  BY DEF Change, AwaitsDropbox, sourceVars, cursorVars, listVars, planVars, destinationVars
<1>2. OneOwner(journal') /\ FolderHistory(live', journal') /\ Extends(journal, journal')
  BY <1>1, OwnersStay DEF Undisturbed, CopyInv, PathsOwned
<1>3. \A id, p : Owned(journal, id, p) => Owned(journal', id, p)
  BY <1>2, OwnedStays
<1>4. \A map : MapOwned(map, journal) => MapOwned(map, journal')
  BY <1>3 DEF MapOwned
<1>5. PathsOwned'
  <2>1. /\ MapOwned(durable.files, journal') /\ MapOwned(files, journal') /\ MapOwned(inventory, journal')
        /\ OpsOwned(ops, journal') /\ TransfersOwned(transfers, journal') /\ StatesOwned(channel, journal')
    BY <1>3, <1>4 DEF CopyInv, PathsOwned, OpsOwned, TransfersOwned, StatesOwned
  <2>2. QED
    BY <1>1, <1>2, <2>1 DEF PathsOwned
<1>6. Stages' /\ Agreed'
  BY <1>1 DEF CopyInv, Stages, Agreed
<1>7. PlannedOnce'
  <2>1. pc = "delta" => RenamePolicy # "propagate"
    BY <1>1, Zenon DEF Undisturbed
  <2>2. QED
    BY <1>1, <2>1 DEF CopyInv, PlannedOnce
<1>8. (pc \in Underway => OpsMatch(files, ops) /\ TransfersMatch(files, ops, transfers))'
  BY <1>1 DEF CopyInv
<1>9. QED
  BY <1>2, <1>5, <1>6, <1>7, <1>8 DEF CopyInv

-----------------------------------------------------------------------------
(* Planning.                                                               *)

\* The operations o and transfers t are those planned and what file id needs to be as e.
OpsPlus(o, id, e) ==
    /\ \A i \in DOMAIN o :
          \/ i \in DOMAIN ops /\ o[i] = ops[i]
          \/ /\ i \notin DOMAIN ops /\ i = Len(ops) + 1
             /\ o[i] = MoveOp(id, files[id], e)
             /\ files[id] # Absent /\ files[id].path # e.path /\ RenamePolicy = "propagate"
    /\ \A i \in DOMAIN ops : i \in DOMAIN o /\ o[i] = ops[i]
    /\ files[id] # Absent /\ files[id].path # e.path /\ RenamePolicy = "propagate" =>
          \E i \in DOMAIN o : o[i] = MoveOp(id, files[id], e)

TransfersPlus(t, id, e) ==
    \A i \in DOMAIN t :
        \/ i \in DOMAIN transfers /\ t[i] = transfers[i]
        \/ /\ i \notin DOMAIN transfers /\ i = Len(transfers) + 1
           /\ t[i].id = id
           /\ \/ t[i].path = e.path
              \/ RenamePolicy = "ignore" /\ files[id] # Absent /\ t[i].path = files[id].path

\* The sequence t is s with x after it.
Longer(t, s, x) ==
    /\ \A i \in DOMAIN t : \/ i \in DOMAIN s /\ t[i] = s[i]
                           \/ i \notin DOMAIN s /\ i = Len(s) + 1 /\ t[i] = x
    /\ \A i \in DOMAIN s : i \in DOMAIN t /\ t[i] = s[i]
    /\ \E i \in DOMAIN t : t[i] = x

\* The elements of a sequence that one was appended to.
LEMMA Lengthened ==
  ASSUME NEW T, NEW s \in Seq(T), NEW x, NEW t, t = s \o <<x>>
  PROVE  Longer(t, s, x)
<1>1. /\ Len(t) = Len(s) + 1 /\ t[Len(s) + 1] = x /\ Len(s) \in Nat
      /\ DOMAIN t = 1 .. (Len(s) + 1) /\ DOMAIN s = 1 .. Len(s)
      /\ \A i \in DOMAIN s : t[i] = s[i]
  OBVIOUS
<1>2. \A i \in DOMAIN s : i \in DOMAIN t
  BY <1>1
<1>3. \A i \in DOMAIN t : i \in DOMAIN s \/ (i \notin DOMAIN s /\ i = Len(s) + 1)
  BY <1>1
<1>4. Len(s) + 1 \in DOMAIN t
  BY <1>1
<1>5. QED
  BY <1>1, <1>2, <1>3, <1>4 DEF Longer

\* What is planned for a file.
LEMMA FilePlus ==
  ASSUME TypeInv, NEW id \in Ids, NEW e
  PROVE  /\ OpsPlus(ops \o PlannedOps(id, e), id, e)
         /\ TransfersPlus(transfers \o PlannedTransfers(id, e), id, e)
         /\ TransfersPlus(transfers, id, e)
<1>1. ops \in Seq(MoveOps \cup DeleteOps) /\ transfers \in Seq(Transfers)
  BY AttemptTypes
<1>2. ops \o <<>> = ops /\ transfers \o <<>> = transfers
  BY <1>1
<1>3. OpsPlus(ops \o PlannedOps(id, e), id, e)
  <2>1. CASE Tracked(id) /\ files[id].path # e.path /\ RenamePolicy = "propagate"
    <3>1. PICK op : op = MoveOp(id, files[id], e)
      OBVIOUS
    <3>2. PlannedOps(id, e) = <<op>>
      BY <2>1, <3>1 DEF PlannedOps
    <3>3. PICK o : o = ops \o <<op>>
      OBVIOUS
    <3>4. Longer(o, ops, op)
      BY <1>1, <3>3, Lengthened
    <3>5. OpsPlus(o, id, e)
      BY <2>1, <3>1, <3>4 DEF OpsPlus, Tracked, Longer
    <3>6. QED
      BY <3>2, <3>3, <3>5
  <2>2. CASE ~(Tracked(id) /\ files[id].path # e.path /\ RenamePolicy = "propagate")
    <3>1. PlannedOps(id, e) = <<>>
      BY <2>2 DEF PlannedOps
    <3>2. OpsPlus(ops, id, e)
      BY <2>2 DEF OpsPlus, Tracked
    <3>3. QED
      BY <1>2, <3>1, <3>2
  <2>3. QED
    BY <2>1, <2>2
<1>4. TransfersPlus(transfers, id, e)
  BY DEF TransfersPlus
<1>5. TransfersPlus(transfers \o PlannedTransfers(id, e), id, e)
  <2>1. ASSUME NEW x, PlannedTransfers(id, e) = <<x>>, x.id = id,
               \/ x.path = e.path
               \/ RenamePolicy = "ignore" /\ files[id] # Absent /\ x.path = files[id].path
        PROVE  TransfersPlus(transfers \o PlannedTransfers(id, e), id, e)
    <3>1. PICK t : t = transfers \o <<x>>
      OBVIOUS
    <3>2. Longer(t, transfers, x)
      BY <1>1, <3>1, Lengthened
    <3>3. TransfersPlus(t, id, e)
      BY <2>1, <3>2 DEF TransfersPlus, Longer
    <3>4. QED
      BY <2>1, <3>1, <3>3
  <2>2. CASE ~Tracked(id)
    <3>1. PlannedTransfers(id, e) = <<Transfer(id, e.path, e.rev)>>
      BY <2>2 DEF PlannedTransfers
    <3>2. Transfer(id, e.path, e.rev).id = id /\ Transfer(id, e.path, e.rev).path = e.path
      BY DEF Transfer
    <3>3. QED
      BY <2>1, <3>1, <3>2
  <2>3. CASE Tracked(id) /\ BytesChanged(files[id], e)
    <3>1. PICK q : q = IF RenamePolicy = "propagate" THEN e.path ELSE files[id].path
      OBVIOUS
    <3>2. PlannedTransfers(id, e) = <<Transfer(id, q, e.rev)>>
      BY <2>3, <3>1 DEF PlannedTransfers
    <3>3. Transfer(id, q, e.rev).id = id /\ Transfer(id, q, e.rev).path = q
      BY DEF Transfer
    <3>4. q = e.path \/ (RenamePolicy = "ignore" /\ files[id] # Absent /\ q = files[id].path)
      BY <2>3, <3>1, PolicyAssumption DEF Tracked
    <3>5. QED
      BY <2>1, <3>2, <3>3, <3>4
  <2>4. CASE Tracked(id) /\ ~BytesChanged(files[id], e)
    BY <1>2, <1>4, <2>4 DEF PlannedTransfers
  <2>5. QED
    BY <2>2, <2>3, <2>4
<1>6. QED
  BY <1>3, <1>4, <1>5

\* They match the map if the file was not planned for before, and are owned if e is its.
LEMMA PlusMatches ==
  ASSUME NEW id \in Ids, NEW e, NEW o, OpsPlus(o, id, e), NEW t, TransfersPlus(t, id, e),
         OpsMatch(files, ops), TransfersMatch(files, ops, transfers),
         RenamePolicy = "propagate" =>
            /\ \A i \in DOMAIN ops : ops[i].id # id
            /\ \A i \in DOMAIN transfers : transfers[i].id # id,
         MapOwned(files, journal), OpsOwned(ops, journal), TransfersOwned(transfers, journal),
         Owned(journal, id, e.path)
  PROVE  /\ OpsMatch(files, o) /\ TransfersMatch(files, o, t)
         /\ OpsOwned(o, journal) /\ TransfersOwned(t, journal)
<1>1. PICK op : op = MoveOp(id, files[id], e)
  OBVIOUS
<1>2. /\ op.kind = "move" /\ op.id = id /\ op.old = files[id].path /\ op.oldHash = Hash[files[id].rev]
      /\ op.new = e.path
  BY <1>1 DEF MoveOp
<1>3. /\ \A i \in DOMAIN o :
            \/ i \in DOMAIN ops /\ o[i] = ops[i]
            \/ /\ i \notin DOMAIN ops /\ i = Len(ops) + 1 /\ o[i] = op
               /\ files[id] # Absent /\ files[id].path # e.path /\ RenamePolicy = "propagate"
      /\ \A i \in DOMAIN ops : i \in DOMAIN o /\ o[i] = ops[i]
      /\ files[id] # Absent /\ files[id].path # e.path /\ RenamePolicy = "propagate" =>
            \E i \in DOMAIN o : o[i] = op
  BY <1>1 DEF OpsPlus
<1>4. OpsMatch(files, o)
  <2>1. ASSUME NEW i \in DOMAIN o
        PROVE  /\ files[o[i].id] # Absent
               /\ o[i].old = files[o[i].id].path /\ o[i].oldHash = Hash[files[o[i].id].rev]
               /\ o[i].kind = "move" => RenamePolicy = "propagate" /\ o[i].new # o[i].old
    BY <1>2, <1>3 DEF OpsMatch
  <2>2. ASSUME NEW i \in DOMAIN o, NEW k \in DOMAIN o, o[i].id = o[k].id PROVE i = k
    BY <1>2, <1>3, <2>2 DEF OpsMatch
  <2>3. QED
    BY <2>1, <2>2 DEF OpsMatch
<1>5. OpsOwned(o, journal)
  BY <1>2, <1>3 DEF OpsOwned
<1>6. TransfersOwned(t, journal)
  BY DEF TransfersOwned, TransfersPlus, MapOwned
<1>7. ASSUME RenamePolicy = "propagate" PROVE TransfersMatch(files, o, t)
  <2>1. \A i \in DOMAIN t : \/ i \in DOMAIN transfers /\ t[i] = transfers[i]
                            \/ i \notin DOMAIN transfers /\ i = Len(transfers) + 1 /\ t[i].id = id /\ t[i].path = e.path
    BY <1>7 DEF TransfersPlus
  <2>2. ASSUME NEW i \in DOMAIN t, NEW k \in DOMAIN o, o[k].kind = "move", o[k].id = t[i].id
        PROVE  o[k].new = t[i].path
    BY <1>2, <1>3, <1>7, <2>1, <2>2 DEF TransfersMatch
  <2>3. ASSUME NEW i \in DOMAIN t
        PROVE  \/ files[t[i].id] = Absent
               \/ files[t[i].id].path = t[i].path
               \/ \E k \in DOMAIN o : o[k].kind = "move" /\ o[k].id = t[i].id
    BY <1>2, <1>3, <1>7, <2>1, <2>3 DEF TransfersMatch
  <2>4. ASSUME NEW i \in DOMAIN t, NEW k \in DOMAIN t, t[i].id = t[k].id PROVE i = k
    BY <1>7, <2>1, <2>4 DEF TransfersMatch
  <2>5. QED
    BY <2>2, <2>3, <2>4 DEF TransfersMatch
<1>8. QED
  BY <1>4, <1>5, <1>6, <1>7 DEF TransfersMatch

\* So does the deletion of a file of the map that nothing is planned for.
LEMMA DeleteMatches ==
  ASSUME TypeInv, NEW id \in Ids, files[id] # Absent, OpsMatch(files, ops), TransfersMatch(files, ops, transfers),
         \A i \in DOMAIN ops : ops[i].id # id, OpsOwned(ops, journal),
         NEW o, o = Append(ops, DeleteOp(id, files[id]))
  PROVE  /\ OpsMatch(files, o) /\ TransfersMatch(files, o, transfers) /\ OpsOwned(o, journal)
         /\ \A i \in DOMAIN o : \/ i \in DOMAIN ops /\ o[i] = ops[i]
                                \/ o[i] = DeleteOp(id, files[id])
<1>1. PICK op : op = DeleteOp(id, files[id])
  OBVIOUS
<1>2. op.kind = "delete" /\ op.id = id /\ op.old = files[id].path /\ op.oldHash = Hash[files[id].rev]
  BY <1>1 DEF DeleteOp
<1>3. ops \in Seq(MoveOps \cup DeleteOps)
  BY AttemptTypes
<1>4. o = ops \o <<op>>
  BY <1>1, <1>3
<1>5. Longer(o, ops, op)
  BY <1>3, <1>4, Lengthened
<1>6. OpsMatch(files, o)
  BY <1>2, <1>5 DEF OpsMatch, Longer
<1>7. TransfersMatch(files, o, transfers)
  BY <1>2, <1>5 DEF TransfersMatch, Longer
<1>8. OpsOwned(o, journal)
  BY <1>2, <1>5 DEF OpsOwned, Longer
<1>9. QED
  BY <1>1, <1>5, <1>6, <1>7, <1>8 DEF Longer

-----------------------------------------------------------------------------
(* The steps of an attempt.                                                *)

\* A step of the listing or planning sends nothing.
LEMMA QuietCopies ==
  ASSUME TypeInv, CopyInv, UNCHANGED <<live, journal, durable, files, channel, dest>>,
         pc \in Listing, pc' \in Listing \cup {"emit", "failed"},
         MapOwned(inventory', journal), OpsOwned(ops', journal), TransfersOwned(transfers', journal),
         pc' \in {"snapshot", "relist"} => ops' = <<>> /\ transfers' = <<>>,
         PlannedOnce',
         pc' # "failed" => OpsMatch(files, ops') /\ TransfersMatch(files, ops', transfers')
  PROVE  CopyInv'
<1>1. channel = <<>> /\ files = durable.files
  BY DEF CopyInv, Stages
<1>2. pc # "idle" /\ pc' # "idle" /\ pc' \notin {"transfer", "done"}
  BY DEF Listing
<1>3. Arriving(dest, channel, files)
  BY <1>2 DEF CopyInv, Agreed
<1>4. Holds(dest, durable.files)
  BY <1>1, <1>3, CourseEmpty
<1>5. Agreed'
  BY <1>2, <1>3, <1>4 DEF Agreed
<1>6. Stages'
  BY <1>1, <1>2 DEF Stages, Listing
<1>7. FolderHistory(live', journal') /\ PathsOwned'
  BY DEF CopyInv, PathsOwned
<1>8. (pc \in Underway => OpsMatch(files, ops) /\ TransfersMatch(files, ops, transfers))'
  BY DEF Underway, Listing
<1>9. QED
  BY <1>5, <1>6, <1>7, <1>8 DEF CopyInv

\* An attempt starts from the durable map.
LEMMA StartCopies ==
  ASSUME TypeInv, CopyInv, Start
  PROVE  CopyInv'
<1>1. /\ pc = "idle" /\ pc' \in {"delta", "snapshot"} /\ files' = durable.files
      /\ UNCHANGED <<live, journal, durable, inventory, todo, ops, transfers, channel, dest>>
  BY DEF Start, StartAttempt, SetInitialState, folderVars, planVars, destinationVars
<1>2. ops = <<>> /\ transfers = <<>> /\ channel = <<>> /\ Holds(dest, durable.files)
  BY <1>1 DEF CopyInv, Stages, Agreed
<1>3. Arriving(dest, channel, durable.files)
  BY <1>2, CopyTypes, CourseEmpty
<1>4. Agreed'
  BY <1>1, <1>3 DEF Agreed
<1>5. Stages' /\ PlannedOnce'
  BY <1>1, <1>2 DEF Stages, PlannedOnce, Listing
<1>6. FolderHistory(live', journal') /\ PathsOwned'
  BY <1>1 DEF CopyInv, PathsOwned
<1>7. (pc \in Underway => OpsMatch(files, ops) /\ TransfersMatch(files, ops, transfers))'
  BY <1>1, <1>2, NothingMatches
<1>8. QED
  BY <1>4, <1>5, <1>6, <1>7 DEF CopyInv

\* Steps that plan nothing: a page, a reset, the end of a listing and of a planning.
LEMMA ListingCopies ==
  ASSUME TypeInv, CopyInv, UNCHANGED <<live, journal, durable, dest>>,
         \/ \E last \in 0 .. MaxEvents : DeltaPage(last)
         \/ CursorReset \/ DeltaListed \/ TombstonesPlanned \/ SnapshotListed
         \/ InventoryPlanned \/ RemovalsPlanned
  PROVE  CopyInv'
<1>1. /\ MapOwned(inventory, journal) /\ OpsOwned(ops, journal) /\ TransfersOwned(transfers, journal)
      /\ pc \in Listing => OpsMatch(files, ops) /\ TransfersMatch(files, ops, transfers)
  BY DEF CopyInv, PathsOwned, Underway
<1>2. CASE \E last \in 0 .. MaxEvents : DeltaPage(last)
  <2>1. /\ pc = "delta" /\ pc' = pc
        /\ UNCHANGED <<files, channel, pos, inventory, todo, deleted, consumed, ops, transfers>>
    BY <1>2 DEF DeltaPage, cursorVars, planVars
  <2>2. PlannedOnce'
    BY <2>1 DEF CopyInv, PlannedOnce
  <2>3. QED
    BY <1>1, <2>1, <2>2, QuietCopies DEF Listing
<1>3. CASE CursorReset
  <2>1. /\ pc = "delta" /\ pc' = "snapshot" /\ ops' = <<>> /\ transfers' = <<>>
        /\ UNCHANGED <<files, channel, inventory>>
    BY <1>3 DEF CursorReset, cursorVars
  <2>2. PlannedOnce'
    BY <2>1 DEF PlannedOnce
  <2>3. QED
    BY <1>1, <2>1, <2>2, NothingMatches, QuietCopies DEF Listing
<1>4. CASE DeltaListed \/ TombstonesPlanned
  <2>1. /\ pc \in {"delta", "tombstones"} /\ pc' \in {"tombstones", "emit"}
        /\ pc' = "tombstones" => DeletePolicy = "delete"
        /\ UNCHANGED <<files, channel, inventory, todo, deleted, consumed, ops, transfers>>
    BY <1>4 DEF DeltaListed, TombstonesPlanned, cursorVars, planVars
  <2>2. PlannedOnce'
    BY <2>1 DEF CopyInv, PlannedOnce
  <2>3. QED
    BY <1>1, <2>1, <2>2, QuietCopies DEF Listing
<1>5. CASE SnapshotListed
  <2>1. /\ pc = "relist" /\ pc' = "inventory" /\ UNCHANGED <<files, channel, inventory, ops, transfers>>
    BY <1>5 DEF SnapshotListed, cursorVars
  <2>2. ops = <<>> /\ transfers = <<>>
    BY <2>1 DEF CopyInv, Stages
  <2>3. PlannedOnce'
    BY <2>1, <2>2 DEF PlannedOnce
  <2>4. QED
    BY <1>1, <2>1, <2>3, QuietCopies DEF Listing
<1>6. CASE InventoryPlanned
  <2>1. /\ pc = "inventory" /\ UNCHANGED <<files, channel, inventory, ops, transfers>>
        /\ \/ pc' = "removals" /\ todo' = {id \in Ids : Tracked(id) /\ inventory[id] = Absent}
           \/ pc' = "emit"
    BY <1>6 DEF InventoryPlanned, cursorVars
  <2>2. \A i \in DOMAIN ops : inventory[ops[i].id] # Absent
    BY <2>1 DEF CopyInv, PlannedOnce
  <2>3. PlannedOnce'
    BY <2>1, <2>2 DEF PlannedOnce
  <2>4. QED
    BY <1>1, <2>1, <2>3, QuietCopies DEF Listing
<1>7. CASE RemovalsPlanned
  <2>1. pc = "removals" /\ pc' = "emit" /\ UNCHANGED <<files, channel, inventory, ops, transfers>>
    BY <1>7 DEF RemovalsPlanned, cursorVars, planVars
  <2>2. PlannedOnce'
    BY <2>1 DEF PlannedOnce
  <2>3. QED
    BY <1>1, <2>1, <2>2, QuietCopies DEF Listing
<1>8. QED
  BY <1>2, <1>3, <1>4, <1>5, <1>6, <1>7

\* A listed entry: where renames are followed, no file is listed a second time.
LEMMA EntryCopies ==
  ASSUME TypeInv, CopyInv, UNCHANGED <<live, journal, durable, dest>>, DeltaEntry
  PROVE  CopyInv'
<1>1. PICK e : e = journal[pos + 1]
  OBVIOUS
<1>2. /\ pc = "delta" /\ pc' = "delta" /\ pos < pageEnd /\ pos' = pos + 1
      /\ UNCHANGED <<files, channel, inventory, todo>>
      /\ \/ UNCHANGED <<deleted, consumed, ops, transfers>>
         \/ e.id = 0 /\ deleted' = deleted \cup {e.path} /\ UNCHANGED <<consumed, ops, transfers>>
         \/ /\ Latest(pos + 1) /\ e.id # 0 /\ UNCHANGED deleted
            /\ consumed' = IF Tracked(e.id) /\ files[e.id].path # e.path
                             THEN consumed \cup {Fold[files[e.id].path]} ELSE consumed
            /\ ops' = ops \o PlannedOps(e.id, e)
            /\ transfers' = transfers \o PlannedTransfers(e.id, e)
  BY <1>1 DEF DeltaEntry, PlanChangedFile, cursorVars
<1>3. /\ pos \in Nat /\ journal \in Seq(Event) /\ pos + 1 \in DOMAIN journal /\ e \in Event
      /\ \A k \in 1 .. pos : k \in 1 .. (pos + 1)
  <2>1. pos \in Nat /\ pageEnd \in Nat /\ journal \in Seq(Event) /\ pageEnd <= Len(journal)
    BY AttemptTypes
  <2>2. pos + 1 \in DOMAIN journal
    BY <1>2, <2>1
  <2>3. e \in Event
    BY <1>1, <2>1, <2>2
  <2>4. QED
    BY <2>1, <2>2, <2>3
<1>4. /\ MapOwned(inventory, journal) /\ MapOwned(files, journal)
      /\ OpsOwned(ops, journal) /\ TransfersOwned(transfers, journal)
      /\ OpsMatch(files, ops) /\ TransfersMatch(files, ops, transfers)
      /\ FolderHistory(live, journal)
  BY <1>2 DEF CopyInv, PathsOwned, Underway, Listing
<1>5. /\ \A i \in DOMAIN ops : ops[i].kind = "move" /\ Fold[ops[i].old] \in consumed
      /\ RenamePolicy = "propagate" =>
            /\ \A i \in DOMAIN ops : \E k \in 1 .. pos : journal[k].id = ops[i].id /\ LatestIn(journal, k)
            /\ \A i \in DOMAIN transfers :
                  \E k \in 1 .. pos : journal[k].id = transfers[i].id /\ LatestIn(journal, k)
  BY <1>2 DEF CopyInv, PlannedOnce
<1>6. CASE UNCHANGED <<consumed, ops, transfers>>
  <2>1. PlannedOnce'
    BY <1>2, <1>3, <1>5, <1>6 DEF PlannedOnce
  <2>2. QED
    BY <1>2, <1>4, <1>6, <2>1, QuietCopies DEF Listing
<1>7. CASE /\ Latest(pos + 1) /\ e.id # 0 /\ UNCHANGED deleted
           /\ consumed' = IF Tracked(e.id) /\ files[e.id].path # e.path
                            THEN consumed \cup {Fold[files[e.id].path]} ELSE consumed
           /\ ops' = ops \o PlannedOps(e.id, e)
           /\ transfers' = transfers \o PlannedTransfers(e.id, e)
  <2>1. e.id \in Ids
    BY <1>3, <1>7 DEF Event
  <2>2. PICK id \in Ids : id = e.id
    BY <2>1
  <2>3. OpsPlus(ops', id, e) /\ TransfersPlus(transfers', id, e)
    BY <1>7, <2>2, FilePlus
  <2>4. Owned(journal, id, e.path)
    BY <1>1, <1>3, <2>2 DEF Owned, SamePath
  <2>5. pos + 1 \in EventsIn(journal, id) /\ LatestIn(journal, pos + 1) /\ journal[pos + 1].id = id
    BY <1>1, <1>3, <1>7, <2>2 DEF EventsIn, Latest, LatestIn
  <2>6. \A k \in 1 .. pos : journal[k].id = id => ~LatestIn(journal, k)
    <3>1. ASSUME NEW k \in 1 .. pos, journal[k].id = id PROVE ~LatestIn(journal, k)
      <4>1. k \in DOMAIN journal /\ k < pos + 1
        BY <1>3, <3>1
      <4>2. k \in EventsIn(journal, id)
        BY <3>1, <4>1 DEF EventsIn
      <4>3. QED
        BY <1>4, <2>5, <4>1, <4>2 DEF FolderHistory, HistoryOf
    <3>2. QED
      BY <3>1
  <2>7. RenamePolicy = "propagate" =>
          /\ \A i \in DOMAIN ops : ops[i].id # id
          /\ \A i \in DOMAIN transfers : transfers[i].id # id
    BY <1>5, <2>6
  <2>8. /\ OpsMatch(files, ops') /\ TransfersMatch(files, ops', transfers')
        /\ OpsOwned(ops', journal) /\ TransfersOwned(transfers', journal)
    BY <1>4, <2>3, <2>4, <2>7, PlusMatches
  <2>9. /\ MoveOp(id, files[id], e).kind = "move" /\ MoveOp(id, files[id], e).id = id
        /\ MoveOp(id, files[id], e).old = files[id].path
    BY DEF MoveOp
  <2>10. \A i \in DOMAIN ops' : ops'[i].kind = "move" /\ Fold[ops'[i].old] \in consumed'
    BY <1>5, <1>7, <2>2, <2>3, <2>9 DEF OpsPlus, Tracked
  <2>11. pos + 1 \in 1 .. (pos + 1)
    BY <1>3
  <2>12. RenamePolicy = "propagate" =>
           \A i \in DOMAIN ops' : \E k \in 1 .. (pos + 1) : journal[k].id = ops'[i].id /\ LatestIn(journal, k)
    BY <1>3, <1>5, <2>3, <2>5, <2>9, <2>11 DEF OpsPlus
  <2>13. RenamePolicy = "propagate" =>
           \A i \in DOMAIN transfers' :
               \E k \in 1 .. (pos + 1) : journal[k].id = transfers'[i].id /\ LatestIn(journal, k)
    BY <1>3, <1>5, <2>3, <2>5, <2>11 DEF TransfersPlus
  <2>14. PlannedOnce'
    BY <1>2, <2>10, <2>12, <2>13 DEF PlannedOnce
  <2>15. QED
    BY <1>2, <1>4, <2>8, <2>14, QuietCopies DEF Listing
<1>8. QED
  BY <1>2, <1>6, <1>7

\* A tombstone deletes a file for which nothing else is planned.
LEMMA TombstoneCopies ==
  ASSUME Undisturbed, TypeInv, CopyInv, UNCHANGED <<live, journal, durable, dest>>,
         NEW p \in Paths, PlanTombstone(p)
  PROVE  CopyInv'
<1>1. /\ pc = "tombstones" /\ pc' = pc /\ p \in deleted /\ deleted' = deleted \ {p}
      /\ UNCHANGED <<files, channel, inventory, todo, consumed, transfers>>
      /\ \/ UNCHANGED ops
         \/ \E id \in Ids : /\ Fold[p] \notin consumed /\ Tracked(id) /\ Fold[files[id].path] = Fold[p]
                            /\ ops' = Append(ops, DeleteOp(id, files[id]))
  BY DEF PlanTombstone, ByPath, PinnedTo, cursorVars, listVars
<1>2. /\ MapOwned(inventory, journal) /\ OpsOwned(ops, journal) /\ TransfersOwned(transfers, journal)
      /\ OpsMatch(files, ops) /\ TransfersMatch(files, ops, transfers)
  BY <1>1 DEF CopyInv, PathsOwned, Underway, Listing
<1>3. /\ DeletePolicy = "delete"
      /\ \A i \in DOMAIN ops : ops[i].kind = "move" => Fold[ops[i].old] \in consumed
      /\ \A i \in DOMAIN ops : ops[i].kind # "move" => ops[i].old \notin deleted
  BY <1>1 DEF CopyInv, PlannedOnce
<1>4. CASE UNCHANGED ops
  <2>1. PlannedOnce'
    BY <1>1, <1>3, <1>4 DEF PlannedOnce
  <2>2. QED
    BY <1>1, <1>2, <1>4, <2>1, QuietCopies DEF Listing
<1>5. ASSUME NEW id \in Ids, Fold[p] \notin consumed, Tracked(id), Fold[files[id].path] = Fold[p],
             ops' = Append(ops, DeleteOp(id, files[id]))
      PROVE  CopyInv'
  <2>1. files[id] # Absent /\ files[id] \in Version
    BY <1>5, AttemptTypes, TrackedIsVersion DEF Tracked
  <2>2. files[id].path = p
    BY <1>3, <1>5, <2>1 DEF Undisturbed, SamePath, Version
  <2>3. \A i \in DOMAIN ops : ops[i].id # id
    BY <1>1, <1>2, <1>3, <1>5, <2>2 DEF OpsMatch
  <2>4. PICK o : o = ops'
    OBVIOUS
  <2>5. /\ OpsMatch(files, o) /\ TransfersMatch(files, o, transfers) /\ OpsOwned(o, journal)
        /\ \A i \in DOMAIN o : \/ i \in DOMAIN ops /\ o[i] = ops[i]
                               \/ o[i] = DeleteOp(id, files[id])
    BY <1>2, <1>5, <2>1, <2>3, <2>4, DeleteMatches
  <2>6. DeleteOp(id, files[id]).kind = "delete" /\ DeleteOp(id, files[id]).old = p
    BY <2>2 DEF DeleteOp
  <2>7. PlannedOnce'
    BY <1>1, <1>3, <2>4, <2>5, <2>6 DEF PlannedOnce
  <2>8. QED
    BY <1>1, <1>2, <2>4, <2>5, <2>7, QuietCopies DEF Listing
<1>6. QED
  BY <1>1, <1>4, <1>5

\* A snapshot lists files at paths that are theirs.
LEMMA SnapshotCopies ==
  ASSUME TypeInv, CopyInv, UNCHANGED <<live, journal, durable, dest>>, ListFolder \/ SnapshotPage
  PROVE  CopyInv'
<1>1. /\ pc \in {"snapshot", "relist"} /\ pc' \in {"relist", "failed"}
      /\ UNCHANGED <<files, channel, ops, transfers>>
  BY DEF ListFolder, SnapshotPage, cursorVars
<1>2. ops = <<>> /\ transfers = <<>>
  BY <1>1 DEF CopyInv, Stages
<1>3. MapOwned(inventory, journal) /\ FolderHistory(live, journal)
  BY DEF CopyInv, PathsOwned
<1>4. MapOwned(inventory', journal)
  <2>1. CASE ListFolder
    <3>1. inventory' = [id \in Ids |->
                          IF Exists(id) /\ Selected(live[id].path) THEN live[id] ELSE Absent]
      BY <2>1 DEF ListFolder
    <3>2. ASSUME NEW id \in Ids, inventory'[id] # Absent PROVE Owned(journal, id, inventory'[id].path)
      BY <1>3, <3>1, <3>2, LiveIsOwned
    <3>3. QED
      BY <3>2 DEF MapOwned
  <2>2. CASE SnapshotPage
    <3>1. CASE inventory' = inventory
      BY <1>3, <3>1
    <3>2. CASE inventory' = [id \in Ids |->
                    IF \E k \in Relisted : journal[k].id = id
                      THEN LET k == CHOOSE k \in Relisted : journal[k].id = id
                           IN  [path |-> journal[k].path, rev |-> journal[k].rev]
                      ELSE inventory[id]]
      <4>1. ASSUME NEW id \in Ids, inventory'[id] # Absent PROVE Owned(journal, id, inventory'[id].path)
        <5>1. CASE \E k \in Relisted : journal[k].id = id
          <6>1. PICK k \in Relisted : /\ journal[k].id = id
                                      /\ inventory'[id] = [path |-> journal[k].path, rev |-> journal[k].rev]
            <7>1. /\ (CHOOSE k \in Relisted : journal[k].id = id) \in Relisted
                  /\ journal[CHOOSE k \in Relisted : journal[k].id = id].id = id
              BY <5>1
            <7>2. QED
              BY <3>2, <5>1, <7>1
          <6>2. k \in DOMAIN journal
            <7>1. pos \in Nat /\ journal \in Seq(Event) /\ DOMAIN journal = 1 .. Len(journal) /\ Len(journal) \in Nat
              BY AttemptTypes
            <7>2. QED
              BY <7>1 DEF Relisted
          <6>3. QED
            BY <6>1, <6>2 DEF Owned, SamePath
        <5>2. CASE ~ \E k \in Relisted : journal[k].id = id
          BY <1>3, <3>2, <4>1, <5>2 DEF MapOwned
        <5>3. QED
          BY <5>1, <5>2
      <4>2. QED
        BY <4>1 DEF MapOwned
    <3>3. QED
      BY <2>2, <3>1, <3>2 DEF SnapshotPage
  <2>3. QED
    BY <2>1, <2>2
<1>5. PlannedOnce'
  BY <1>1 DEF PlannedOnce
<1>6. QED
  BY <1>1, <1>2, <1>4, <1>5, NothingMatches, QuietCopies DEF Listing

\* A file of the inventory is planned once.
LEMMA InventoryCopies ==
  ASSUME TypeInv, CopyInv, UNCHANGED <<live, journal, durable, dest>>, NEW id \in Ids, PlanInventory(id)
  PROVE  CopyInv'
<1>1. PICK e : e = inventory[id]
  OBVIOUS
<1>2. /\ pc = "inventory" /\ pc' = pc /\ id \in todo /\ todo' = todo \ {id}
      /\ ops' = ops \o PlannedOps(id, e)
      /\ transfers' = transfers \/ transfers' = transfers \o PlannedTransfers(id, e)
      /\ UNCHANGED <<files, channel, inventory, deleted, consumed>>
  BY <1>1 DEF PlanInventory, cursorVars
<1>3. /\ MapOwned(inventory, journal) /\ MapOwned(files, journal)
      /\ OpsOwned(ops, journal) /\ TransfersOwned(transfers, journal)
      /\ OpsMatch(files, ops) /\ TransfersMatch(files, ops, transfers)
  BY <1>2 DEF CopyInv, PathsOwned, Underway, Listing
<1>4. /\ \A i \in DOMAIN ops : inventory[ops[i].id] # Absent /\ ops[i].id \notin todo
      /\ \A i \in DOMAIN transfers : transfers[i].id \notin todo
  BY <1>2 DEF CopyInv, PlannedOnce
<1>5. e # Absent
  BY <1>1, <1>2 DEF TypeInv, InHistory, InListing
<1>6. OpsPlus(ops', id, e) /\ TransfersPlus(transfers', id, e)
  BY <1>2, FilePlus
<1>7. Owned(journal, id, e.path)
  BY <1>1, <1>3, <1>5 DEF MapOwned
<1>8. /\ OpsMatch(files, ops') /\ TransfersMatch(files, ops', transfers')
      /\ OpsOwned(ops', journal) /\ TransfersOwned(transfers', journal)
  BY <1>2, <1>3, <1>4, <1>6, <1>7, PlusMatches
<1>9. MoveOp(id, files[id], e).id = id
  BY DEF MoveOp
<1>10. /\ \A i \in DOMAIN ops' : inventory[ops'[i].id] # Absent /\ ops'[i].id \notin todo'
       /\ \A i \in DOMAIN transfers' : transfers'[i].id \notin todo'
  BY <1>1, <1>2, <1>4, <1>5, <1>6, <1>9 DEF OpsPlus, TransfersPlus
<1>11. PlannedOnce'
  BY <1>2, <1>10 DEF PlannedOnce
<1>12. QED
  BY <1>2, <1>3, <1>8, <1>11, QuietCopies DEF Listing

\* A file that is not in the inventory is planned for deletion once.
LEMMA RemovalCopies ==
  ASSUME TypeInv, CopyInv, UNCHANGED <<live, journal, durable, dest>>, NEW id \in Ids, PlanRemoval(id)
  PROVE  CopyInv'
<1>1. /\ pc = "removals" /\ pc' = pc /\ id \in todo /\ todo' = todo \ {id}
      /\ ops' = Append(ops, DeleteOp(id, files[id]))
      /\ UNCHANGED <<files, channel, inventory, deleted, consumed, transfers>>
  BY DEF PlanRemoval, cursorVars
<1>2. /\ MapOwned(inventory, journal) /\ OpsOwned(ops, journal) /\ TransfersOwned(transfers, journal)
      /\ OpsMatch(files, ops) /\ TransfersMatch(files, ops, transfers)
  BY <1>1 DEF CopyInv, PathsOwned, Underway, Listing
<1>3. \A i \in DOMAIN ops : ops[i].id \notin todo
  BY <1>1 DEF CopyInv, PlannedOnce
<1>4. files[id] # Absent
  BY <1>1 DEF TypeInv, InHistory, InListing, Tracked
<1>5. PICK o : o = ops'
  OBVIOUS
<1>6. /\ OpsMatch(files, o) /\ TransfersMatch(files, o, transfers) /\ OpsOwned(o, journal)
      /\ \A i \in DOMAIN o : \/ i \in DOMAIN ops /\ o[i] = ops[i]
                             \/ o[i] = DeleteOp(id, files[id])
  BY <1>1, <1>2, <1>3, <1>4, <1>5, DeleteMatches
<1>7. DeleteOp(id, files[id]).id = id
  BY DEF DeleteOp
<1>8. PlannedOnce'
  BY <1>1, <1>3, <1>5, <1>6, <1>7 DEF PlannedOnce
<1>9. QED
  BY <1>1, <1>2, <1>5, <1>6, <1>8, QuietCopies DEF Listing

\* A message that is sent leads from what the map says to what it says next.
LEMMA SendingCopies ==
  ASSUME TypeInv, Arriving(dest, channel, files), NEW m \in Records \cup StateMsgs, NEW map,
         \A a \in Contents : Holds(a, files) =>
            \E b \in Contents : Handles(a, m, b) /\ Holds(b, map)
  PROVE  Arriving(dest, Append(channel, m), map)
<1>1. PICK w : Course(w, dest, channel, files)
  BY DEF Arriving
<1>2. channel \in Seq(Records \cup StateMsgs) /\ Len(channel) \in Nat
  BY AttemptTypes
<1>3. w[Len(channel)] \in Contents /\ Holds(w[Len(channel)], files)
  BY <1>1, <1>2 DEF Course
<1>4. PICK b \in Contents : Handles(w[Len(channel)], m, b) /\ Holds(b, map)
  BY <1>3
<1>5. QED
  BY <1>1, <1>2, <1>4, CourseSent

\* The operations and transfers that are left match the map that the first one leads to.
LEMMA TailsMatch ==
  ASSUME TypeInv, ops # <<>>, OpsMatch(files, ops), TransfersMatch(files, ops, transfers),
         OpsOwned(ops, journal),
         NEW map, \A id \in Ids \ {ops[1].id} : map[id] = files[id],
         map[ops[1].id] = Absent \/ (ops[1].kind = "move" /\ map[ops[1].id].path = ops[1].new)
  PROVE  /\ OpsMatch(map, Tail(ops)) /\ TransfersMatch(map, Tail(ops), transfers)
         /\ OpsOwned(Tail(ops), journal)
<1>1. PICK o : o = Tail(ops)
  OBVIOUS
<1>2. ops \in Seq(MoveOps \cup DeleteOps)
  BY AttemptTypes
<1>3. /\ 1 \in DOMAIN ops
      /\ \A i \in DOMAIN o : i + 1 \in DOMAIN ops /\ o[i] = ops[i + 1] /\ i \in Int /\ i + 1 # 1
      /\ \A i \in DOMAIN ops : i = 1 \/ (i - 1 \in DOMAIN o /\ o[i - 1] = ops[i])
  <2>1. /\ 1 \in DOMAIN ops
        /\ \A i \in DOMAIN o : i + 1 \in DOMAIN ops /\ o[i] = ops[i + 1]
        /\ \A i \in DOMAIN ops : i = 1 \/ (i - 1 \in DOMAIN o /\ o[i - 1] = ops[i])
    BY <1>1, <1>2, TailElements
  <2>2. \A i \in DOMAIN o : i \in Int /\ i + 1 # 1
    <3>1. o \in Seq(MoveOps \cup DeleteOps) /\ DOMAIN o = 1 .. Len(o) /\ Len(o) \in Nat
      BY <1>1, <1>2
    <3>2. QED
      BY <3>1
  <2>3. QED
    BY <2>1, <2>2
<1>4. \A i \in DOMAIN o : o[i].id # ops[1].id /\ o[i].id \in Ids
  BY <1>3, CopyTypes DEF OpsMatch
<1>5. OpsMatch(map, o)
  <2>1. ASSUME NEW i \in DOMAIN o
        PROVE  /\ map[o[i].id] # Absent
               /\ o[i].old = map[o[i].id].path /\ o[i].oldHash = Hash[map[o[i].id].rev]
               /\ o[i].kind = "move" => RenamePolicy = "propagate" /\ o[i].new # o[i].old
    <3>1. map[o[i].id] = files[o[i].id]
      BY <1>4
    <3>2. i + 1 \in DOMAIN ops /\ o[i] = ops[i + 1]
      BY <1>3
    <3>3. QED
      BY <3>1, <3>2 DEF OpsMatch
  <2>2. ASSUME NEW i \in DOMAIN o, NEW k \in DOMAIN o, o[i].id = o[k].id PROVE i = k
    <3>1. i + 1 \in DOMAIN ops /\ o[i] = ops[i + 1] /\ k + 1 \in DOMAIN ops /\ o[k] = ops[k + 1]
          /\ i \in Int /\ k \in Int
      BY <1>3
    <3>2. i + 1 = k + 1
      BY <2>2, <3>1 DEF OpsMatch
    <3>3. QED
      BY <3>1, <3>2
  <2>3. QED
    BY <2>1, <2>2 DEF OpsMatch
<1>6. TransfersMatch(map, o, transfers)
  <2> SUFFICES ASSUME RenamePolicy = "propagate"
               PROVE  /\ \A i \in DOMAIN transfers, k \in DOMAIN o :
                            o[k].kind = "move" /\ o[k].id = transfers[i].id => o[k].new = transfers[i].path
                      /\ \A i \in DOMAIN transfers :
                            \/ map[transfers[i].id] = Absent
                            \/ map[transfers[i].id].path = transfers[i].path
                            \/ \E k \in DOMAIN o : o[k].kind = "move" /\ o[k].id = transfers[i].id
                      /\ \A i, k \in DOMAIN transfers : transfers[i].id = transfers[k].id => i = k
    BY DEF TransfersMatch
  <2>1. ASSUME NEW i \in DOMAIN transfers, NEW k \in DOMAIN o, o[k].kind = "move", o[k].id = transfers[i].id
        PROVE  o[k].new = transfers[i].path
    BY <1>3, <2>1 DEF TransfersMatch
  <2>2. ASSUME NEW i \in DOMAIN transfers
        PROVE  \/ map[transfers[i].id] = Absent
               \/ map[transfers[i].id].path = transfers[i].path
               \/ \E k \in DOMAIN o : o[k].kind = "move" /\ o[k].id = transfers[i].id
    <3>1. transfers[i].id \in Ids
      BY CopyTypes
    <3>2. CASE transfers[i].id = ops[1].id
      BY <1>3, <3>2 DEF TransfersMatch
    <3>3. CASE transfers[i].id # ops[1].id
      <4>1. map[transfers[i].id] = files[transfers[i].id]
        BY <3>1, <3>3
      <4>2. \A k \in DOMAIN ops : ops[k].id = transfers[i].id => k - 1 \in DOMAIN o /\ o[k - 1] = ops[k]
        BY <1>3, <3>3
      <4>3. QED
        BY <4>1, <4>2 DEF TransfersMatch
    <3>4. QED
      BY <3>2, <3>3
  <2>3. QED
    BY <2>1, <2>2 DEF TransfersMatch
<1>7. OpsOwned(o, journal)
  BY <1>3 DEF OpsOwned
<1>8. QED
  BY <1>1, <1>5, <1>6, <1>7

\* A move or deletion that is sent is of what the destination will hold when it comes to it,
\* and is never sent in vain: the file is in the map.
LEMMA EmitCopies ==
  ASSUME Undisturbed, TypeInv, CopyInv, UNCHANGED <<live, journal, durable, dest>>, EmitOperation
  PROVE  CopyInv'
<1>1. PICK op : op = Head(ops)
  OBVIOUS
<1>2. /\ pc = "emit" /\ ops # <<>> /\ channel' = Append(channel, op)
      /\ UNCHANGED <<inventory, todo, deleted, consumed, transfers>>
      /\ Tracked(op.id) => /\ IF op.kind = "move" THEN MarkMove(op) ELSE MarkDelete(op)
                           /\ ops' = Tail(ops) /\ pc' = pc
  BY <1>1 DEF EmitOperation, planVars
<1>3. /\ files \in FileMap /\ ops \in Seq(MoveOps \cup DeleteOps) /\ channel \in Seq(Records \cup StateMsgs)
  BY AttemptTypes
<1>4. op = ops[1] /\ 1 \in DOMAIN ops /\ op \in MoveOps \cup DeleteOps
  BY <1>1, <1>2, <1>3
<1>5. /\ op.id \in Ids /\ op.kind \in {"move", "delete"}
      /\ op.kind = "move" => op.new \in Paths
      /\ op \in Records \cup StateMsgs
  BY <1>4 DEF MoveOps, DeleteOps, Records
<1>6. /\ OpsMatch(files, ops) /\ TransfersMatch(files, ops, transfers)
      /\ OpsOwned(ops, journal) /\ OneOwner(journal) /\ MapOwned(files, journal)
      /\ TransfersOwned(transfers, journal) /\ MapOwned(inventory, journal)
      /\ StatesOwned(channel, journal)
      /\ Arriving(dest, channel, files)
  BY <1>2 DEF CopyInv, PathsOwned, Agreed, Underway
<1>7. /\ files[op.id] # Absent
      /\ op.old = files[op.id].path /\ op.oldHash = Hash[files[op.id].rev]
      /\ op.kind = "move" => RenamePolicy = "propagate" /\ op.new # op.old
  BY <1>4, <1>6 DEF OpsMatch
<1>8. files[op.id] \in Version
  BY <1>3, <1>5, <1>7 DEF FileMap
<1>9. ops' = Tail(ops) /\ pc' = "emit"
  BY <1>2, <1>7 DEF Tracked
<1>10. PICK map : map = files'
  OBVIOUS
<1>11. /\ \A id \in Ids \ {op.id} : map[id] = files[id]
       /\ map[op.id] = Absent \/ (op.kind = "move" /\ map[op.id].path = op.new)
       /\ MapOwned(map, journal)
       /\ Arriving(dest, Append(channel, op), map)
  <2>1. CASE op.kind = "move"
    <3>1. map = [files EXCEPT ![op.id].path = op.new]
      BY <1>2, <1>7, <1>10, <2>1 DEF MarkMove, Tracked
    <3>2. map[op.id].path = op.new /\ \A id \in Ids \ {op.id} : map[id] = files[id]
      BY <1>3, <1>5, <1>8, <3>1 DEF FileMap, Version
    <3>3. Owned(journal, op.id, op.new)
      BY <1>4, <1>6, <2>1 DEF OpsOwned
    <3>4. MapOwned(map, journal)
      BY <1>6, <3>2, <3>3 DEF MapOwned
    <3>5. ~SamePath(files[op.id].path, op.new)
      BY <1>5, <1>7, <1>8, <2>1 DEF Undisturbed, Version
    <3>6. ASSUME NEW a \in Contents, Holds(a, files)
          PROVE  \E b \in Contents : Handles(a, op, b) /\ Holds(b, map)
      <4>1. PICK b : b = [a EXCEPT ![Fold[op.new]] = a[Fold[files[op.id].path]],
                                   ![Fold[files[op.id].path]] = NoFile]
        OBVIOUS
      <4>2. Holds(b, map) /\ b \in Contents /\ a[Fold[op.new]] = NoFile
        BY <1>3, <1>5, <1>6, <1>7, <2>1, <3>1, <3>3, <3>5, <3>6, <4>1, HoldsMoved
      <4>3. a[Fold[op.old]] = op.oldHash
        BY <1>5, <1>7, <3>6 DEF Holds
      <4>4. Handles(a, op, b)
        BY <1>7, <2>1, <4>1, <4>2, <4>3 DEF Handles
      <4>5. QED
        BY <4>2, <4>4
    <3>7. Arriving(dest, Append(channel, op), map)
      BY <1>5, <1>6, <3>6, SendingCopies
    <3>8. QED
      BY <2>1, <3>2, <3>4, <3>7
  <2>2. CASE op.kind = "delete"
    <3>1. map = [files EXCEPT ![op.id] = Absent]
      BY <1>2, <1>7, <1>10, <2>2 DEF MarkDelete, Tracked
    <3>2. map[op.id] = Absent /\ \A id \in Ids \ {op.id} : map[id] = files[id]
      BY <1>3, <1>5, <3>1 DEF FileMap
    <3>3. MapOwned(map, journal)
      BY <1>6, <3>2 DEF MapOwned
    <3>4. ASSUME NEW a \in Contents, Holds(a, files)
          PROVE  \E b \in Contents : Handles(a, op, b) /\ Holds(b, map)
      <4>1. PICK b : b = [a EXCEPT ![Fold[files[op.id].path]] = NoFile]
        OBVIOUS
      <4>2. Holds(b, map) /\ b \in Contents
        BY <1>3, <1>5, <1>6, <1>7, <3>1, <3>4, <4>1, HoldsDeleted
      <4>3. a[Fold[op.old]] = op.oldHash
        BY <1>5, <1>7, <3>4 DEF Holds
      <4>4. Handles(a, op, b)
        BY <1>7, <2>2, <4>1, <4>3 DEF Handles
      <4>5. QED
        BY <4>2, <4>4
    <3>5. Arriving(dest, Append(channel, op), map)
      BY <1>5, <1>6, <3>4, SendingCopies
    <3>6. QED
      BY <3>2, <3>3, <3>5
  <2>3. QED
    BY <1>5, <2>1, <2>2
<1>12. OpsMatch(map, ops') /\ TransfersMatch(map, ops', transfers) /\ OpsOwned(ops', journal)
  BY <1>2, <1>4, <1>6, <1>9, <1>11, TailsMatch
<1>13. StatesOwned(channel', journal)
  <2>1. channel' = channel \o <<op>>
    BY <1>2, <1>3
  <2>2. Longer(channel', channel, op)
    BY <1>3, <2>1, Lengthened
  <2>3. QED
    BY <1>5, <1>6, <2>2 DEF StatesOwned, Longer
<1>14. PathsOwned'
  BY <1>2, <1>6, <1>10, <1>11, <1>12, <1>13 DEF CopyInv, PathsOwned
<1>15. Agreed' /\ Stages' /\ PlannedOnce'
  BY <1>2, <1>9, <1>10, <1>11 DEF Agreed, Stages, PlannedOnce, Listing
<1>16. (pc \in Underway => OpsMatch(files, ops) /\ TransfersMatch(files, ops, transfers))'
  BY <1>2, <1>10, <1>12
<1>17. FolderHistory(live', journal')
  BY DEF CopyInv
<1>18. QED
  BY <1>14, <1>15, <1>16, <1>17 DEF CopyInv

\* What is left of the transfers matches the map, and is of other files than the first.
LEMMA TransfersTail ==
  ASSUME NEW t \in Seq(Transfers), t # <<>>, NEW m, NEW o, TransfersMatch(m, o, t)
  PROVE  /\ TransfersMatch(m, o, Tail(t))
         /\ RenamePolicy = "propagate" => \A i \in DOMAIN Tail(t) : Tail(t)[i].id # t[1].id
<1>1. PICK u : u = Tail(t)
  OBVIOUS
<1>2. /\ 1 \in DOMAIN t
      /\ \A i \in DOMAIN u : i + 1 \in DOMAIN t /\ u[i] = t[i + 1]
  BY <1>1, TailElements
<1>3. \A i \in DOMAIN u : i \in Int /\ i + 1 # 1
  <2>1. u \in Seq(Transfers) /\ DOMAIN u = 1 .. Len(u) /\ Len(u) \in Nat
    BY <1>1
  <2>2. QED
    BY <2>1
<1>4. CASE RenamePolicy = "propagate"
  <2>1. ASSUME NEW i \in DOMAIN u, NEW k \in DOMAIN u, u[i].id = u[k].id PROVE i = k
    <3>1. i + 1 \in DOMAIN t /\ k + 1 \in DOMAIN t /\ u[i] = t[i + 1] /\ u[k] = t[k + 1]
      BY <1>2
    <3>2. i + 1 = k + 1
      BY <1>4, <2>1, <3>1 DEF TransfersMatch
    <3>3. QED
      BY <1>3, <3>2
  <2>2. ASSUME NEW i \in DOMAIN u PROVE u[i].id # t[1].id
    BY <1>2, <1>3, <1>4 DEF TransfersMatch
  <2>3. ASSUME NEW i \in DOMAIN u, NEW k \in DOMAIN o, o[k].kind = "move", o[k].id = u[i].id
        PROVE  o[k].new = u[i].path
    BY <1>2, <1>4, <2>3 DEF TransfersMatch
  <2>4. ASSUME NEW i \in DOMAIN u
        PROVE  \/ m[u[i].id] = Absent
               \/ m[u[i].id].path = u[i].path
               \/ \E k \in DOMAIN o : o[k].kind = "move" /\ o[k].id = u[i].id
    BY <1>2, <1>4 DEF TransfersMatch
  <2>5. TransfersMatch(m, o, u)
    BY <2>1, <2>3, <2>4 DEF TransfersMatch
  <2>6. QED
    BY <1>1, <2>2, <2>5
<1>5. CASE RenamePolicy # "propagate"
  BY <1>5 DEF TransfersMatch
<1>6. QED
  BY <1>4, <1>5

\* The operations are all sent, or a transfer is skipped.
LEMMA SkipCopies ==
  ASSUME TypeInv, CopyInv, UNCHANGED <<live, journal, durable, dest>>, OperationsEmitted \/ SkipFile
  PROVE  CopyInv'
<1>1. /\ pc \in {"emit", "transfer"} /\ pc' = "transfer" /\ ops = <<>>
      /\ UNCHANGED <<files, channel, inventory, ops>>
      /\ transfers' = transfers \/ (transfers # <<>> /\ transfers' = Tail(transfers))
  BY DEF OperationsEmitted, SkipFile, cursorVars, planVars, CopyInv, Stages
<1>2. transfers \in Seq(Transfers)
  BY AttemptTypes
<1>3. \A i \in DOMAIN transfers' : \/ i \in DOMAIN transfers /\ transfers'[i] = transfers[i]
                                   \/ transfers' = Tail(transfers) /\ i + 1 \in DOMAIN transfers
                                      /\ transfers'[i] = transfers[i + 1]
  BY <1>1, <1>2, TailElements
<1>4. /\ OpsMatch(files, ops) /\ TransfersMatch(files, ops, transfers)
      /\ TransfersOwned(transfers, journal)
  BY <1>1 DEF CopyInv, PathsOwned, Underway
<1>5. TransfersMatch(files, ops, transfers')
  BY <1>1, <1>2, <1>4, TransfersTail
<1>6. TransfersOwned(transfers', journal)
  BY <1>3, <1>4 DEF TransfersOwned
<1>7. FolderHistory(live', journal') /\ PathsOwned'
  BY <1>1, <1>6 DEF CopyInv, PathsOwned
<1>8. Agreed' /\ Stages' /\ PlannedOnce'
  BY <1>1 DEF CopyInv, Agreed, Stages, PlannedOnce, Listing
<1>9. (pc \in Underway => OpsMatch(files, ops) /\ TransfersMatch(files, ops, transfers))'
  BY <1>1, <1>4, <1>5
<1>10. QED
  BY <1>7, <1>8, <1>9 DEF CopyInv

\* A file that is sent replaces what the map says of it.
LEMMA TransferCopies ==
  ASSUME TypeInv, CopyInv, UNCHANGED <<live, journal, durable, dest>>, TransferFile
  PROVE  CopyInv'
<1>1. PICK t : t = Head(transfers)
  OBVIOUS
<1>2. /\ pc = "transfer" /\ pc' = pc /\ transfers # <<>> /\ transfers' = Tail(transfers)
      /\ channel' = Append(channel, FileMsg(t)) /\ AddFile(t)
      /\ UNCHANGED <<inventory, todo, deleted, consumed, ops>>
  BY <1>1 DEF TransferFile, planVars
<1>3. /\ files \in FileMap /\ transfers \in Seq(Transfers) /\ channel \in Seq(Records \cup StateMsgs)
  BY AttemptTypes
<1>4. t \in Transfers /\ t = transfers[1] /\ 1 \in DOMAIN transfers
  BY <1>1, <1>2, <1>3
<1>5. t.id \in Ids /\ t.path \in Paths /\ t.rev \in Revs
  BY <1>4 DEF Transfers
<1>6. /\ OpsMatch(files, ops) /\ TransfersMatch(files, ops, transfers) /\ ops = <<>>
      /\ OneOwner(journal) /\ MapOwned(files, journal) /\ OpsOwned(ops, journal)
      /\ TransfersOwned(transfers, journal) /\ MapOwned(inventory, journal)
      /\ StatesOwned(channel, journal)
      /\ Arriving(dest, channel, files)
  BY <1>2 DEF CopyInv, PathsOwned, Agreed, Underway, Stages
<1>7. Owned(journal, t.id, t.path)
  BY <1>4, <1>6 DEF TransfersOwned
<1>8. RenamePolicy = "propagate" => files[t.id] = Absent \/ files[t.id].path = t.path
  BY <1>4, <1>6 DEF TransfersMatch
<1>9. PICK map : map = files'
  OBVIOUS
<1>10. /\ map[t.id] = [path |-> t.path, rev |-> t.rev]
       /\ \A id \in Ids \ {t.id} : map[id] = files[id]
  <2>1. map = [files EXCEPT ![t.id] = [path |-> t.path, rev |-> t.rev]]
    BY <1>2, <1>9 DEF AddFile
  <2>2. QED
    BY <1>3, <1>5, <2>1 DEF FileMap
<1>11. MapOwned(map, journal)
  BY <1>6, <1>7, <1>10 DEF MapOwned
<1>12. PICK m : m = FileMsg(t)
  OBVIOUS
<1>13. m \in Records \cup StateMsgs /\ m.kind = "file" /\ m.path = t.path /\ m.rev = t.rev
  BY <1>5, <1>12 DEF FileMsg, FileMsgs, Records
<1>14. ASSUME NEW a \in Contents, Holds(a, files)
       PROVE  \E b \in Contents : Handles(a, m, b) /\ Holds(b, map)
  <2>1. PICK b : b = [a EXCEPT ![Fold[t.path]] = Hash[t.rev]]
    OBVIOUS
  <2>2. Holds(b, map) /\ b \in Contents
    <3>1. OneOwner(journal) /\ MapOwned(files, journal) /\ files \in FileMap
      BY <1>3, <1>6
    <3>2. PICK v : v = [path |-> t.path, rev |-> t.rev]
      OBVIOUS
    <3>3. map[t.id] = v /\ \A id \in Ids \ {t.id} : map[id] = files[id]
      BY <1>10, <3>2
    <3>4. v \in Version /\ v.path = t.path /\ v.rev = t.rev
      BY <1>5, <3>2 DEF Version
    <3>5. b \in Contents /\ b[Fold[t.path]] = Hash[t.rev] /\ \A k \in Keys : k # Fold[t.path] => b[k] = a[k]
      BY <1>5, <1>14, <2>1, KeysOfPaths DEF Contents
    <3>6. Holds(b, map)
      BY <1>5, <1>7, <1>8, <1>14, <3>1, <3>3, <3>4, <3>5, HoldsUploaded
    <3>7. QED
      BY <3>5, <3>6
  <2>3. Handles(a, m, b)
    BY <1>13, <2>1 DEF Handles
  <2>4. QED
    BY <2>2, <2>3
<1>15. Arriving(dest, Append(channel, m), map)
  BY <1>6, <1>13, <1>14, SendingCopies
<1>16. TransfersMatch(map, ops, Tail(transfers))
  <2>1. TransfersMatch(files, ops, Tail(transfers))
    BY <1>2, <1>3, <1>6, TransfersTail
  <2>2. RenamePolicy = "propagate" => \A i \in DOMAIN Tail(transfers) : Tail(transfers)[i].id # t.id
    BY <1>2, <1>3, <1>4, <1>6, TransfersTail
  <2>3. \A i \in DOMAIN Tail(transfers) : Tail(transfers)[i].id \in Ids
    BY <1>2, <1>3, TailElements, CopyTypes
  <2>4. QED
    BY <1>6, <1>10, <2>1, <2>2, <2>3 DEF TransfersMatch
<1>17. TransfersOwned(transfers', journal)
  <2>1. \A i \in DOMAIN Tail(transfers) : i + 1 \in DOMAIN transfers /\ Tail(transfers)[i] = transfers[i + 1]
    BY <1>2, <1>3, TailElements
  <2>2. QED
    BY <1>2, <1>6, <2>1 DEF TransfersOwned
<1>18. StatesOwned(channel', journal)
  <2>1. channel' = Append(channel, m)
    BY <1>2, <1>12
  <2>2. channel' = channel \o <<m>>
    BY <1>3, <2>1
  <2>3. Longer(channel', channel, m)
    BY <1>3, <2>2, Lengthened
  <2>4. QED
    BY <1>6, <1>13, <2>3 DEF StatesOwned, Longer
<1>19. PathsOwned'
  BY <1>2, <1>6, <1>9, <1>11, <1>17, <1>18 DEF CopyInv, PathsOwned
<1>20. Agreed' /\ Stages' /\ PlannedOnce'
  BY <1>2, <1>6, <1>9, <1>12, <1>15 DEF Agreed, Stages, PlannedOnce, Listing
<1>21. (pc \in Underway => OpsMatch(files, ops) /\ TransfersMatch(files, ops, transfers))'
  <2>1. OpsMatch(map, ops')
    BY <1>2, <1>6, NothingMatches
  <2>2. QED
    BY <1>2, <1>9, <1>16, <2>1
<1>22. FolderHistory(live', journal')
  BY DEF CopyInv
<1>23. QED
  BY <1>19, <1>20, <1>21, <1>22 DEF CopyInv

\* The state message says of the destination what it will hold when the message comes by.
LEMMA FinishCopies ==
  ASSUME TypeInv, TypeInv', CopyInv, UNCHANGED <<live, journal, durable, dest>>, Finish
  PROVE  CopyInv'
<1>1. PICK m : m = StateMsg([files |-> files, cursor |-> cursor'])
  OBVIOUS
<1>2. m.kind = "state" /\ m.state.files = files
  BY <1>1 DEF StateMsg
<1>3. /\ pc = "transfer" /\ pc' = "done" /\ channel' = Append(channel, m)
      /\ UNCHANGED <<files, inventory, todo, deleted, consumed, ops, transfers>>
  BY <1>1 DEF Finish, planVars
<1>4. channel \in Seq(Records \cup StateMsgs) /\ channel' \in Seq(Records \cup StateMsgs)
  <2>1. channel' \in Seq(Records \cup StateMsgs)
    BY DEF TypeInv, TypeOK, SourceTypeOK
  <2>2. QED
    BY <2>1, AttemptTypes
<1>5. /\ MapOwned(files, journal) /\ StatesOwned(channel, journal) /\ Arriving(dest, channel, files)
      /\ ops = <<>>
  BY <1>3 DEF CopyInv, PathsOwned, Agreed, Stages
<1>6. channel' = channel \o <<m>>
  BY <1>3, <1>4
<1>7. Longer(channel', channel, m)
  BY <1>4, <1>6, Lengthened
<1>8. m \in Records \cup StateMsgs
  BY <1>4, <1>7 DEF Longer
<1>9. StatesOwned(channel', journal)
  BY <1>2, <1>5, <1>7 DEF StatesOwned, Longer
<1>10. ASSUME NEW a \in Contents, Holds(a, files)
       PROVE  \E b \in Contents : Handles(a, m, b) /\ Holds(b, files)
  BY <1>2, <1>10 DEF Handles
<1>11. Arriving(dest, channel', files)
  BY <1>3, <1>5, <1>8, <1>10, SendingCopies
<1>12. PathsOwned'
  BY <1>3, <1>9 DEF CopyInv, PathsOwned
<1>13. Agreed' /\ Stages' /\ PlannedOnce'
  BY <1>3, <1>5, <1>11 DEF Agreed, Stages, PlannedOnce, Listing
<1>14. (pc \in Underway => OpsMatch(files, ops) /\ TransfersMatch(files, ops, transfers))'
  BY <1>3 DEF Underway, Listing
<1>15. FolderHistory(live', journal')
  BY DEF CopyInv
<1>16. QED
  BY <1>12, <1>13, <1>14, <1>15 DEF CopyInv

-----------------------------------------------------------------------------
(* The destination and the platform.                                       *)

\* The destination accepts the record that is next, and does with it what was expected.
LEMMA RecordAccepted ==
  ASSUME Undisturbed, TypeInv, CopyInv, channel # <<>>, Head(channel).kind # "state"
  PROVE  /\ ~Raises(Head(channel))
         /\ Deliver => Arriving(dest', Tail(channel), files)
<1>1. PICK r : r = Head(channel)
  OBVIOUS
<1>2. channel \in Seq(Records \cup StateMsgs) /\ dest \in Contents
  BY AttemptTypes, CopyTypes
<1>3. r \in Records \cup StateMsgs
  BY <1>1, <1>2
<1>4. r \in Records /\ r.kind \in {"file", "move", "delete"}
  BY <1>1, <1>3, RecordKinds
<1>5. Arriving(dest, channel, files)
  BY DEF CopyInv, Stages, Agreed
<1>6. PICK b : Handles(dest, r, b) /\ Arriving(b, Tail(channel), files)
  BY <1>1, <1>2, <1>5, CourseHandled
<1>7. CASE r.kind = "file"
  <2>1. b = [dest EXCEPT ![Fold[r.path]] = Hash[r.rev]]
    BY <1>6, <1>7 DEF Handles
  <2>2. ~Raises(r)
    BY <1>7 DEF Raises, MayUpload, Undisturbed
  <2>3. ApplyRecord(r) => dest' = b
    BY <1>7, <2>1 DEF ApplyRecord, Upload
  <2>4. QED
    BY <1>1, <1>6, <2>2, <2>3 DEF Deliver
<1>8. CASE r.kind = "move"
  <2>1. /\ dest[Fold[r.old]] = r.oldHash /\ dest[Fold[r.new]] = NoFile
        /\ b = [dest EXCEPT ![Fold[r.new]] = dest[Fold[r.old]], ![Fold[r.old]] = NoFile]
    BY <1>6, <1>8 DEF Handles
  <2>2. r.oldHash # NoFile
    <3>1. r \in MoveOps
      BY <1>4, <1>8 DEF Records, DeleteOps, FileMsgs
    <3>2. QED
      BY <3>1, DestinationAssumption DEF MoveOps
  <2>3. ~Raises(r)
    BY <1>8, <2>1 DEF Raises, MayMove
  <2>4. ApplyRecord(r) => dest' = b
    BY <1>8, <2>1, <2>2 DEF ApplyRecord, Move, AcceptMoved, AlreadyMoved
  <2>5. QED
    BY <1>1, <1>6, <2>3, <2>4 DEF Deliver
<1>9. CASE r.kind = "delete"
  <2>1. dest[Fold[r.old]] = r.oldHash /\ b = [dest EXCEPT ![Fold[r.old]] = NoFile]
    BY <1>6, <1>9 DEF Handles
  <2>2. ~Raises(r)
    BY <1>9, <2>1 DEF Raises, MayDelete
  <2>3. ApplyRecord(r) => dest' = b
    BY <1>9, <2>1 DEF ApplyRecord, Delete
  <2>4. QED
    BY <1>1, <1>6, <2>2, <2>3 DEF Deliver
<1>10. QED
  BY <1>4, <1>7, <1>8, <1>9

\* What is delivered does as the messages after it expect.
LEMMA DeliverCopies ==
  ASSUME Undisturbed, TypeInv, CopyInv, Deliver
  PROVE  CopyInv'
<1>1. /\ channel # <<>> /\ Head(channel).kind # "state" /\ channel' = Tail(channel)
      /\ UNCHANGED <<live, journal, durable, files, pc, pos, inventory, todo, deleted, consumed, ops, transfers>>
  BY DEF Deliver, folderVars, cursorVars, listVars, planVars
<1>2. Arriving(dest', channel', files)
  BY <1>1, RecordAccepted
<1>3. pc \notin Listing \cup {"idle", "failed"}
  BY <1>1 DEF CopyInv, Stages
<1>4. Agreed'
  BY <1>1, <1>2, <1>3 DEF Agreed
<1>5. Stages' /\ PlannedOnce'
  BY <1>1, <1>3 DEF CopyInv, Stages, PlannedOnce
<1>6. StatesOwned(channel', journal)
  <2>1. channel \in Seq(Records \cup StateMsgs)
    BY AttemptTypes
  <2>2. \A i \in DOMAIN Tail(channel) : i + 1 \in DOMAIN channel /\ Tail(channel)[i] = channel[i + 1]
    BY <1>1, <2>1, TailElements
  <2>3. QED
    BY <1>1, <2>2 DEF CopyInv, PathsOwned, StatesOwned
<1>7. FolderHistory(live', journal') /\ PathsOwned'
  BY <1>1, <1>6 DEF CopyInv, PathsOwned
<1>8. (pc \in Underway => OpsMatch(files, ops) /\ TransfersMatch(files, ops, transfers))'
  BY <1>1 DEF CopyInv
<1>9. QED
  BY <1>4, <1>5, <1>7, <1>8 DEF CopyInv

\* An attempt ends with what the durable state says: it is not aborted, nothing of it is
\* refused, and it fails before it has sent anything.
LEMMA EndCopies ==
  ASSUME Undisturbed, TypeInv, CopyInv, Refuse \/ Checkpoint \/ SourceFailed \/ Abort
  PROVE  CopyInv'
<1>1. ~Refuse
  BY RecordAccepted DEF Refuse
<1>2. ~Abort
  BY DEF Undisturbed, Abort, TypeInv, TypeOK, Budgets
<1>3. EndAttempt /\ UNCHANGED <<live, journal, dest>>
  BY <1>1, <1>2 DEF Checkpoint, SourceFailed, folderVars, destinationVars
<1>4. /\ pc' = "idle" /\ files' = NoFiles /\ inventory' = NoFiles
      /\ channel' = <<>> /\ ops' = <<>> /\ transfers' = <<>>
  BY <1>3 DEF EndAttempt
<1>5. Holds(dest, durable'.files) /\ MapOwned(durable'.files, journal)
  <2>1. CASE Checkpoint
    <3>1. PICK r : r = Head(channel)
      OBVIOUS
    <3>2. channel # <<>> /\ r.kind = "state" /\ durable' = r.state
      BY <2>1, <3>1 DEF Checkpoint
    <3>3. channel \in Seq(Records \cup StateMsgs)
      BY AttemptTypes
    <3>4. Arriving(dest, channel, files)
      BY <3>2 DEF CopyInv, Stages, Agreed
    <3>5. PICK b : Handles(dest, r, b)
      BY <3>1, <3>2, <3>3, <3>4, CourseHandled
    <3>6. Holds(dest, r.state.files)
      BY <3>2, <3>5 DEF Handles
    <3>7. 1 \in DOMAIN channel /\ r = channel[1]
      BY <3>1, <3>2, <3>3
    <3>8. MapOwned(r.state.files, journal)
      BY <3>2, <3>7 DEF CopyInv, PathsOwned, StatesOwned
    <3>9. QED
      BY <3>2, <3>6, <3>8
  <2>2. CASE SourceFailed
    BY <2>2 DEF SourceFailed, CopyInv, Agreed, PathsOwned
  <2>3. QED
    BY <1>1, <1>2, <2>1, <2>2
<1>6. MapOwned(NoFiles, journal)
  BY DEF MapOwned, NoFiles
<1>7. PathsOwned'
  BY <1>3, <1>4, <1>5, <1>6, NothingMatches DEF CopyInv, PathsOwned
<1>8. Agreed' /\ Stages' /\ PlannedOnce'
  BY <1>3, <1>4, <1>5 DEF Agreed, Stages, PlannedOnce, Listing
<1>9. (pc \in Underway => OpsMatch(files, ops) /\ TransfersMatch(files, ops, transfers))'
  BY <1>4, NothingMatches
<1>10. FolderHistory(live', journal')
  BY <1>3 DEF CopyInv
<1>11. QED
  BY <1>7, <1>8, <1>9, <1>10 DEF CopyInv

-----------------------------------------------------------------------------
\* Every step keeps the invariant.
LEMMA CopyInductive ==
  ASSUME Undisturbed
  PROVE  TypeInv /\ CopyInv /\ [Next]_vars => CopyInv'
<1> SUFFICES ASSUME TypeInv, CopyInv, [Next]_vars PROVE CopyInv'
  OBVIOUS
<1>1. TypeInv'
  BY TypeInvInductive
<1>2. CASE Source
  <2>1. SourceStep /\ UNCHANGED <<live, journal, durable, dest>>
    BY <1>2 DEF Source, folderVars, destinationVars
  <2>2. CASE \/ \E last \in 0 .. MaxEvents : DeltaPage(last)
             \/ DeltaListed \/ TombstonesPlanned \/ SnapshotListed
             \/ InventoryPlanned \/ RemovalsPlanned
    BY <2>1, <2>2, ListingCopies
  <2>3. CASE DeltaEntry
    BY <2>1, <2>3, EntryCopies
  <2>4. CASE \E p \in Paths : PlanTombstone(p)
    BY <2>1, <2>4, TombstoneCopies
  <2>5. CASE ListFolder \/ SnapshotPage
    BY <2>1, <2>5, SnapshotCopies
  <2>6. CASE \E id \in Ids : PlanInventory(id)
    BY <2>1, <2>6, InventoryCopies
  <2>7. CASE \E id \in Ids : PlanRemoval(id)
    BY <2>1, <2>7, RemovalCopies
  <2>8. CASE EmitOperation
    BY <2>1, <2>8, EmitCopies
  <2>9. CASE OperationsEmitted
    BY <2>1, <2>9, SkipCopies
  <2>10. CASE TransferFile
    BY <2>1, <2>10, TransferCopies
  <2>11. CASE Finish
    BY <1>1, <2>1, <2>11, FinishCopies
  <2>12. QED
    BY <2>1, <2>2, <2>3, <2>4, <2>5, <2>6, <2>7, <2>8, <2>9, <2>10, <2>11 DEF SourceStep
<1>3. CASE Change
  BY <1>3, ChangeCopies
<1>4. CASE Start
  BY <1>4, StartCopies
<1>5. CASE Skip
  BY <1>5, SkipCopies DEF Skip, folderVars, destinationVars
<1>6. CASE Reset
  BY <1>6, ListingCopies DEF Reset, folderVars, destinationVars
<1>7. CASE Deliver
  BY <1>7, DeliverCopies
<1>8. CASE Refuse \/ Checkpoint \/ SourceFailed \/ Abort
  BY <1>8, EndCopies
<1>9. CASE UNCHANGED vars
  <2>1. UNCHANGED <<live, journal, durable, dest, files, channel, pc, pos, inventory, todo, deleted, consumed,
                    ops, transfers>>
    BY <1>9 DEF vars, folderVars, sourceVars, cursorVars, listVars, planVars, destinationVars
  <2>2. FolderHistory(live', journal') /\ PathsOwned' /\ Stages' /\ Agreed'
    BY <2>1 DEF CopyInv, PathsOwned, Stages, Agreed
  <2>3. PlannedOnce'
    BY <2>1 DEF CopyInv, PlannedOnce
  <2>4. (pc \in Underway => OpsMatch(files, ops) /\ TransfersMatch(files, ops, transfers))'
    BY <2>1 DEF CopyInv
  <2>5. QED
    BY <2>2, <2>3, <2>4 DEF CopyInv
<1>10. QED
  BY <1>2, <1>3, <1>4, <1>5, <1>6, <1>7, <1>8, <1>9 DEF Next

\* It holds at first.
LEMMA CopyInit == Init => CopyInv
<1> SUFFICES ASSUME Init PROVE CopyInv
  OBVIOUS
<1>1. /\ journal = <<>> /\ pc = "idle" /\ channel = <<>> /\ ops = <<>> /\ transfers = <<>>
      /\ files = NoFiles /\ inventory = NoFiles /\ durable = NoState
      /\ dest = [k \in Keys |-> NoFile]
  BY DEF Init, FolderInit, NoAttempt, DestinationInit
<1>2. durable.files = NoFiles /\ \A id \in Ids : NoFiles[id] = Absent
  BY <1>1 DEF NoState, NoFiles
<1>3. FolderHistory(live, journal)
  BY HistoryInit DEF HistoryInv
<1>4. PathsOwned
  <2>1. OneOwner(journal) /\ MapOwned(NoFiles, journal)
    BY <1>1, <1>2 DEF OneOwner, MapOwned
  <2>2. QED
    BY <1>1, <1>2, <2>1, NothingMatches DEF PathsOwned
<1>5. Stages /\ PlannedOnce
  BY <1>1 DEF Stages, PlannedOnce, Listing
<1>6. Agreed
  BY <1>1, <1>2 DEF Agreed, Holds
<1>7. pc \in Underway => OpsMatch(files, ops) /\ TransfersMatch(files, ops, transfers)
  BY <1>1, NothingMatches
<1>8. QED
  BY <1>3, <1>4, <1>5, <1>6, <1>7 DEF CopyInv

\* It holds of every state.
LEMMA CopyInvariant ==
  ASSUME Undisturbed
  PROVE  Spec => [](TypeInv /\ CopyInv)
<1>1. Init => TypeInv /\ CopyInv
  BY InitTypeInv, CopyInit
<1>2. TypeInv /\ CopyInv /\ [Next]_vars => (TypeInv /\ CopyInv)'
  BY TypeInvInductive, CopyInductive
<1>3. QED
  BY <1>1, <1>2, PTL DEF Spec

\* Between attempts the destination holds the bytes of every file of the durable state at the
\* path it has there (destination.py write, and the map that the state carries).
THEOREM CopiesKept ==
  ASSUME Undisturbed
  PROVE  Spec => []PinnedCopies
<1>1. CopyInv => PinnedCopies
  BY DEF CopyInv, Agreed, Holds, PinnedCopies
<1>2. QED
  BY <1>1, CopyInvariant, PTL

\* The destination refuses no record: every move and delete finds what its hash says, and
\* no move finds its target taken (client.py _move_file and _delete_file).
THEOREM EverythingAccepted ==
  ASSUME Undisturbed
  PROVE  Spec => []NothingRefused
<1>1. TypeInv /\ CopyInv => NothingRefused
  BY RecordAccepted DEF NothingRefused
<1>2. QED
  BY <1>1, CopyInvariant, PTL

-----------------------------------------------------------------------------
(* Where the files of a map are.                                           *)

\* What the exact copy holds under: besides, renames and deletions are propagated, and no
\* file is too large to be transferred.
Exact ==
    /\ Undisturbed
    /\ RenamePolicy = "propagate"
    /\ DeletePolicy = "delete"
    /\ \A r \in Revs : ~TooLarge(r)

\* The file belongs into the copy.
InScope(id) == Exists(id) /\ Selected(live[id].path)

\* At position n file id was at the selected path p, or it came there later.
PlacedAt(p, n, id, j) ==
    /\ Selected(p)
    /\ \E k \in EventsIn(j, id) :
          /\ j[k].path = p
          /\ \A i \in EventsIn(j, id) : i <= n => i <= k
          /\ \A m \in (k + 1) .. n : ~SamePath(j[m].path, p)

Placed(map, n, j) == \A id \in Ids : map[id] # Absent => PlacedAt(map[id].path, n, id, j)

StatesPlaced(s, j) ==
    \A i \in DOMAIN s : s[i].kind = "state" => Placed(s[i].state.files, s[i].state.cursor, j)

PlansPlaced(o, t, n, j) ==
    /\ \A i \in DOMAIN o : o[i].kind = "move" => PlacedAt(o[i].new, n, o[i].id, j)
    /\ \A i \in DOMAIN t : PlacedAt(t[i].path, n, t[i].id, j)

Concerns(o, id) == \E i \in DOMAIN o : o[i].id = id

\* The folder stands still while it is listed.
StandsStill ==
    /\ pc \in Underway \ {"snapshot", "transfer"} /\ ~(pc = "delta" /\ more) => pageEnd = Len(journal)
    /\ pc = "relist" => ~more
    /\ pc \in {"relist", "inventory", "removals"} =>
          \A id \in Ids : inventory[id] = IF InScope(id) THEN live[id] ELSE Absent

\* A file that is in the map and does not belong into the copy any more has an operation
\* planned for it, or will have.
GoneFound ==
    /\ pc = "idle" => consumed = {}
    /\ pc = "delta" => \A m \in DOMAIN journal :
          cursor < m /\ m <= pos /\ LatestIn(journal, m) /\ journal[m].id = 0 => journal[m].path \in deleted
    /\ pc \in {"delta", "tombstones"} => \A id \in Ids :
          Tracked(id) /\ Fold[files[id].path] \in consumed => Concerns(ops, id)
    /\ pc = "tombstones" => \A id \in Ids :
          Tracked(id) /\ ~InScope(id) => files[id].path \in deleted \/ Concerns(ops, id)
    /\ pc = "removals" => \A id \in Ids :
          Tracked(id) /\ ~InScope(id) => id \in todo \/ Concerns(ops, id)
    /\ pc = "emit" => \A id \in Ids :
          Tracked(id) => PlacedAt(files[id].path, pageEnd, id, journal) \/ Concerns(ops, id)
    /\ pc = "transfer" => cursor <= pageEnd /\ Placed(files, pageEnd, journal)

PlaceInv ==
    /\ Placed(durable.files, durable.cursor, journal)
    /\ pc \in Underway => Placed(files, cursor, journal)
    /\ StatesPlaced(channel, journal)
    /\ pc \in Underway => PlansPlaced(ops, transfers, pageEnd, journal)
    /\ StandsStill
    /\ GoneFound

\* Where a file was at a position stays so as the history grows.
LEMMA PlacedStays ==
  ASSUME NEW j, NEW j2, Extends(j, j2), NEW n \in Int, n <= Len(j), NEW p, NEW id, PlacedAt(p, n, id, j)
  PROVE  PlacedAt(p, n, id, j2)
<1>1. PICK k \in EventsIn(j, id) : /\ j[k].path = p
                                   /\ \A i \in EventsIn(j, id) : i <= n => i <= k
                                   /\ \A m \in (k + 1) .. n : ~SamePath(j[m].path, p)
  BY DEF PlacedAt
<1>2. /\ DOMAIN j = 1 .. Len(j) /\ DOMAIN j2 = 1 .. Len(j2) /\ Len(j) \in Nat /\ Len(j2) \in Nat
      /\ Len(j) < Len(j2) /\ \A i \in DOMAIN j : j2[i] = j[i]
  BY DEF Extends
<1>3. k \in EventsIn(j2, id) /\ j2[k].path = p /\ k \in Nat /\ k >= 1
  BY <1>1, <1>2 DEF EventsIn
<1>4. ASSUME NEW i \in EventsIn(j2, id), i <= n PROVE i <= k
  <2>1. i \in EventsIn(j, id)
    BY <1>2, <1>4 DEF EventsIn
  <2>2. QED
    BY <1>1, <1>4, <2>1
<1>5. ASSUME NEW m \in (k + 1) .. n PROVE ~SamePath(j2[m].path, p)
  <2>1. m \in DOMAIN j
    BY <1>2, <1>3, <1>5
  <2>2. QED
    BY <1>1, <1>2, <2>1
<1>6. QED
  BY <1>3, <1>4, <1>5 DEF PlacedAt

\* Where a file was at a position it was, or would be, before.
LEMMA PlacedSooner ==
  ASSUME NEW j \in Seq(Event), NEW n \in Int, NEW c \in Int, c <= n, NEW p, NEW id, PlacedAt(p, n, id, j)
  PROVE  PlacedAt(p, c, id, j)
<1>1. PICK k \in EventsIn(j, id) : /\ j[k].path = p
                                   /\ \A i \in EventsIn(j, id) : i <= n => i <= k
                                   /\ \A m \in (k + 1) .. n : ~SamePath(j[m].path, p)
  BY DEF PlacedAt
<1>2. \A i \in EventsIn(j, id) : i \in Nat
  <2>1. DOMAIN j = 1 .. Len(j) /\ Len(j) \in Nat
    OBVIOUS
  <2>2. QED
    BY <2>1 DEF EventsIn
<1>3. \A m \in (k + 1) .. c : m \in (k + 1) .. n
  BY <1>2
<1>4. \A i \in EventsIn(j, id) : i <= c => i <= n
  BY <1>2
<1>5. QED
  BY <1>1, <1>3, <1>4 DEF PlacedAt

\* An event that is the latest of its path says where its file is.
LEMMA LatestIsPlaced ==
  ASSUME NEW l, NEW j \in Seq(Event), FolderHistory(l, j), NEW id \in Ids, NEW k \in EventsIn(j, id),
         LatestIn(j, k), Selected(j[k].path), NEW n \in Int, n <= Len(j)
  PROVE  PlacedAt(j[k].path, n, id, j)
<1>1. DOMAIN j = 1 .. Len(j) /\ Len(j) \in Nat /\ \A i \in EventsIn(j, id) : i \in DOMAIN j /\ i \in Nat
  <2>1. DOMAIN j = 1 .. Len(j) /\ Len(j) \in Nat
    OBVIOUS
  <2>2. QED
    BY <2>1 DEF EventsIn
<1>2. \A i \in EventsIn(j, id) : ~(k < i)
  BY DEF FolderHistory, HistoryOf
<1>3. \A i \in EventsIn(j, id) : i <= k
  BY <1>1, <1>2
<1>4. \A m \in (k + 1) .. n : m \in (k + 1) .. Len(j)
  BY <1>1
<1>5. \A m \in (k + 1) .. n : ~SamePath(j[m].path, j[k].path)
  BY <1>4 DEF LatestIn
<1>6. QED
  BY <1>3, <1>5 DEF PlacedAt

\* A selected file of the folder is placed where it is.
LEMMA LiveIsPlaced ==
  ASSUME NEW l, NEW j \in Seq(Event), FolderHistory(l, j), NEW id \in Ids, l[id] # Absent,
         Selected(l[id].path), NEW n \in Int, n <= Len(j)
  PROVE  PlacedAt(l[id].path, n, id, j)
<1>1. PICK k \in DOMAIN j : Current(l, j, id, k)
  BY DEF FolderHistory, HistoryOf
<1>2. k \in EventsIn(j, id) /\ j[k].path = l[id].path /\ LatestIn(j, k)
  BY <1>1 DEF Current
<1>3. PlacedAt(j[k].path, n, id, j)
  BY <1>2, LatestIsPlaced
<1>4. QED
  BY <1>2, <1>3

\* Of the events at a path one is the latest.
LEMMA PathHasLatest ==
  ASSUME NEW j \in Seq(Event), NEW k \in DOMAIN j
  PROVE  \E m \in DOMAIN j : k <= m /\ SamePath(j[m].path, j[k].path) /\ LatestIn(j, m)
<1> DEFINE R == OpToRel(<, Nat)
           S == {n \in Nat : \E m \in DOMAIN j :
                   k <= m /\ SamePath(j[m].path, j[k].path) /\ m + n = Len(j)}
<1>1. DOMAIN j = 1 .. Len(j) /\ Len(j) \in Nat
  OBVIOUS
<1>2. Len(j) - k \in S
  <2>1. k \in Nat /\ Len(j) - k \in Nat /\ k <= k /\ k + (Len(j) - k) = Len(j)
    BY <1>1
  <2>2. QED
    BY <2>1 DEF SamePath
<1>3. IsWellFoundedOn(R, Nat)
  BY NatLessThanWellFounded
<1>4. \A x, y \in Nat : <<x, y>> \in R <=> x < y
  BY DEF OpToRel
<1>5. S \in SUBSET Nat /\ S # {}
  BY <1>2
<1> HIDE DEF R, S
<1>6. PICK n \in S : \A y \in S : ~ (<<y, n>> \in R)
  BY <1>3, <1>5, WFMin
<1>7. n \in Nat
  BY <1>5
<1>8. PICK m \in DOMAIN j : k <= m /\ SamePath(j[m].path, j[k].path) /\ m + n = Len(j)
  BY <1>6 DEF S
<1>9. ASSUME NEW i \in (m + 1) .. Len(j), SamePath(j[i].path, j[m].path) PROVE FALSE
  <2>1. i \in DOMAIN j /\ i \in Nat /\ k <= i /\ m \in Nat /\ i > m
    BY <1>1, <1>8, <1>9
  <2>2. SamePath(j[i].path, j[k].path)
    BY <1>8, <1>9 DEF SamePath
  <2>3. PICK q : q = Len(j) - i
    OBVIOUS
  <2>4. q \in Nat /\ i + q = Len(j) /\ q < n
    BY <1>1, <1>7, <1>8, <1>9, <2>1, <2>3
  <2>5. q \in S
    BY <2>1, <2>2, <2>4 DEF S
  <2>6. <<q, n>> \in R
    BY <1>4, <1>7, <2>4
  <2>7. QED
    BY <1>6, <2>5, <2>6
<1>10. LatestIn(j, m)
  BY <1>9 DEF LatestIn
<1>11. QED
  BY <1>8, <1>10

\* A path has one spelling.
LEMMA OneSpelling ==
  ASSUME Exact, NEW p \in Paths, NEW q \in Paths, SamePath(p, q)
  PROVE  p = q
BY DEF Exact, Undisturbed

\* A file that does not belong into the copy left the path it is placed at after the position
\* it is placed for, and the latest event of that path is a deletion.
LEMMA GoneLeftLater ==
  ASSUME Exact, NEW l, NEW j \in Seq(Event), FolderHistory(l, j), OneOwner(j), NEW id \in Ids,
         \/ l[id] = Absent
         \/ l[id] \in Version /\ ~Selected(l[id].path),
         NEW n \in Int, NEW p \in Paths, PlacedAt(p, n, id, j)
  PROVE  \E m \in DOMAIN j : n < m /\ j[m].id = 0 /\ SamePath(j[m].path, p) /\ LatestIn(j, m)
<1>1. PICK k \in EventsIn(j, id) : /\ j[k].path = p
                                   /\ \A i \in EventsIn(j, id) : i <= n => i <= k
                                   /\ \A m \in (k + 1) .. n : ~SamePath(j[m].path, p)
  BY DEF PlacedAt
<1>2. DOMAIN j = 1 .. Len(j) /\ Len(j) \in Nat /\ k \in DOMAIN j /\ j[k].id = id
  <2>1. DOMAIN j = 1 .. Len(j) /\ Len(j) \in Nat
    OBVIOUS
  <2>2. QED
    BY <2>1 DEF EventsIn
<1>3. PICK m \in DOMAIN j : k <= m /\ SamePath(j[m].path, p) /\ LatestIn(j, m)
  BY <1>1, <1>2, PathHasLatest
<1>4. id # 0
  BY FolderAssumption
<1>5. j[m].id \in {0, id}
  BY <1>1, <1>2, <1>3, <1>4 DEF OneOwner, SamePath
<1>6. j[m].id # id
  <2> SUFFICES ASSUME m \in EventsIn(j, id) PROVE FALSE
    BY DEF EventsIn
  <2>1. CASE l[id] = Absent
    <3>1. PICK a \in DOMAIN j, b \in DOMAIN j : Withdrawn(j, id, a, b)
      BY <2>1 DEF FolderHistory, HistoryOf
    <3>2. a \in EventsIn(j, id) /\ m <= a /\ a < b /\ SamePath(j[a].path, j[b].path)
      BY <3>1 DEF Withdrawn
    <3>3. ~(m < a)
      BY <1>3, <3>2 DEF FolderHistory, HistoryOf
    <3>4. m = a /\ b \in (m + 1) .. Len(j)
      BY <1>2, <3>2, <3>3
    <3>5. QED
      BY <1>3, <3>2, <3>4 DEF LatestIn, SamePath
  <2>2. CASE l[id] # Absent
    <3>1. PICK a \in DOMAIN j : Current(l, j, id, a)
      BY <2>2 DEF FolderHistory, HistoryOf
    <3>2. a \in EventsIn(j, id) /\ m <= a /\ j[a].path = l[id].path
      BY <3>1 DEF Current
    <3>3. ~(m < a)
      BY <1>3, <3>2 DEF FolderHistory, HistoryOf
    <3>4. m = a
      BY <1>2, <3>2, <3>3
    <3>5. l[id].path \in Paths /\ SamePath(l[id].path, p)
      BY <1>3, <2>2, <3>2, <3>4 DEF Version
    <3>6. l[id].path = p
      BY <3>5, OneSpelling
    <3>7. QED
      BY <2>2, <3>6 DEF PlacedAt
  <2>3. QED
    BY <2>1, <2>2
<1>7. m # k
  BY <1>2, <1>6
<1>8. n < m
  <2>1. CASE m <= n
    <3>1. m \in (k + 1) .. n
      BY <1>2, <1>3, <1>7, <2>1
    <3>2. QED
      BY <1>1, <1>3, <3>1
  <2>2. QED
    BY <1>2, <2>1
<1>9. QED
  BY <1>3, <1>5, <1>6, <1>8

\* At the end of the history a map has only files that belong into the copy.
LEMMA PlacedIsThere ==
  ASSUME Exact, NEW l \in [Ids -> Version \cup {Absent}], NEW j \in Seq(Event), FolderHistory(l, j), OneOwner(j),
         NEW map \in FileMap, Placed(map, Len(j), j), NEW id \in Ids, map[id] # Absent
  PROVE  l[id] # Absent /\ Selected(l[id].path)
<1>1. DOMAIN j = 1 .. Len(j) /\ Len(j) \in Nat
  OBVIOUS
<1>2. PlacedAt(map[id].path, Len(j), id, j) /\ map[id].path \in Paths
  BY DEF Placed, FileMap, Version
<1>3. \A m \in DOMAIN j : ~(Len(j) < m)
  BY <1>1
<1>4. QED
  BY <1>1, <1>2, <1>3, GoneLeftLater

\* A change of the folder leaves what a map says of the positions before it.
LEMMA ChangePlaced ==
  ASSUME Exact, TypeInv, CopyInv, PlaceInv, Change
  PROVE  PlaceInv'
<1>1. /\ UNCHANGED <<files, cursor, pc, pageEnd, consumed, ops, transfers, channel, durable>>
      /\ FolderChange
      /\ pc \in {"idle", "transfer"}
  BY DEF Change, AwaitsDropbox, Exact, Undisturbed, sourceVars, cursorVars, listVars, planVars
<1>2. Extends(journal, journal')
  BY <1>1, OwnersStay DEF Exact, Undisturbed, CopyInv, PathsOwned
<1>3. \A n \in Int : \A p, id : n <= Len(journal) /\ PlacedAt(p, n, id, journal) => PlacedAt(p, n, id, journal')
  BY <1>2, PlacedStays
<1>4. \A n \in Int : \A map : n <= Len(journal) /\ Placed(map, n, journal) => Placed(map, n, journal')
  BY <1>3 DEF Placed
<1>5. Placed(durable.files, durable.cursor, journal') /\ (pc \in Underway => Placed(files, cursor, journal'))
  BY <1>4, AttemptTypes DEF PlaceInv
<1>6. StatesPlaced(channel, journal')
  BY <1>4, SentTypes DEF PlaceInv, StatesPlaced
<1>7. pc \in Underway => PlansPlaced(ops, transfers, pageEnd, journal')
  BY <1>3, AttemptTypes DEF PlaceInv, PlansPlaced
<1>8. pc = "transfer" => cursor <= pageEnd /\ Placed(files, pageEnd, journal')
  BY <1>4, AttemptTypes DEF PlaceInv, GoneFound
<1>9. GoneFound'
  BY <1>1, <1>8 DEF PlaceInv, GoneFound
<1>10. StandsStill'
  BY <1>1 DEF StandsStill, Underway, Listing
<1>11. QED
  BY <1>1, <1>5, <1>6, <1>7, <1>9, <1>10 DEF PlaceInv

\* Nothing planned leads nowhere.
LEMMA NothingLeadsAway ==
  ASSUME NEW n, NEW j
  PROVE  PlansPlaced(<<>>, <<>>, n, j) /\ StatesPlaced(<<>>, j)
BY DEF PlansPlaced, StatesPlaced

\* An attempt starts from the durable map.
LEMMA StartPlaced ==
  ASSUME TypeInv, CopyInv, KeptInv, PlaceInv, Start
  PROVE  PlaceInv'
<1>1. /\ pc = "idle" /\ files' = durable.files /\ cursor' = durable.cursor
      /\ UNCHANGED <<journal, durable, deleted, consumed, ops, transfers, channel>>
      /\ more' = TRUE
      /\ \/ pc' = "delta" /\ pos' = durable.cursor
         \/ pc' = "snapshot"
  BY DEF Start, StartAttempt, SetInitialState, folderVars, planVars
<1>2. channel = <<>> /\ ops = <<>> /\ transfers = <<>> /\ deleted = {} /\ consumed = {}
  BY <1>1 DEF CopyInv, Stages, KeptInv, Positions, PlaceInv, GoneFound
<1>3. PlansPlaced(ops', transfers', pageEnd', journal') /\ StatesPlaced(channel', journal')
  BY <1>1, <1>2, NothingLeadsAway
<1>4. \A m \in DOMAIN journal : ~(durable.cursor < m /\ m <= durable.cursor)
  BY AttemptTypes
<1>5. GoneFound'
  BY <1>1, <1>2, <1>4 DEF GoneFound
<1>6. Placed(durable'.files, durable'.cursor, journal') /\ Placed(files', cursor', journal')
  BY <1>1 DEF PlaceInv
<1>7. StandsStill'
  BY <1>1, Zenon DEF StandsStill
<1>8. QED
  BY <1>3, <1>5, <1>6, <1>7 DEF PlaceInv

\* A step of the listing or planning changes no map.
LEMMA QuietPlaced ==
  ASSUME PlaceInv, UNCHANGED <<journal, durable, files, cursor, channel>>,
         pc \in Listing,
         PlansPlaced(ops', transfers', pageEnd', journal), StandsStill', GoneFound'
  PROVE  PlaceInv'
BY DEF PlaceInv, Underway

\* Steps that plan nothing before there is something to plan: a page, a reset, a snapshot.
LEMMA ListingPlaced ==
  ASSUME Exact, TypeInv, KeptInv, PlaceInv, UNCHANGED <<live, journal, durable>>,
         (\E last \in 0 .. MaxEvents : DeltaPage(last)) \/ CursorReset \/ ListFolder \/ SnapshotListed
  PROVE  PlaceInv'
<1>1. ~Paged /\ DeletePolicy = "delete"
  BY DEF Exact, Undisturbed
<1>2. ASSUME NEW last \in 0 .. MaxEvents, DeltaPage(last) PROVE PlaceInv'
  <2>1. /\ pc = "delta" /\ pc' = pc /\ more /\ pageEnd' = last /\ last = Len(journal)
        /\ UNCHANGED <<files, cursor, channel, pos, deleted, consumed, ops, transfers>>
    <3>1. last <= Len(journal) /\ ~(last < Len(journal)) /\ last \in Nat /\ Len(journal) \in Nat
      BY <1>1, <1>2, AttemptTypes DEF DeltaPage
    <3>2. QED
      BY <1>2, <3>1 DEF DeltaPage, cursorVars, planVars
  <2>2. ops = <<>> /\ transfers = <<>>
    BY <1>1, <2>1, Zenon DEF KeptInv, Positions
  <2>3. GoneFound'
    BY <2>1 DEF PlaceInv, GoneFound, Tracked, InScope, Exists
  <2>4. StandsStill'
    BY <2>1 DEF StandsStill
  <2>5. QED
    BY <2>1, <2>2, <2>3, <2>4, NothingLeadsAway, QuietPlaced DEF Listing
<1>3. CASE CursorReset
  <2>1. pc = "delta" /\ pc' = "snapshot" /\ ops' = <<>> /\ transfers' = <<>>
        /\ UNCHANGED <<files, cursor, channel>>
    BY <1>3 DEF CursorReset, cursorVars
  <2>2. GoneFound' /\ StandsStill'
    BY <2>1 DEF GoneFound, StandsStill
  <2>3. QED
    BY <2>1, <2>2, NothingLeadsAway, QuietPlaced DEF Listing
<1>4. CASE ListFolder
  <2>1. /\ pc = "snapshot" /\ pc' = "relist" /\ pageEnd' = Len(journal)
        /\ inventory' = [id \in Ids |->
                           IF Exists(id) /\ Selected(live[id].path) THEN live[id] ELSE Absent]
        /\ UNCHANGED <<files, cursor, channel, ops, transfers>>
    BY <1>4 DEF ListFolder, cursorVars
  <2>2. more' = FALSE
    BY <1>1, <1>4, PagedAssumption DEF ListFolder
  <2>3. ops = <<>> /\ transfers = <<>>
    BY <2>1 DEF KeptInv, Positions
  <2>4. GoneFound'
    BY <2>1 DEF GoneFound
  <2>5. StandsStill'
    <3>1. \A id \in Ids : inventory'[id] = IF InScope(id)' THEN live[id] ELSE Absent
      BY <2>1 DEF InScope, Exists
    <3>2. (pc = "relist" => ~more)'
      BY <2>2, Zenon
    <3>3. QED
      BY <2>1, <3>1, <3>2, Zenon DEF StandsStill
  <2>6. QED
    BY <2>1, <2>3, <2>4, <2>5, NothingLeadsAway, QuietPlaced DEF Listing
<1>5. CASE SnapshotListed
  <2>1. /\ pc = "relist" /\ pc' = "inventory" /\ UNCHANGED <<files, cursor, channel, pageEnd, inventory, ops, transfers>>
    BY <1>5 DEF SnapshotListed, cursorVars, listVars
  <2>2. ops = <<>> /\ transfers = <<>>
    BY <2>1 DEF KeptInv, Positions
  <2>3. GoneFound'
    BY <2>1 DEF GoneFound
  <2>4. StandsStill'
    BY <2>1 DEF PlaceInv, StandsStill, Underway, Listing, InScope, Exists
  <2>5. QED
    BY <2>1, <2>2, <2>3, <2>4, NothingLeadsAway, QuietPlaced DEF Listing
<1>6. QED
  BY <1>2, <1>3, <1>4, <1>5

\* What is planned for a file leads to where it is listed.
LEMMA PlusPlaced ==
  ASSUME RenamePolicy = "propagate", NEW n, PlansPlaced(ops, transfers, n, journal), NEW id, NEW e,
         PlacedAt(e.path, n, id, journal), NEW o, OpsPlus(o, id, e), NEW t, TransfersPlus(t, id, e)
  PROVE  PlansPlaced(o, t, n, journal)
<1>1. MoveOp(id, files[id], e).id = id /\ MoveOp(id, files[id], e).new = e.path
  BY DEF MoveOp
<1>2. \A i \in DOMAIN o : o[i].kind = "move" => PlacedAt(o[i].new, n, o[i].id, journal)
  BY <1>1 DEF PlansPlaced, OpsPlus
<1>3. \A i \in DOMAIN t : PlacedAt(t[i].path, n, t[i].id, journal)
  BY DEF PlansPlaced, TransfersPlus
<1>4. QED
  BY <1>2, <1>3 DEF PlansPlaced

\* What concerned a file before concerns it still, and a deletion that is planned does.
LEMMA DeleteConcerns ==
  ASSUME TypeInv, NEW id \in Ids, NEW o, o = Append(ops, DeleteOp(id, files[id]))
  PROVE  /\ Concerns(o, id)
         /\ \A x : Concerns(ops, x) => Concerns(o, x)
         /\ \A t, n, j : PlansPlaced(ops, t, n, j) => PlansPlaced(o, t, n, j)
<1>1. PICK op : op = DeleteOp(id, files[id])
  OBVIOUS
<1>2. op.kind = "delete" /\ op.id = id
  BY <1>1 DEF DeleteOp
<1>3. ops \in Seq(MoveOps \cup DeleteOps)
  BY AttemptTypes
<1>4. o = ops \o <<op>>
  BY <1>1, <1>3
<1>5. Longer(o, ops, op)
  BY <1>3, <1>4, Lengthened
<1>6. Concerns(o, id) /\ \A x : Concerns(ops, x) => Concerns(o, x)
  BY <1>2, <1>5 DEF Concerns, Longer
<1>7. \A t, n, j : PlansPlaced(ops, t, n, j) => PlansPlaced(o, t, n, j)
  BY <1>2, <1>5 DEF PlansPlaced, Longer
<1>8. QED
  BY <1>6, <1>7

\* A listed entry: the file it is of is planned to where it is, and a deletion is noted.
LEMMA EntryPlaced ==
  ASSUME Exact, TypeInv, CopyInv, PlaceInv, UNCHANGED <<live, journal, durable>>, DeltaEntry
  PROVE  PlaceInv'
<1>1. PICK e : e = journal[pos + 1]
  OBVIOUS
<1>2. /\ pc = "delta" /\ pc' = "delta" /\ pos < pageEnd /\ pos' = pos + 1
      /\ UNCHANGED <<files, cursor, channel, pageEnd, more>>
      /\ \/ /\ ~LatestIn(journal, pos + 1) \/ e.id # 0
            /\ UNCHANGED <<deleted, consumed, ops, transfers>>
         \/ /\ e.id = 0 /\ deleted' = deleted \cup {e.path} /\ UNCHANGED <<consumed, ops, transfers>>
         \/ /\ LatestIn(journal, pos + 1) /\ e.id # 0 /\ Selected(e.path) /\ UNCHANGED deleted
            /\ consumed' = IF Tracked(e.id) /\ files[e.id].path # e.path
                             THEN consumed \cup {Fold[files[e.id].path]} ELSE consumed
            /\ ops' = ops \o PlannedOps(e.id, e)
            /\ transfers' = transfers \o PlannedTransfers(e.id, e)
  BY <1>1 DEF DeltaEntry, PlanChangedFile, cursorVars, Latest, LatestIn
<1>3. /\ pos \in Nat /\ pageEnd \in Nat /\ cursor \in Int /\ pageEnd <= Len(journal) /\ Len(journal) \in Nat
      /\ journal \in Seq(Event) /\ pos + 1 \in DOMAIN journal /\ e \in Event
  <2>1. /\ pos \in Nat /\ pageEnd \in Nat /\ cursor \in Int /\ journal \in Seq(Event)
        /\ pageEnd <= Len(journal) /\ Len(journal) \in Nat
    BY AttemptTypes
  <2>2. pos + 1 \in DOMAIN journal
    BY <1>2, <2>1
  <2>3. e \in Event
    BY <1>1, <2>1, <2>2
  <2>4. QED
    BY <2>1, <2>2, <2>3
<1>4. /\ RenamePolicy = "propagate"
      /\ PlansPlaced(ops, transfers, pageEnd, journal)
      /\ OneOwner(journal) /\ MapOwned(files, journal) /\ FolderHistory(live, journal)
  BY <1>2 DEF Exact, PlaceInv, CopyInv, PathsOwned, Underway, Listing
<1>5. /\ \A m \in DOMAIN journal :
            cursor < m /\ m <= pos /\ LatestIn(journal, m) /\ journal[m].id = 0 => journal[m].path \in deleted
      /\ \A id \in Ids : Tracked(id) /\ Fold[files[id].path] \in consumed => Concerns(ops, id)
  BY <1>2 DEF PlaceInv, GoneFound
<1>6. \A m \in DOMAIN journal : m <= pos + 1 => m <= pos \/ m = pos + 1
  BY <1>3
<1>7. StandsStill'
  BY <1>2 DEF PlaceInv, StandsStill
<1>8. CASE UNCHANGED <<consumed, ops, transfers>>
  <2>1. \A m \in DOMAIN journal :
          cursor < m /\ m <= pos + 1 /\ LatestIn(journal, m) /\ journal[m].id = 0 => journal[m].path \in deleted'
    BY <1>1, <1>2, <1>5, <1>6
  <2>2. GoneFound'
    BY <1>2, <1>5, <1>8, <2>1 DEF GoneFound, Tracked
  <2>3. QED
    BY <1>2, <1>4, <1>8, <1>7, <2>2, QuietPlaced DEF Listing
<1>9. CASE /\ LatestIn(journal, pos + 1) /\ e.id # 0 /\ Selected(e.path) /\ UNCHANGED deleted
           /\ consumed' = IF Tracked(e.id) /\ files[e.id].path # e.path
                            THEN consumed \cup {Fold[files[e.id].path]} ELSE consumed
           /\ ops' = ops \o PlannedOps(e.id, e)
           /\ transfers' = transfers \o PlannedTransfers(e.id, e)
  <2>1. e.id \in Ids
    BY <1>3, <1>9 DEF Event
  <2>2. PICK id \in Ids : id = e.id
    BY <2>1
  <2>3. OpsPlus(ops', id, e) /\ TransfersPlus(transfers', id, e)
    BY <1>9, <2>2, FilePlus
  <2>4. pos + 1 \in EventsIn(journal, id)
    BY <1>1, <1>3, <2>2 DEF EventsIn
  <2>5. PlacedAt(e.path, pageEnd, id, journal)
    <3>1. PlacedAt(journal[pos + 1].path, pageEnd, id, journal)
      BY <1>1, <1>3, <1>4, <1>9, <2>4, LatestIsPlaced
    <3>2. QED
      BY <1>1, <3>1
  <2>6. PlansPlaced(ops', transfers', pageEnd, journal)
    BY <1>4, <2>3, <2>5, PlusPlaced
  <2>7. \A x : Concerns(ops, x) => Concerns(ops', x)
    BY <2>3 DEF Concerns, OpsPlus
  <2>8. ASSUME NEW x \in Ids, Tracked(x), Fold[files[x].path] \in consumed', Fold[files[x].path] \notin consumed
        PROVE  Concerns(ops', x)
    <3>1. Tracked(id) /\ files[id].path # e.path /\ Fold[files[x].path] = Fold[files[id].path]
      BY <1>9, <2>2, <2>8
    <3>2. Owned(journal, id, files[id].path)
      BY <1>4, <3>1 DEF MapOwned, Tracked
    <3>3. x = id
      BY <1>4, <2>8, <3>1, <3>2, KeysDiffer DEF Tracked
    <3>4. MoveOp(id, files[id], e).id = id
      BY DEF MoveOp
    <3>5. QED
      BY <1>4, <2>3, <3>1, <3>3, <3>4 DEF OpsPlus, Concerns, Tracked
  <2>9. \A x \in Ids : Tracked(x) /\ Fold[files[x].path] \in consumed' => Concerns(ops', x)
    BY <1>5, <2>7, <2>8
  <2>10. \A m \in DOMAIN journal :
          cursor < m /\ m <= pos + 1 /\ LatestIn(journal, m) /\ journal[m].id = 0 => journal[m].path \in deleted
    BY <1>1, <1>5, <1>6, <1>9
  <2>11. GoneFound'
    BY <1>2, <1>9, <2>9, <2>10 DEF GoneFound, Tracked
  <2>12. QED
    BY <1>2, <1>7, <2>6, <2>11, QuietPlaced DEF Listing
<1>10. QED
  BY <1>2, <1>8, <1>9

\* When the listing ends, the deletion of every file of the map that left the copy was listed.
LEMMA DeltaListedPlaced ==
  ASSUME Exact, TypeInv, CopyInv, PlaceInv, UNCHANGED <<live, journal, durable>>, DeltaListed
  PROVE  PlaceInv'
<1>1. /\ pc = "delta" /\ pos = pageEnd /\ ~more /\ pc' = "tombstones"
      /\ UNCHANGED <<files, cursor, channel, pageEnd, deleted, consumed, ops, transfers>>
  BY DEF DeltaListed, Exact, cursorVars, listVars, planVars
<1>2. pageEnd = Len(journal)
  BY <1>1, Zenon DEF PlaceInv, StandsStill, Underway, Listing
<1>3. /\ PlansPlaced(ops, transfers, pageEnd, journal) /\ Placed(files, cursor, journal)
      /\ OneOwner(journal) /\ FolderHistory(live, journal)
  BY <1>1 DEF PlaceInv, CopyInv, PathsOwned, Underway, Listing
<1>4. /\ \A m \in DOMAIN journal :
            cursor < m /\ m <= pos /\ LatestIn(journal, m) /\ journal[m].id = 0 => journal[m].path \in deleted
      /\ \A id \in Ids : Tracked(id) /\ Fold[files[id].path] \in consumed => Concerns(ops, id)
  BY <1>1 DEF PlaceInv, GoneFound
<1>5. ASSUME NEW id \in Ids, Tracked(id), ~InScope(id) PROVE files[id].path \in deleted
  <2>1. PICK p : p = files[id].path
    OBVIOUS
  <2>2. journal \in Seq(Event) /\ cursor \in Int /\ Len(journal) \in Nat
    BY AttemptTypes
  <2>3. p \in Paths
    BY <1>5, <2>1, AttemptTypes, TrackedIsVersion DEF Version
  <2>4. /\ PlacedAt(p, cursor, id, journal)
        /\ live[id] = Absent \/ (live[id] \in Version /\ ~Selected(live[id].path))
    BY <1>3, <1>5, <2>1, AttemptTypes DEF Placed, Tracked, InScope, Exists
  <2>5. PICK m \in DOMAIN journal : cursor < m /\ journal[m].id = 0 /\ SamePath(journal[m].path, p) /\ LatestIn(journal, m)
    BY <1>3, <2>2, <2>4, <2>3, GoneLeftLater
  <2>6. m <= pos
    BY <1>1, <1>2, <2>2
  <2>7. journal[m].path \in Paths
    <3>1. journal[m] \in Event
      BY <2>2
    <3>2. QED
      BY <3>1 DEF Event
  <2>8. journal[m].path = p
    BY <2>5, <2>7, <2>3, OneSpelling
  <2>9. QED
    BY <1>4, <2>1, <2>5, <2>6, <2>8
<1>6. GoneFound'
  BY <1>1, <1>4, <1>5 DEF GoneFound, Tracked, InScope, Exists
<1>7. StandsStill'
  BY <1>1, <1>2 DEF StandsStill
<1>8. QED
  BY <1>1, <1>3, <1>6, <1>7, QuietPlaced DEF Listing

\* A tombstone leaves its file an operation, its own deletion or the move that consumed it.
LEMMA TombstonePlaced ==
  ASSUME TypeInv, CopyInv, PlaceInv, UNCHANGED <<live, journal, durable>>,
         NEW p \in Paths, PlanTombstone(p)
  PROVE  PlaceInv'
<1>1. /\ pc = "tombstones" /\ pc' = pc /\ p \in deleted /\ deleted' = deleted \ {p}
      /\ UNCHANGED <<files, cursor, channel, pageEnd, consumed, transfers>>
      /\ \/ UNCHANGED ops /\ (Fold[p] \in consumed \/ PinnedTo(Fold[p]) = {})
         \/ \E id \in Ids : /\ Tracked(id) /\ Fold[files[id].path] = Fold[p]
                            /\ ops' = Append(ops, DeleteOp(id, files[id]))
  BY DEF PlanTombstone, ByPath, PinnedTo, cursorVars, listVars
<1>2. /\ PlansPlaced(ops, transfers, pageEnd, journal)
      /\ OneOwner(journal) /\ MapOwned(files, journal)
  BY <1>1 DEF PlaceInv, CopyInv, PathsOwned, Underway, Listing
<1>3. /\ \A id \in Ids : Tracked(id) /\ Fold[files[id].path] \in consumed => Concerns(ops, id)
      /\ \A id \in Ids : Tracked(id) /\ ~InScope(id) => files[id].path \in deleted \/ Concerns(ops, id)
      /\ StandsStill'
  BY <1>1 DEF PlaceInv, GoneFound, StandsStill, Underway, Listing
<1>4. CASE UNCHANGED ops /\ (Fold[p] \in consumed \/ PinnedTo(Fold[p]) = {})
  <2>1. ASSUME NEW id \in Ids, Tracked(id), ~InScope(id) PROVE files[id].path \in deleted' \/ Concerns(ops, id)
    <3>1. CASE files[id].path = p
      <4>1. id \in PinnedTo(Fold[p])
        BY <2>1, <3>1 DEF PinnedTo
      <4>2. Fold[files[id].path] \in consumed
        BY <1>4, <3>1, <4>1
      <4>3. QED
        BY <1>3, <2>1, <4>2
    <3>2. CASE files[id].path # p
      BY <1>1, <1>3, <2>1, <3>2
    <3>3. QED
      BY <3>1, <3>2
  <2>2. GoneFound'
    BY <1>1, <1>3, <1>4, <2>1 DEF GoneFound, Tracked, InScope, Exists
  <2>3. QED
    BY <1>1, <1>2, <1>3, <1>4, <2>2, QuietPlaced DEF Listing
<1>5. ASSUME NEW x \in Ids, Tracked(x), Fold[files[x].path] = Fold[p], ops' = Append(ops, DeleteOp(x, files[x]))
      PROVE  PlaceInv'
  <2>1. PICK o : o = ops'
    OBVIOUS
  <2>2. /\ Concerns(o, x) /\ \A y : Concerns(ops, y) => Concerns(o, y)
        /\ PlansPlaced(o, transfers, pageEnd, journal)
    BY <1>2, <1>5, <2>1, DeleteConcerns
  <2>3. ASSUME NEW id \in Ids, Tracked(id), ~InScope(id) PROVE files[id].path \in deleted' \/ Concerns(o, id)
    <3>1. CASE files[id].path = p
      <4>1. Owned(journal, id, files[id].path) /\ Fold[files[x].path] = Fold[files[id].path]
        BY <1>2, <1>5, <2>3, <3>1 DEF MapOwned, Tracked
      <4>2. x = id
        BY <1>2, <1>5, <4>1, KeysDiffer DEF Tracked
      <4>3. QED
        BY <2>2, <4>2
    <3>2. CASE files[id].path # p
      BY <1>1, <1>3, <2>2, <2>3, <3>2
    <3>3. QED
      BY <3>1, <3>2
  <2>4. GoneFound'
    BY <1>1, <1>3, <2>1, <2>2, <2>3 DEF GoneFound, Tracked, InScope, Exists
  <2>5. QED
    BY <1>1, <1>3, <2>1, <2>2, <2>4, QuietPlaced DEF Listing
<1>6. QED
  BY <1>1, <1>4, <1>5

\* When all is planned, whatever is still there is placed, or moves; and the rest is deleted.
LEMMA PlannedPlaced ==
  ASSUME Exact, TypeInv, KeptInv, PlaceInv, UNCHANGED <<live, journal, durable>>,
         TombstonesPlanned \/ RemovalsPlanned
  PROVE  PlaceInv'
<1>1. /\ pc \in {"tombstones", "removals"} /\ pc' = "emit"
      /\ pc = "tombstones" => deleted = {}
      /\ pc = "removals" => todo = {}
      /\ UNCHANGED <<files, cursor, channel, pageEnd, ops, transfers>>
  BY DEF TombstonesPlanned, RemovalsPlanned, cursorVars, listVars, planVars
<1>2. /\ pos = pageEnd /\ pageEnd = Len(journal) /\ FolderHistory(live, journal)
      /\ PlansPlaced(ops, transfers, pageEnd, journal)
      /\ \A id \in Ids : Wanted(live, journal, id, pos) => PathPlanned(files, ops, live, id)
      /\ StandsStill'
  BY <1>1 DEF Exact, KeptInv, Positions, WantedIsScheduled, Scheduled, PlaceInv, StandsStill, Underway, Listing
<1>3. ASSUME NEW id \in Ids, Tracked(id) PROVE PlacedAt(files[id].path, pageEnd, id, journal) \/ Concerns(ops, id)
  <2>1. CASE ~InScope(id)
    BY <1>1, <1>3, <2>1 DEF PlaceInv, GoneFound
  <2>2. CASE InScope(id)
    <3>1. PathPlanned(files, ops, live, id)
      <4>1. live[id] \in Version
        BY <2>2, AttemptTypes DEF InScope, Exists
      <4>2. ~TooLarge(live[id].rev)
        BY <4>1 DEF Exact, Version
      <4>3. QED
        BY <1>2, <2>2, <4>2, AllSettled DEF InScope, Wanted
    <3>2. files[id].path = live[id].path \/ Concerns(ops, id)
      BY <1>3, <3>1 DEF PathPlanned, Tracked, Concerns
    <3>3. PlacedAt(live[id].path, pageEnd, id, journal)
      <4>1. journal \in Seq(Event) /\ pageEnd \in Int /\ pageEnd <= Len(journal)
        BY AttemptTypes
      <4>2. QED
        BY <1>2, <2>2, <4>1, LiveIsPlaced DEF InScope, Exists
    <3>4. QED
      BY <3>2, <3>3
  <2>3. QED
    BY <2>1, <2>2
<1>4. GoneFound'
  BY <1>1, <1>3 DEF GoneFound, Tracked
<1>5. QED
  BY <1>1, <1>2, <1>4, QuietPlaced DEF Listing

\* A file of the inventory is planned to where it is.
LEMMA InventoryPlaced ==
  ASSUME Exact, TypeInv, CopyInv, PlaceInv, UNCHANGED <<live, journal, durable>>,
         NEW id \in Ids, PlanInventory(id)
  PROVE  PlaceInv'
<1>1. PICK e : e = inventory[id]
  OBVIOUS
<1>2. /\ pc = "inventory" /\ pc' = pc /\ id \in todo
      /\ UNCHANGED <<files, cursor, channel, pageEnd, inventory>>
      /\ ops' = ops \o PlannedOps(id, e)
      /\ transfers' = transfers \/ transfers' = transfers \o PlannedTransfers(id, e)
  BY <1>1 DEF PlanInventory, cursorVars, listVars
<1>3. /\ FolderHistory(live, journal) /\ RenamePolicy = "propagate"
      /\ PlansPlaced(ops, transfers, pageEnd, journal)
      /\ \A x \in Ids : inventory[x] = IF InScope(x) THEN live[x] ELSE Absent
  BY <1>2 DEF CopyInv, PlaceInv, StandsStill, Exact, Underway, Listing
<1>4. e = live[id] /\ live[id] # Absent /\ Selected(live[id].path)
  BY <1>1, <1>2, <1>3 DEF TypeInv, InHistory, InListing, InScope, Exists
<1>5. PlacedAt(e.path, pageEnd, id, journal)
  <2>1. journal \in Seq(Event) /\ pageEnd \in Int /\ pageEnd <= Len(journal)
    BY AttemptTypes
  <2>2. PlacedAt(live[id].path, pageEnd, id, journal)
    BY <1>3, <1>4, <2>1, LiveIsPlaced
  <2>3. QED
    BY <1>4, <2>2
<1>6. OpsPlus(ops', id, e) /\ TransfersPlus(transfers', id, e)
  BY <1>2, FilePlus
<1>7. PlansPlaced(ops', transfers', pageEnd, journal)
  BY <1>3, <1>5, <1>6, PlusPlaced
<1>8. GoneFound' /\ StandsStill'
  BY <1>2 DEF GoneFound, PlaceInv, StandsStill, Underway, Listing, InScope, Exists
<1>9. QED
  BY <1>2, <1>7, <1>8, QuietPlaced DEF Listing

\* What is in the map and not in the inventory is to be removed.
LEMMA InventoryPlannedPlaced ==
  ASSUME Exact, TypeInv, PlaceInv, UNCHANGED <<live, journal, durable>>, InventoryPlanned
  PROVE  PlaceInv'
<1>1. /\ pc = "inventory" /\ pc' = "removals"
      /\ todo' = {id \in Ids : Tracked(id) /\ inventory[id] = Absent}
      /\ UNCHANGED <<files, cursor, channel, pageEnd, inventory, ops, transfers>>
  BY DEF InventoryPlanned, Exact, cursorVars, listVars
<1>2. /\ PlansPlaced(ops, transfers, pageEnd, journal)
      /\ \A id \in Ids : inventory[id] = IF InScope(id) THEN live[id] ELSE Absent
      /\ StandsStill'
  BY <1>1 DEF PlaceInv, StandsStill, Underway, Listing, InScope, Exists
<1>3. GoneFound'
  BY <1>1, <1>2 DEF GoneFound, Tracked, InScope, Exists
<1>4. QED
  BY <1>1, <1>2, <1>3, QuietPlaced DEF Listing

\* A removal is the operation of its file.
LEMMA RemovalPlaced ==
  ASSUME TypeInv, PlaceInv, UNCHANGED <<live, journal, durable>>, NEW x \in Ids, PlanRemoval(x)
  PROVE  PlaceInv'
<1>1. /\ pc = "removals" /\ pc' = pc /\ todo' = todo \ {x}
      /\ UNCHANGED <<files, cursor, channel, pageEnd, inventory, transfers>>
      /\ ops' = Append(ops, DeleteOp(x, files[x]))
  BY DEF PlanRemoval, cursorVars, listVars
<1>2. PICK o : o = ops'
  OBVIOUS
<1>3. PlansPlaced(ops, transfers, pageEnd, journal)
  BY <1>1 DEF PlaceInv, Underway, Listing
<1>4. /\ Concerns(o, x) /\ \A y : Concerns(ops, y) => Concerns(o, y)
      /\ PlansPlaced(o, transfers, pageEnd, journal)
  BY <1>1, <1>2, <1>3, DeleteConcerns
<1>5. \A id \in Ids : Tracked(id) /\ ~InScope(id) => id \in todo \/ Concerns(ops, id)
  BY <1>1 DEF PlaceInv, GoneFound
<1>6. GoneFound'
  BY <1>1, <1>2, <1>4, <1>5 DEF GoneFound, Tracked, InScope, Exists
<1>7. StandsStill'
  BY <1>1 DEF PlaceInv, StandsStill, Underway, Listing, InScope, Exists
<1>8. QED
  BY <1>1, <1>2, <1>4, <1>6, <1>7, QuietPlaced DEF Listing

\* A message that is sent says at most its own state.
LEMMA SendingPlaced ==
  ASSUME NEW T, NEW s \in Seq(T), NEW m, NEW j, StatesPlaced(s, j),
         m.kind = "state" => Placed(m.state.files, m.state.cursor, j)
  PROVE  StatesPlaced(Append(s, m), j)
<1>1. \A i \in DOMAIN Append(s, m) : \/ i \in DOMAIN s /\ Append(s, m)[i] = s[i]
                                     \/ Append(s, m)[i] = m
  OBVIOUS
<1>2. QED
  BY <1>1 DEF StatesPlaced

\* An operation that is sent puts its file where it leads to, or out of the map.
LEMMA EmitPlaced ==
  ASSUME TypeInv, KeptInv, CopyInv, PlaceInv, UNCHANGED <<live, journal, durable>>, EmitOperation
  PROVE  PlaceInv'
<1>1. PICK op : op = Head(ops)
  OBVIOUS
<1>2. /\ pc = "emit" /\ ops # <<>> /\ channel' = Append(channel, op)
      /\ UNCHANGED <<cursor, pageEnd, transfers>>
      /\ Tracked(op.id) => /\ IF op.kind = "move" THEN MarkMove(op) ELSE MarkDelete(op)
                           /\ ops' = Tail(ops) /\ pc' = pc
  BY <1>1 DEF EmitOperation, listVars, planVars
<1>3. /\ files \in FileMap /\ ops \in Seq(MoveOps \cup DeleteOps)
      /\ channel \in Seq(Records \cup StateMsgs) /\ journal \in Seq(Event)
      /\ cursor \in Int /\ pageEnd \in Int /\ cursor <= Len(journal)
  BY AttemptTypes
<1>4. op \in MoveOps \cup DeleteOps /\ op = ops[1] /\ 1 \in DOMAIN ops
  BY <1>1, <1>2, <1>3
<1>5. op.id \in Ids /\ op.kind \in {"move", "delete"}
  BY <1>4 DEF MoveOps, DeleteOps
<1>6. /\ OpsMatch(files, ops) /\ cursor <= pageEnd
      /\ PlansPlaced(ops, transfers, pageEnd, journal) /\ Placed(files, cursor, journal)
      /\ \A id \in Ids : Tracked(id) => PlacedAt(files[id].path, pageEnd, id, journal) \/ Concerns(ops, id)
  BY <1>2 DEF CopyInv, KeptInv, Positions, PlaceInv, GoneFound, Underway, Listing
<1>7. Tracked(op.id)
  BY <1>4, <1>6 DEF OpsMatch, Tracked
<1>8. /\ \A id \in Ids \ {op.id} : files'[id] = files[id]
      /\ \/ files'[op.id] = Absent
         \/ op.kind = "move" /\ files'[op.id].path = op.new
      /\ ops' = Tail(ops) /\ pc' = "emit"
  <2>1. /\ IF op.kind = "move" THEN MarkMove(op) ELSE MarkDelete(op)
        /\ ops' = Tail(ops) /\ pc' = pc
    BY <1>2, <1>7
  <2>2. CASE op.kind = "move"
    <3>1. files' = [files EXCEPT ![op.id].path = op.new]
      BY <2>1, <2>2 DEF MarkMove
    <3>2. files[op.id] \in Version
      BY <1>3, <1>5, <1>7, TrackedIsVersion
    <3>3. files'[op.id].path = op.new
      BY <1>3, <1>5, <3>1, <3>2 DEF FileMap, Version
    <3>4. QED
      BY <1>2, <1>3, <1>5, <2>1, <2>2, <3>1, <3>3 DEF FileMap
  <2>3. CASE op.kind # "move"
    BY <1>2, <1>3, <1>5, <2>1, <2>3 DEF MarkDelete, FileMap
  <2>4. QED
    BY <2>2, <2>3
<1>9. op.kind = "move" => PlacedAt(op.new, pageEnd, op.id, journal) /\ PlacedAt(op.new, cursor, op.id, journal)
  <2>1. op.kind = "move" => PlacedAt(op.new, pageEnd, op.id, journal)
    BY <1>4, <1>6 DEF PlansPlaced
  <2>2. QED
    BY <1>3, <1>6, <2>1, PlacedSooner
<1>10. Placed(files', cursor, journal)
  BY <1>6, <1>8, <1>9 DEF Placed
<1>11. StatesPlaced(channel', journal)
  BY <1>2, <1>3, <1>5, SendingPlaced DEF PlaceInv
<1>12. /\ \A i \in DOMAIN ops' : i + 1 \in DOMAIN ops /\ ops'[i] = ops[i + 1]
       /\ \A i \in DOMAIN ops : i = 1 \/ (i - 1 \in DOMAIN ops' /\ ops'[i - 1] = ops[i])
  BY <1>2, <1>3, <1>8, TailElements
<1>13. PlansPlaced(ops', transfers, pageEnd, journal)
  BY <1>6, <1>12 DEF PlansPlaced
<1>14. \A id : id # op.id /\ Concerns(ops, id) => Concerns(ops', id)
  BY <1>4, <1>12 DEF Concerns
<1>15. \A id \in Ids : files'[id] # Absent => PlacedAt(files'[id].path, pageEnd, id, journal) \/ Concerns(ops', id)
  BY <1>6, <1>8, <1>9, <1>14 DEF Tracked
<1>16. GoneFound' /\ StandsStill'
  BY <1>2, <1>8, <1>15 DEF GoneFound, Tracked, PlaceInv, StandsStill, Underway, Listing
<1>17. QED
  BY <1>2, <1>8, <1>10, <1>11, <1>13, <1>16 DEF PlaceInv

\* When the operations are sent, the map is right about the whole listing.
LEMMA EmittedPlaced ==
  ASSUME TypeInv, KeptInv, PlaceInv, UNCHANGED <<live, journal, durable>>, OperationsEmitted
  PROVE  PlaceInv'
<1>1. /\ pc = "emit" /\ pc' = "transfer" /\ ops = <<>>
      /\ UNCHANGED <<files, cursor, channel, pageEnd, ops, transfers>>
  BY DEF OperationsEmitted, cursorVars, listVars
<1>2. StandsStill'
  BY <1>1 DEF StandsStill
<1>3. cursor <= pageEnd
  BY <1>1 DEF KeptInv, Positions, Underway, Listing
<1>4. Placed(files, pageEnd, journal)
  BY <1>1 DEF PlaceInv, GoneFound, Concerns, Placed, Tracked
<1>5. GoneFound'
  BY <1>1, <1>3, <1>4 DEF GoneFound
<1>6. QED
  BY <1>1, <1>2, <1>5 DEF PlaceInv, Underway

\* A file that is transferred is where it was listed; one that is skipped changes nothing.
LEMMA TransferPlaced ==
  ASSUME TypeInv, PlaceInv, UNCHANGED <<live, journal, durable>>, TransferFile \/ SkipFile
  PROVE  PlaceInv'
<1>1. PICK t : t = Head(transfers)
  OBVIOUS
<1>2. /\ pc = "transfer" /\ pc' = pc /\ transfers # <<>> /\ transfers' = Tail(transfers)
      /\ UNCHANGED <<cursor, pageEnd, ops>>
      /\ \/ channel' = Append(channel, FileMsg(t)) /\ AddFile(t)
         \/ UNCHANGED <<files, channel>>
  BY <1>1 DEF TransferFile, SkipFile, cursorVars, listVars
<1>3. /\ files \in FileMap /\ transfers \in Seq(Transfers) /\ channel \in Seq(Records \cup StateMsgs)
      /\ journal \in Seq(Event) /\ cursor \in Int /\ pageEnd \in Int
  BY AttemptTypes
<1>4. t \in Transfers /\ t = transfers[1] /\ 1 \in DOMAIN transfers
  BY <1>1, <1>2, <1>3
<1>5. t.id \in Ids
  BY <1>4 DEF Transfers
<1>6. /\ PlansPlaced(ops, transfers, pageEnd, journal)
      /\ cursor <= pageEnd /\ Placed(files, pageEnd, journal)
  BY <1>2 DEF PlaceInv, GoneFound, Underway
<1>7. /\ \A id \in Ids \ {t.id} : files'[id] = files[id]
      /\ files'[t.id] = files[t.id] \/ files'[t.id].path = t.path
  BY <1>2, <1>3, <1>5 DEF AddFile, FileMap
<1>8. PlacedAt(t.path, pageEnd, t.id, journal)
  BY <1>4, <1>6 DEF PlansPlaced
<1>9. Placed(files', pageEnd, journal)
  BY <1>6, <1>7, <1>8 DEF Placed
<1>10. Placed(files', cursor, journal)
  BY <1>3, <1>6, <1>9, PlacedSooner DEF Placed
<1>11. StatesPlaced(channel', journal)
  <2>1. FileMsg(t).kind = "file"
    BY DEF FileMsg
  <2>2. QED
    BY <1>2, <1>3, <2>1, SendingPlaced DEF PlaceInv
<1>12. \A i \in DOMAIN transfers' : i + 1 \in DOMAIN transfers /\ transfers'[i] = transfers[i + 1]
  BY <1>2, <1>3, TailElements
<1>13. PlansPlaced(ops, transfers', pageEnd, journal)
  BY <1>6, <1>12 DEF PlansPlaced
<1>14. GoneFound' /\ StandsStill'
  BY <1>2, <1>6, <1>9 DEF GoneFound, StandsStill
<1>15. QED
  BY <1>2, <1>10, <1>11, <1>13, <1>14 DEF PlaceInv

\* The state that is sent carries a cursor up to which its map is right.
LEMMA FinishPlaced ==
  ASSUME TypeInv, PlaceInv, UNCHANGED <<live, journal, durable>>, Finish
  PROVE  PlaceInv'
<1>1. PICK m : m = StateMsg([files |-> files, cursor |-> cursor'])
  OBVIOUS
<1>2. m.state.files = files /\ m.state.cursor = cursor'
  BY <1>1 DEF StateMsg
<1>3. /\ pc = "transfer" /\ pc' = "done" /\ channel' = Append(channel, m)
      /\ cursor' = IF sawError THEN cursor ELSE pageEnd
      /\ UNCHANGED <<files, pageEnd>>
  BY <1>1 DEF Finish, listVars
<1>4. Placed(files, cursor', journal)
  <2>1. cursor' = cursor \/ cursor' = pageEnd
    BY <1>3
  <2>2. Placed(files, cursor, journal) /\ Placed(files, pageEnd, journal)
    BY <1>3 DEF PlaceInv, GoneFound, Underway
  <2>3. QED
    BY <2>1, <2>2
<1>5. channel \in Seq(Records \cup StateMsgs)
  BY AttemptTypes
<1>6. StatesPlaced(channel', journal)
  BY <1>2, <1>3, <1>4, <1>5, SendingPlaced DEF PlaceInv
<1>7. GoneFound' /\ StandsStill'
  BY <1>3 DEF GoneFound, StandsStill, Underway, Listing
<1>8. pc' \notin Underway
  BY <1>3 DEF Underway, Listing
<1>9. Placed(durable.files, durable.cursor, journal)
  BY DEF PlaceInv
<1>10. QED
  BY <1>6, <1>7, <1>8, <1>9 DEF PlaceInv

\* The destination takes a message; the source knows nothing of it.
LEMMA DeliverPlaced ==
  ASSUME TypeInv, PlaceInv, Deliver
  PROVE  PlaceInv'
<1>1. /\ channel # <<>> /\ channel' = Tail(channel)
      /\ UNCHANGED <<live, journal, durable, files, cursor, pc, pos, pageEnd, more, inventory, todo, deleted, consumed,
                     ops, transfers>>
  BY DEF Deliver, folderVars, cursorVars, listVars, planVars
<1>2. channel \in Seq(Records \cup StateMsgs)
  BY AttemptTypes
<1>3. \A i \in DOMAIN channel' : i + 1 \in DOMAIN channel /\ channel'[i] = channel[i + 1]
  BY <1>1, <1>2, TailElements
<1>4. StatesPlaced(channel', journal)
  BY <1>3 DEF PlaceInv, StatesPlaced
<1>5. GoneFound'
  BY <1>1 DEF PlaceInv, GoneFound, Tracked, InScope, Exists
<1>6. StandsStill'
  BY <1>1 DEF PlaceInv, StandsStill, InScope, Exists
<1>7. QED
  BY <1>1, <1>4, <1>5, <1>6 DEF PlaceInv

\* An attempt that ends leaves the state that was there, or that it sent.
LEMMA EndPlaced ==
  ASSUME TypeInv, PlaceInv, Refuse \/ Checkpoint \/ SourceFailed \/ Abort
  PROVE  PlaceInv'
<1>1. EndAttempt /\ UNCHANGED <<live, journal>>
  BY DEF Refuse, Checkpoint, SourceFailed, Abort, folderVars
<1>2. pc' = "idle" /\ channel' = <<>> /\ consumed' = {}
  BY <1>1 DEF EndAttempt
<1>3. Placed(durable'.files, durable'.cursor, journal)
  <2>1. CASE UNCHANGED durable
    BY <2>1 DEF PlaceInv
  <2>2. CASE Checkpoint
    <3>1. 1 \in DOMAIN channel /\ Head(channel) = channel[1] /\ channel[1].kind = "state"
      BY <2>2, AttemptTypes DEF Checkpoint
    <3>2. QED
      BY <2>2, <3>1 DEF Checkpoint, PlaceInv, StatesPlaced
  <2>3. QED
    BY <2>1, <2>2 DEF Refuse, SourceFailed, Abort
<1>4. GoneFound' /\ StandsStill' /\ pc' \notin Underway
  BY <1>2 DEF GoneFound, StandsStill, Underway, Listing
<1>5. QED
  BY <1>1, <1>2, <1>3, <1>4, NothingLeadsAway DEF PlaceInv

\* Every step keeps the invariant.
LEMMA PlaceInductive ==
  ASSUME Exact
  PROVE  TypeInv /\ KeptInv /\ CopyInv /\ PlaceInv /\ [Next]_vars => PlaceInv'
<1> SUFFICES ASSUME TypeInv, KeptInv, CopyInv, PlaceInv, [Next]_vars PROVE PlaceInv'
  OBVIOUS
<1>1. CASE Source
  <2>1. SourceStep /\ UNCHANGED <<live, journal, durable>>
    BY <1>1 DEF Source, folderVars
  <2>2. CASE (\E last \in 0 .. MaxEvents : DeltaPage(last)) \/ ListFolder \/ SnapshotListed
    BY <2>1, <2>2, ListingPlaced
  <2>3. CASE DeltaEntry
    BY <2>1, <2>3, EntryPlaced
  <2>4. CASE DeltaListed
    BY <2>1, <2>4, DeltaListedPlaced
  <2>5. CASE \E p \in Paths : PlanTombstone(p)
    BY <2>1, <2>5, TombstonePlaced
  <2>6. CASE TombstonesPlanned \/ RemovalsPlanned
    BY <2>1, <2>6, PlannedPlaced
  <2>7. CASE SnapshotPage
    BY <2>7 DEF SnapshotPage, PlaceInv, StandsStill
  <2>8. CASE \E id \in Ids : PlanInventory(id)
    BY <2>1, <2>8, InventoryPlaced
  <2>9. CASE InventoryPlanned
    BY <2>1, <2>9, InventoryPlannedPlaced
  <2>10. CASE \E id \in Ids : PlanRemoval(id)
    BY <2>1, <2>10, RemovalPlaced
  <2>11. CASE EmitOperation
    BY <2>1, <2>11, EmitPlaced
  <2>12. CASE OperationsEmitted
    BY <2>1, <2>12, EmittedPlaced
  <2>13. CASE TransferFile
    BY <2>1, <2>13, TransferPlaced
  <2>14. CASE Finish
    BY <2>1, <2>14, FinishPlaced
  <2>15. QED
    BY <2>1, <2>2, <2>3, <2>4, <2>5, <2>6, <2>7, <2>8, <2>9, <2>10, <2>11, <2>12, <2>13, <2>14
    DEF SourceStep
<1>2. CASE Change
  BY <1>2, ChangePlaced
<1>3. CASE Start
  BY <1>3, StartPlaced
<1>4. CASE Skip
  BY <1>4, TransferPlaced DEF Skip, folderVars
<1>5. CASE Reset
  BY <1>5, ListingPlaced DEF Reset, folderVars
<1>6. CASE Deliver
  BY <1>6, DeliverPlaced
<1>7. CASE Refuse \/ Checkpoint \/ SourceFailed \/ Abort
  BY <1>7, EndPlaced
<1>8. CASE UNCHANGED vars
  <2>1. UNCHANGED <<live, journal, durable, files, cursor, channel, pc, pos, pageEnd, more, inventory, todo, deleted, consumed,
                    ops, transfers>>
    BY <1>8 DEF vars, folderVars, sourceVars, cursorVars, listVars, planVars
  <2>2. GoneFound'
    BY <2>1 DEF PlaceInv, GoneFound, Tracked, InScope, Exists
  <2>3. StandsStill'
    BY <2>1 DEF PlaceInv, StandsStill, InScope, Exists
  <2>4. QED
    BY <2>1, <2>2, <2>3 DEF PlaceInv
<1>9. QED
  BY <1>1, <1>2, <1>3, <1>4, <1>5, <1>6, <1>7, <1>8 DEF Next

\* It holds at first.
LEMMA PlaceInit == Init => PlaceInv
<1> SUFFICES ASSUME Init PROVE PlaceInv
  OBVIOUS
<1>1. pc = "idle" /\ channel = <<>> /\ consumed = {} /\ durable.files = NoFiles
  BY DEF Init, NoAttempt, NoState
<1>2. Placed(NoFiles, durable.cursor, journal)
  BY DEF Placed, NoFiles
<1>3. GoneFound /\ StandsStill /\ pc \notin Underway
  BY <1>1 DEF GoneFound, StandsStill, Underway, Listing
<1>4. QED
  BY <1>1, <1>2, <1>3, NothingLeadsAway DEF PlaceInv

\* It holds of every state.
LEMMA PlaceInvariant ==
  ASSUME Exact
  PROVE  Spec => [](TypeInv /\ KeptInv /\ CopyInv /\ PlaceInv)
<1>1. Undisturbed /\ Recording
  BY DEF Exact, Undisturbed, Recording
<1>2. Init => TypeInv /\ KeptInv /\ CopyInv /\ PlaceInv
  BY InitTypeInv, KeptInit, CopyInit, PlaceInit
<1>3. TypeInv /\ KeptInv /\ CopyInv /\ PlaceInv /\ [Next]_vars => (TypeInv /\ KeptInv /\ CopyInv /\ PlaceInv)'
  BY <1>1, TypeInvInductive, KeptInductive, CopyInductive, PlaceInductive
<1>4. QED
  BY <1>2, <1>3, PTL DEF Spec

-----------------------------------------------------------------------------
\* When the durable cursor has reached the end of the history, the durable map is the folder,
\* as far as it is selected.
LEMMA CaughtUpMap ==
  ASSUME Exact, TypeInv, KeptInv, CopyInv, PlaceInv, CaughtUp, NEW id \in Ids
  PROVE  durable.files[id] = IF InScope(id) THEN live[id] ELSE Absent
<1>1. /\ journal \in Seq(Event) /\ live \in [Ids -> Version \cup {Absent}] /\ durable.files \in FileMap
      /\ durable.cursor = Len(journal)
  BY AttemptTypes DEF CaughtUp
<1>2. CASE ~InScope(id)
  <2>1. FolderHistory(live, journal) /\ OneOwner(journal) /\ Placed(durable.files, Len(journal), journal)
    BY <1>1 DEF CopyInv, PathsOwned, PlaceInv
  <2>2. durable.files[id] = Absent
    BY <1>1, <1>2, <2>1, PlacedIsThere DEF InScope, Exists
  <2>3. QED
    BY <1>2, <2>2
<1>3. CASE InScope(id)
  <2>1. live[id] \in Version /\ live[id].rev \in Revs
    BY <1>1, <1>3 DEF InScope, Exists, Version
  <2>2. ~TooLarge(live[id].rev)
    BY <2>1 DEF Exact
  <2>3. Wanted(live, journal, id, durable.cursor)
    BY <1>1, <1>3, <2>2, AllSettled DEF InScope, Wanted
  <2>4. AsHeld(durable.files[id], live[id])
    BY <2>3 DEF KeptInv, MapsUpToDate, UpToDate
  <2>5. durable.files[id].rev = live[id].rev /\ durable.files[id].path = live[id].path
    BY <2>4 DEF AsHeld, Exact
  <2>6. live[id].rev # 0
    BY <2>1, FolderAssumption
  <2>7. durable.files[id] \in Version
    BY <1>1, <2>5, <2>6 DEF FileMap, Absent
  <2>8. QED
    BY <1>3, <2>1, <2>5, <2>7 DEF Version
<1>4. QED
  BY <1>2, <1>3

\* Once the durable cursor has reached the end of the history, the destination holds exactly
\* the selected files, each at its path with its bytes (source README.md:49-52): what was
\* renamed was moved, what was deleted, or renamed out of the selection, was deleted, and
\* nothing was forgotten or left behind, whatever was skipped and however often the cursor
\* was reset.
THEOREM ExactCopy ==
  ASSUME Exact
  PROVE  Spec => []Mirrored
<1>1. TypeInv /\ KeptInv /\ CopyInv /\ PlaceInv => Mirrored
  <2> SUFFICES ASSUME TypeInv, KeptInv, CopyInv, PlaceInv, CaughtUp PROVE Copied
    BY DEF Mirrored
  <2>1. Holds(dest, durable.files)
    BY DEF CopyInv, Agreed, CaughtUp
  <2>2. \A id \in Ids : durable.files[id] = IF InScope(id) THEN live[id] ELSE Absent
    BY CaughtUpMap
  <2>3. \A id \in Ids : \A k : id \in Selection(k) <=> InScope(id) /\ Fold[live[id].path] = k
    BY DEF Selection, InScope
  <2>4. \A id \in Ids : InScope(id) <=> durable.files[id] # Absent
    BY <2>2 DEF InScope, Exists
  <2>5. ASSUME NEW k \in Keys
        PROVE  dest[k] = IF Selection(k) = {} THEN NoFile
                         ELSE Hash[live[CHOOSE id \in Selection(k) : TRUE].rev]
    <3>1. CASE Selection(k) = {}
      <4>1. ASSUME dest[k] # NoFile PROVE FALSE
        <5>1. PICK id \in Ids : durable.files[id] # Absent /\ Fold[durable.files[id].path] = k
          BY <2>1, <4>1 DEF Holds, Exact
        <5>2. InScope(id) /\ Fold[live[id].path] = k
          BY <2>2, <2>4, <5>1
        <5>3. QED
          BY <2>3, <3>1, <5>2
      <4>2. QED
        BY <3>1, <4>1
    <3>2. CASE Selection(k) # {}
      <4>1. PICK id : id = CHOOSE x \in Selection(k) : TRUE
        OBVIOUS
      <4>2. id \in Selection(k)
        BY <3>2, <4>1
      <4>3. id \in Ids /\ InScope(id) /\ Fold[live[id].path] = k
        BY <2>3, <4>2 DEF Selection
      <4>4. durable.files[id] # Absent /\ durable.files[id] = live[id]
        BY <2>2, <2>4, <4>3
      <4>5. dest[k] = Hash[live[id].rev]
        BY <2>1, <4>3, <4>4 DEF Holds
      <4>6. QED
        BY <3>2, <4>1, <4>5
    <3>3. QED
      BY <3>1, <3>2
  <2>6. QED
    BY <2>5 DEF Copied
<1>2. QED
  BY <1>1, PlaceInvariant, PTL
=============================================================================
