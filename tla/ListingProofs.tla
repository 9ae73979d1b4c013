---------------------------- MODULE ListingProofs ----------------------------
(***************************************************************************)
(* Proofs about the listing streams of the structured source, as parts of  *)
(* Programs, for any namespaces, things, folders, members and page size:   *)
(* the streams that keep no state, and sharing_acl.                        *)
(*                                                                         *)
(* AclIsComplete and ListingIsComplete say that a sync that ends has       *)
(* missed nothing; ProgramsProofs joins them with ScopeIsMet.              *)
(*                                                                         *)
(* MembersAskedWhereListed   Spec => []AskedWhereListed                    *)
(***************************************************************************)
EXTENDS RepairProofs

-----------------------------------------------------------------------------
(* sharing_acl: the invariant.                                             *)

AclActive == {"list", "folders", "members", "read"}
AclPaged == {"folders", "members", "read"}

\* The members of folder f that have a level are emitted, as they are.
FolderRead(f) ==
    \A m \in Members : acl[f].inside /\ acl[f].level[m] # 0 =>
        \E x \in emitted : /\ x.folder = f /\ x.member = m
                           /\ x.path = acl[f].path /\ x.level = acl[f].level[m]

\* The folders of the page at hand are those of the namespace at hand, its client lists
\* their members, and those that did not change are as the page has them.
FoldersFit ==
    /\ phase \in {"idle", "list"} => folders = {}
    /\ phase \in AclPaged =>
          \A f \in folders :
              /\ clients[f.id] = A!Root /\ f.id \in visible[A!Root]
              /\ f.id \notin touched => f.path = acl[f.id].path /\ f.inside = acl[f.id].inside

\* The same of the folder at hand, and of the page of its members.
MembersFit ==
    /\ phase \in {"idle", "list", "folders", "members"} => page = {}
    /\ phase \in {"members", "read"} =>
          /\ via = A!Root /\ folder.id \in visible[A!Root]
          /\ folder.id \notin touched =>
                /\ folder.path = acl[folder.id].path
                /\ \A x \in page : x.level = acl[folder.id].level[x.member]
                /\ \A m \in counted : acl[folder.id].level[m] # 0 =>
                      \/ \E x \in page : x.member = m
                      \/ \E x \in emitted : /\ x.folder = folder.id /\ x.member = m
                                            /\ x.path = acl[folder.id].path
                                            /\ x.level = acl[folder.id].level[m]
                /\ phase = "read" /\ ~moreMembers =>
                      \A m \in Members : acl[folder.id].level[m] # 0 => m \in counted

\* What has been listed and did not change is on the page, at hand, or emitted; the
\* namespaces that are done are done completely.
AclCovers ==
    /\ phase = "idle" => listed = {}
    /\ phase \in AclActive =>
          \A f \in listed \ touched :
              \/ FolderRead(f)
              \/ \E x \in folders : x.id = f
              \/ phase \in {"members", "read"} /\ folder.id = f
    /\ phase \in AclPaged /\ ~moreFolders => visible[A!Root] \subseteq listed
    /\ phase \in AclActive \cup {"done"} =>
          \A r \in roots \ left : \A f \in visible[r] \ touched : FolderRead(f)
    /\ phase = "done" => left = {}

\* A record is of a namespace that shows the folder, and says what is if nothing changed.
RecordsFit ==
    \A x \in emitted :
        /\ phase # "idle" /\ x.root \in roots /\ x.folder \in visible[x.root]
        /\ x.folder \notin touched =>
              x.path = acl[x.folder].path /\ x.level = acl[x.folder].level[x.member]

\* The cursor at hand was reset as often as the listing knows.
ResetsCounted ==
    /\ phase = "idle" => valid /\ ~recovered
    /\ phase \in {"list", "folders", "members", "read"} =>
          /\ recovered \/ ~valid => resets[A!Root] >= 1
          /\ recovered /\ ~valid => resets[A!Root] >= 2
          /\ phase # "list" /\ ~moreFolders => valid

AclInv ==
    program = SHARING_ACL =>
        /\ A!SharingAclTypeOK
        /\ FoldersFit /\ MembersFit /\ AclCovers /\ RecordsFit /\ ResetsCounted
        /\ A!AclFailsForCause

-----------------------------------------------------------------------------
(* The streams that keep no state: the invariant.                          *)

Emits(r, t) ==
    \E x \in emitted : /\ x.thing = t /\ x.version = thing[r][t].version
                       /\ x.root = r \/ stream = "file_properties"

\* What is there has a version.
LiveHasVersion ==
    \A r \in F!Roots, t \in Things : thing[r][t].live => thing[r][t].version # 0

PageFits ==
    /\ phase \in {"idle", "resolve", "list"} => page = {}
    /\ phase = "read" =>
          \A x \in page :
              /\ x.entry.live => x.entry.version # 0
              /\ <<F!Root, x.thing>> \notin touched => x.entry = thing[F!Root][x.thing]

\* What the cursor has shown and did not change is on the page or emitted; the roots that
\* are done are done completely.
ListingCovers ==
    /\ phase \in {"idle", "resolve"} => left = roots \/ left = {}
    /\ phase \in {"idle", "resolve"} => shown = F!Unshown
    /\ phase \in {"list", "read"} =>
          \A t \in Things :
              <<F!Root, t>> \notin touched /\ F!Kept(t, thing[F!Root][t]) =>
                  /\ shown[t] \in {0, thing[F!Root][t].version}
                  /\ shown[t] # 0 => Emits(F!Root, t) \/ \E x \in page : x.thing = t
                  /\ phase = "read" /\ ~more => shown[t] # 0
    /\ phase \in {"list", "read", "done"} =>
          \A r \in roots \ left, t \in Things :
              <<r, t>> \notin touched /\ F!Kept(t, thing[r][t]) => Emits(r, t)
    /\ phase = "done" => left = {}

EmittedFits ==
    \A x \in emitted :
        /\ x.version # 0
        /\ <<x.root, x.thing>> \notin touched => x.version = thing[x.root][x.thing].version

CursorResets ==
    /\ phase \in {"idle", "resolve"} => valid /\ ~recovered
    /\ phase \in {"list", "read"} =>
          /\ recovered \/ ~valid => resets[F!Root] >= 1
          /\ recovered /\ ~valid => resets[F!Root] >= 2
          /\ phase = "read" /\ ~more => valid

ListingInv ==
    program = FULL_REFRESH =>
        /\ F!FullRefreshTypeOK
        /\ phase = "idle" /\ mode # "all_accessible" => roots # {}
        /\ LiveHasVersion /\ PageFits /\ ListingCovers /\ EmittedFits /\ CursorResets
        /\ F!FailsForCause

-----------------------------------------------------------------------------
(* sharing_acl: the proof.                                                 *)

LEMMA FirstIsIn ==
  ASSUME NEW T, T \subseteq Nat, T # {}
  PROVE  A!First(T) \in T
<1>1. \E x \in T : \A y \in T : x <= y
  BY LeastExists
<1>2. QED
  BY <1>1 DEF A!First

\* The namespace at hand is one of those left, and stays while they do.
LEMMA RootLeft ==
  ASSUME A!SharingAclTypeOK, left # {}
  PROVE  A!Root \in left /\ A!Root \in roots /\ A!Root \in Namespaces
<1>1. left \subseteq Nat /\ left \subseteq roots /\ roots \subseteq Namespaces
  BY ProgramsAssumption DEF A!SharingAclTypeOK, A!SharingAclAssumption
<1>2. QED
  BY <1>1, FirstIsIn DEF A!Root

LEMMA RootStays ==
  ASSUME left' = left
  PROVE  A!Root' = A!Root
BY DEF A!Root, A!First

\* A change is of one folder.
LEMMA AclChanges ==
  ASSUME A!SharingAclTypeOK, NEW f \in SharedFolders, A!ChangeAcl(f)
  PROVE  /\ acl' \in [SharedFolders -> [path : Nat, inside : BOOLEAN, level : [Members -> 0 .. 2]]]
         /\ \A g \in SharedFolders : g # f => acl'[g] = acl[g]
<1> DEFINE Entry == [path : Nat, inside : BOOLEAN, level : [Members -> 0 .. 2]]
<1>1. acl \in [SharedFolders -> Entry] /\ acl[f] \in Entry
  BY DEF A!SharingAclTypeOK
<1>2. \E e \in Entry : acl' = [acl EXCEPT ![f] = e]
  <2>1. ASSUME NEW b \in BOOLEAN
        PROVE  [path |-> acl[f].path + 1, inside |-> b, level |-> acl[f].level] \in Entry
    BY <1>1
  <2>2. ASSUME NEW m \in Members, NEW n \in {0, 2}
        PROVE  [path |-> acl[f].path, inside |-> acl[f].inside,
                level |-> [acl[f].level EXCEPT ![m] = n]] \in Entry
    BY <1>1
  <2>3. QED
    BY <2>1, <2>2 DEF A!ChangeAcl
<1>3. QED
  BY <1>1, <1>2

LEMMA AclTypeKept ==
  ASSUME A!SharingAclTypeOK, A!SharingAclNext
  PROVE  A!SharingAclTypeOK'
<1> USE DEF A!dropbox, A!folderWalk, A!memberWalk, A!history
<1>1. CASE A!AclStart
  <2>1. roots' \subseteq Namespaces /\ left' = roots' /\ left' # {} /\ phase' = "list"
    BY <1>1 DEF A!AclStart
  <2>2. QED
    BY <1>1, <2>1 DEF A!AclStart, A!SharingAclTypeOK
<1>2. CASE A!FetchFolders
  <2>1. A!Root \in Namespaces
    BY <1>2, RootLeft DEF A!FetchFolders, A!SharingAclTypeOK
  <2>2. PICK T \in SUBSET (visible[A!Root] \ listed) :
            /\ folders' = {A!ListedAs(f) : f \in T}
            /\ moreFolders' = (T # visible[A!Root] \ listed)
            /\ listed' = listed \cup T
            /\ clients' = A!ClientsOfPage(T)
    BY <1>2 DEF A!FetchFolders
  <2>3. T \subseteq SharedFolders
    BY <2>1, <2>2 DEF A!SharingAclTypeOK
  <2>4. \A f \in T : A!ListedAs(f) \in A!FolderRecords
    BY <2>3 DEF A!ListedAs, A!FolderRecords, A!SharingAclTypeOK
  <2>5. clients' \in [SharedFolders -> Namespaces \cup {BaseClient}]
    BY <2>1, <2>2 DEF A!ClientsOfPage, A!SharingAclTypeOK
  <2>6. folders' \subseteq A!FolderRecords /\ moreFolders' \in BOOLEAN /\ listed' \subseteq SharedFolders
    BY <2>2, <2>3, <2>4 DEF A!SharingAclTypeOK
  <2>7. QED
    BY <1>2, <2>5, <2>6 DEF A!FetchFolders, A!SharingAclTypeOK
<1>3. CASE A!TakeFolder
  <2>1. PICK f \in folders :
            /\ folders' = folders \ {f}
            /\ \/ UNCHANGED <<phase, folder, via, counted>>
               \/ /\ phase' = "members" /\ folder' = f
                  /\ via' = clients[f.id] /\ counted' = {}
    BY <1>3 DEF A!TakeFolder
  <2>2. f \in A!FolderRecords /\ f # NoFolder
    BY ProgramsAssumption DEF A!SharingAclTypeOK, A!FolderRecords, A!SharingAclAssumption
  <2>3. f.id \in SharedFolders
    BY <2>2 DEF A!FolderRecords
  <2>4. QED
    BY <1>3, <2>1, <2>2, <2>3 DEF A!TakeFolder, A!SharingAclTypeOK
<1>4. CASE A!FetchMembers
  <2>1. folder \in A!FolderRecords /\ folder.id \in SharedFolders
    BY <1>4 DEF A!FetchMembers, A!SharingAclTypeOK, A!FolderRecords
  <2>2. PICK T \in SUBSET {m \in Members \ counted : acl[folder.id].level[m] # 0} :
            /\ page' = {[member |-> m, level |-> acl[folder.id].level[m]] : m \in T}
            /\ moreMembers' \in BOOLEAN
            /\ counted' = counted \cup T
    BY <1>4 DEF A!FetchMembers
  <2>3. ASSUME NEW m \in T
        PROVE  m \in Members /\ acl[folder.id].level[m] \in 1 .. 2
    BY <2>1 DEF A!SharingAclTypeOK
  <2>4. page' \subseteq [member : Members, level : 1 .. 2] /\ counted' \subseteq Members
    BY <2>2, <2>3 DEF A!SharingAclTypeOK
  <2>5. QED
    BY <1>4, <2>2, <2>4 DEF A!FetchMembers, A!SharingAclTypeOK
<1>5. CASE A!ReadMember
  <2>1. PICK x \in page : /\ page' = page \ {x}
                          /\ \/ emitted' = emitted \cup {A!Record(x)} /\ phase' = phase
                             \/ emitted' = emitted /\ phase' = "failed"
    BY <1>5 DEF A!ReadMember
  <2>2. A!Root \in Namespaces
    BY <1>5, RootLeft DEF A!ReadMember, A!SharingAclTypeOK
  <2>3. /\ folder \in A!FolderRecords
        /\ x \in [member : Members, level : 1 .. 2]
    BY <1>5 DEF A!ReadMember, A!SharingAclTypeOK
  <2>4. A!Record(x) \in [folder : SharedFolders, path : Nat, root : Namespaces,
                         member : Members, level : 1 .. 2]
    BY <2>2, <2>3 DEF A!Record, A!FolderRecords
  <2>5. QED
    BY <1>5, <2>1, <2>4 DEF A!ReadMember, A!SharingAclTypeOK
<1>6. CASE A!MembersRead
  BY <1>6 DEF A!MembersRead, A!SharingAclTypeOK
<1>7. CASE A!FoldersRead
  BY <1>7 DEF A!FoldersRead, A!SharingAclTypeOK
<1>8. CASE A!AclRestart \/ A!AclRefuseReset
  BY <1>8 DEF A!AclRestart, A!AclRefuseReset, A!SharingAclTypeOK
<1>9. ASSUME A!Disturb PROVE spent' \in 0 .. Budget
  BY <1>9, ProgramsAssumption DEF A!Disturb, A!SharingAclTypeOK, A!SharingAclAssumption
<1>10. CASE A!AclFault
  <2>1. clients' \in [SharedFolders -> Namespaces \cup {BaseClient}]
    BY <1>10 DEF A!AclFault
  <2>2. QED
    BY <1>9, <1>10, <2>1 DEF A!AclFault, A!SharingAclTypeOK
<1>11. CASE A!AclInvalidate
  <2>1. A!Root \in Namespaces
    BY <1>11, RootLeft DEF A!AclInvalidate, A!SharingAclTypeOK
  <2>2. resets' \in [Namespaces -> Nat]
    BY <1>11, <2>1 DEF A!AclInvalidate, A!SharingAclTypeOK
  <2>3. QED
    BY <1>9, <1>11, <2>2 DEF A!AclInvalidate, A!SharingAclTypeOK
<1>12. CASE \E f \in SharedFolders : A!ChangeAcl(f)
  <2>1. PICK f \in SharedFolders : A!ChangeAcl(f)
    BY <1>12
  <2>2. acl' \in [SharedFolders -> [path : Nat, inside : BOOLEAN, level : [Members -> 0 .. 2]]]
    BY <2>1, AclChanges
  <2>3. touched' \subseteq SharedFolders
    BY <2>1 DEF A!ChangeAcl, A!SharingAclTypeOK
  <2>4. QED
    BY <1>9, <2>1, <2>2, <2>3 DEF A!ChangeAcl, A!SharingAclTypeOK
<1>13. QED
  BY <1>1, <1>2, <1>3, <1>4, <1>5, <1>6, <1>7, <1>8, <1>10, <1>11, <1>12
     DEF A!SharingAclNext, A!AclSync

LEMMA FoldersFitKept ==
  ASSUME A!SharingAclTypeOK, FoldersFit, A!SharingAclNext
  PROVE  FoldersFit'
<1> USE DEF A!dropbox, A!folderWalk, A!memberWalk, A!history, AclPaged
<1>1. CASE A!FetchFolders
  <2>1. A!Root \in Namespaces /\ A!Root' = A!Root
    BY <1>1, RootLeft, RootStays DEF A!FetchFolders, A!SharingAclTypeOK
  <2>2. PICK T \in SUBSET (visible[A!Root] \ listed) :
            /\ folders' = {A!ListedAs(f) : f \in T}
            /\ clients' = A!ClientsOfPage(T)
    BY <1>1 DEF A!FetchFolders
  <2>3. ASSUME NEW x \in folders'
        PROVE  /\ clients'[x.id] = A!Root /\ x.id \in visible[A!Root]
               /\ x.path = acl[x.id].path /\ x.inside = acl[x.id].inside
    <3>1. PICK f \in T : x = A!ListedAs(f)
      BY <2>2
    <3>2. f \in SharedFolders
      BY <2>1 DEF A!SharingAclTypeOK
    <3>3. QED
      BY <2>2, <3>1, <3>2 DEF A!ListedAs, A!ClientsOfPage
  <2>4. QED
    BY <1>1, <2>1, <2>3 DEF A!FetchFolders, FoldersFit
<1>2. CASE A!TakeFolder
  <2>1. folders' \subseteq folders /\ A!Root' = A!Root /\ phase' \in {"folders", "members"}
    BY <1>2, RootStays DEF A!TakeFolder
  <2>2. QED
    BY <1>2, <2>1 DEF A!TakeFolder, FoldersFit
<1>3. CASE A!FetchMembers \/ A!ReadMember \/ A!MembersRead \/ A!AclInvalidate
  <2>1. UNCHANGED <<acl, visible, folders, clients, touched>> /\ A!Root' = A!Root
    BY <1>3, RootStays DEF A!FetchMembers, A!ReadMember, A!MembersRead, A!AclInvalidate
  <2>2. phase \in AclPaged /\ phase' \in AclPaged \cup {"failed"}
    BY <1>3 DEF A!FetchMembers, A!ReadMember, A!MembersRead, A!AclInvalidate
  <2>3. QED
    BY <2>1, <2>2 DEF FoldersFit
<1>4. CASE A!AclStart \/ A!FoldersRead \/ A!AclRestart \/ A!AclRefuseReset \/ A!AclFault
  <2>1. phase' \notin AclPaged
    BY <1>4 DEF A!AclStart, A!FoldersRead, A!AclRestart, A!AclRefuseReset, A!AclFault
  <2>2. phase' # "failed" => folders' = {}
    BY <1>4 DEF A!AclStart, A!FoldersRead, A!AclRestart, A!AclRefuseReset, A!AclFault, FoldersFit
  <2>3. QED
    BY <2>1, <2>2 DEF FoldersFit
<1>5. CASE \E f \in SharedFolders : A!ChangeAcl(f)
  <2>1. PICK f \in SharedFolders : A!ChangeAcl(f)
    BY <1>5
  <2>2. UNCHANGED <<visible, folders, clients, phase>> /\ A!Root' = A!Root
    BY <2>1, RootStays DEF A!ChangeAcl
  <2>3. touched' = touched \cup {f} /\ \A g \in SharedFolders : g # f => acl'[g] = acl[g]
    BY <2>1, AclChanges DEF A!ChangeAcl
  <2>4. \A x \in folders : x.id \in SharedFolders
    BY DEF A!SharingAclTypeOK, A!FolderRecords
  <2>5. QED
    BY <2>2, <2>3, <2>4 DEF FoldersFit
<1>6. QED
  BY <1>1, <1>2, <1>3, <1>4, <1>5 DEF A!SharingAclNext, A!AclSync

LEMMA RecordsFitKept ==
  ASSUME A!SharingAclTypeOK, MembersFit, RecordsFit, A!SharingAclNext
  PROVE  RecordsFit'
<1> USE DEF A!dropbox, A!folderWalk, A!memberWalk, A!history
<1>1. CASE A!ReadMember
  <2>1. PICK x \in page : emitted' = emitted \/ emitted' = emitted \cup {A!Record(x)}
    BY <1>1 DEF A!ReadMember
  <2>2. A!Root \in roots
    BY <1>1, RootLeft DEF A!ReadMember, A!SharingAclTypeOK
  <2>3. /\ A!Record(x).root = A!Root /\ A!Record(x).folder = folder.id
        /\ A!Record(x).path = folder.path /\ A!Record(x).member = x.member
        /\ A!Record(x).level = x.level
    BY DEF A!Record
  <2>4. /\ folder.id \in visible[A!Root]
        /\ folder.id \notin touched =>
              folder.path = acl[folder.id].path /\ x.level = acl[folder.id].level[x.member]
    BY <1>1 DEF A!ReadMember, MembersFit
  <2>5. UNCHANGED <<acl, visible, roots, touched>> /\ phase' # "idle"
    BY <1>1 DEF A!ReadMember
  <2>6. QED
    BY <2>1, <2>2, <2>3, <2>4, <2>5 DEF RecordsFit
<1>2. CASE A!AclStart
  <2>1. \A x \in emitted : FALSE
    BY <1>2 DEF A!AclStart, RecordsFit
  <2>2. QED
    BY <1>2, <2>1 DEF A!AclStart, RecordsFit
<1>3. CASE \/ A!FetchFolders \/ A!TakeFolder \/ A!FetchMembers \/ A!MembersRead
           \/ A!FoldersRead \/ A!AclRestart \/ A!AclRefuseReset \/ A!AclFault \/ A!AclInvalidate
  <2>1. UNCHANGED <<acl, visible, roots, touched, emitted>> /\ phase' # "idle"
    BY <1>3 DEF A!FetchFolders, A!TakeFolder, A!FetchMembers, A!MembersRead, A!FoldersRead,
                A!AclRestart, A!AclRefuseReset, A!AclFault, A!AclInvalidate
  <2>2. QED
    BY <2>1 DEF RecordsFit
<1>4. CASE \E f \in SharedFolders : A!ChangeAcl(f)
  <2>1. PICK f \in SharedFolders : A!ChangeAcl(f)
    BY <1>4
  <2>2. touched' = touched \cup {f} /\ \A g \in SharedFolders : g # f => acl'[g] = acl[g]
    BY <2>1, AclChanges DEF A!ChangeAcl
  <2>3. UNCHANGED <<visible, roots, emitted>> /\ phase' # "idle"
    BY <2>1 DEF A!ChangeAcl
  <2>4. \A x \in emitted : x.folder \in SharedFolders
    BY DEF A!SharingAclTypeOK
  <2>5. QED
    BY <2>2, <2>3, <2>4 DEF RecordsFit
<1>5. QED
  BY <1>1, <1>2, <1>3, <1>4 DEF A!SharingAclNext, A!AclSync

LEMMA ResetsCountedKept ==
  ASSUME A!SharingAclTypeOK, ResetsCounted, A!SharingAclNext
  PROVE  ResetsCounted'
<1> USE DEF A!dropbox, A!folderWalk, A!memberWalk, A!history
<1>1. CASE A!AclStart
  BY <1>1 DEF A!AclStart, ResetsCounted
<1>2. CASE A!FetchFolders \/ A!TakeFolder \/ A!FetchMembers \/ A!ReadMember \/ A!MembersRead
  <2>1. UNCHANGED <<valid, recovered, resets>> /\ A!Root' = A!Root
    BY <1>2, RootStays
       DEF A!FetchFolders, A!TakeFolder, A!FetchMembers, A!ReadMember, A!MembersRead
  <2>2. phase \in AclActive /\ (phase = "list" => valid)
    BY <1>2 DEF A!FetchFolders, A!TakeFolder, A!FetchMembers, A!ReadMember, A!MembersRead, AclActive
  <2>3. phase' \notin {"idle", "list"} /\ (phase # "list" => moreFolders' = moreFolders)
    BY <1>2 DEF A!FetchFolders, A!TakeFolder, A!FetchMembers, A!ReadMember, A!MembersRead
  <2>4. QED
    BY <2>1, <2>2, <2>3 DEF ResetsCounted, AclActive
<1>3. CASE A!FoldersRead
  <2>1. CASE moreFolders
    <3>1. UNCHANGED <<valid, recovered, resets, moreFolders>> /\ A!Root' = A!Root
          /\ phase' = "list" /\ phase = "folders"
      BY <1>3, <2>1, RootStays DEF A!FoldersRead
    <3>2. QED
      BY <3>1 DEF ResetsCounted
  <2>2. CASE ~moreFolders
    <3>1. valid /\ valid' /\ ~recovered' /\ phase' \in {"list", "done"}
      BY <1>3, <2>2 DEF A!FoldersRead, ResetsCounted
    <3>2. QED
      BY <3>1 DEF ResetsCounted
  <2>3. QED
    BY <2>1, <2>2 DEF A!SharingAclTypeOK
<1>4. CASE A!AclRestart
  <2>1. A!Root' = A!Root /\ phase = "list" /\ phase' = "list" /\ ~valid /\ valid' /\ resets' = resets
    BY <1>4, RootStays DEF A!AclRestart
  <2>2. QED
    BY <2>1 DEF ResetsCounted
<1>5. CASE A!AclRefuseReset \/ A!AclFault
  BY <1>5 DEF A!AclRefuseReset, A!AclFault, ResetsCounted
<1>6. CASE A!AclInvalidate
  <2>1. A!Root \in Namespaces /\ A!Root' = A!Root
    BY <1>6, RootLeft, RootStays DEF A!AclInvalidate, A!SharingAclTypeOK
  <2>2. resets[A!Root] \in Nat /\ resets'[A!Root] = resets[A!Root] + 1
    BY <1>6, <2>1 DEF A!AclInvalidate, A!SharingAclTypeOK
  <2>3. valid /\ phase = "folders" /\ phase' = "folders" /\ moreFolders'
        /\ recovered' = recovered
    BY <1>6 DEF A!AclInvalidate
  <2>4. QED
    BY <2>1, <2>2, <2>3 DEF ResetsCounted
<1>7. CASE \E f \in SharedFolders : A!ChangeAcl(f)
  <2>1. UNCHANGED <<valid, recovered, resets, phase, moreFolders>> /\ A!Root' = A!Root
    BY <1>7, RootStays DEF A!ChangeAcl
  <2>2. QED
    BY <2>1 DEF ResetsCounted
<1>8. QED
  BY <1>1, <1>2, <1>3, <1>4, <1>5, <1>6, <1>7 DEF A!SharingAclNext, A!AclSync

LEMMA MembersFitKept ==
  ASSUME A!SharingAclTypeOK, FoldersFit, MembersFit, A!SharingAclNext
  PROVE  MembersFit'
<1> USE DEF A!dropbox, A!folderWalk, A!memberWalk, A!history
<1>1. CASE A!TakeFolder
  <2>1. PICK f \in folders :
            \/ UNCHANGED <<phase, folder, via, counted>>
            \/ /\ phase' = "members" /\ folder' = f
               /\ via' = clients[f.id] /\ counted' = {}
    BY <1>1 DEF A!TakeFolder
  <2>2. /\ phase = "folders" /\ A!Root' = A!Root
        /\ UNCHANGED <<acl, visible, page, emitted, moreMembers, touched>>
    BY <1>1, RootStays DEF A!TakeFolder
  <2>3. /\ clients[f.id] = A!Root /\ f.id \in visible[A!Root]
        /\ f.id \notin touched => f.path = acl[f.id].path
    BY <2>2 DEF FoldersFit, AclPaged
  <2>4. page' = {}
    BY <2>2 DEF MembersFit
  <2>5. QED
    BY <2>1, <2>2, <2>3, <2>4 DEF MembersFit
<1>2. CASE A!FetchMembers
  <2>1. folder \in A!FolderRecords /\ folder.id \in SharedFolders /\ A!Root' = A!Root
    BY <1>2, RootStays DEF A!FetchMembers, A!SharingAclTypeOK, A!FolderRecords
  <2>2. PICK T \in SUBSET {m \in Members \ counted : acl[folder.id].level[m] # 0} :
            /\ page' = {[member |-> m, level |-> acl[folder.id].level[m]] : m \in T}
            /\ moreMembers' = (T # {m \in Members \ counted : acl[folder.id].level[m] # 0})
            /\ counted' = counted \cup T
    BY <1>2 DEF A!FetchMembers
  <2>3. /\ phase = "members" /\ phase' = "read" /\ page = {}
        /\ UNCHANGED <<acl, visible, folder, via, emitted, touched>>
    BY <1>2 DEF A!FetchMembers, MembersFit
  <2>4. ASSUME NEW x \in page' PROVE x.level = acl[folder.id].level[x.member]
    <3>1. PICK m \in T : x = [member |-> m, level |-> acl[folder.id].level[m]]
      BY <2>2
    <3>2. QED
      BY <3>1
  <2>5. ASSUME NEW m \in T PROVE \E x \in page' : x.member = m
    <3>1. [member |-> m, level |-> acl[folder.id].level[m]] \in page'
      BY <2>2
    <3>2. QED
      BY <3>1
  <2>6. ~moreMembers' => \A m \in Members : acl[folder.id].level[m] # 0 => m \in counted'
    BY <2>2
  <2>7. QED
    BY <2>1, <2>2, <2>3, <2>4, <2>5, <2>6 DEF MembersFit
<1>3. CASE A!ReadMember
  <2>1. PICK x \in page : /\ page' = page \ {x}
                          /\ \/ emitted' = emitted \cup {A!Record(x)}
                             \/ phase' = "failed"
    BY <1>3 DEF A!ReadMember
  <2>2. CASE phase' = "failed"
    BY <2>2 DEF MembersFit
  <2>3. CASE emitted' = emitted \cup {A!Record(x)} /\ phase' # "failed"
    <3>1. /\ phase = "read" /\ phase' = "read" /\ A!Root' = A!Root
          /\ UNCHANGED <<acl, visible, folder, via, counted, moreMembers, touched>>
      BY <1>3, <2>3, RootStays DEF A!ReadMember
    <3>2. /\ A!Record(x) \in emitted' /\ A!Record(x).folder = folder.id
          /\ A!Record(x).path = folder.path /\ A!Record(x).member = x.member
          /\ A!Record(x).level = x.level
      BY <2>3 DEF A!Record
    <3>3. ASSUME folder.id \notin touched, NEW m \in counted, acl[folder.id].level[m] # 0
          PROVE  \/ \E y \in page' : y.member = m
                 \/ \E y \in emitted' : /\ y.folder = folder.id /\ y.member = m
                                       /\ y.path = acl[folder.id].path
                                       /\ y.level = acl[folder.id].level[m]
      <4>1. CASE x.member = m
        BY <3>1, <3>2, <3>3, <4>1 DEF MembersFit
      <4>2. CASE x.member # m
        BY <2>1, <2>3, <3>1, <3>3, <4>2 DEF MembersFit
      <4>3. QED
        BY <4>1, <4>2
    <3>4. \A y \in page' : y \in page
      BY <2>1
    <3>5. QED
      BY <3>1, <3>3, <3>4 DEF MembersFit
  <2>4. QED
    BY <2>1, <2>2, <2>3
<1>4. CASE A!MembersRead
  <2>1. /\ phase = "read" /\ page' = {} /\ A!Root' = A!Root
        /\ (phase' = "members" /\ folder' = folder) \/ phase' = "folders"
        /\ UNCHANGED <<acl, visible, page, via, counted, emitted, touched>>
    BY <1>4, RootStays DEF A!MembersRead
  <2>2. QED
    BY <2>1 DEF MembersFit
<1>5. CASE \/ A!AclStart \/ A!FetchFolders \/ A!FoldersRead \/ A!AclRestart
           \/ A!AclRefuseReset \/ A!AclFault \/ A!AclInvalidate
  <2>1. phase' \notin {"members", "read"}
    BY <1>5 DEF A!AclStart, A!FetchFolders, A!FoldersRead, A!AclRestart, A!AclRefuseReset,
                A!AclFault, A!AclInvalidate
  <2>2. phase' \in {"done", "failed"} \/ page' = {}
    BY <1>5 DEF A!AclStart, A!FetchFolders, A!FoldersRead, A!AclRestart, A!AclRefuseReset,
                A!AclFault, A!AclInvalidate, MembersFit
  <2>3. QED
    BY <2>1, <2>2 DEF MembersFit
<1>6. CASE \E f \in SharedFolders : A!ChangeAcl(f)
  <2>1. PICK f \in SharedFolders : A!ChangeAcl(f)
    BY <1>6
  <2>2. /\ A!Root' = A!Root
        /\ UNCHANGED <<visible, phase, folder, via, counted, page, moreMembers, emitted>>
    BY <2>1, RootStays DEF A!ChangeAcl
  <2>3. touched' = touched \cup {f} /\ \A g \in SharedFolders : g # f => acl'[g] = acl[g]
    BY <2>1, AclChanges DEF A!ChangeAcl
  <2>4. phase \in {"members", "read"} => folder.id \in SharedFolders
    BY DEF A!SharingAclTypeOK, A!FolderRecords
  <2>5. phase \in {"members", "read"} /\ folder.id \notin touched' =>
            folder.id \notin touched /\ acl'[folder.id] = acl[folder.id]
    BY <2>3, <2>4
  <2>6. QED
    BY <2>2, <2>5 DEF MembersFit
<1>7. QED
  BY <1>1, <1>2, <1>3, <1>4, <1>5, <1>6 DEF A!SharingAclNext, A!AclSync

LEMMA AclFailsKept ==
  ASSUME A!SharingAclTypeOK, MembersFit, RecordsFit, ResetsCounted, A!AclFailsForCause,
         A!SharingAclNext
  PROVE  A!AclFailsForCause'
<1> USE DEF A!dropbox, A!folderWalk, A!memberWalk, A!history
<1>1. CASE A!ReadMember /\ phase' = "failed"
  <2>1. PICK x \in page : A!Conflicting(x) # {}
    BY <1>1 DEF A!ReadMember
  <2>2. PICK y \in emitted : y.folder = folder.id /\ y.member = x.member /\ y # A!Record(x)
    BY <2>1 DEF A!Conflicting
  <2>3. A!Root \in roots /\ y.root \in roots /\ y.folder \in visible[y.root]
    BY <1>1, RootLeft DEF A!ReadMember, A!SharingAclTypeOK, RecordsFit
  <2>4. folder.id \in visible[A!Root]
    BY <1>1 DEF A!ReadMember, MembersFit
  <2>5. CASE touched = {}
    <3>1. y.path = folder.path /\ y.level = x.level
      BY <1>1, <2>2, <2>5 DEF A!ReadMember, RecordsFit, MembersFit
    <3>2. y.root # A!Root
      <4>1. y \in [folder : SharedFolders, path : Nat, root : Namespaces, member : Members,
                   level : 1 .. 2]
        BY DEF A!SharingAclTypeOK
      <4>2. y = [folder |-> y.folder, path |-> y.path, root |-> y.root, member |-> y.member,
                 level |-> y.level]
        BY <4>1
      <4>3. QED
        BY <2>2, <3>1, <4>2 DEF A!Record
    <3>3. visible[y.root] \cap visible[A!Root] # {}
      BY <2>2, <2>3, <2>4
    <3>4. UNCHANGED <<visible, roots>>
      BY <1>1 DEF A!ReadMember
    <3>5. QED
      BY <2>3, <3>2, <3>3, <3>4 DEF A!AclFailsForCause
  <2>6. CASE touched # {}
    BY <1>1, <2>6 DEF A!ReadMember, A!AclFailsForCause
  <2>7. QED
    BY <2>5, <2>6
<1>2. CASE A!AclRefuseReset
  <2>1. resets' = resets /\ A!Root' = A!Root /\ resets[A!Root] >= 2
    BY <1>2, RootStays DEF A!AclRefuseReset, ResetsCounted
  <2>2. QED
    BY <2>1 DEF A!AclFailsForCause
<1>3. CASE A!AclFault
  BY <1>3 DEF A!AclFault, A!AclFailsForCause
<1>4. CASE phase' # "failed"
  BY <1>4 DEF A!AclFailsForCause
<1>5. QED
  BY <1>1, <1>2, <1>3, <1>4
     DEF A!SharingAclNext, A!AclSync, A!AclStart, A!FetchFolders, A!TakeFolder, A!FetchMembers,
         A!MembersRead, A!FoldersRead, A!AclRestart, A!AclInvalidate, A!ChangeAcl

\* What is read of a folder stays read while the folder does not change.
LEMMA FolderStaysRead ==
  ASSUME NEW f, FolderRead(f), acl'[f] = acl[f], emitted \subseteq emitted'
  PROVE  FolderRead(f)'
BY DEF FolderRead

LEMMA AclCoversKept ==
  ASSUME A!SharingAclTypeOK, FoldersFit, MembersFit, AclCovers, A!SharingAclNext
  PROVE  AclCovers'
<1> USE DEF A!dropbox, A!folderWalk, A!memberWalk, A!history, AclActive, AclPaged
<1>1. CASE A!AclStart
  BY <1>1 DEF A!AclStart, AclCovers
<1>2. CASE A!FetchFolders
  <2>1. PICK T \in SUBSET (visible[A!Root] \ listed) :
            /\ folders' = {A!ListedAs(f) : f \in T}
            /\ moreFolders' = (T # visible[A!Root] \ listed)
            /\ listed' = listed \cup T
    BY <1>2 DEF A!FetchFolders
  <2>2. /\ phase = "list" /\ phase' = "folders" /\ A!Root' = A!Root
        /\ UNCHANGED <<acl, visible, roots, left, emitted, touched>>
    BY <1>2, RootStays DEF A!FetchFolders
  <2>3. ASSUME NEW f \in T PROVE \E x \in folders' : x.id = f
    <3>1. A!ListedAs(f) \in folders' /\ A!ListedAs(f).id = f
      BY <2>1 DEF A!ListedAs
    <3>2. QED
      BY <3>1
  <2>4. ASSUME NEW f PROVE FolderRead(f)' = FolderRead(f)
    BY <2>2 DEF FolderRead
  <2>5. folders = {}
    BY <2>2 DEF FoldersFit
  <2>6. ASSUME NEW f \in listed' \ touched'
        PROVE  FolderRead(f)' \/ \E x \in folders' : x.id = f
    BY <2>1, <2>2, <2>3, <2>4, <2>5 DEF AclCovers
  <2>7. ~moreFolders' => visible'[A!Root'] \subseteq listed'
    BY <2>1, <2>2
  <2>8. ASSUME NEW r \in roots' \ left', NEW f \in visible'[r] \ touched' PROVE FolderRead(f)'
    BY <2>2, <2>4 DEF AclCovers
  <2>9. QED
    BY <2>2, <2>6, <2>7, <2>8 DEF AclCovers
<1>3. CASE A!TakeFolder
  <2>1. PICK f \in folders :
            /\ folders' = folders \ {f}
            /\ \/ ~f.inside /\ phase' = phase
               \/ f.inside /\ phase' = "members" /\ folder' = f
    BY <1>3 DEF A!TakeFolder
  <2>2. /\ phase = "folders" /\ A!Root' = A!Root
        /\ UNCHANGED <<acl, visible, roots, left, listed, moreFolders, emitted, touched>>
    BY <1>3, RootStays DEF A!TakeFolder
  <2>3. ASSUME NEW g PROVE FolderRead(g)' = FolderRead(g)
    BY <2>2 DEF FolderRead
  <2>4. f.id \notin touched => f.inside = acl[f.id].inside
    BY <2>2 DEF FoldersFit
  <2>5. f.id \notin touched /\ ~f.inside => FolderRead(f.id)
    BY <2>4 DEF FolderRead
  <2>6. ASSUME NEW g \in listed' \ touched'
        PROVE  \/ FolderRead(g)' \/ \E x \in folders' : x.id = g
               \/ phase' = "members" /\ folder'.id = g
    <3>1. FolderRead(g) \/ \E x \in folders : x.id = g
      BY <2>2, <2>6 DEF AclCovers
    <3>2. CASE g = f.id
      BY <2>1, <2>2, <2>3, <2>5, <2>6, <3>2
    <3>3. CASE g # f.id
      BY <2>1, <2>3, <3>1, <3>3
    <3>4. QED
      BY <3>2, <3>3
  <2>7. phase' \in {"folders", "members"}
    BY <2>1, <2>2
  <2>8. QED
    BY <2>2, <2>3, <2>6, <2>7 DEF AclCovers
<1>4. CASE A!FetchMembers \/ A!ReadMember
  <2>1. /\ phase \in {"members", "read"} /\ phase' \in {"read", "failed"} /\ A!Root' = A!Root
        /\ UNCHANGED <<acl, visible, roots, left, listed, folders, moreFolders, folder, touched>>
    BY <1>4, RootStays DEF A!FetchMembers, A!ReadMember
  <2>2. emitted \subseteq emitted'
    BY <1>4 DEF A!FetchMembers, A!ReadMember
  <2>3. ASSUME NEW f, FolderRead(f) PROVE FolderRead(f)'
    BY <2>1, <2>2, <2>3, FolderStaysRead
  <2>4. ASSUME phase' = "read", NEW f \in listed' \ touched'
        PROVE  FolderRead(f)' \/ (\E x \in folders' : x.id = f) \/ folder'.id = f
    BY <2>1, <2>3, <2>4 DEF AclCovers
  <2>5. QED
    BY <2>1, <2>3, <2>4 DEF AclCovers
<1>5. CASE A!MembersRead
  <2>1. /\ phase = "read" /\ page = {} /\ A!Root' = A!Root
        /\ UNCHANGED <<acl, visible, roots, left, listed, folders, moreFolders, emitted, touched>>
        /\ \/ moreMembers /\ phase' = "members" /\ folder' = folder
           \/ ~moreMembers /\ phase' = "folders"
    BY <1>5, RootStays DEF A!MembersRead
  <2>2. ASSUME NEW f PROVE FolderRead(f)' = FolderRead(f)
    BY <2>1 DEF FolderRead
  <2>3. ~moreMembers /\ folder.id \notin touched => FolderRead(folder.id)
    BY <2>1 DEF MembersFit, FolderRead
  <2>4. ASSUME NEW f \in listed' \ touched'
        PROVE  \/ FolderRead(f)' \/ \E x \in folders' : x.id = f
               \/ phase' = "members" /\ folder'.id = f
    BY <2>1, <2>2, <2>3, <2>4 DEF AclCovers
  <2>5. QED
    BY <2>1, <2>2, <2>4 DEF AclCovers
<1>6. CASE A!FoldersRead
  <2>1. /\ phase = "folders" /\ folders = {}
        /\ UNCHANGED <<acl, visible, roots, emitted, touched>>
    BY <1>6 DEF A!FoldersRead
  <2>2. ASSUME NEW f PROVE FolderRead(f)' = FolderRead(f)
    BY <2>1 DEF FolderRead
  <2>3. \A f \in listed \ touched : FolderRead(f)
    BY <2>1 DEF AclCovers
  <2>4. CASE moreFolders
    <3>1. phase' = "list" /\ UNCHANGED <<left, listed>>
      BY <1>6, <2>4 DEF A!FoldersRead
    <3>2. QED
      BY <2>1, <2>2, <2>3, <3>1 DEF AclCovers
  <2>5. CASE ~moreFolders
    <3>1. /\ left' = left \ {A!Root} /\ listed' = {}
          /\ phase' = IF left' = {} THEN "done" ELSE "list"
      BY <1>6, <2>5 DEF A!FoldersRead
    <3>2. ASSUME NEW f \in visible[A!Root] \ touched PROVE FolderRead(f)
      BY <2>1, <2>3, <2>5 DEF AclCovers
    <3>3. ASSUME NEW r \in roots' \ left', NEW f \in visible'[r] \ touched' PROVE FolderRead(f)'
      BY <2>1, <2>2, <3>1, <3>2 DEF AclCovers
    <3>4. QED
      BY <3>1, <3>3 DEF AclCovers
  <2>6. QED
    BY <2>4, <2>5 DEF A!SharingAclTypeOK
<1>7. CASE A!AclRestart
  <2>1. /\ phase = "list" /\ phase' = "list" /\ listed' = {}
        /\ UNCHANGED <<acl, visible, roots, left, emitted, touched>>
    BY <1>7 DEF A!AclRestart
  <2>2. ASSUME NEW f PROVE FolderRead(f)' = FolderRead(f)
    BY <2>1 DEF FolderRead
  <2>3. QED
    BY <2>1, <2>2 DEF AclCovers
<1>8. CASE A!AclRefuseReset \/ A!AclFault
  BY <1>8 DEF A!AclRefuseReset, A!AclFault, AclCovers
<1>9. CASE A!AclInvalidate
  <2>1. /\ phase = "folders" /\ moreFolders /\ moreFolders'
        /\ UNCHANGED <<acl, visible, phase, roots, left, listed, folders, emitted, touched>>
    BY <1>9 DEF A!AclInvalidate
  <2>2. ASSUME NEW f PROVE FolderRead(f)' = FolderRead(f)
    BY <2>1 DEF FolderRead
  <2>3. QED
    BY <2>1, <2>2 DEF AclCovers
<1>10. CASE \E f \in SharedFolders : A!ChangeAcl(f)
  <2>1. PICK f \in SharedFolders : A!ChangeAcl(f)
    BY <1>10
  <2>2. /\ A!Root' = A!Root /\ phase \in AclActive
        /\ UNCHANGED <<visible, phase, roots, left, listed, folders, moreFolders, folder, emitted>>
    BY <2>1, RootStays DEF A!ChangeAcl
  <2>3. touched' = touched \cup {f} /\ \A g \in SharedFolders : g # f => acl'[g] = acl[g]
    BY <2>1, AclChanges DEF A!ChangeAcl
  <2>4. ASSUME NEW g \in SharedFolders \ touched', FolderRead(g) PROVE FolderRead(g)'
    BY <2>2, <2>3, <2>4, FolderStaysRead
  <2>5. listed \subseteq SharedFolders /\ \A r \in roots : visible[r] \subseteq SharedFolders
    BY DEF A!SharingAclTypeOK
  <2>6. ASSUME NEW g \in listed' \ touched'
        PROVE  \/ FolderRead(g)' \/ \E x \in folders' : x.id = g
               \/ phase' \in {"members", "read"} /\ folder'.id = g
    BY <2>2, <2>3, <2>4, <2>5, <2>6 DEF AclCovers
  <2>7. ASSUME NEW r \in roots' \ left', NEW g \in visible'[r] \ touched' PROVE FolderRead(g)'
    BY <2>2, <2>3, <2>4, <2>5, <2>7 DEF AclCovers
  <2>8. QED
    BY <2>2, <2>6, <2>7 DEF AclCovers
<1>11. QED
  BY <1>1, <1>2, <1>3, <1>4, <1>5, <1>6, <1>7, <1>8, <1>9, <1>10 DEF A!SharingAclNext, A!AclSync

LEMMA AclBegins == ProgramsInit => AclInv
<1>1. SUFFICES ASSUME ProgramsInit, program = SHARING_ACL PROVE AclInv
  BY DEF AclInv
<1>2. A!SharingAclInit
  BY <1>1 DEF ProgramsInit, FULL_REFRESH, SHARING_ACL, FILE_CONTENTS, DESTINATION, REPAIR,
              CURSOR_SCOPE
<1>3. /\ acl = [f \in SharedFolders |-> [path |-> 0, inside |-> TRUE,
                                        level |-> [m \in Members |-> 1]]]
      /\ visible \in [Namespaces -> SUBSET SharedFolders] /\ valid = TRUE
      /\ phase = "idle" /\ roots = {} /\ left = {} /\ listed = {} /\ recovered = FALSE
      /\ folders = {} /\ moreFolders = FALSE
      /\ clients = [f \in SharedFolders |-> BaseClient]
      /\ folder = NoFolder /\ via = BaseClient /\ counted = {}
      /\ page = {} /\ moreMembers = FALSE /\ emitted = {}
      /\ resets = [r \in Namespaces |-> 0] /\ touched = {} /\ faulted = FALSE
  BY <1>2, ProgramsAssumption DEF A!SharingAclInit, A!SharingAclAssumption
<1>4. A!SharingAclTypeOK
  <2>1. [path |-> 0, inside |-> TRUE, level |-> [m \in Members |-> 1]]
            \in [path : Nat, inside : BOOLEAN, level : [Members -> 0 .. 2]]
    OBVIOUS
  <2>2. acl \in [SharedFolders -> [path : Nat, inside : BOOLEAN, level : [Members -> 0 .. 2]]]
    BY <1>3, <2>1
  <2>3. spent \in 0 .. Budget
    BY <1>2, ProgramsAssumption DEF A!SharingAclInit, A!SharingAclAssumption
  <2>4. QED
    BY <1>3, <2>2, <2>3 DEF A!SharingAclTypeOK
<1>5. FoldersFit /\ MembersFit /\ RecordsFit /\ ResetsCounted
  BY <1>3 DEF FoldersFit, MembersFit, RecordsFit, ResetsCounted, AclPaged
<1>6. AclCovers /\ A!AclFailsForCause
  BY <1>3 DEF AclCovers, A!AclFailsForCause, AclActive, AclPaged
<1>7. QED
  BY <1>4, <1>5, <1>6 DEF AclInv

LEMMA AclStep ==
  ASSUME AclInv, [ProgramsNext]_programVars
  PROVE  AclInv'
<1>1. CASE RunSharingAcl
  <2>1. program = SHARING_ACL /\ A!SharingAclNext
    BY <1>1 DEF RunSharingAcl
  <2>2. QED
    BY <2>1, AclTypeKept, FoldersFitKept, MembersFitKept, AclCoversKept, RecordsFitKept,
       ResetsCountedKept, AclFailsKept DEF AclInv
<1>2. CASE ~RunSharingAcl /\ ProgramsNext
  BY <1>2 DEF ProgramsNext, AclInv, RunFullRefresh, RunRepair, RunFileContents, NotFileContents,
              RunDestination, RunCursorScope, FULL_REFRESH, SHARING_ACL, FILE_CONTENTS,
              DESTINATION, REPAIR, CURSOR_SCOPE
<1>3. CASE UNCHANGED programVars
  <2>1. UNCHANGED <<program, acl, visible, valid, phase, roots, left, listed, recovered, folders,
                    moreFolders, clients, folder, via, counted, page, moreMembers, emitted,
                    resets, touched, faulted, spent>>
    BY <1>3 DEF programVars, listings, walks, ofSharingAcl
  <2>2. A!Root' = A!Root
    BY <2>1, RootStays
  <2>3. A!SharingAclTypeOK => A!SharingAclTypeOK'
    BY <2>1 DEF A!SharingAclTypeOK
  <2>4. (FoldersFit => FoldersFit') /\ (MembersFit => MembersFit')
    BY <2>1, <2>2 DEF FoldersFit, MembersFit
  <2>5. (AclCovers => AclCovers') /\ (RecordsFit => RecordsFit')
    BY <2>1, <2>2 DEF AclCovers, RecordsFit, FolderRead
  <2>6. (ResetsCounted => ResetsCounted') /\ (A!AclFailsForCause => A!AclFailsForCause')
    BY <2>1, <2>2 DEF ResetsCounted, A!AclFailsForCause
  <2>7. QED
    BY <2>1, <2>3, <2>4, <2>5, <2>6 DEF AclInv
<1>4. QED
  BY <1>1, <1>2, <1>3

\* A sync of sharing_acl that ends well has the members of every folder that did not change.
LEMMA AclIsComplete ==
  ASSUME AclInv, program = SHARING_ACL
  PROVE  A!MembersComplete
<1>1. AclCovers
  BY DEF AclInv
<1>2. ASSUME phase = "done", NEW r \in roots, NEW f \in visible[r] \ touched PROVE FolderRead(f)
  BY <1>1, <1>2 DEF AclCovers
<1>3. QED
  BY <1>2 DEF A!MembersComplete, FolderRead

\* The members of a shared folder are asked for through the client of the namespace whose
\* page the folder is on (sharing.py), whatever an earlier namespace left in
\* _shared_folder_clients and however often a listing started afresh.
THEOREM MembersAskedWhereListed == Spec => []AskedWhereListed
<1>1. AclInv => AskedWhereListed
  BY DEF AclInv, MembersFit, AskedWhereListed, A!AskedWhereListed
<1>2. QED
  BY <1>1, AclBegins, AclStep, PTL DEF Spec

-----------------------------------------------------------------------------
(* The streams that keep no state: the proof.                              *)

LEMMA ListedRootLeft ==
  ASSUME F!FullRefreshTypeOK, left # {}
  PROVE  F!Root \in left /\ F!Root \in roots /\ F!Root \in F!Roots
<1>1. left \subseteq roots /\ roots \subseteq F!Roots /\ F!Roots \subseteq Nat
  BY ProgramsAssumption DEF F!FullRefreshTypeOK, F!FullRefreshAssumption
<1>2. A!First(left) \in left
  BY <1>1, FirstIsIn
<1>3. QED
  BY <1>1, <1>2 DEF F!Root, F!First, A!First

LEMMA ListedRootStays ==
  ASSUME left' = left
  PROVE  F!Root' = F!Root
BY DEF F!Root, F!First

\* Each step leaves Dropbox, the stream and what was emitted as they are, but for a change
\* and the record a page gives.
LEMMA ThingChanges ==
  ASSUME F!FullRefreshTypeOK, NEW r \in F!Roots, NEW t \in Things, F!Change(r, t)
  PROVE  /\ thing' \in [F!Roots -> [Things -> F!ThingStates]]
         /\ thing'[r][t].version # 0
         /\ \A s \in F!Roots, u \in Things : <<s, u>> # <<r, t>> => thing'[s][u] = thing[s][u]
<1>1. thing \in [F!Roots -> [Things -> F!ThingStates]] /\ thing[r][t] \in F!ThingStates
  BY DEF F!FullRefreshTypeOK
<1>2. PICK live \in BOOLEAN, inside \in BOOLEAN :
          thing' = [thing EXCEPT ![r][t] = [version |-> thing[r][t].version + 1,
                                            live |-> live, inside |-> inside]]
  BY DEF F!Change
<1>3. thing[r][t].version \in Nat
  BY <1>1 DEF F!ThingStates
<1>4. [version |-> thing[r][t].version + 1, live |-> live, inside |-> inside] \in F!ThingStates
  BY <1>3 DEF F!ThingStates
<1>5. thing' = [thing EXCEPT ![r] = [thing[r] EXCEPT ![t] =
                   [version |-> thing[r][t].version + 1, live |-> live, inside |-> inside]]]
  BY <1>1, <1>2
<1>6. thing'[r][t].version = thing[r][t].version + 1
  BY <1>1, <1>5
<1>7. QED
  BY <1>1, <1>3, <1>4, <1>5, <1>6

LEMMA ListingTypeKept ==
  ASSUME F!FullRefreshTypeOK, phase = "idle" /\ mode # "all_accessible" => roots # {},
         F!FullRefreshNext
  PROVE  F!FullRefreshTypeOK'
<1> USE DEF F!given, F!walk, F!history
<1> F!Unshown \in [Things -> Nat]
  BY DEF F!Unshown
<1>1. CASE F!Start
  BY <1>1 DEF F!Start, F!FullRefreshTypeOK
<1>2. CASE F!ResolvePage
  <2>1. PICK T \in SUBSET (Namespaces \ roots) :
            /\ roots' = roots \cup T /\ left' = roots'
            /\ phase' \in {"resolve", "done", "list"}
            /\ phase' = "list" => roots' # {}
            /\ phase' = "resolve" => phase = "resolve"
    BY <1>2 DEF F!ResolvePage
  <2>2. roots' \subseteq F!Roots
    BY <2>1 DEF F!FullRefreshTypeOK, F!Roots
  <2>3. QED
    BY <1>2, <2>1, <2>2 DEF F!ResolvePage, F!FullRefreshTypeOK
<1>3. CASE F!FetchPage
  <2>1. F!Root \in F!Roots
    BY <1>3, ListedRootLeft DEF F!FetchPage, F!FullRefreshTypeOK
  <2>2. PICK T \in SUBSET F!Pending :
            /\ page' = {[thing |-> t, entry |-> thing[F!Root][t]] : t \in T}
            /\ shown' = [t \in Things |-> IF t \in T THEN thing[F!Root][t].version ELSE shown[t]]
            /\ more' = (T # F!Pending)
    BY <1>3 DEF F!FetchPage
  <2>3. \A t \in Things : thing[F!Root][t] \in F!ThingStates /\ thing[F!Root][t].version \in Nat
    BY <2>1 DEF F!FullRefreshTypeOK, F!ThingStates
  <2>4. T \subseteq Things
    BY DEF F!Pending
  <2>5. page' \subseteq [thing : Things, entry : F!ThingStates]
    BY <2>2, <2>3, <2>4
  <2>6. shown' \in [Things -> Nat] /\ more' \in BOOLEAN
    BY <2>2, <2>3 DEF F!FullRefreshTypeOK
  <2>7. QED
    BY <1>3, <2>5, <2>6 DEF F!FetchPage, F!FullRefreshTypeOK
<1>4. CASE F!ReadEntry
  <2>1. PICK x \in page :
            /\ page' = page \ {x}
            /\ \/ UNCHANGED <<phase, emitted>>
               \/ phase' = "failed" /\ UNCHANGED emitted
               \/ /\ emitted' = emitted \cup {F!WithNamespace(F!Facts(x.thing, x.entry))}
                  /\ UNCHANGED phase
    BY <1>4 DEF F!ReadEntry
  <2>2. F!Root \in F!Roots
    BY <1>4, ListedRootLeft DEF F!ReadEntry, F!FullRefreshTypeOK
  <2>3. x.thing \in Things /\ x.entry \in F!ThingStates
    BY DEF F!FullRefreshTypeOK
  <2>4. F!WithNamespace(F!Facts(x.thing, x.entry)) \in [root : F!Roots, thing : Things, version : Nat]
    BY <2>2, <2>3 DEF F!WithNamespace, F!Facts, F!ThingStates
  <2>5. QED
    BY <1>4, <2>1, <2>4 DEF F!ReadEntry, F!FullRefreshTypeOK
<1>5. CASE F!PageRead
  <2>1. /\ left' \subseteq left /\ phase' \in {"list", "done"}
        /\ phase' = "list" => left' # {}
        /\ shown' \in {shown, F!Unshown} /\ recovered' \in {recovered, FALSE}
    BY <1>5 DEF F!PageRead, F!FullRefreshTypeOK
  <2>2. QED
    BY <1>5, <2>1 DEF F!PageRead, F!FullRefreshTypeOK
<1>6. CASE F!RestartListing \/ F!RefuseReset
  BY <1>6 DEF F!RestartListing, F!RefuseReset, F!FullRefreshTypeOK
<1>7. ASSUME F!Disturb PROVE spent' \in 0 .. Budget
  BY <1>7, ProgramsAssumption DEF F!Disturb, F!FullRefreshTypeOK, F!FullRefreshAssumption
<1>8. CASE F!Fault
  BY <1>7, <1>8 DEF F!Fault, F!FullRefreshTypeOK
<1>9. CASE F!Invalidate
  <2>1. F!Root \in F!Roots
    BY <1>9, ListedRootLeft DEF F!Invalidate, F!FullRefreshTypeOK
  <2>2. resets' \in [F!Roots -> Nat]
    BY <1>9, <2>1 DEF F!Invalidate, F!FullRefreshTypeOK
  <2>3. QED
    BY <1>7, <1>9, <2>2 DEF F!Invalidate, F!FullRefreshTypeOK
<1>10. CASE \E r \in F!Roots, t \in Things : F!Change(r, t)
  <2>1. PICK r \in F!Roots, t \in Things : F!Change(r, t)
    BY <1>10
  <2>2. thing' \in [F!Roots -> [Things -> F!ThingStates]]
    BY <2>1, ThingChanges
  <2>3. touched' \subseteq F!Roots \X Things
    BY <2>1 DEF F!Change, F!FullRefreshTypeOK
  <2>4. QED
    BY <1>7, <2>1, <2>2, <2>3 DEF F!Change, F!FullRefreshTypeOK
<1>11. QED
  BY <1>1, <1>2, <1>3, <1>4, <1>5, <1>6, <1>8, <1>9, <1>10 DEF F!FullRefreshNext, F!Sync

\* What a stream keeps is live.
LEMMA KeptIsLive ==
  ASSUME F!FullRefreshTypeOK, NEW t, NEW e, F!Kept(t, e)
  PROVE  e.live
BY DEF F!FullRefreshTypeOK, F!Streams, F!Kept

LEMMA KeptStays ==
  ASSUME stream' = stream, NEW r, NEW t, thing'[r][t] = thing[r][t],
         F!Kept(t, thing[r][t])'
  PROVE  F!Kept(t, thing[r][t])
BY DEF F!Kept

LEMMA EmitsStays ==
  ASSUME stream' = stream, NEW r, NEW t, thing'[r][t] = thing[r][t],
         emitted \subseteq emitted', Emits(r, t)
  PROVE  Emits(r, t)'
BY DEF Emits

\* A step of the sync leaves what is in Dropbox as it is.
LEMMA SyncLeavesThings ==
  ASSUME F!Sync \/ F!Fault \/ F!Invalidate
  PROVE  UNCHANGED <<thing, stream, touched>> /\ phase' # "idle"
BY DEF F!given, F!walk, F!history, F!Sync, F!Start, F!ResolvePage, F!FetchPage, F!ReadEntry,
       F!PageRead, F!RestartListing, F!RefuseReset, F!Fault, F!Invalidate

LEMMA LiveHasVersionKept ==
  ASSUME F!FullRefreshTypeOK, LiveHasVersion, F!FullRefreshNext
  PROVE  LiveHasVersion'
<1>1. CASE F!Sync \/ F!Fault \/ F!Invalidate
  BY <1>1, SyncLeavesThings DEF LiveHasVersion
<1>2. CASE \E r \in F!Roots, t \in Things : F!Change(r, t)
  BY <1>2, ThingChanges DEF LiveHasVersion
<1>3. QED
  BY <1>1, <1>2 DEF F!FullRefreshNext

LEMMA PageFitsKept ==
  ASSUME F!FullRefreshTypeOK, LiveHasVersion, PageFits, F!FullRefreshNext
  PROVE  PageFits'
<1> USE DEF F!given, F!walk, F!history
<1>1. CASE F!FetchPage
  <2>1. F!Root \in F!Roots /\ F!Root' = F!Root
    BY <1>1, ListedRootLeft, ListedRootStays DEF F!FetchPage, F!FullRefreshTypeOK
  <2>2. PICK T \in SUBSET F!Pending : page' = {[thing |-> t, entry |-> thing[F!Root][t]] : t \in T}
    BY <1>1 DEF F!FetchPage
  <2>3. ASSUME NEW x \in page'
        PROVE  x.entry = thing[F!Root][x.thing] /\ (x.entry.live => x.entry.version # 0)
    <3>1. PICK t \in T : x = [thing |-> t, entry |-> thing[F!Root][t]]
      BY <2>2
    <3>2. t \in Things
      BY DEF F!Pending
    <3>3. QED
      BY <2>1, <3>1, <3>2 DEF LiveHasVersion
  <2>4. phase' = "read" /\ UNCHANGED <<thing, touched>>
    BY <1>1 DEF F!FetchPage
  <2>5. QED
    BY <2>1, <2>3, <2>4 DEF PageFits
<1>2. CASE F!ReadEntry \/ F!Invalidate
  <2>1. /\ phase = "read" /\ phase' \in {"read", "failed"} /\ page' \subseteq page
        /\ F!Root' = F!Root /\ UNCHANGED <<thing, touched>>
    BY <1>2, ListedRootStays DEF F!ReadEntry, F!Invalidate
  <2>2. QED
    BY <2>1 DEF PageFits
<1>3. CASE \/ F!Start \/ F!ResolvePage \/ F!PageRead \/ F!RestartListing \/ F!RefuseReset
           \/ F!Fault
  <2>1. phase' # "read" /\ (phase' = "failed" \/ page' = {} \/ phase' = "done")
    BY <1>3 DEF F!Start, F!ResolvePage, F!PageRead, F!RestartListing, F!RefuseReset, F!Fault,
                PageFits
  <2>2. QED
    BY <2>1 DEF PageFits
<1>4. CASE \E r \in F!Roots, t \in Things : F!Change(r, t)
  <2>1. PICK r \in F!Roots, t \in Things : F!Change(r, t)
    BY <1>4
  <2>2. UNCHANGED <<phase, page>> /\ F!Root' = F!Root /\ touched' = touched \cup {<<r, t>>}
    BY <2>1, ListedRootStays DEF F!Change
  <2>3. phase = "read" => F!Root \in F!Roots
    BY ListedRootLeft DEF F!FullRefreshTypeOK
  <2>4. ASSUME phase = "read", NEW x \in page, <<F!Root, x.thing>> \notin touched'
        PROVE  x.entry = thing'[F!Root][x.thing]
    <3>1. <<F!Root, x.thing>> # <<r, t>> /\ <<F!Root, x.thing>> \notin touched
      BY <2>2, <2>4
    <3>2. x.thing \in Things
      BY DEF F!FullRefreshTypeOK
    <3>3. thing'[F!Root][x.thing] = thing[F!Root][x.thing]
      BY <2>1, <2>3, <2>4, <3>1, <3>2, ThingChanges
    <3>4. QED
      BY <2>4, <3>1, <3>3 DEF PageFits
  <2>5. QED
    BY <2>2, <2>4 DEF PageFits
<1>5. QED
  BY <1>1, <1>2, <1>3, <1>4 DEF F!FullRefreshNext, F!Sync

LEMMA EmittedFitsKept ==
  ASSUME F!FullRefreshTypeOK, PageFits, EmittedFits, F!FullRefreshNext
  PROVE  EmittedFits'
<1> USE DEF F!given, F!walk, F!history
<1>1. CASE F!ReadEntry
  <2>1. PICK x \in page :
            \/ UNCHANGED emitted
            \/ /\ F!Kept(x.thing, x.entry)
               /\ emitted' = emitted \cup {F!WithNamespace(F!Facts(x.thing, x.entry))}
    BY <1>1 DEF F!ReadEntry
  <2>2. /\ F!WithNamespace(F!Facts(x.thing, x.entry)).root = F!Root
        /\ F!WithNamespace(F!Facts(x.thing, x.entry)).thing = x.thing
        /\ F!WithNamespace(F!Facts(x.thing, x.entry)).version = x.entry.version
    BY DEF F!WithNamespace, F!Facts
  <2>3. /\ x.entry.live => x.entry.version # 0
        /\ <<F!Root, x.thing>> \notin touched => x.entry = thing[F!Root][x.thing]
    BY <1>1 DEF F!ReadEntry, PageFits
  <2>4. F!Kept(x.thing, x.entry) => x.entry.live
    BY KeptIsLive
  <2>5. UNCHANGED <<thing, touched>>
    BY <1>1 DEF F!ReadEntry
  <2>6. ASSUME NEW y \in emitted'
        PROVE  /\ y.version # 0
               /\ <<y.root, y.thing>> \notin touched => y.version = thing[y.root][y.thing].version
    <3>1. CASE y \in emitted
      BY <3>1 DEF EmittedFits
    <3>2. CASE y \notin emitted
      <4>1. F!Kept(x.thing, x.entry) /\ y = F!WithNamespace(F!Facts(x.thing, x.entry))
        BY <2>1, <2>6, <3>2
      <4>2. y.root = F!Root /\ y.thing = x.thing /\ y.version = x.entry.version
        BY <2>2, <4>1
      <4>3. QED
        BY <2>3, <2>4, <4>1, <4>2
    <3>3. QED
      BY <3>1, <3>2
  <2>7. QED
    BY <2>5, <2>6 DEF EmittedFits
<1>2. CASE (F!Sync \/ F!Fault \/ F!Invalidate) /\ ~F!ReadEntry
  <2>1. UNCHANGED <<thing, touched, emitted>>
    BY <1>2 DEF F!Sync, F!Start, F!ResolvePage, F!FetchPage, F!PageRead, F!RestartListing,
                F!RefuseReset, F!Fault, F!Invalidate
  <2>2. QED
    BY <2>1 DEF EmittedFits
<1>3. CASE \E r \in F!Roots, t \in Things : F!Change(r, t)
  <2>1. PICK r \in F!Roots, t \in Things : F!Change(r, t)
    BY <1>3
  <2>2. emitted' = emitted /\ touched' = touched \cup {<<r, t>>}
    BY <2>1 DEF F!Change
  <2>3. ASSUME NEW x \in emitted, <<x.root, x.thing>> \notin touched'
        PROVE  x.version = thing'[x.root][x.thing].version
    <3>1. <<x.root, x.thing>> # <<r, t>> /\ <<x.root, x.thing>> \notin touched
      BY <2>2, <2>3
    <3>2. x.root \in F!Roots /\ x.thing \in Things
      BY DEF F!FullRefreshTypeOK
    <3>3. thing'[x.root][x.thing] = thing[x.root][x.thing]
      BY <2>1, <3>1, <3>2, ThingChanges
    <3>4. QED
      BY <3>1, <3>3 DEF EmittedFits
  <2>4. QED
    BY <2>2, <2>3 DEF EmittedFits
<1>4. QED
  BY <1>1, <1>2, <1>3 DEF F!FullRefreshNext

LEMMA CursorResetsKept ==
  ASSUME F!FullRefreshTypeOK, CursorResets, F!FullRefreshNext
  PROVE  CursorResets'
<1> USE DEF F!given, F!walk, F!history
<1>1. CASE F!Start \/ F!ResolvePage
  BY <1>1 DEF F!Start, F!ResolvePage, CursorResets
<1>2. CASE F!FetchPage \/ F!ReadEntry
  <2>1. UNCHANGED <<valid, recovered, resets>> /\ F!Root' = F!Root
    BY <1>2, ListedRootStays DEF F!FetchPage, F!ReadEntry
  <2>2. phase \in {"list", "read"} /\ phase' \in {"read", "failed"}
    BY <1>2 DEF F!FetchPage, F!ReadEntry
  <2>3. (phase = "list" => valid) /\ (phase = "read" => more' = more)
    BY <1>2 DEF F!FetchPage, F!ReadEntry
  <2>4. QED
    BY <2>1, <2>2, <2>3 DEF CursorResets
<1>3. CASE F!PageRead
  <2>1. CASE more
    <3>1. UNCHANGED <<valid, recovered, resets>> /\ F!Root' = F!Root
          /\ phase' = "list" /\ phase = "read"
      BY <1>3, <2>1, ListedRootStays DEF F!PageRead
    <3>2. QED
      BY <3>1 DEF CursorResets
  <2>2. CASE ~more
    <3>1. valid /\ valid' = valid /\ recovered' = FALSE /\ phase' \in {"list", "done"}
      BY <1>3, <2>2 DEF F!PageRead, CursorResets
    <3>2. QED
      BY <3>1 DEF CursorResets
  <2>3. QED
    BY <2>1, <2>2
<1>4. CASE F!RestartListing
  <2>1. F!Root' = F!Root /\ phase = "list" /\ phase' = "list" /\ ~valid /\ valid' /\ resets' = resets
    BY <1>4, ListedRootStays DEF F!RestartListing
  <2>2. QED
    BY <2>1 DEF CursorResets
<1>5. CASE F!RefuseReset \/ F!Fault
  BY <1>5 DEF F!RefuseReset, F!Fault, CursorResets
<1>6. CASE F!Invalidate
  <2>1. F!Root \in F!Roots /\ F!Root' = F!Root
    BY <1>6, ListedRootLeft, ListedRootStays DEF F!Invalidate, F!FullRefreshTypeOK
  <2>2. resets[F!Root] \in Nat /\ resets'[F!Root] = resets[F!Root] + 1
    BY <1>6, <2>1 DEF F!Invalidate, F!FullRefreshTypeOK
  <2>3. valid /\ phase = "read" /\ phase' = "read" /\ more' /\ recovered' = recovered
    BY <1>6 DEF F!Invalidate
  <2>4. QED
    BY <2>1, <2>2, <2>3 DEF CursorResets
<1>7. CASE \E r \in F!Roots, t \in Things : F!Change(r, t)
  <2>1. UNCHANGED <<valid, recovered, resets, phase, more>> /\ F!Root' = F!Root
    BY <1>7, ListedRootStays DEF F!Change
  <2>2. QED
    BY <2>1 DEF CursorResets
<1>8. QED
  BY <1>1, <1>2, <1>3, <1>4, <1>5, <1>6, <1>7 DEF F!FullRefreshNext, F!Sync

LEMMA ListingFailsKept ==
  ASSUME F!FullRefreshTypeOK, PageFits, EmittedFits, CursorResets, F!FailsForCause,
         F!FullRefreshNext
  PROVE  F!FailsForCause'
<1> USE DEF F!given, F!walk, F!history
<1>1. CASE F!ReadEntry /\ phase' = "failed"
  <2>1. PICK x \in page : F!Kept(x.thing, x.entry) /\ F!Conflicts(x.thing, x.entry)
    BY <1>1 DEF F!ReadEntry
  <2>2. PICK y \in emitted : y.thing = x.thing /\ y.version # x.entry.version
    BY <2>1 DEF F!Conflicts
  <2>3. stream = "file_properties" /\ UNCHANGED <<stream, thing, touched>>
    BY <1>1, <2>1 DEF F!Conflicts, F!ReadEntry
  <2>4. CASE touched = {}
    <3>1. F!Root \in F!Roots /\ y.root \in F!Roots /\ x.thing \in Things
      BY <1>1, ListedRootLeft DEF F!ReadEntry, F!FullRefreshTypeOK
    <3>2. x.entry.version # 0 /\ x.entry = thing[F!Root][x.thing]
      BY <1>1, <2>1, <2>4, KeptIsLive DEF F!ReadEntry, PageFits
    <3>3. y.version # 0 /\ y.version = thing[y.root][y.thing].version
      BY <2>4 DEF EmittedFits
    <3>4. F!Differs
      BY <2>2, <3>1, <3>2, <3>3 DEF F!Differs
    <3>5. F!Differs'
      BY <2>3, <3>4 DEF F!Differs
    <3>6. QED
      BY <2>3, <3>5 DEF F!FailsForCause
  <2>5. QED
    BY <2>3, <2>4 DEF F!FailsForCause
<1>2. CASE F!RefuseReset
  <2>1. UNCHANGED <<resets, stream>> /\ F!Root' = F!Root
    BY <1>2, ListedRootStays DEF F!RefuseReset
  <2>2. resets[F!Root] >= IF stream = "file_properties" THEN 1 ELSE 2
    BY <1>2 DEF F!RefuseReset, CursorResets
  <2>3. QED
    BY <2>1, <2>2 DEF F!FailsForCause
<1>3. CASE F!Fault
  BY <1>3 DEF F!Fault, F!FailsForCause
<1>4. CASE phase' # "failed"
  BY <1>4 DEF F!FailsForCause
<1>5. QED
  BY <1>1, <1>2, <1>3, <1>4
     DEF F!FullRefreshNext, F!Sync, F!Start, F!ResolvePage, F!FetchPage, F!PageRead,
         F!RestartListing, F!Invalidate, F!Change

\* What is read of a page is emitted, or was.
LEMMA EntryIsEmitted ==
  ASSUME PageFits, F!ReadEntry, phase' # "failed",
         NEW t \in Things, <<F!Root, t>> \notin touched, F!Kept(t, thing[F!Root][t]),
         \E x \in page : x.thing = t
  PROVE  Emits(F!Root, t)' \/ \E x \in page' : x.thing = t
<1>1. PICK x \in page :
          /\ page' = page \ {x}
          /\ \/ F!Known(x.thing, x.entry) /\ emitted' = emitted
             \/ ~F!Kept(x.thing, x.entry)
             \/ emitted' = emitted \cup {F!WithNamespace(F!Facts(x.thing, x.entry))}
  BY DEF F!ReadEntry
<1>2. F!Root' = F!Root /\ UNCHANGED <<stream, thing>>
  BY ListedRootStays DEF F!ReadEntry, F!given, F!walk
<1>3. CASE x.thing = t
  <2>1. x.entry = thing[F!Root][t]
    BY <1>3 DEF F!ReadEntry, PageFits
  <2>2. CASE F!Known(x.thing, x.entry) /\ emitted' = emitted
    BY <1>2, <1>3, <2>1, <2>2 DEF F!Known, Emits
  <2>3. CASE emitted' = emitted \cup {F!WithNamespace(F!Facts(x.thing, x.entry))}
    <3>1. /\ F!WithNamespace(F!Facts(x.thing, x.entry)) \in emitted'
          /\ F!WithNamespace(F!Facts(x.thing, x.entry)).root = F!Root
          /\ F!WithNamespace(F!Facts(x.thing, x.entry)).thing = t
          /\ F!WithNamespace(F!Facts(x.thing, x.entry)).version = thing[F!Root][t].version
      BY <1>3, <2>1, <2>3 DEF F!WithNamespace, F!Facts
    <3>2. QED
      BY <1>2, <3>1 DEF Emits
  <2>4. QED
    BY <1>1, <1>3, <2>1, <2>2, <2>3
<1>4. CASE x.thing # t
  BY <1>1, <1>4
<1>5. QED
  BY <1>3, <1>4

LEMMA ListingCoversStays ==
  ASSUME ListingCovers,
         UNCHANGED <<thing, stream, phase, roots, left, shown, page, more, emitted, touched>>
  PROVE  ListingCovers'
<1>1. F!Root' = F!Root /\ F!Unshown' = F!Unshown
  BY ListedRootStays DEF F!Unshown
<1>2. ASSUME NEW t
      PROVE  /\ F!Kept(t, thing[F!Root][t])' = F!Kept(t, thing[F!Root][t])
             /\ Emits(F!Root, t)' = Emits(F!Root, t)
  BY <1>1 DEF F!Kept, Emits
<1>3. ASSUME NEW r, NEW t
      PROVE  /\ F!Kept(t, thing[r][t])' = F!Kept(t, thing[r][t])
             /\ Emits(r, t)' = Emits(r, t)
  BY DEF F!Kept, Emits
<1>4. QED
  BY <1>1, <1>2, <1>3 DEF ListingCovers

LEMMA ListingCoversKept ==
  ASSUME F!FullRefreshTypeOK, LiveHasVersion, PageFits, ListingCovers, F!FullRefreshNext
  PROVE  ListingCovers'
<1> USE DEF F!given, F!walk, F!history
<1>1. CASE F!Start \/ F!ResolvePage
  <2>1. /\ phase \in {"idle", "resolve"} /\ left' = roots' /\ shown' = shown
        /\ phase' \in {"resolve", "list", "done"}
        /\ phase' = "done" => left' = {}
    BY <1>1 DEF F!Start, F!ResolvePage
  <2>2. shown' = [t \in Things |-> 0] /\ F!Unshown' = F!Unshown
    BY <2>1 DEF ListingCovers, F!Unshown
  <2>3. QED
    BY <2>1, <2>2 DEF ListingCovers, F!Unshown
<1>2. CASE F!FetchPage
  <2>1. F!Root \in F!Roots /\ F!Root' = F!Root
    BY <1>2, ListedRootLeft, ListedRootStays DEF F!FetchPage, F!FullRefreshTypeOK
  <2>2. PICK T \in SUBSET F!Pending :
            /\ page' = {[thing |-> t, entry |-> thing[F!Root][t]] : t \in T}
            /\ shown' = [t \in Things |-> IF t \in T THEN thing[F!Root][t].version ELSE shown[t]]
            /\ more' = (T # F!Pending)
    BY <1>2 DEF F!FetchPage
  <2>3. /\ phase = "list" /\ phase' = "read" /\ page = {}
        /\ UNCHANGED <<thing, stream, roots, left, emitted, touched>>
    BY <1>2 DEF F!FetchPage, PageFits
  <2>4. ASSUME NEW t \in Things, <<F!Root, t>> \notin touched, F!Kept(t, thing[F!Root][t])
        PROVE  /\ shown'[t] \in {0, thing[F!Root][t].version}
               /\ shown'[t] # 0 => Emits(F!Root, t) \/ \E x \in page' : x.thing = t
               /\ ~more' => shown'[t] # 0
    <3>1. thing[F!Root][t].live /\ thing[F!Root][t].version # 0
      BY <2>1, <2>4, KeptIsLive DEF LiveHasVersion
    <3>2. /\ shown[t] \in {0, thing[F!Root][t].version}
          /\ shown[t] # 0 => Emits(F!Root, t)
      BY <2>3, <2>4 DEF ListingCovers
    <3>3. t \notin F!Pending => shown[t] # 0
      BY <3>1 DEF F!Pending
    <3>4. CASE t \in T
      <4>1. [thing |-> t, entry |-> thing[F!Root][t]] \in page'
        BY <2>2, <3>4
      <4>2. shown'[t] = thing[F!Root][t].version
        BY <2>2, <3>4
      <4>3. QED
        BY <3>1, <4>1, <4>2
    <3>5. CASE t \notin T
      BY <2>2, <3>2, <3>3, <3>5
    <3>6. QED
      BY <3>4, <3>5
  <2>5. ASSUME NEW r, NEW t PROVE Emits(r, t)' = Emits(r, t)
    BY <2>3 DEF Emits
  <2>6. ASSUME NEW t \in Things, <<F!Root, t>> \notin touched, F!Kept(t, thing[F!Root][t])'
        PROVE  F!Kept(t, thing[F!Root][t])
    BY <2>1, <2>3, <2>6 DEF F!Kept
  <2>7. ASSUME NEW t \in Things PROVE Emits(F!Root, t)' = Emits(F!Root, t)
    BY <2>1, <2>3 DEF Emits
  <2>8. ASSUME NEW r \in roots' \ left', NEW t \in Things, <<r, t>> \notin touched',
               F!Kept(t, thing[r][t])'
        PROVE  Emits(r, t)'
    <3>1. F!Kept(t, thing[r][t])
      BY <2>3, <2>8, KeptStays
    <3>2. QED
      BY <2>3, <2>5, <2>8, <3>1 DEF ListingCovers
  <2>9. QED
    BY <2>1, <2>3, <2>4, <2>6, <2>7, <2>8 DEF ListingCovers
<1>3. CASE F!ReadEntry
  <2>1. CASE phase' = "failed"
    BY <2>1 DEF ListingCovers
  <2>2. CASE phase' # "failed"
    <3>1. /\ phase = "read" /\ phase' = "read" /\ F!Root' = F!Root /\ emitted \subseteq emitted'
          /\ UNCHANGED <<thing, stream, roots, left, shown, more, touched>>
      BY <1>3, <2>2, ListedRootStays DEF F!ReadEntry
    <3>2. ASSUME NEW t \in Things, <<F!Root, t>> \notin touched, F!Kept(t, thing[F!Root][t])',
                 shown[t] # 0
          PROVE  Emits(F!Root, t)' \/ \E x \in page' : x.thing = t
      <4>1. F!Kept(t, thing[F!Root][t])
        BY <3>1, <3>2 DEF F!Kept
      <4>2. Emits(F!Root, t) \/ \E x \in page : x.thing = t
        BY <3>1, <3>2, <4>1 DEF ListingCovers
      <4>3. Emits(F!Root, t) => Emits(F!Root, t)'
        BY <3>1 DEF Emits
      <4>4. QED
        BY <1>3, <2>2, <3>2, <4>1, <4>2, <4>3, EntryIsEmitted
    <3>3. ASSUME NEW r \in roots' \ left', NEW t \in Things, <<r, t>> \notin touched',
                 F!Kept(t, thing[r][t])'
          PROVE  Emits(r, t)'
      <4>1. F!Kept(t, thing[r][t])
        BY <3>1, <3>3, KeptStays
      <4>2. Emits(r, t)
        BY <3>1, <3>3, <4>1 DEF ListingCovers
      <4>3. QED
        BY <3>1, <4>2, EmitsStays
    <3>4. ASSUME NEW t \in Things, <<F!Root, t>> \notin touched, F!Kept(t, thing[F!Root][t])'
          PROVE  /\ shown[t] \in {0, thing[F!Root][t].version}
                 /\ ~more => shown[t] # 0
      <4>1. F!Kept(t, thing[F!Root][t])
        BY <3>1, <3>4 DEF F!Kept
      <4>2. QED
        BY <3>1, <3>4, <4>1 DEF ListingCovers
    <3>5. QED
      BY <3>1, <3>2, <3>3, <3>4 DEF ListingCovers
  <2>3. QED
    BY <2>1, <2>2
<1>4. CASE F!PageRead
  <2>1. phase = "read" /\ page = {} /\ UNCHANGED <<thing, stream, roots, emitted, touched>>
    BY <1>4 DEF F!PageRead
  <2>2. ASSUME NEW r, NEW t
        PROVE  /\ Emits(r, t)' = Emits(r, t)
               /\ F!Kept(t, thing[r][t])' => F!Kept(t, thing[r][t])
    BY <2>1 DEF Emits, F!Kept
  <2>3. CASE more
    <3>1. phase' = "list" /\ UNCHANGED <<left, shown>> /\ F!Root' = F!Root /\ page' = {}
      BY <1>4, <2>3, ListedRootStays DEF F!PageRead
    <3>2. ASSUME NEW t \in Things, <<F!Root, t>> \notin touched, F!Kept(t, thing[F!Root][t])'
          PROVE  /\ shown[t] \in {0, thing[F!Root][t].version}
                 /\ shown[t] # 0 => Emits(F!Root, t)'
      <4>1. F!Kept(t, thing[F!Root][t])
        BY <2>1, <3>1, <3>2 DEF F!Kept
      <4>2. Emits(F!Root, t) = Emits(F!Root, t)'
        BY <2>1, <3>1 DEF Emits
      <4>3. QED
        BY <2>1, <3>2, <4>1, <4>2 DEF ListingCovers
    <3>3. ASSUME NEW r \in roots' \ left', NEW t \in Things, <<r, t>> \notin touched',
                 F!Kept(t, thing[r][t])'
          PROVE  Emits(r, t)'
      BY <2>1, <2>2, <3>1, <3>3 DEF ListingCovers
    <3>4. QED
      BY <2>1, <3>1, <3>2, <3>3 DEF ListingCovers
  <2>4. CASE ~more
    <3>1. /\ left' = left \ {F!Root} /\ shown' = F!Unshown
          /\ phase' = IF left' = {} THEN "done" ELSE "list"
      BY <1>4, <2>4 DEF F!PageRead
    <3>2. shown' = [t \in Things |-> 0]
      BY <3>1 DEF F!Unshown
    <3>3. ASSUME NEW t \in Things, <<F!Root, t>> \notin touched, F!Kept(t, thing[F!Root][t])
          PROVE  Emits(F!Root, t)
      BY <2>1, <2>4, <3>3 DEF ListingCovers
    <3>4. ASSUME NEW r \in roots' \ left', NEW t \in Things, <<r, t>> \notin touched',
                 F!Kept(t, thing[r][t])'
          PROVE  Emits(r, t)'
      <4>1. F!Kept(t, thing[r][t])
        BY <2>2, <3>4
      <4>2. CASE r = F!Root
        <5>1. Emits(F!Root, t)
          BY <2>1, <3>3, <3>4, <4>1, <4>2
        <5>2. QED
          BY <2>2, <4>2, <5>1
      <4>3. CASE r # F!Root
        BY <2>1, <2>2, <3>1, <3>4, <4>1, <4>3 DEF ListingCovers
      <4>4. QED
        BY <4>2, <4>3
    <3>5. QED
      BY <3>1, <3>2, <3>4 DEF ListingCovers
  <2>5. QED
    BY <2>3, <2>4
<1>5. CASE F!RestartListing
  <2>1. /\ phase = "list" /\ phase' = "list" /\ shown' = F!Unshown
        /\ UNCHANGED <<thing, stream, roots, left, emitted, touched>>
    BY <1>5 DEF F!RestartListing
  <2>2. shown' = [t \in Things |-> 0]
    BY <2>1 DEF F!Unshown
  <2>3. ASSUME NEW r \in roots' \ left', NEW t \in Things, <<r, t>> \notin touched',
               F!Kept(t, thing[r][t])'
        PROVE  Emits(r, t)'
    <3>1. F!Kept(t, thing[r][t])
      BY <2>1, <2>3, KeptStays
    <3>2. Emits(r, t)
      BY <2>1, <2>3, <3>1 DEF ListingCovers
    <3>3. QED
      BY <2>1, <3>2, EmitsStays
  <2>4. QED
    BY <2>1, <2>2, <2>3 DEF ListingCovers
<1>6. CASE F!RefuseReset \/ F!Fault
  BY <1>6 DEF F!RefuseReset, F!Fault, ListingCovers
<1>7. CASE F!Invalidate
  BY <1>7, ListingCoversStays DEF F!Invalidate
<1>8. CASE \E r \in F!Roots, t \in Things : F!Change(r, t)
  <2>1. PICK r \in F!Roots, t \in Things : F!Change(r, t)
    BY <1>8
  <2>2. /\ phase \in {"list", "read"} /\ F!Root' = F!Root /\ F!Root \in F!Roots
        /\ UNCHANGED <<stream, phase, roots, left, shown, page, more, emitted>>
        /\ touched' = touched \cup {<<r, t>>}
    BY <2>1, ListedRootLeft, ListedRootStays DEF F!Change, F!FullRefreshTypeOK
  <2>3. ASSUME NEW s \in F!Roots, NEW u \in Things, <<s, u>> \notin touched'
        PROVE  thing'[s][u] = thing[s][u] /\ <<s, u>> \notin touched
    <3>1. <<s, u>> # <<r, t>>
      BY <2>2, <2>3
    <3>2. QED
      BY <2>1, <2>2, <2>3, <3>1, ThingChanges
  <2>4. ASSUME NEW u \in Things, <<F!Root, u>> \notin touched', F!Kept(u, thing[F!Root][u])'
        PROVE  /\ shown[u] \in {0, thing'[F!Root][u].version}
               /\ shown[u] # 0 => Emits(F!Root, u)' \/ \E x \in page : x.thing = u
               /\ phase = "read" /\ ~more => shown[u] # 0
    <3>1. thing'[F!Root][u] = thing[F!Root][u] /\ <<F!Root, u>> \notin touched
      BY <2>2, <2>3, <2>4
    <3>2. F!Kept(u, thing[F!Root][u])
      BY <2>2, <2>4, <3>1 DEF F!Kept
    <3>3. Emits(F!Root, u) => Emits(F!Root, u)'
      BY <2>2, <3>1 DEF Emits
    <3>4. QED
      BY <2>2, <2>4, <3>1, <3>2, <3>3 DEF ListingCovers
  <2>5. ASSUME NEW s \in roots' \ left', NEW u \in Things, <<s, u>> \notin touched',
               F!Kept(u, thing[s][u])'
        PROVE  Emits(s, u)'
    <3>1. s \in F!Roots
      BY <2>2, <2>5 DEF F!FullRefreshTypeOK
    <3>2. thing'[s][u] = thing[s][u] /\ <<s, u>> \notin touched
      BY <2>3, <2>5, <3>1
    <3>3. F!Kept(u, thing[s][u])
      BY <2>2, <2>5, <3>2, KeptStays
    <3>4. Emits(s, u)
      BY <2>2, <2>5, <3>2, <3>3 DEF ListingCovers
    <3>5. QED
      BY <2>2, <3>2, <3>4, EmitsStays
  <2>6. QED
    BY <2>2, <2>4, <2>5 DEF ListingCovers
<1>9. QED
  BY <1>1, <1>2, <1>3, <1>4, <1>5, <1>6, <1>7, <1>8 DEF F!FullRefreshNext, F!Sync

LEMMA ListingBegins == ProgramsInit => ListingInv
<1>1. SUFFICES ASSUME ProgramsInit, program = FULL_REFRESH PROVE ListingInv
  BY DEF ListingInv
<1>2. F!FullRefreshInit
  BY <1>1 DEF ProgramsInit, FULL_REFRESH, SHARING_ACL, FILE_CONTENTS, DESTINATION, REPAIR,
              CURSOR_SCOPE
<1>3. /\ valid = TRUE /\ phase = "idle" /\ left = {} /\ shown = F!Unshown /\ recovered = FALSE
      /\ page = {} /\ more = FALSE /\ emitted = {}
      /\ resets = [r \in F!Roots |-> 0] /\ touched = {} /\ faulted = FALSE /\ spent = 0
  BY <1>2 DEF F!FullRefreshInit
<1>4. stream \in F!Streams /\ mode \in F!Modes
  <2>1. PICK sync \in Syncs : stream = sync[1] /\ mode = sync[2]
    BY <1>2 DEF F!FullRefreshInit
  <2>2. sync \in F!Streams \X F!Modes
    BY ProgramsAssumption DEF F!FullRefreshAssumption
  <2>3. QED
    BY <2>1, <2>2
<1>5. roots \subseteq F!Roots /\ (mode # "all_accessible" => roots # {})
  <2>1. roots \in CASE mode = "current" -> {{Current}}
                   [] mode = "selected" -> (SUBSET Namespaces) \ {{}}
                   [] mode = "all_accessible" -> {{}}
    BY <1>2 DEF F!FullRefreshInit
  <2>2. CASE mode = "current"
    BY <2>1, <2>2 DEF F!Roots
  <2>3. CASE mode = "selected"
    BY <2>1, <2>3 DEF F!Roots
  <2>4. CASE mode = "all_accessible"
    BY <2>1, <2>4
  <2>5. QED
    BY <1>4, <2>2, <2>3, <2>4 DEF F!Modes
<1>6. thing \in [F!Roots -> [Things -> {F!Absent, F!Fresh, F!Elsewhere}]]
  BY <1>2 DEF F!FullRefreshInit
<1>7. ASSUME NEW r \in F!Roots, NEW t \in Things
      PROVE  thing[r][t] \in F!ThingStates /\ (thing[r][t].live => thing[r][t].version # 0)
  <2>1. thing[r][t] \in {F!Absent, F!Fresh, F!Elsewhere}
    BY <1>6
  <2>2. /\ F!Absent \in F!ThingStates /\ F!Absent.live = FALSE
        /\ F!Fresh \in F!ThingStates /\ F!Fresh.version = 1
        /\ F!Elsewhere \in F!ThingStates /\ F!Elsewhere.version = 2
    BY DEF F!Absent, F!Fresh, F!Elsewhere, F!ThingStates
  <2>3. QED
    BY <2>1, <2>2
<1>8. thing \in [F!Roots -> [Things -> F!ThingStates]]
  BY <1>6, <1>7
<1>9. F!FullRefreshTypeOK
  <2>1. spent \in 0 .. Budget
    BY <1>3, ProgramsAssumption DEF F!FullRefreshAssumption
  <2>2. F!Unshown \in [Things -> Nat] /\ resets \in [F!Roots -> Nat]
    BY <1>3 DEF F!Unshown
  <2>3. QED
    BY <1>3, <1>4, <1>5, <1>8, <2>1, <2>2 DEF F!FullRefreshTypeOK
<1>10. LiveHasVersion /\ PageFits /\ EmittedFits /\ CursorResets /\ F!FailsForCause
  BY <1>3, <1>7 DEF LiveHasVersion, PageFits, EmittedFits, CursorResets, F!FailsForCause
<1>11. ListingCovers
  BY <1>3 DEF ListingCovers
<1>12. QED
  BY <1>5, <1>9, <1>10, <1>11 DEF ListingInv

LEMMA ListingStep ==
  ASSUME ListingInv, [ProgramsNext]_programVars
  PROVE  ListingInv'
<1>1. CASE RunFullRefresh
  <2>1. program = FULL_REFRESH /\ F!FullRefreshNext
    BY <1>1 DEF RunFullRefresh
  <2>2. phase' # "idle"
    BY <2>1, SyncLeavesThings DEF F!FullRefreshNext, F!Change
  <2>3. QED
    BY <2>1, <2>2, ListingTypeKept, LiveHasVersionKept, PageFitsKept, ListingCoversKept,
       EmittedFitsKept, CursorResetsKept, ListingFailsKept DEF ListingInv
<1>2. CASE ~RunFullRefresh /\ ProgramsNext
  BY <1>2 DEF ProgramsNext, ListingInv, RunSharingAcl, RunRepair, RunFileContents,
              NotFileContents, RunDestination, RunCursorScope, FULL_REFRESH, SHARING_ACL,
              FILE_CONTENTS, DESTINATION, REPAIR, CURSOR_SCOPE
<1>3. CASE UNCHANGED programVars
  <2>1. UNCHANGED <<program, thing, valid, stream, mode, phase, roots, left, shown, recovered,
                    page, more, emitted, resets, touched, faulted, spent>>
    BY <1>3 DEF programVars, listings, walks, ofFullRefresh
  <2>2. F!Root' = F!Root
    BY <2>1, ListedRootStays
  <2>3. F!FullRefreshTypeOK => F!FullRefreshTypeOK'
    BY <2>1 DEF F!FullRefreshTypeOK
  <2>4. /\ LiveHasVersion => LiveHasVersion'
        /\ PageFits => PageFits'
        /\ EmittedFits => EmittedFits'
    BY <2>1, <2>2 DEF LiveHasVersion, PageFits, EmittedFits
  <2>5. ListingCovers => ListingCovers'
    BY <2>1, ListingCoversStays
  <2>6. (CursorResets => CursorResets') /\ (F!FailsForCause => F!FailsForCause')
    BY <2>1, <2>2 DEF CursorResets, F!FailsForCause, F!Differs
  <2>7. QED
    BY <2>1, <2>3, <2>4, <2>5, <2>6 DEF ListingInv
<1>4. QED
  BY <1>1, <1>2, <1>3

\* A sync that ends well has emitted everything that was there and did not change.
LEMMA ListingIsComplete ==
  ASSUME ListingInv, program = FULL_REFRESH
  PROVE  F!NothingSkipped
<1>1. ListingCovers
  BY DEF ListingInv
<1>2. ASSUME phase = "done", NEW r \in roots, NEW t \in Things, <<r, t>> \notin touched,
             F!Kept(t, thing[r][t])
      PROVE  Emits(r, t)
  BY <1>1, <1>2 DEF ListingCovers
<1>3. QED
  BY <1>2 DEF F!NothingSkipped, Emits
=============================================================================
