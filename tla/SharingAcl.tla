------------------------------ MODULE SharingAcl ------------------------------
(***************************************************************************)
(* The sharing_acl stream: the members of every shared folder that lies    *)
(* in the configured path.  Pages of folders (sharing.py) are read while   *)
(* the members of each folder are listed, page by page, through the client *)
(* of the namespace that showed the folder; a membership that was emitted  *)
(* is recognised, one that was emitted otherwise ends the sync.            *)
(*                                                                         *)
(* Dropbox is external: folders are renamed, moved and re-shared and       *)
(* cursors become invalid at any moment in between.                        *)
(***************************************************************************)
EXTENDS Integers, FiniteSets

CONSTANTS
    Namespaces,     \* namespace ids, numbered in their sort order
    SharedFolders,  \* shared-folder ids, numbered in the order a page lists them
    Members,
    NoFolder,       \* no folder at hand
    BaseClient,     \* the client of the configured root
    MountedAs,      \* bound: which folders the namespaces may show
    PageSize,       \* bound: entries of a page
    Budget          \* bound: how many disturbances there are in a behaviour

\* Shared folders as pages have them.
FolderRecords == [id : SharedFolders, path : Nat, inside : BOOLEAN]

\* Assumed by Programs.
SharingAclAssumption ==
    /\ Namespaces \subseteq Nat /\ SharedFolders \subseteq Nat
    /\ MountedAs \subseteq [Namespaces -> SUBSET SharedFolders]
    /\ NoFolder \notin FolderRecords /\ BaseClient \notin Namespaces
    /\ PageSize \in Nat /\ Budget \in Nat

VARIABLES
    acl,        \* Dropbox: path, place and member levels of each folder; level 0: no member
    visible,    \* Dropbox: the shared folders each namespace shows
    valid,      \* Dropbox: is the cursor of the folder listing valid?
    phase,      \* "idle", "list", "folders", "members", "read", "done", "failed"
    roots, left,        \* the namespaces of this sync, and those not yet listed
    listed,             \* the folders the listing has shown
    recovered,          \* reset_recovered
    folders, moreFolders,   \* what is left of the page of folders
    clients,            \* _shared_folder_clients
    folder,             \* the folder at hand, as its page had it
    via,                \* the client its members are listed through
    counted,            \* the members the listing at hand has shown
    page, moreMembers,  \* what is left of the page of members
    emitted,            \* seen: the records of this sync
    resets, touched, faulted,   \* history: as in FullRefresh
    spent               \* of the budget

aclVars == <<acl, visible, valid, phase, roots, left, listed, recovered, folders, moreFolders,
             clients, folder, via, counted, page, moreMembers, emitted, resets, touched,
              faulted, spent>>
dropbox == <<acl, visible>>
folderWalk == <<left, listed, recovered, folders, moreFolders>>
memberWalk == <<folder, via, counted, page, moreMembers>>
history == <<resets, touched, faulted>>

\* Bound: so many disturbances, of any kind, there are in a behaviour.
Disturb == spent < Budget /\ spent' = spent + 1
First(S) == CHOOSE x \in S : \A y \in S : x <= y
Root == First(left)
ListedAs(f) == [id |-> f, path |-> acl[f].path, inside |-> acl[f].inside]

-----------------------------------------------------------------------------
SharingAclInit ==
    /\ acl = [f \in SharedFolders |-> [path |-> 0, inside |-> TRUE,
                                       level |-> [m \in Members |-> 1]]]
    /\ visible \in MountedAs
    /\ valid = TRUE
    /\ phase = "idle" /\ roots = {} /\ left = {} /\ listed = {} /\ recovered = FALSE
    /\ folders = {} /\ moreFolders = FALSE
    /\ clients = [f \in SharedFolders |-> BaseClient]
    /\ folder = NoFolder /\ via = BaseClient /\ counted = {}
    /\ page = {} /\ moreMembers = FALSE
    /\ emitted = {}
    /\ resets = [r \in Namespaces |-> 0] /\ touched = {}
    /\ faulted = FALSE /\ spent = 0

AclStart ==
    /\ phase = "idle"
    /\ phase' = "list"
    /\ roots' \in (SUBSET Namespaces) \ {{}}
    /\ left' = roots'
    /\ UNCHANGED <<dropbox, valid, listed, recovered, folders, moreFolders, clients,
                   memberWalk, emitted, history, spent>>

\* Mutant: the client that showed a folder first is kept.
ClientsKept(shown) ==
    [f \in SharedFolders |-> IF f \in shown /\ clients[f] = BaseClient THEN Root ELSE clients[f]]

\* Each page leaves the client that listed it with every folder it shows.
ClientsOfPage(shown) == [f \in SharedFolders |-> IF f \in shown THEN Root ELSE clients[f]]

FetchFolders ==
    /\ phase = "list" /\ valid
    /\ LET pending == visible[Root] \ listed IN
         \E S \in SUBSET pending :
            /\ S = {} => pending = {}
            /\ Cardinality(S) <= PageSize
            /\ folders' = {ListedAs(f) : f \in S}
            /\ moreFolders' = (S # pending)
            /\ listed' = listed \cup S
            /\ clients' = ClientsOfPage(S)
    /\ phase' = "folders"
    /\ UNCHANGED <<dropbox, valid, roots, left, recovered, memberWalk, emitted, history, spent>>

\* The next folder of the page: out of the configured path it is passed over.
TakeFolder ==
    /\ phase = "folders"
    /\ \E f \in folders :
          /\ folders' = folders \ {f}
          /\ \/ /\ ~f.inside
                /\ UNCHANGED <<phase, folder, via, counted>>
             \/ /\ f.inside
                /\ phase' = "members"
                /\ folder' = f
                /\ via' = clients[f.id]
                /\ counted' = {}
    /\ UNCHANGED <<dropbox, valid, roots, left, listed, recovered, moreFolders, clients,
                   page, moreMembers, emitted, history, spent>>

FetchMembers ==
    /\ phase = "members"
    /\ LET pending == {m \in Members \ counted : acl[folder.id].level[m] # 0} IN
         \E S \in SUBSET pending :
            /\ S = {} => pending = {}
            /\ Cardinality(S) <= PageSize
            /\ page' = {[member |-> m, level |-> acl[folder.id].level[m]] : m \in S}
            /\ moreMembers' = (S # pending)
            /\ counted' = counted \cup S
    /\ phase' = "read"
    /\ UNCHANGED <<dropbox, valid, roots, folderWalk, clients, folder, via, emitted, history, spent>>

Record(x) == [folder |-> folder.id, path |-> folder.path, root |-> Root,
              member |-> x.member, level |-> x.level]

\* Mutant: the record itself, when it is read again, is a conflict.
ConflictingReplay(x) == {y \in emitted : y.folder = folder.id /\ y.member = x.member}

\* The other record under the same acl_key, resource and principal.
Conflicting(x) ==
    {y \in emitted : y.folder = folder.id /\ y.member = x.member} \ {Record(x)}

ReadMember ==
    /\ phase = "read"
    /\ \E x \in page :
          /\ page' = page \ {x}
          /\ \/ /\ Conflicting(x) = {}
                /\ emitted' = emitted \cup {Record(x)}
                /\ UNCHANGED phase
             \/ /\ Conflicting(x) # {}
                /\ phase' = "failed"
                /\ UNCHANGED emitted
    /\ UNCHANGED <<dropbox, valid, roots, folderWalk, clients, folder, via, counted,
                   moreMembers, history, spent>>

MembersRead ==
    /\ phase = "read" /\ page = {}
    /\ phase' = IF moreMembers THEN "members" ELSE "folders"
    /\ folder' = IF moreMembers THEN folder ELSE NoFolder
    /\ UNCHANGED <<dropbox, valid, roots, folderWalk, clients, via, counted, page,
                   moreMembers, emitted, history, spent>>

\* The page of folders is done: the next one, the next namespace, or the end.
FoldersRead ==
    /\ phase = "folders" /\ folders = {}
    /\ IF moreFolders THEN
           /\ phase' = "list"
           /\ UNCHANGED <<left, listed, recovered>>
       ELSE
           /\ left' = left \ {Root}
           /\ phase' = IF left' = {} THEN "done" ELSE "list"
           /\ listed' = {}
           /\ recovered' = FALSE
    /\ UNCHANGED <<dropbox, valid, roots, folders, moreFolders, clients, memberWalk,
                   emitted, history, spent>>

\* Mutant: the listing goes on behind the folders that were there before.
AclRestartBehind ==
    /\ phase = "list" /\ ~valid /\ ~recovered
    /\ valid' = TRUE
    /\ recovered' = TRUE
    /\ listed' = visible[Root]
    /\ UNCHANGED <<dropbox, phase, roots, left, folders, moreFolders, clients, memberWalk,
                   emitted, history, spent>>

AclRestart ==
    /\ phase = "list" /\ ~valid /\ ~recovered
    /\ valid' = TRUE
    /\ recovered' = TRUE
    /\ listed' = {}
    /\ UNCHANGED <<dropbox, phase, roots, left, folders, moreFolders, clients, memberWalk,
                   emitted, history, spent>>

AclRefuseReset ==
    /\ phase = "list" /\ ~valid /\ recovered
    /\ phase' = "failed"
    /\ UNCHANGED <<dropbox, valid, roots, folderWalk, clients, memberWalk, emitted, history, spent>>

\* A call raises, and the stream is gone: of a member listing, an invalid cursor does, too.
AclFault ==
    /\ phase \in {"list", "folders", "members", "read"}
    /\ Disturb
    /\ phase' = "failed" /\ faulted' = TRUE
    /\ left' = {} /\ listed' = {} /\ recovered' = FALSE /\ folders' = {} /\ moreFolders' = FALSE
    /\ clients' = [f \in SharedFolders |-> BaseClient]
    /\ folder' = NoFolder /\ via' = BaseClient /\ counted' = {}
    /\ page' = {} /\ moreMembers' = FALSE
    /\ UNCHANGED <<dropbox, valid, roots, emitted, resets, touched>>

AclSync ==
    \/ AclStart \/ FetchFolders \/ TakeFolder \/ FetchMembers \/ ReadMember
    \/ MembersRead \/ FoldersRead \/ AclRestart \/ AclRefuseReset

-----------------------------------------------------------------------------
\* A folder is renamed or moved, or a member leaves, joins again or gets another level.
ChangeAcl(f) ==
    /\ phase \in {"list", "folders", "members", "read"}
    /\ Disturb
    /\ \/ \E inside \in BOOLEAN :
             acl' = [acl EXCEPT ![f] = [path |-> @.path + 1, inside |-> inside,
                                        level |-> @.level]]
       \/ \E m \in Members, n \in {0, 2} :
             acl' = [acl EXCEPT ![f] = [path |-> @.path, inside |-> @.inside,
                                        level |-> [@.level EXCEPT ![m] = n]]]
    /\ touched' = touched \cup {f}
    /\ UNCHANGED <<visible, valid, phase, roots, folderWalk, clients, memberWalk, emitted, resets, faulted>>

AclInvalidate ==
    /\ phase = "folders" /\ moreFolders /\ valid
    /\ Disturb
    /\ valid' = FALSE
    /\ resets' = [resets EXCEPT ![Root] = @ + 1]
    /\ UNCHANGED <<dropbox, phase, roots, folderWalk, clients, memberWalk, emitted, touched, faulted>>

SharingAclNext ==
    \/ AclSync \/ AclFault \/ AclInvalidate
    \/ \E f \in SharedFolders : ChangeAcl(f)

-----------------------------------------------------------------------------
SharingAclTypeOK ==
    /\ acl \in [SharedFolders -> [path : Nat, inside : BOOLEAN, level : [Members -> 0 .. 2]]]
    /\ visible \in [Namespaces -> SUBSET SharedFolders] /\ valid \in BOOLEAN
    /\ phase \in {"idle", "list", "folders", "members", "read", "done", "failed"}
    /\ roots \subseteq Namespaces /\ left \subseteq roots
    /\ phase \in {"list", "folders", "members", "read"} => left # {}
    /\ listed \subseteq SharedFolders /\ recovered \in BOOLEAN
    /\ folders \subseteq FolderRecords /\ moreFolders \in BOOLEAN
    /\ clients \in [SharedFolders -> Namespaces \cup {BaseClient}]
    /\ folder \in FolderRecords \cup {NoFolder}
    /\ phase \in {"members", "read"} => folder # NoFolder
    /\ via \in Namespaces \cup {BaseClient}
    /\ counted \subseteq Members
    /\ page \subseteq [member : Members, level : 1 .. 2] /\ moreMembers \in BOOLEAN
    /\ emitted \subseteq [folder : SharedFolders, path : Nat, root : Namespaces,
                          member : Members, level : 1 .. 2]
    /\ resets \in [Namespaces -> Nat] /\ touched \subseteq SharedFolders
    /\ faulted \in BOOLEAN /\ spent \in 0 .. Budget

\* A sync that ends well has the members of every folder in scope that did not change
\* meanwhile, at their levels, also after folder pages were listed anew.
MembersComplete ==
    phase = "done" =>
        \A r \in roots : \A f \in visible[r] \ touched, m \in Members :
            acl[f].inside /\ acl[f].level[m] # 0 =>
                \E x \in emitted : /\ x.folder = f /\ x.member = m
                                   /\ x.path = acl[f].path /\ x.level = acl[f].level[m]

\* Members are asked for through the namespace whose page the folder is on, and never
\* through a client another namespace, or another page, left behind.
AskedWhereListed == phase \in {"members", "read"} => via = Root

\* A sync fails only when a call raised, the folder cursor was reset twice in one
\* namespace, a folder changed, or two namespaces of the sync show the same folder:
\* its records then differ in the namespace only.
AclFailsForCause ==
    phase = "failed" =>
        \/ faulted
        \/ resets[Root] >= 2
        \/ touched # {}
        \/ \E r, s \in roots : r # s /\ visible[r] \cap visible[s] # {}
=============================================================================
