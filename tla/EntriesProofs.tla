---------------------------- MODULE EntriesProofs ----------------------------
(***************************************************************************)
(* Proofs about Entries, for every set of namespaces and paths and every   *)
(* budget.                                                                 *)
(*                                                                         *)
(* EntriesTypeCorrect   Spec => []TypeOK                                   *)
(* CheckpointsCovered   Spec => []CheckpointCovers                         *)
(* CursorsKept          Spec => CursorsAreKept                             *)
(* NewsOnly             Spec => []OnlyNews                                 *)
(***************************************************************************)
EXTENDS Entries, WellFoundedInduction, SequenceTheorems, TLAPS

-----------------------------------------------------------------------------
(* The root at hand is the least one left.                                 *)

LEMMA FirstIsMember ==
  ASSUME NEW S \in SUBSET Nat, S # {}
  PROVE  First(S) \in S
<1> DEFINE R == OpToRel(<, Nat)
<1>1. IsWellFoundedOn(R, Nat)
  BY NatLessThanWellFounded
<1>2. \A x, y \in Nat : <<x, y>> \in R <=> x < y
  BY DEF OpToRel
<1> HIDE DEF R
<1>3. PICK x \in S : \A y \in S : ~ (<<y, x>> \in R)
  BY <1>1, WFMin
<1>4. ASSUME NEW y \in S PROVE x <= y
  <2>1. x \in Nat /\ y \in Nat
    OBVIOUS
  <2>2. ~ (y < x)
    BY <1>2, <1>3, <2>1
  <2>3. QED
    BY <2>1, <2>2
<1>5. QED
  BY <1>4 DEF First

LEMMA SelectionType ==
  ASSUME OutsideTypeOK
  PROVE  /\ selection # {} /\ selection \subseteq Roots /\ selection \subseteq Nat
         /\ IsMultiNamespace => selection \subseteq Namespaces
         /\ ~IsMultiNamespace => selection = {Current}
<1>1. Roots \subseteq Nat
  BY EntriesAssumption DEF EntriesAssumption
<1>2. CASE selection = {Current}
  BY <1>1, <1>2 DEF Roots, IsMultiNamespace
<1>3. CASE selection \subseteq Namespaces /\ selection # {}
  BY <1>1, <1>3 DEF Roots, IsMultiNamespace
<1>4. QED
  BY <1>2, <1>3 DEF OutsideTypeOK, Selections

LEMMA RootType ==
  ASSUME TypeOK, phase # "idle"
  PROVE  Root \in left /\ Root \in selection /\ Root \in Roots
<1>1. left \subseteq selection /\ left # {}
  BY DEF TypeOK, SyncTypeOK
<1>2. left \in SUBSET Nat /\ selection \subseteq Roots
  BY <1>1, SelectionType DEF TypeOK
<1>3. QED
  BY <1>1, <1>2, FirstIsMember DEF Root

-----------------------------------------------------------------------------
(* Types.                                                                  *)

LEMMA NoCursorsType == NoCursors \in States
  BY DEF NoCursors, States, Roots

LEMMA NoPageType ==
  /\ NoPage \in Pages
  /\ NoPage.cursor = NoCursor /\ NoPage.unread = {} /\ NoPage.paths = {}
  BY DEF NoPage, Pages

LEMMA EndSyncType ==
  ASSUME EndSync
  PROVE  SyncTypeOK'
  BY NoCursorsType, NoPageType DEF EndSync, SyncTypeOK

LEMMA CheckpointPageType ==
  ASSUME TypeOK, phase = "read"
  PROVE  CheckpointPage(Root, page.cursor) \in States
<1>1. Root \in selection /\ Root \in Roots
  BY RootType
<1>2. page.cursor \in Cursor
  BY DEF TypeOK, SyncTypeOK, Pages
<1>3. state \in States
  BY DEF TypeOK, SyncTypeOK
<1>4. CASE IsMultiNamespace
  <2>1. Root # Current
    BY <1>1, <1>4, SelectionType, EntriesAssumption DEF TypeOK, EntriesAssumption
  <2>2. QED
    BY <1>1, <1>2, <1>3, <1>4, <2>1 DEF CheckpointPage, States, Roots
<1>5. CASE ~IsMultiNamespace
  <2>1. Root = Current
    BY <1>1, <1>5, SelectionType DEF TypeOK
  <2>2. Current \notin Namespaces
    BY EntriesAssumption DEF EntriesAssumption
  <2>3. QED
    BY <1>2, <1>5, <2>1, <2>2 DEF CheckpointPage, States, NoCursors, Roots
<1>6. QED
  BY <1>4, <1>5

LEMMA NextPageType ==
  ASSUME TypeOK, phase = "read", NEW s \in States, NextPage(s), selection' = selection
  PROVE  SyncTypeOK'
<1>1. Root \in left /\ Root \in Roots
  BY RootType
<1>2. page.cursor \in Cursor /\ page.cursor # NoCursor
  BY DEF TypeOK, SyncTypeOK, Pages
<1>3. left \subseteq selection /\ left # {} /\ recovered \in BOOLEAN
  BY <1>1 DEF TypeOK, SyncTypeOK
<1>4. CASE page.more
  BY <1>2, <1>3, <1>4, NoPageType DEF NextPage, SyncTypeOK
<1>5. CASE ~page.more /\ left # {Root}
  <2>1. left \ {Root} # {} /\ left \ {Root} \subseteq selection
    BY <1>1, <1>3, <1>5
  <2>2. selection \subseteq Roots /\ selection \subseteq Nat
    BY SelectionType DEF TypeOK
  <2>3. First(left \ {Root}) \in Roots
    BY <2>1, <2>2, FirstIsMember
  <2>4. s[First(left \ {Root})] \in Cursor \cup {NoCursor}
    BY <2>3 DEF States
  <2>5. QED
    BY <1>5, <2>1, <2>4, NoPageType DEF NextPage, SyncTypeOK
<1>6. CASE ~page.more /\ left = {Root}
  BY <1>6, EndSyncType DEF NextPage
<1>7. QED
  BY <1>4, <1>5, <1>6

LEMMA SyncTypeKept ==
  ASSUME SyncTypeOK, UNCHANGED <<syncVars, selection>>
  PROVE  SyncTypeOK'
  BY DEF SyncTypeOK, syncVars, Pages

LEMMA SentTypes ==
  ASSUME TypeOK
  PROVE  /\ \A s \in States : Append(channel, StateMsg(s)) \in Seq(Messages)
         /\ channel # <<>> => /\ Head(channel) \in Messages
                              /\ Tail(channel) \in Seq(Messages)
<1>1. channel \in Seq(Messages)
  BY DEF TypeOK, OutsideTypeOK
<1>2. \A s \in States : StateMsg(s) \in Messages
  BY DEF StateMsg, Messages
<1> HIDE DEF Messages
<1>3. QED
  BY <1>1, <1>2

LEMMA InitType == Init => TypeOK
<1> SUFFICES ASSUME Init PROVE TypeOK
  OBVIOUS
<1>1. SyncTypeOK
  BY NoCursorsType, NoPageType DEF Init, SyncTypeOK
<1>2. OutsideTypeOK
  BY NoCursorsType DEF Init, OutsideTypeOK, Events
<1>3. QED
  BY <1>1, <1>2 DEF TypeOK

\* An action that leaves Dropbox and the platform alone.
LEMMA SyncStepType ==
  ASSUME TypeOK, UNCHANGED <<dropboxVars, platformVars, dest>>,
         channel' \in Seq(Messages), spent' \in [Events -> Nat], SyncTypeOK'
  PROVE  TypeOK'
  BY DEF TypeOK, OutsideTypeOK, dropboxVars, platformVars

LEMMA SpendType ==
  ASSUME TypeOK, NEW e \in Events, Spend(e)
  PROVE  spent' \in [Events -> Nat]
  BY DEF TypeOK, OutsideTypeOK, Spend

LEMMA NextType == TypeOK /\ [Next]_vars => TypeOK'
<1> SUFFICES ASSUME TypeOK, [Next]_vars PROVE TypeOK'
  OBVIOUS
<1> USE DEF TypeOK
<1>0. channel \in Seq(Messages) /\ spent \in [Events -> Nat]
  BY DEF OutsideTypeOK
<1>1. CASE Start
  <2>1. saved \in States /\ selection \subseteq Roots /\ selection \subseteq Nat /\ selection # {}
    BY SelectionType DEF OutsideTypeOK
  <2>2. First(selection) \in Roots
    BY <2>1, FirstIsMember
  <2>3. saved[First(selection)] \in Cursor \cup {NoCursor}
    BY <2>1, <2>2 DEF States
  <2>4. SyncTypeOK'
    BY <1>1, <2>1, <2>3, NoPageType DEF Start, SyncTypeOK, platformVars
  <2>5. QED
    BY <1>0, <1>1, <2>4, SyncStepType DEF Start
<1>2. CASE FetchPage
  <2>1. Root \in Roots
    BY <1>2, RootType DEF FetchPage
  <2>2. folder[Root] \in [Paths -> Nat] /\ epoch[Root] \in Nat
    BY <2>1 DEF OutsideTypeOK
  <2>3. Shown \in [Paths -> Nat]
    BY DEF Shown, SyncTypeOK, Cursor
  <2>4. PICK S \in SUBSET Pending :
           page' = [cursor |-> [epoch |-> epoch[Root],
                                shown |-> [p \in Paths |-> IF p \in S THEN folder[Root][p]
                                                           ELSE Shown[p]]],
                    paths |-> S, unread |-> S, more |-> S # Pending]
    BY <1>2 DEF FetchPage
  <2>5. S \subseteq Paths
    BY DEF Pending
  <2>6. page'.cursor \in Cursor
    BY <2>2, <2>3, <2>4 DEF Cursor
  <2>7. page'.cursor # NoCursor
    BY <2>6, EntriesAssumption DEF EntriesAssumption
  <2>8. page' \in Pages /\ page'.unread \subseteq page'.paths
    BY <2>4, <2>5, <2>6 DEF Pages
  <2>9. SyncTypeOK'
    BY <1>2, <2>7, <2>8 DEF FetchPage, SyncTypeOK, platformVars
  <2>10. QED
    BY <1>0, <1>2, <2>9, SyncStepType DEF FetchPage
<1>3. CASE RestartListing
  <2>1. SyncTypeOK'
    BY <1>3 DEF RestartListing, SyncTypeOK, platformVars, Pages
  <2>2. QED
    BY <1>0, <1>3, <2>1, SyncStepType DEF RestartListing
<1>4. CASE RefuseSecondReset
  BY <1>0, <1>4, EndSyncType, SyncStepType DEF RefuseSecondReset
<1>5. CASE ReadRecord
  <2>1. Root \in Roots
    BY <1>5, RootType DEF ReadRecord
  <2>2. page \in Pages /\ page.unread \subseteq page.paths /\ page.cursor # NoCursor
    BY <1>5 DEF ReadRecord, SyncTypeOK
  <2>3. page.unread \in SUBSET Nat /\ page.unread # {} /\ page.unread \subseteq Paths
    BY <1>5, <2>2, EntriesAssumption DEF ReadRecord, Pages, EntriesAssumption
  <2>4. First(page.unread) \in Paths
    BY <2>3, FirstIsMember
  <2>5. page.cursor.shown[First(page.unread)] \in Nat
    BY <2>2, <2>4 DEF Pages, Cursor
  <2>6. RecordMsg(Root, First(page.unread), page.cursor.shown[First(page.unread)]) \in Messages
    BY <2>1, <2>4, <2>5 DEF RecordMsg, Messages
  <2>7. channel' \in Seq(Messages)
    BY <1>0, <1>5, <2>6 DEF ReadRecord
  <2>8. page' = [page EXCEPT !.unread = @ \ {First(page.unread)}]
    BY <1>5 DEF ReadRecord
  <2>9. /\ page' \in Pages /\ page'.cursor = page.cursor
        /\ page'.unread \subseteq page'.paths
    BY <2>2, <2>8 DEF Pages
  <2>10. SyncTypeOK'
    BY <1>5, <2>2, <2>9 DEF ReadRecord, SyncTypeOK, platformVars
  <2>11. QED
    BY <1>0, <1>5, <2>7, <2>10, SyncStepType DEF ReadRecord
<1>6. CASE Checkpoint
  <2> DEFINE s == CheckpointPage(Root, page.cursor)
  <2>1. s \in States
    BY <1>6, CheckpointPageType DEF Checkpoint
  <2>2. channel' = Append(channel, StateMsg(s)) /\ NextPage(s) /\ phase = "read"
    BY <1>6 DEF Checkpoint
  <2>3. selection' = selection
    BY <1>6 DEF Checkpoint, platformVars
  <2> HIDE DEF s
  <2>4. SyncTypeOK'
    BY <2>1, <2>2, <2>3, NextPageType
  <2>5. channel' \in Seq(Messages)
    BY <2>1, <2>2, SentTypes
  <2>6. QED
    BY <1>0, <1>6, <2>4, <2>5, SyncStepType DEF Checkpoint
<1>7. CASE StopMidPage
  <2>1. state \in States
    BY DEF SyncTypeOK
  <2>2. selection' = selection /\ phase = "read" /\ channel' = Append(channel, StateMsg(state))
    BY <1>7 DEF StopMidPage, platformVars
  <2>3. NextPage(state) \/ EndSync
    BY <1>7 DEF StopMidPage
  <2>4. SyncTypeOK'
    BY <2>1, <2>2, <2>3, NextPageType, EndSyncType
  <2>5. channel' \in Seq(Messages)
    BY <2>1, <2>2, SentTypes
  <2>6. spent' \in [Events -> Nat]
    BY <1>7, SpendType DEF StopMidPage, Events
  <2>7. QED
    BY <1>7, <2>4, <2>5, <2>6, SyncStepType DEF StopMidPage
<1>8. CASE Fail
  <2>1. spent' \in [Events -> Nat]
    BY <1>8, SpendType DEF Fail, Events
  <2>2. QED
    BY <1>0, <1>8, <2>1, EndSyncType, SyncStepType DEF Fail
<1>9. CASE Kill
  <2>1. spent' \in [Events -> Nat]
    BY <1>9, SpendType DEF Kill, Events
  <2>2. QED
    BY <1>9, <2>1, EndSyncType, SyncStepType DEF Kill
<1>10. CASE DeliverRecord
  <2>1. Head(channel) \in Messages /\ Tail(channel) \in Seq(Messages)
    BY <1>10, SentTypes DEF DeliverRecord
  <2>2. /\ Head(channel).root \in Roots /\ Head(channel).path \in Paths
        /\ Head(channel).version \in Nat
    BY <1>10, <2>1 DEF DeliverRecord, Messages
  <2>3. dest' \in [Roots -> [Paths -> Nat]]
    BY <1>10, <2>2 DEF DeliverRecord, OutsideTypeOK
  <2>4. SyncTypeOK'
    BY <1>10, SyncTypeKept DEF DeliverRecord, platformVars
  <2>5. QED
    BY <1>10, <2>1, <2>3, <2>4 DEF DeliverRecord, OutsideTypeOK, dropboxVars, platformVars
<1>11. CASE DeliverState
  <2>1. Head(channel) \in Messages /\ Tail(channel) \in Seq(Messages)
    BY <1>11, SentTypes DEF DeliverState
  <2>2. saved' \in States
    BY <1>11, <2>1 DEF DeliverState, Messages
  <2>3. SyncTypeOK'
    BY <1>11, SyncTypeKept DEF DeliverState
  <2>4. QED
    BY <1>11, <2>1, <2>2, <2>3 DEF DeliverState, OutsideTypeOK, dropboxVars
<1>12. CASE Select
  <2>1. spent' \in [Events -> Nat]
    BY <1>12, SpendType DEF Select, Events
  <2>2. SyncTypeOK'
    BY <1>12 DEF Select, SyncTypeOK, syncVars, Pages
  <2>3. QED
    BY <1>12, <2>1, <2>2 DEF Select, OutsideTypeOK, dropboxVars
<1>13. CASE ResetState
  <2>1. SyncTypeOK'
    BY <1>13, SyncTypeKept DEF ResetState
  <2>2. QED
    BY <1>13, <2>1, NoCursorsType DEF ResetState, OutsideTypeOK, dropboxVars
<1>14. ASSUME NEW r \in Roots, NEW p \in Paths, Change(r, p) PROVE TypeOK'
  <2>1. spent' \in [Events -> Nat]
    BY <1>14, SpendType DEF Change, Events
  <2>2. folder' \in [Roots -> [Paths -> Nat]]
    BY <1>14 DEF Change, OutsideTypeOK
  <2>3. SyncTypeOK'
    BY <1>14, SyncTypeKept DEF Change, platformVars
  <2>4. QED
    BY <1>14, <2>1, <2>2, <2>3 DEF Change, OutsideTypeOK, platformVars
<1>15. ASSUME NEW r \in Roots, Invalidate(r) PROVE TypeOK'
  <2>1. spent' \in [Events -> Nat]
    BY <1>15, SpendType DEF Invalidate, Events
  <2>2. epoch' \in [Roots -> Nat]
    BY <1>15 DEF Invalidate, OutsideTypeOK
  <2>3. SyncTypeOK'
    BY <1>15, SyncTypeKept DEF Invalidate, platformVars
  <2>4. QED
    BY <1>15, <2>1, <2>2, <2>3 DEF Invalidate, OutsideTypeOK, platformVars
<1>16. CASE UNCHANGED vars
  <2>1. SyncTypeOK'
    BY <1>16, SyncTypeKept DEF vars, syncVars
  <2>2. QED
    BY <1>16, <2>1 DEF vars, OutsideTypeOK
<1>17. QED
  BY <1>1, <1>2, <1>3, <1>4, <1>5, <1>6, <1>7, <1>8, <1>9, <1>10, <1>11, <1>12, <1>13,
     <1>14, <1>15, <1>16 DEF Next, Sync, Deliver

\* Every variable keeps its type, no state mixes the cursors of the two modes, and
\* a page is at hand only while a root of the selection is read.
THEOREM EntriesTypeCorrect == Spec => []TypeOK
<1>1. Init => TypeOK
  BY InitType
<1>2. TypeOK /\ [Next]_vars => TypeOK'
  BY NextType
<1>3. QED
  BY <1>1, <1>2, PTL DEF Spec

-----------------------------------------------------------------------------
(* The invariant behind CheckpointCovers has two halves.                   *)
(*                                                                         *)
(* What arrives does not go back: on each path, the destination, then the  *)
(* records on their way, then the page at hand, then the folder are in     *)
(* order.                                                                  *)
(*                                                                         *)
(* What a cursor has shown has arrived or is on its way, ahead of the      *)
(* state that speaks of it.                                                *)

IsRecord(m, r, p) == m.kind = "record" /\ m.root = r /\ m.path = p

\* Neither the destination d nor the channel ch is beyond version v of a path.
NotBeyond(d, ch, r, p, v) ==
    /\ d[r][p] <= v
    /\ \A i \in 1 .. Len(ch) : IsRecord(ch[i], r, p) => ch[i].version <= v

InOrder(d, ch) ==
    /\ \A i \in 1 .. Len(ch) : \A r \in Roots, p \in Paths :
          IsRecord(ch[i], r, p) => d[r][p] <= ch[i].version
    /\ \A i, j \in 1 .. Len(ch) : \A r \in Roots, p \in Paths :
          i < j /\ IsRecord(ch[i], r, p) /\ IsRecord(ch[j], r, p) =>
             ch[i].version <= ch[j].version

ChannelInv ==
    /\ InOrder(dest, channel)
    /\ \A r \in Roots, p \in Paths : NotBeyond(dest, channel, r, p, folder[r][p])

PageInv ==
    phase = "read" => \A p \in page.unread :
        /\ page.cursor.shown[p] <= folder[Root][p]
        /\ NotBeyond(dest, channel, Root, p, page.cursor.shown[p])

\* Version v has arrived, or is among the first n messages.
Sent(d, ch, n, r, p, v) ==
    \/ v <= d[r][p]
    \/ \E j \in 1 .. n : IsRecord(ch[j], r, p) /\ v <= ch[j].version

CursorSent(d, ch, n, r, c) == c # NoCursor => \A p \in Paths : Sent(d, ch, n, r, p, c.shown[p])
StateSent(d, ch, n, s) == \A r \in Roots : CursorSent(d, ch, n, r, s[r])

StatesSent(d, ch) ==
    \A i \in 1 .. Len(ch) : ch[i].kind = "state" => StateSent(d, ch, i - 1, ch[i].state)

PlatformInv == StateSent(dest, channel, 0, saved) /\ StatesSent(dest, channel)

SyncInv ==
    /\ StateSent(dest, channel, Len(channel), state)
    /\ CursorSent(dest, channel, Len(channel), Root, at)
    /\ phase = "read" => \A p \in Paths \ page.unread :
          Sent(dest, channel, Len(channel), Root, p, page.cursor.shown[p])

CoverInv == TypeOK /\ ChannelInv /\ PageInv /\ PlatformInv /\ SyncInv

-----------------------------------------------------------------------------
(* Messages.                                                               *)

Arrived == [Roots -> [Paths -> Nat]]

LEMMA RecordType ==
  ASSUME NEW m \in Messages, NEW r, NEW p, IsRecord(m, r, p)
  PROVE  r \in Roots /\ p \in Paths /\ m.version \in Nat
  BY DEF Messages, IsRecord

LEMMA AppendType ==
  ASSUME NEW ch \in Seq(Messages), NEW m \in Messages
  PROVE  /\ Append(ch, m) \in Seq(Messages)
         /\ Len(Append(ch, m)) = Len(ch) + 1
         /\ \A i \in 1 .. Len(ch) : Append(ch, m)[i] = ch[i]
         /\ Append(ch, m)[Len(ch) + 1] = m
<1> HIDE DEF Messages
<1>1. QED
  OBVIOUS

LEMMA TailType ==
  ASSUME NEW ch \in Seq(Messages), ch # <<>>
  PROVE  /\ Tail(ch) \in Seq(Messages)
         /\ Len(ch) \in Nat /\ Len(ch) >= 1
         /\ Len(Tail(ch)) = Len(ch) - 1
         /\ \A i \in 1 .. Len(ch) - 1 : Tail(ch)[i] = ch[i + 1]
         /\ Head(ch) = ch[1] /\ Head(ch) \in Messages
<1> HIDE DEF Messages
<1>1. QED
  OBVIOUS

\* What was sent, of n messages at first, is sent of k now.
Carried(d, ch, n, d2, ch2, k) ==
    \A r \in Roots, p \in Paths, v \in Nat : Sent(d, ch, n, r, p, v) => Sent(d2, ch2, k, r, p, v)

LEMMA AppendCarries ==
  ASSUME NEW d, NEW ch \in Seq(Messages), NEW m \in Messages,
         NEW n \in 0 .. Len(ch), NEW k \in n .. (Len(ch) + 1)
  PROVE  Carried(d, ch, n, d, Append(ch, m), k)
<1> DEFINE ch2 == Append(ch, m)
<1>1. \A i \in 1 .. Len(ch) : ch2[i] = ch[i]
  BY AppendType
<1>2. Len(ch) \in Nat
  OBVIOUS
<1> HIDE DEF ch2
<1>3. ASSUME NEW r \in Roots, NEW p \in Paths, NEW v \in Nat, Sent(d, ch, n, r, p, v)
      PROVE  Sent(d, ch2, k, r, p, v)
  <2>1. CASE v <= d[r][p]
    BY <2>1 DEF Sent
  <2>2. CASE \E j \in 1 .. n : IsRecord(ch[j], r, p) /\ v <= ch[j].version
    <3>1. PICK j \in 1 .. n : IsRecord(ch[j], r, p) /\ v <= ch[j].version
      BY <2>2
    <3>2. j \in 1 .. k /\ j \in 1 .. Len(ch)
      BY <1>2
    <3>3. ch2[j] = ch[j]
      BY <1>1, <3>2
    <3>4. QED
      BY <3>1, <3>2, <3>3 DEF Sent
  <2>3. QED
    BY <1>3, <2>1, <2>2 DEF Sent
<1>4. QED
  BY <1>3 DEF Carried, ch2

\* A delivery: the destination takes up the first message.
LEMMA DeliveryCarries ==
  ASSUME NEW d \in Arrived, NEW d2 \in Arrived,
         NEW ch \in Seq(Messages), ch # <<>>,
         \A r \in Roots, p \in Paths : d[r][p] <= d2[r][p],
         \A r \in Roots, p \in Paths : IsRecord(Head(ch), r, p) => d2[r][p] = Head(ch).version,
         NEW n \in 0 .. Len(ch)
  PROVE  Carried(d, ch, n, d2, Tail(ch), IF n = 0 THEN 0 ELSE n - 1)
<1> DEFINE ch2 == Tail(ch)
           k == IF n = 0 THEN 0 ELSE n - 1
<1>1. /\ Len(ch) \in Nat
      /\ \A i \in 1 .. Len(ch) - 1 : ch2[i] = ch[i + 1]
      /\ Head(ch) = ch[1]
  BY TailType
<1> HIDE DEF ch2
<1>2. ASSUME NEW r \in Roots, NEW p \in Paths, NEW v \in Nat, Sent(d, ch, n, r, p, v)
      PROVE  Sent(d2, ch2, k, r, p, v)
  <2>1. d[r][p] \in Nat /\ d2[r][p] \in Nat /\ d[r][p] <= d2[r][p]
    BY DEF Arrived
  <2>2. CASE v <= d[r][p]
    BY <2>1, <2>2 DEF Sent
  <2>3. CASE \E j \in 1 .. n : IsRecord(ch[j], r, p) /\ v <= ch[j].version
    <3>1. PICK j \in 1 .. n : IsRecord(ch[j], r, p) /\ v <= ch[j].version
      BY <2>3
    <3>2. CASE j = 1
      BY <1>1, <3>1, <3>2 DEF Sent
    <3>3. CASE j # 1
      <4>1. j - 1 \in 1 .. k /\ j - 1 \in 1 .. Len(ch) - 1 /\ (j - 1) + 1 = j
        BY <1>1, <3>3
      <4>2. ch2[j - 1] = ch[j]
        BY <1>1, <4>1
      <4>3. QED
        BY <3>1, <4>1, <4>2 DEF Sent
    <3>4. QED
      BY <3>2, <3>3
  <2>4. QED
    BY <1>2, <2>2, <2>3 DEF Sent
<1>3. QED
  BY <1>2 DEF Carried, ch2

LEMMA CarriedCursor ==
  ASSUME NEW d, NEW ch, NEW n, NEW d2, NEW ch2, NEW k, Carried(d, ch, n, d2, ch2, k),
         NEW r \in Roots, NEW c \in Cursor \cup {NoCursor}, CursorSent(d, ch, n, r, c)
  PROVE  CursorSent(d2, ch2, k, r, c)
<1> SUFFICES ASSUME c # NoCursor, NEW p \in Paths PROVE Sent(d2, ch2, k, r, p, c.shown[p])
  BY DEF CursorSent
<1>1. c.shown[p] \in Nat
  BY DEF Cursor
<1>2. Sent(d, ch, n, r, p, c.shown[p])
  BY DEF CursorSent
<1>3. QED
  BY <1>1, <1>2 DEF Carried

LEMMA CarriedState ==
  ASSUME NEW d, NEW ch, NEW n, NEW d2, NEW ch2, NEW k, Carried(d, ch, n, d2, ch2, k),
         NEW s \in States, StateSent(d, ch, n, s)
  PROVE  StateSent(d2, ch2, k, s)
<1>1. ASSUME NEW r \in Roots PROVE CursorSent(d2, ch2, k, r, s[r])
  <2>1. s[r] \in Cursor \cup {NoCursor}
    BY DEF States
  <2>2. CursorSent(d, ch, n, r, s[r])
    BY DEF StateSent
  <2>3. QED
    BY <2>1, <2>2, CarriedCursor
<1>2. QED
  BY <1>1 DEF StateSent

LEMMA AppendOrder ==
  ASSUME NEW d, NEW ch \in Seq(Messages), NEW m \in Messages, InOrder(d, ch),
         \A r \in Roots, p \in Paths : IsRecord(m, r, p) => NotBeyond(d, ch, r, p, m.version)
  PROVE  InOrder(d, Append(ch, m))
<1> DEFINE ch2 == Append(ch, m)
<1>1. /\ Len(ch) \in Nat /\ Len(ch2) = Len(ch) + 1
      /\ \A i \in 1 .. Len(ch) : ch2[i] = ch[i]
      /\ ch2[Len(ch) + 1] = m
  BY AppendType
<1> HIDE DEF ch2
<1>2. ASSUME NEW i \in 1 .. Len(ch2), NEW r \in Roots, NEW p \in Paths, IsRecord(ch2[i], r, p)
      PROVE  d[r][p] <= ch2[i].version
  <2>1. CASE i \in 1 .. Len(ch)
    BY <1>1, <1>2, <2>1 DEF InOrder
  <2>2. CASE i = Len(ch) + 1
    BY <1>1, <1>2, <2>2 DEF NotBeyond
  <2>3. QED
    BY <1>1, <2>1, <2>2
<1>3. ASSUME NEW i \in 1 .. Len(ch2), NEW j \in 1 .. Len(ch2), NEW r \in Roots, NEW p \in Paths,
             i < j, IsRecord(ch2[i], r, p), IsRecord(ch2[j], r, p)
      PROVE  ch2[i].version <= ch2[j].version
  <2>1. i \in 1 .. Len(ch)
    BY <1>1, <1>3
  <2>2. CASE j \in 1 .. Len(ch)
    BY <1>1, <1>3, <2>1, <2>2 DEF InOrder
  <2>3. CASE j = Len(ch) + 1
    BY <1>1, <1>3, <2>1, <2>3 DEF NotBeyond
  <2>4. QED
    BY <1>1, <2>2, <2>3
<1>4. QED
  BY <1>2, <1>3 DEF InOrder, ch2

LEMMA AppendBeyond ==
  ASSUME NEW d, NEW ch \in Seq(Messages), NEW m \in Messages,
         NEW r, NEW p, NEW v, NotBeyond(d, ch, r, p, v),
         IsRecord(m, r, p) => m.version <= v
  PROVE  NotBeyond(d, Append(ch, m), r, p, v)
<1> DEFINE ch2 == Append(ch, m)
<1>1. /\ Len(ch) \in Nat /\ Len(ch2) = Len(ch) + 1
      /\ \A i \in 1 .. Len(ch) : ch2[i] = ch[i]
      /\ ch2[Len(ch) + 1] = m
  BY AppendType
<1> HIDE DEF ch2
<1>2. ASSUME NEW i \in 1 .. Len(ch2), IsRecord(ch2[i], r, p) PROVE ch2[i].version <= v
  <2>1. CASE i \in 1 .. Len(ch)
    BY <1>1, <1>2, <2>1 DEF NotBeyond
  <2>2. CASE i = Len(ch) + 1
    BY <1>1, <1>2, <2>2
  <2>3. QED
    BY <1>1, <2>1, <2>2
<1>3. QED
  BY <1>2 DEF NotBeyond, ch2

\* The destination d2 is d with the first message taken up.
TakenUp(d, d2, ch) ==
    \A r \in Roots, p \in Paths :
        d2[r][p] = IF IsRecord(Head(ch), r, p) THEN Head(ch).version ELSE d[r][p]

LEMMA DeliveryOrder ==
  ASSUME NEW d \in Arrived, NEW d2 \in Arrived, NEW ch \in Seq(Messages), ch # <<>>,
         InOrder(d, ch), TakenUp(d, d2, ch)
  PROVE  /\ \A r \in Roots, p \in Paths : d[r][p] <= d2[r][p]
         /\ InOrder(d2, Tail(ch))
         /\ \A r \in Roots, p \in Paths : \A v :
               NotBeyond(d, ch, r, p, v) => NotBeyond(d2, Tail(ch), r, p, v)
<1> DEFINE ch2 == Tail(ch)
<1>1. /\ Len(ch) \in Nat /\ Len(ch) >= 1
      /\ Len(ch2) = Len(ch) - 1
      /\ \A i \in 1 .. Len(ch) - 1 : ch2[i] = ch[i + 1]
      /\ Head(ch) = ch[1]
  BY TailType
<1> HIDE DEF ch2
<1>2. ASSUME NEW r \in Roots, NEW p \in Paths
      PROVE  d[r][p] \in Nat /\ d2[r][p] \in Nat /\ d[r][p] <= d2[r][p]
  <2>1. d[r][p] \in Nat /\ d2[r][p] \in Nat
    BY DEF Arrived
  <2>2. CASE IsRecord(Head(ch), r, p)
    <3>1. d2[r][p] = ch[1].version /\ IsRecord(ch[1], r, p)
      BY <1>1, <2>2 DEF TakenUp
    <3>2. d[r][p] <= ch[1].version
      BY <1>1, <3>1 DEF InOrder
    <3>3. QED
      BY <2>1, <3>1, <3>2
  <2>3. CASE ~IsRecord(Head(ch), r, p)
    BY <2>1, <2>3 DEF TakenUp
  <2>4. QED
    BY <2>2, <2>3
<1>3. ASSUME NEW i \in 1 .. Len(ch2) PROVE i + 1 \in 1 .. Len(ch) /\ 1 < i + 1 /\ ch2[i] = ch[i + 1]
  BY <1>1
<1>4. ASSUME NEW i \in 1 .. Len(ch2), NEW r \in Roots, NEW p \in Paths, IsRecord(ch2[i], r, p)
      PROVE  d2[r][p] <= ch2[i].version
  <2>1. CASE IsRecord(Head(ch), r, p)
    BY <1>1, <1>3, <1>4, <2>1 DEF TakenUp, InOrder
  <2>2. CASE ~IsRecord(Head(ch), r, p)
    BY <1>1, <1>3, <1>4, <2>2 DEF TakenUp, InOrder
  <2>3. QED
    BY <2>1, <2>2
<1>5. ASSUME NEW i \in 1 .. Len(ch2), NEW j \in 1 .. Len(ch2), NEW r \in Roots, NEW p \in Paths,
             i < j, IsRecord(ch2[i], r, p), IsRecord(ch2[j], r, p)
      PROVE  ch2[i].version <= ch2[j].version
  <2>1. i + 1 < j + 1
    BY <1>5
  <2>2. QED
    BY <1>3, <1>5, <2>1 DEF InOrder
<1>6. ASSUME NEW r \in Roots, NEW p \in Paths, NEW v, NotBeyond(d, ch, r, p, v)
      PROVE  NotBeyond(d2, ch2, r, p, v)
  <2>1. d2[r][p] <= v
    <3>1. CASE IsRecord(Head(ch), r, p)
      BY <1>1, <1>6, <3>1 DEF TakenUp, NotBeyond
    <3>2. CASE ~IsRecord(Head(ch), r, p)
      BY <1>6, <3>2 DEF TakenUp, NotBeyond
    <3>3. QED
      BY <3>1, <3>2
  <2>2. ASSUME NEW i \in 1 .. Len(ch2), IsRecord(ch2[i], r, p) PROVE ch2[i].version <= v
    BY <1>3, <1>6, <2>2 DEF NotBeyond
  <2>3. QED
    BY <2>1, <2>2 DEF NotBeyond
<1>7. QED
  BY <1>2, <1>4, <1>5, <1>6 DEF InOrder, ch2

LEMMA AppendStates ==
  ASSUME NEW d, NEW ch \in Seq(Messages), NEW m \in Messages, StatesSent(d, ch),
         m.kind = "state" => StateSent(d, ch, Len(ch), m.state)
  PROVE  StatesSent(d, Append(ch, m))
<1> DEFINE ch2 == Append(ch, m)
<1>1. /\ Len(ch) \in Nat /\ Len(ch2) = Len(ch) + 1
      /\ \A i \in 1 .. Len(ch) : ch2[i] = ch[i]
      /\ ch2[Len(ch) + 1] = m
  BY AppendType
<1>2. \A n \in 0 .. Len(ch) : Carried(d, ch, n, d, ch2, n)
  BY <1>1, AppendCarries
<1> HIDE DEF ch2
<1>3. ASSUME NEW i \in 1 .. Len(ch2), ch2[i].kind = "state"
      PROVE  StateSent(d, ch2, i - 1, ch2[i].state)
  <2>1. CASE i \in 1 .. Len(ch)
    <3>1. ch[i] \in Messages /\ ch2[i] = ch[i] /\ ch[i].kind = "state"
      BY <1>1, <1>3, <2>1
    <3>2. ch[i].state \in States
      BY <3>1 DEF Messages
    <3>3. StateSent(d, ch, i - 1, ch[i].state)
      BY <2>1, <3>1 DEF StatesSent
    <3>4. Carried(d, ch, i - 1, d, ch2, i - 1)
      BY <1>1, <1>2, <2>1
    <3>5. QED
      BY <3>1, <3>2, <3>3, <3>4, CarriedState
  <2>2. CASE i = Len(ch) + 1
    <3>1. ch2[i] = m /\ m.kind = "state" /\ i - 1 = Len(ch)
      BY <1>1, <1>3, <2>2
    <3>2. m.state \in States
      BY <3>1 DEF Messages
    <3>3. Carried(d, ch, Len(ch), d, ch2, Len(ch))
      BY <1>1, <1>2
    <3>4. QED
      BY <3>1, <3>2, <3>3, CarriedState
  <2>3. QED
    BY <1>1, <2>1, <2>2
<1>4. QED
  BY <1>3 DEF StatesSent, ch2

LEMMA DeliveryStates ==
  ASSUME NEW d \in Arrived, NEW d2 \in Arrived, NEW ch \in Seq(Messages), ch # <<>>,
         InOrder(d, ch), TakenUp(d, d2, ch), StatesSent(d, ch)
  PROVE  /\ \A n \in 0 .. Len(ch) : Carried(d, ch, n, d2, Tail(ch), IF n = 0 THEN 0 ELSE n - 1)
         /\ StatesSent(d2, Tail(ch))
<1> DEFINE ch2 == Tail(ch)
<1>1. /\ Len(ch) \in Nat /\ Len(ch2) = Len(ch) - 1
      /\ \A i \in 1 .. Len(ch) - 1 : ch2[i] = ch[i + 1]
  BY TailType
<1>2. \A n \in 0 .. Len(ch) : Carried(d, ch, n, d2, ch2, IF n = 0 THEN 0 ELSE n - 1)
  <2>1. \A r \in Roots, p \in Paths : d[r][p] <= d2[r][p]
    BY DeliveryOrder
  <2>2. \A r \in Roots, p \in Paths : IsRecord(Head(ch), r, p) => d2[r][p] = Head(ch).version
    BY DEF TakenUp
  <2>3. QED
    BY <2>1, <2>2, DeliveryCarries
<1> HIDE DEF ch2
<1>3. ASSUME NEW i \in 1 .. Len(ch2), ch2[i].kind = "state"
      PROVE  StateSent(d2, ch2, i - 1, ch2[i].state)
  <2>1. i + 1 \in 1 .. Len(ch) /\ ch2[i] = ch[i + 1] /\ (i + 1) - 1 = i
    BY <1>1
  <2>2. ch[i + 1] \in Messages /\ ch[i + 1].kind = "state"
    BY <1>3, <2>1
  <2>3. ch[i + 1].state \in States
    BY <2>2 DEF Messages
  <2>4. StateSent(d, ch, i, ch[i + 1].state)
    BY <2>1, <2>2 DEF StatesSent
  <2>5. Carried(d, ch, i, d2, ch2, i - 1)
    <3>1. i \in 0 .. Len(ch) /\ i # 0
      BY <1>1
    <3>2. QED
      BY <1>2, <3>1
  <2>6. QED
    BY <2>1, <2>3, <2>4, <2>5, CarriedState
<1>4. QED
  BY <1>2, <1>3 DEF StatesSent, ch2

-----------------------------------------------------------------------------
(* The steps.                                                              *)

LEMMA EndSyncCovers ==
  ASSUME EndSync
  PROVE  PageInv' /\ SyncInv'
  BY DEF EndSync, PageInv, SyncInv, StateSent, CursorSent, NoCursors

LEMMA NextPageCovers ==
  ASSUME TypeOK, phase = "read", NEW s \in States, NextPage(s),
         StateSent(dest', channel', Len(channel'), s),
         CursorSent(dest', channel', Len(channel'), Root, page.cursor)
  PROVE  PageInv' /\ SyncInv'
<1>1. CASE page.more
  <2>1. /\ phase' = "list" /\ at' = page.cursor /\ state' = s /\ left' = left
    BY <1>1 DEF NextPage
  <2>2. Root' = Root
    BY <2>1 DEF Root
  <2>3. QED
    BY <2>1, <2>2 DEF PageInv, SyncInv
<1>2. CASE ~page.more /\ left # {Root}
  <2>1. /\ phase' = "list" /\ at' = s[First(left \ {Root})] /\ state' = s
        /\ left' = left \ {Root}
    BY <1>2 DEF NextPage
  <2>2. Root' = First(left \ {Root})
    BY <2>1 DEF Root
  <2>3. Root \in left /\ left \subseteq selection
    BY RootType DEF TypeOK, SyncTypeOK
  <2>4. left \ {Root} # {} /\ left \ {Root} \subseteq Roots /\ left \ {Root} \in SUBSET Nat
    BY <1>2, <2>3, SelectionType DEF TypeOK
  <2>5. First(left \ {Root}) \in Roots
    BY <2>4, FirstIsMember
  <2>6. QED
    BY <2>1, <2>2, <2>5 DEF PageInv, SyncInv, StateSent
<1>3. CASE ~page.more /\ left = {Root}
  BY <1>3, EndSyncCovers DEF NextPage
<1>4. QED
  BY <1>1, <1>2, <1>3

\* The state goes out behind what it speaks of.
LEMMA StateEmitted ==
  ASSUME CoverInv, NEW s \in States, channel' = Append(channel, StateMsg(s)),
         UNCHANGED <<folder, dest, saved>>,
         StateSent(dest, channel, Len(channel), s)
  PROVE  /\ ChannelInv' /\ PlatformInv'
         /\ StateSent(dest', channel', Len(channel'), s)
         /\ Carried(dest, channel, Len(channel), dest', channel', Len(channel'))
<1> DEFINE m == StateMsg(s)
<1>1. channel \in Seq(Messages) /\ m \in Messages /\ saved \in States
  BY DEF CoverInv, TypeOK, OutsideTypeOK, StateMsg, Messages
<1>2. m.kind = "state" /\ m.state = s
  BY DEF StateMsg
<1>3. \A r, p : ~IsRecord(m, r, p)
  BY <1>2 DEF IsRecord
<1> HIDE DEF m
<1>4. channel' = Append(channel, m)
  BY DEF m
<1>5. Len(channel) \in Nat /\ Len(channel') = Len(channel) + 1
  BY <1>1, <1>4, AppendType
<1>6. ChannelInv'
  <2>1. InOrder(dest', channel')
    BY <1>1, <1>3, <1>4, AppendOrder DEF CoverInv, ChannelInv
  <2>2. ASSUME NEW r \in Roots, NEW p \in Paths
        PROVE  NotBeyond(dest', channel', r, p, folder'[r][p])
    BY <1>1, <1>3, <1>4, AppendBeyond DEF CoverInv, ChannelInv
  <2>3. QED
    BY <2>1, <2>2 DEF ChannelInv
<1>7. PlatformInv'
  <2>1. StatesSent(dest', channel')
    BY <1>1, <1>2, <1>4, AppendStates DEF CoverInv, PlatformInv
  <2>2. Carried(dest, channel, 0, dest', channel', 0)
    BY <1>1, <1>4, <1>5, AppendCarries
  <2>3. StateSent(dest', channel', 0, saved')
    BY <1>1, <2>2, CarriedState DEF CoverInv, PlatformInv
  <2>4. QED
    BY <2>1, <2>3 DEF PlatformInv
<1>8. Carried(dest, channel, Len(channel), dest', channel', Len(channel'))
  BY <1>1, <1>4, <1>5, AppendCarries
<1>9. QED
  BY <1>6, <1>7, <1>8, CarriedState

\* The sync is where it was.
LEMMA SyncCarried ==
  ASSUME TypeOK, SyncInv, phase' = phase, page' = page, state' = state, at' = at, Root' = Root,
         Carried(dest, channel, Len(channel), dest', channel', Len(channel'))
  PROVE  SyncInv'
<1>1. state \in States /\ at \in Cursor \cup {NoCursor}
  BY DEF TypeOK, SyncTypeOK
<1>2. StateSent(dest', channel', Len(channel'), state)
  BY <1>1, CarriedState DEF SyncInv
<1>3. CursorSent(dest', channel', Len(channel'), Root, at)
  <2>1. CASE at = NoCursor
    BY <2>1 DEF CursorSent
  <2>2. CASE at # NoCursor
    <3>1. Root \in Roots
      BY <2>2, RootType DEF TypeOK, SyncTypeOK
    <3>2. QED
      BY <1>1, <3>1, CarriedCursor DEF SyncInv
  <2>3. QED
    BY <2>1, <2>2
<1>4. ASSUME phase = "read", NEW p \in Paths \ page.unread
      PROVE  Sent(dest', channel', Len(channel'), Root, p, page.cursor.shown[p])
  <2>1. Root \in Roots /\ page.cursor \in Cursor
    BY <1>4, RootType DEF TypeOK, SyncTypeOK, Pages
  <2>2. page.cursor.shown[p] \in Nat
    BY <2>1 DEF Cursor
  <2>3. QED
    BY <1>4, <2>1, <2>2 DEF SyncInv, Carried
<1>5. QED
  BY <1>2, <1>3, <1>4 DEF SyncInv

\* What a delivery does to the invariant, but for the saved state.
LEMMA Delivered ==
  ASSUME CoverInv, channel # <<>>, channel' = Tail(channel), dest' \in Arrived,
         TakenUp(dest, dest', channel), UNCHANGED <<dropboxVars, syncVars>>
  PROVE  /\ ChannelInv' /\ PageInv' /\ SyncInv' /\ StatesSent(dest', channel')
         /\ \A n \in 0 .. Len(channel) :
               Carried(dest, channel, n, dest', channel', IF n = 0 THEN 0 ELSE n - 1)
<1>1. channel \in Seq(Messages) /\ dest \in Arrived
  BY DEF CoverInv, TypeOK, OutsideTypeOK, Arrived
<1>2. InOrder(dest, channel) /\ StatesSent(dest, channel)
  BY DEF CoverInv, ChannelInv, PlatformInv
<1>3. /\ StatesSent(dest', channel')
      /\ \A n \in 0 .. Len(channel) :
            Carried(dest, channel, n, dest', channel', IF n = 0 THEN 0 ELSE n - 1)
  BY <1>1, <1>2, DeliveryStates
<1>4. /\ InOrder(dest', channel')
      /\ \A r \in Roots, p \in Paths : \A v :
            NotBeyond(dest, channel, r, p, v) => NotBeyond(dest', channel', r, p, v)
  BY <1>1, <1>2, DeliveryOrder
<1>5. ChannelInv'
  BY <1>4 DEF CoverInv, ChannelInv, dropboxVars
<1>6. /\ phase' = phase /\ page' = page /\ state' = state /\ at' = at /\ folder' = folder
      /\ Root' = Root
  BY DEF syncVars, dropboxVars, Root
<1>7. PageInv'
  <2> SUFFICES ASSUME phase = "read", NEW p \in page.unread
               PROVE  /\ page.cursor.shown[p] <= folder[Root][p]
                      /\ NotBeyond(dest', channel', Root, p, page.cursor.shown[p])
    BY <1>6 DEF PageInv
  <2>1. Root \in Roots /\ p \in Paths
    BY RootType DEF CoverInv, TypeOK, SyncTypeOK, Pages
  <2>2. QED
    BY <1>4, <2>1 DEF CoverInv, PageInv
<1>8. Len(channel) \in Nat /\ Len(channel) # 0 /\ Len(channel') = Len(channel) - 1
  BY <1>1, TailType
<1>9. Carried(dest, channel, Len(channel), dest', channel', Len(channel'))
  BY <1>3, <1>8
<1>10. SyncInv'
  BY <1>6, <1>9, SyncCarried DEF CoverInv
<1>11. QED
  BY <1>3, <1>5, <1>7, <1>10

LEMMA InitCovers == Init => CoverInv
<1> SUFFICES ASSUME Init PROVE CoverInv
  OBVIOUS
<1>1. TypeOK
  BY InitType
<1>2. channel = <<>> /\ Len(channel) = 0 /\ phase = "idle"
  BY DEF Init
<1>3. ChannelInv /\ PageInv
  BY <1>2 DEF Init, ChannelInv, PageInv, InOrder, NotBeyond
<1>4. PlatformInv /\ SyncInv
  BY <1>2 DEF Init, PlatformInv, SyncInv, StateSent, StatesSent, CursorSent, NoCursors
<1>5. QED
  BY <1>1, <1>3, <1>4 DEF CoverInv

\* Nothing is emitted, delivered or changed in the folder.
LEMMA QuietStep ==
  ASSUME CoverInv, UNCHANGED <<folder, dest, channel, saved>>
  PROVE  ChannelInv' /\ PlatformInv'
  BY DEF CoverInv, ChannelInv, PlatformInv

LEMMA NextCovers == CoverInv /\ [Next]_vars => CoverInv'
<1> SUFFICES ASSUME CoverInv, [Next]_vars PROVE CoverInv'
  OBVIOUS
<1>0. TypeOK /\ TypeOK'
  BY NextType DEF CoverInv
<1> USE <1>0
<1>a. channel \in Seq(Messages) /\ dest \in Arrived /\ dest' \in Arrived
  BY DEF TypeOK, OutsideTypeOK, Arrived
<1>1. CASE Start
  <2>1. ChannelInv' /\ PlatformInv' /\ channel = <<>> /\ Len(channel) = 0
    BY <1>1, QuietStep DEF Start, dropboxVars, platformVars
  <2>2. /\ state' = saved /\ at' = saved[First(selection)] /\ left' = selection
        /\ phase' = "list" /\ dest' = dest /\ channel' = channel
    BY <1>1 DEF Start
  <2>3. StateSent(dest, channel, 0, saved)
    BY DEF CoverInv, PlatformInv
  <2>4. Root' = First(selection) /\ First(selection) \in Roots
    BY <2>2, SelectionType, FirstIsMember DEF Root, TypeOK
  <2>5. CursorSent(dest, channel, 0, First(selection), saved[First(selection)])
    BY <2>3, <2>4 DEF StateSent
  <2>6. SyncInv'
    BY <2>1, <2>2, <2>3, <2>4, <2>5 DEF SyncInv
  <2>7. PageInv'
    BY <2>2 DEF PageInv
  <2>8. QED
    BY <2>1, <2>6, <2>7 DEF CoverInv
<1>2. CASE FetchPage
  <2>1. ChannelInv' /\ PlatformInv'
    BY <1>2, QuietStep DEF FetchPage, dropboxVars, platformVars
  <2>2. Root \in Roots
    BY <1>2, RootType DEF FetchPage
  <2>3. PICK S \in SUBSET Pending :
           page' = [cursor |-> [epoch |-> epoch[Root],
                                shown |-> [p \in Paths |-> IF p \in S THEN folder[Root][p]
                                                           ELSE Shown[p]]],
                    paths |-> S, unread |-> S, more |-> S # Pending]
    BY <1>2 DEF FetchPage
  <2>4. S \subseteq Paths
    BY DEF Pending
  <2>5. /\ page'.unread = S
        /\ \A p \in Paths : page'.cursor.shown[p] = IF p \in S THEN folder[Root][p] ELSE Shown[p]
    BY <2>3
  <2>6. /\ phase' = "read" /\ state' = state /\ at' = at /\ Root' = Root
        /\ dest' = dest /\ channel' = channel /\ folder' = folder
    BY <1>2 DEF FetchPage, Root, dropboxVars
  <2>7. PageInv'
    <3> SUFFICES ASSUME NEW p \in S
                 PROVE  /\ page'.cursor.shown[p] <= folder[Root][p]
                        /\ NotBeyond(dest, channel, Root, p, page'.cursor.shown[p])
      BY <2>5, <2>6 DEF PageInv
    <3>1. page'.cursor.shown[p] = folder[Root][p] /\ folder[Root][p] \in Nat
      BY <2>2, <2>4, <2>5 DEF TypeOK, OutsideTypeOK
    <3>2. QED
      BY <2>2, <2>4, <3>1 DEF CoverInv, ChannelInv
  <2>8. ASSUME NEW p \in Paths \ S
        PROVE  Sent(dest, channel, Len(channel), Root, p, page'.cursor.shown[p])
    <3>1. page'.cursor.shown[p] = Shown[p]
      BY <2>5
    <3>2. CASE at = NoCursor
      BY <2>2, <3>1, <3>2, <1>a DEF Shown, Sent, Arrived
    <3>3. CASE at # NoCursor
      BY <3>1, <3>3 DEF Shown, CoverInv, SyncInv, CursorSent
    <3>4. QED
      BY <3>2, <3>3
  <2>9. SyncInv'
    BY <2>5, <2>6, <2>8 DEF CoverInv, SyncInv
  <2>10. QED
    BY <2>1, <2>7, <2>9 DEF CoverInv
<1>3. CASE RestartListing
  <2>1. ChannelInv' /\ PlatformInv'
    BY <1>3, QuietStep DEF RestartListing, dropboxVars, platformVars
  <2>2. /\ phase' = "list" /\ at' = NoCursor /\ state' = state
        /\ dest' = dest /\ channel' = channel
    BY <1>3 DEF RestartListing
  <2>3. PageInv' /\ SyncInv'
    BY <2>2 DEF CoverInv, PageInv, SyncInv, CursorSent
  <2>4. QED
    BY <2>1, <2>3 DEF CoverInv
<1>4. CASE RefuseSecondReset
  <2>1. ChannelInv' /\ PlatformInv'
    BY <1>4, QuietStep DEF RefuseSecondReset, dropboxVars, platformVars
  <2>2. QED
    BY <1>4, <2>1, EndSyncCovers DEF RefuseSecondReset, CoverInv
<1>5. CASE ReadRecord
  <2> DEFINE q == First(page.unread)
             m == RecordMsg(Root, q, page.cursor.shown[q])
  <2>1. Root \in Roots /\ phase = "read"
    BY <1>5, RootType DEF ReadRecord
  <2>2. q \in page.unread /\ q \in Paths
    BY <1>5, FirstIsMember, EntriesAssumption
       DEF ReadRecord, TypeOK, SyncTypeOK, Pages, EntriesAssumption
  <2>3. page.cursor.shown[q] \in Nat
    BY <2>1, <2>2 DEF TypeOK, SyncTypeOK, Pages, Cursor
  <2>4. m \in Messages /\ m.kind = "record" /\ m.version = page.cursor.shown[q]
    BY <2>1, <2>2, <2>3 DEF RecordMsg, Messages
  <2>5. \A r, p : IsRecord(m, r, p) <=> r = Root /\ p = q
    BY DEF IsRecord, RecordMsg
  <2>6. /\ page.cursor.shown[q] <= folder[Root][q]
        /\ NotBeyond(dest, channel, Root, q, page.cursor.shown[q])
    BY <2>1, <2>2 DEF CoverInv, PageInv
  <2>7. /\ channel' = Append(channel, m)
        /\ page' = [page EXCEPT !.unread = @ \ {q}]
        /\ UNCHANGED <<phase, state, left, at, folder, dest, saved>>
    BY <1>5 DEF ReadRecord, dropboxVars, platformVars
  <2>8. page'.unread = page.unread \ {q} /\ page'.cursor = page.cursor /\ Root' = Root
    BY <2>7 DEF TypeOK, SyncTypeOK, Pages, Root
  <2> HIDE DEF q, m
  <2>9. Len(channel) \in Nat /\ Len(channel') = Len(channel) + 1 /\ channel'[Len(channel) + 1] = m
    BY <1>a, <2>4, <2>7, AppendType
  <2>10. ChannelInv'
    <3>1. InOrder(dest', channel')
      BY <1>a, <2>4, <2>5, <2>6, <2>7, AppendOrder DEF CoverInv, ChannelInv
    <3>2. ASSUME NEW r \in Roots, NEW p \in Paths
          PROVE  NotBeyond(dest', channel', r, p, folder'[r][p])
      <4>1. NotBeyond(dest, channel, r, p, folder[r][p])
        BY DEF CoverInv, ChannelInv
      <4>2. IsRecord(m, r, p) => m.version <= folder[r][p]
        BY <2>4, <2>5, <2>6
      <4>3. QED
        BY <1>a, <2>4, <2>7, <4>1, <4>2, AppendBeyond
    <3>3. QED
      BY <3>1, <3>2 DEF ChannelInv
  <2>11. PageInv'
    <3> SUFFICES ASSUME NEW p \in page.unread \ {q}
                 PROVE  /\ page.cursor.shown[p] <= folder[Root][p]
                        /\ NotBeyond(dest, Append(channel, m), Root, p, page.cursor.shown[p])
      BY <2>7, <2>8 DEF PageInv
    <3>1. /\ page.cursor.shown[p] <= folder[Root][p]
          /\ NotBeyond(dest, channel, Root, p, page.cursor.shown[p])
      BY <2>1 DEF CoverInv, PageInv
    <3>2. ~IsRecord(m, Root, p)
      BY <2>5
    <3>3. QED
      BY <1>a, <2>4, <3>1, <3>2, AppendBeyond
  <2>12. Carried(dest, channel, Len(channel), dest', channel', Len(channel'))
    BY <1>a, <2>4, <2>7, <2>9, AppendCarries
  <2>13. PlatformInv'
    <3>1. StatesSent(dest', channel')
      BY <1>a, <2>4, <2>7, AppendStates DEF CoverInv, PlatformInv
    <3>2. Carried(dest, channel, 0, dest', channel', 0)
      BY <1>a, <2>4, <2>7, <2>9, AppendCarries
    <3>3. saved \in States
      BY DEF TypeOK, OutsideTypeOK
    <3>4. StateSent(dest', channel', 0, saved)
      BY <3>2, <3>3, CarriedState DEF CoverInv, PlatformInv
    <3>5. QED
      BY <2>7, <3>1, <3>4 DEF PlatformInv
  <2>14. SyncInv'
    <3>1. state \in States /\ at \in Cursor \cup {NoCursor} /\ page.cursor \in Cursor
      BY <2>1 DEF TypeOK, SyncTypeOK, Pages
    <3>2. StateSent(dest', channel', Len(channel'), state)
      BY <2>12, <3>1, CarriedState DEF CoverInv, SyncInv
    <3>3. CursorSent(dest', channel', Len(channel'), Root, at)
      BY <2>1, <2>12, <3>1, CarriedCursor DEF CoverInv, SyncInv
    <3>4. ASSUME NEW p \in Paths \ (page.unread \ {q})
          PROVE  Sent(dest', channel', Len(channel'), Root, p, page.cursor.shown[p])
      <4>1. page.cursor.shown[p] \in Nat
        BY <3>1 DEF Cursor
      <4>2. CASE p = q
        <5>1. IsRecord(channel'[Len(channel')], Root, p)
          BY <2>5, <2>9, <4>2
        <5>2. page.cursor.shown[p] <= channel'[Len(channel')].version
          BY <2>4, <2>9, <4>1, <4>2
        <5>3. QED
          BY <2>9, <5>1, <5>2 DEF Sent
      <4>3. CASE p # q
        BY <2>1, <2>12, <4>1, <4>3 DEF CoverInv, SyncInv, Carried
      <4>4. QED
        BY <4>2, <4>3
    <3>5. QED
      BY <2>7, <2>8, <3>2, <3>3, <3>4 DEF SyncInv
  <2>15. QED
    BY <2>10, <2>11, <2>13, <2>14 DEF CoverInv
<1>6. CASE Checkpoint
  <2> DEFINE s == CheckpointPage(Root, page.cursor)
  <2>1. s \in States /\ Root \in Roots /\ phase = "read" /\ page.unread = {}
    BY <1>6, CheckpointPageType, RootType DEF Checkpoint
  <2>2. channel' = Append(channel, StateMsg(s)) /\ NextPage(s)
    BY <1>6 DEF Checkpoint
  <2>3. page.cursor \in Cursor
    BY <2>1 DEF TypeOK, SyncTypeOK, Pages
  <2>4. CursorSent(dest, channel, Len(channel), Root, page.cursor)
    BY <2>1 DEF CoverInv, SyncInv, CursorSent
  <2>5. StateSent(dest, channel, Len(channel), s)
    <3> SUFFICES ASSUME NEW r \in Roots PROVE CursorSent(dest, channel, Len(channel), r, s[r])
      BY DEF StateSent
    <3>1. s[r] \in {page.cursor, state[r], NoCursor} /\ (s[r] = page.cursor => r = Root \/ s[r] = state[r])
      BY <2>1, <2>3 DEF CheckpointPage, NoCursors, TypeOK, SyncTypeOK, States
    <3>2. CursorSent(dest, channel, Len(channel), r, state[r])
      BY DEF CoverInv, SyncInv, StateSent
    <3>3. CursorSent(dest, channel, Len(channel), r, NoCursor)
      BY DEF CursorSent
    <3>4. QED
      BY <2>4, <3>1, <3>2, <3>3
  <2> HIDE DEF s
  <2>6. /\ ChannelInv' /\ PlatformInv'
        /\ StateSent(dest', channel', Len(channel'), s)
        /\ Carried(dest, channel, Len(channel), dest', channel', Len(channel'))
    BY <1>6, <2>1, <2>2, <2>5, StateEmitted DEF Checkpoint, dropboxVars, platformVars
  <2>7. CursorSent(dest', channel', Len(channel'), Root, page.cursor)
    BY <2>1, <2>3, <2>4, <2>6, CarriedCursor
  <2>8. PageInv' /\ SyncInv'
    BY <2>1, <2>2, <2>6, <2>7, NextPageCovers
  <2>9. QED
    BY <2>6, <2>8 DEF CoverInv
<1>7. CASE StopMidPage
  <2>1. state \in States /\ phase = "read" /\ Root \in Roots
    BY <1>7, RootType DEF StopMidPage, TypeOK, SyncTypeOK
  <2>2. channel' = Append(channel, StateMsg(state))
    BY <1>7 DEF StopMidPage
  <2>3. StateSent(dest, channel, Len(channel), state)
    BY DEF CoverInv, SyncInv
  <2>4. /\ ChannelInv' /\ PlatformInv'
        /\ StateSent(dest', channel', Len(channel'), state)
    BY <1>7, <2>1, <2>2, <2>3, StateEmitted DEF StopMidPage, dropboxVars, platformVars
  <2>5. CASE PageWasCheckpointed
    <3>1. CursorSent(dest', channel', Len(channel'), Root, page.cursor)
      BY <2>1, <2>4, <2>5 DEF StateSent, PageWasCheckpointed
    <3>2. NextPage(state)
      BY <1>7, <2>5 DEF StopMidPage
    <3>3. PageInv' /\ SyncInv'
      BY <2>1, <2>4, <3>1, <3>2, NextPageCovers
    <3>4. QED
      BY <2>4, <3>3 DEF CoverInv
  <2>6. CASE ~PageWasCheckpointed
    BY <1>7, <2>4, <2>6, EndSyncCovers DEF StopMidPage, CoverInv
  <2>7. QED
    BY <2>5, <2>6
<1>8. CASE Fail
  <2>1. ChannelInv' /\ PlatformInv'
    BY <1>8, QuietStep DEF Fail, dropboxVars, platformVars
  <2>2. QED
    BY <1>8, <2>1, EndSyncCovers DEF Fail, CoverInv
<1>9. CASE Kill
  <2>1. /\ channel' = <<>> /\ Len(channel') = 0
        /\ dest' = dest /\ saved' = saved /\ folder' = folder
    BY <1>9 DEF Kill, dropboxVars, platformVars
  <2>2. ChannelInv'
    BY <2>1 DEF CoverInv, ChannelInv, InOrder, NotBeyond
  <2>3. StateSent(dest, <<>>, 0, saved)
    BY DEF CoverInv, PlatformInv, StateSent, CursorSent, Sent
  <2>4. PlatformInv'
    BY <2>1, <2>3 DEF PlatformInv, StatesSent
  <2>5. QED
    BY <1>9, <2>2, <2>4, EndSyncCovers DEF Kill, CoverInv
<1>10. CASE DeliverRecord
  <2>1. Head(channel) \in Messages /\ channel # <<>> /\ Head(channel).kind = "record"
    BY <1>10, SentTypes DEF DeliverRecord
  <2>2. TakenUp(dest, dest', channel)
    BY <1>10, <1>a, <2>1 DEF DeliverRecord, TakenUp, IsRecord, Arrived, Messages
  <2>3. /\ ChannelInv' /\ PageInv' /\ SyncInv' /\ StatesSent(dest', channel')
        /\ Carried(dest, channel, 0, dest', channel', 0)
    <3>1. /\ channel # <<>> /\ channel' = Tail(channel)
          /\ UNCHANGED <<dropboxVars, syncVars>>
      BY <1>10 DEF DeliverRecord
    <3>2. 0 \in 0 .. Len(channel)
      BY <1>a, <3>1, TailType
    <3>3. QED
      BY <1>a, <2>2, <3>1, <3>2, Delivered
  <2>4. saved \in States /\ saved' = saved
    BY <1>10 DEF DeliverRecord, platformVars, TypeOK, OutsideTypeOK
  <2>5. StateSent(dest', channel', 0, saved)
    BY <2>3, <2>4, CarriedState DEF CoverInv, PlatformInv
  <2>6. QED
    BY <2>3, <2>4, <2>5 DEF CoverInv, PlatformInv
<1>11. CASE DeliverState
  <2>1. Head(channel) \in Messages /\ channel # <<>> /\ Head(channel).kind = "state"
    BY <1>11, SentTypes DEF DeliverState
  <2>2. TakenUp(dest, dest', channel)
    BY <1>11, <2>1 DEF DeliverState, TakenUp, IsRecord
  <2>3. /\ ChannelInv' /\ PageInv' /\ SyncInv' /\ StatesSent(dest', channel')
        /\ Carried(dest, channel, 0, dest', channel', 0)
    BY <1>11, <1>a, <2>2, Delivered DEF DeliverState
  <2>4. Head(channel).state \in States /\ saved' = Head(channel).state
    BY <1>11, <2>1 DEF DeliverState, Messages
  <2>5. Head(channel) = channel[1] /\ 1 \in 1 .. Len(channel)
    BY <1>a, <2>1, TailType
  <2>6. StateSent(dest, channel, 0, Head(channel).state)
    BY <2>1, <2>5 DEF CoverInv, PlatformInv, StatesSent
  <2>7. StateSent(dest', channel', 0, Head(channel).state)
    BY <2>3, <2>4, <2>6, CarriedState
  <2>8. QED
    BY <2>3, <2>4, <2>7 DEF CoverInv, PlatformInv
<1>12. CASE Select
  <2>1. ChannelInv' /\ PlatformInv'
    BY <1>12, QuietStep DEF Select, dropboxVars
  <2>2. UNCHANGED <<dest, channel, phase, page, state, at, folder, Root>>
    BY <1>12 DEF Select, syncVars, dropboxVars, Root
  <2>3. PageInv' /\ SyncInv'
    BY <2>2 DEF CoverInv, PageInv, SyncInv
  <2>4. QED
    BY <2>1, <2>3 DEF CoverInv
<1>13. CASE ResetState
  <2>1. UNCHANGED <<dest, channel, phase, page, state, at, folder, Root>> /\ saved' = NoCursors
    BY <1>13 DEF ResetState, syncVars, dropboxVars, Root
  <2>2. PageInv' /\ SyncInv' /\ ChannelInv'
    BY <2>1 DEF CoverInv, PageInv, SyncInv, ChannelInv
  <2>3. PlatformInv'
    BY <2>1 DEF CoverInv, PlatformInv, StateSent, CursorSent, NoCursors
  <2>4. QED
    BY <2>2, <2>3 DEF CoverInv
<1>14. ASSUME NEW r \in Roots, NEW p \in Paths, Change(r, p) PROVE CoverInv'
  <2>1. UNCHANGED <<dest, channel, phase, page, state, at, saved, Root>>
    BY <1>14 DEF Change, syncVars, platformVars, Root
  <2>2. ASSUME NEW r2 \in Roots, NEW p2 \in Paths
        PROVE  /\ folder[r2][p2] \in Nat /\ folder'[r2][p2] \in Nat
               /\ folder[r2][p2] <= folder'[r2][p2]
    BY <1>14 DEF Change, TypeOK, OutsideTypeOK
  <2>3. ChannelInv'
    <3> SUFFICES ASSUME NEW r2 \in Roots, NEW p2 \in Paths
                 PROVE  NotBeyond(dest, channel, r2, p2, folder'[r2][p2])
      BY <2>1 DEF CoverInv, ChannelInv
    <3>1. NotBeyond(dest, channel, r2, p2, folder[r2][p2])
      BY DEF CoverInv, ChannelInv
    <3>2. dest[r2][p2] \in Nat
      BY <1>a DEF Arrived
    <3>3. ASSUME NEW i \in 1 .. Len(channel), IsRecord(channel[i], r2, p2)
          PROVE  channel[i].version <= folder'[r2][p2]
      <4>1. channel[i] \in Messages
        BY <1>a
      <4>2. channel[i].version \in Nat
        BY <3>3, <4>1, RecordType
      <4>3. QED
        BY <2>2, <3>1, <3>3, <4>2 DEF NotBeyond
    <3>4. QED
      BY <2>2, <3>1, <3>2, <3>3 DEF NotBeyond
  <2>4. PageInv'
    <3> SUFFICES ASSUME phase = "read", NEW q \in page.unread
                 PROVE  /\ page.cursor.shown[q] <= folder'[Root][q]
                        /\ NotBeyond(dest, channel, Root, q, page.cursor.shown[q])
      BY <2>1 DEF PageInv
    <3>1. Root \in Roots /\ q \in Paths /\ page.cursor \in Cursor
      BY RootType DEF TypeOK, SyncTypeOK, Pages
    <3>2. page.cursor.shown[q] \in Nat
      BY <3>1 DEF Cursor
    <3>3. QED
      BY <2>2, <3>1, <3>2 DEF CoverInv, PageInv
  <2>5. PlatformInv' /\ SyncInv'
    BY <2>1 DEF CoverInv, PlatformInv, SyncInv
  <2>6. QED
    BY <2>3, <2>4, <2>5 DEF CoverInv
<1>15. ASSUME NEW r \in Roots, Invalidate(r) PROVE CoverInv'
  <2>1. UNCHANGED <<dest, channel, phase, page, state, at, saved, folder, Root>>
    BY <1>15 DEF Invalidate, syncVars, platformVars, Root
  <2>2. QED
    BY <2>1 DEF CoverInv, ChannelInv, PageInv, PlatformInv, SyncInv
<1>16. CASE UNCHANGED vars
  <2>1. UNCHANGED <<dest, channel, phase, page, state, at, saved, folder, Root>>
    BY <1>16 DEF vars, Root
  <2>2. QED
    BY <2>1 DEF CoverInv, ChannelInv, PageInv, PlatformInv, SyncInv
<1>17. QED
  BY <1>1, <1>2, <1>3, <1>4, <1>5, <1>6, <1>7, <1>8, <1>9, <1>10, <1>11, <1>12, <1>13,
     <1>14, <1>15, <1>16 DEF Next, Sync, Deliver

\* A saved cursor never speaks of an entry that has not arrived, through stops,
\* failures, kills, resets and changes of the selection.
THEOREM CheckpointsCovered == Spec => []CheckpointCovers
<1>1. Init => CoverInv
  BY InitCovers
<1>2. CoverInv /\ [Next]_vars => CoverInv'
  BY NextCovers
<1>3. CoverInv => CheckpointCovers
  <2> SUFFICES ASSUME CoverInv, NEW r \in Roots, NEW p \in Paths, saved[r] # NoCursor
               PROVE  saved[r].shown[p] <= dest[r][p]
    BY DEF CheckpointCovers
  <2>1. Sent(dest, channel, 0, r, p, saved[r].shown[p])
    BY DEF CoverInv, PlatformInv, StateSent, CursorSent
  <2>2. QED
    BY <2>1 DEF Sent
<1>4. QED
  BY <1>1, <1>2, <1>3, PTL DEF Spec

-----------------------------------------------------------------------------
(* The invariant behind CursorsAreKept: a state that is sent, or will be,  *)
(* keeps the cursors of those sent before it.                              *)

\* A cursor of an earlier epoch means that its root was reset.
Genuine(e, r, c) == c # NoCursor /\ e[r] = 0 => c.epoch = 0
GenuineState(e, s) == \A r \in Roots : Genuine(e, r, s[r])

\* State b keeps the cursors of a, or is one of the single root after namespaces.
Follows(e, a, b) ==
    /\ a[Current] # NoCursor => b[Current] # NoCursor
    /\ b[Current] # NoCursor \/
         \A n \in Namespaces : a[n] # NoCursor =>
            /\ b[n] # NoCursor
            /\ e[n] # 0 \/ \A p \in Paths : a[n].shown[p] <= b[n].shown[p]

IsState(m) == m.kind = "state"

\* State s follows the saved one and all those on their way.
FollowsAll(e, sv, ch, s) ==
    /\ Follows(e, sv, s)
    /\ \A i \in 1 .. Len(ch) : IsState(ch[i]) => Follows(e, ch[i].state, s)

\* The states on their way follow the saved one, and the later follow the earlier.
Chain(e, sv, ch) ==
    /\ \A i \in 1 .. Len(ch) : IsState(ch[i]) =>
          GenuineState(e, ch[i].state) /\ Follows(e, sv, ch[i].state)
    /\ \A i, j \in 1 .. Len(ch) :
          i < j /\ IsState(ch[i]) /\ IsState(ch[j]) => Follows(e, ch[i].state, ch[j].state)

\* So does the state of the sync, which keeps to its mode.
StateFollows ==
    phase # "idle" =>
        /\ GenuineState(epoch, state)
        /\ IsMultiNamespace => state[Current] = NoCursor
        /\ FollowsAll(epoch, saved, channel, state)

\* A root that was not reset is listed on from its cursor in the state.
ListingFits ==
    /\ phase = "list" => at = state[Root] \/ epoch[Root] # 0
    /\ phase = "read" =>
          /\ Genuine(epoch, Root, page.cursor)
          /\ state[Root] # NoCursor /\ epoch[Root] = 0 =>
                \A p \in Paths : state[Root].shown[p] <= page.cursor.shown[p]

KeptInv ==
    /\ CoverInv
    /\ GenuineState(epoch, saved) /\ Chain(epoch, saved, channel)
    /\ StateFollows /\ ListingFits

LEMMA CursorType ==
  ASSUME NEW s \in States, NEW r \in Roots
  PROVE  /\ s[r] \in Cursor \cup {NoCursor}
         /\ s[r] # NoCursor => \A p \in Paths : s[r].shown[p] \in Nat
  BY DEF States, Cursor

LEMMA FollowsItself ==
  ASSUME NEW e, NEW a \in States
  PROVE  Follows(e, a, a)
<1>1. ASSUME NEW n \in Namespaces, NEW p \in Paths, a[n] # NoCursor
      PROVE  a[n].shown[p] <= a[n].shown[p]
  BY <1>1, CursorType DEF Roots
<1>2. QED
  BY <1>1 DEF Follows

LEMMA FollowsOn ==
  ASSUME NEW e, NEW a \in States, NEW b \in States, NEW c \in States,
         Follows(e, a, b), Follows(e, b, c)
  PROVE  Follows(e, a, c)
<1>1. a[Current] # NoCursor => c[Current] # NoCursor
  BY DEF Follows
<1>2. ASSUME c[Current] = NoCursor, NEW n \in Namespaces, a[n] # NoCursor
      PROVE  /\ c[n] # NoCursor
             /\ e[n] # 0 \/ \A p \in Paths : a[n].shown[p] <= c[n].shown[p]
  <2>1. b[Current] = NoCursor
    BY <1>2 DEF Follows
  <2>2. b[n] # NoCursor /\ c[n] # NoCursor
    BY <1>2, <2>1 DEF Follows
  <2>3. ASSUME e[n] = 0, NEW p \in Paths PROVE a[n].shown[p] <= c[n].shown[p]
    <3>1. a[n].shown[p] <= b[n].shown[p] /\ b[n].shown[p] <= c[n].shown[p]
      BY <1>2, <2>1, <2>2, <2>3 DEF Follows
    <3>2. a[n].shown[p] \in Nat /\ b[n].shown[p] \in Nat /\ c[n].shown[p] \in Nat
      BY <1>2, <2>2, CursorType DEF Roots
    <3>3. QED
      BY <3>1, <3>2
  <2>4. QED
    BY <2>2, <2>3
<1>3. QED
  BY <1>1, <1>2 DEF Follows

LEMMA AppendChain ==
  ASSUME NEW e, NEW sv, NEW ch \in Seq(Messages), NEW m \in Messages, Chain(e, sv, ch),
         IsState(m) => GenuineState(e, m.state) /\ FollowsAll(e, sv, ch, m.state)
  PROVE  Chain(e, sv, Append(ch, m))
<1> DEFINE ch2 == Append(ch, m)
<1>1. /\ Len(ch) \in Nat /\ Len(ch2) = Len(ch) + 1
      /\ \A i \in 1 .. Len(ch) : ch2[i] = ch[i]
      /\ ch2[Len(ch) + 1] = m
  BY AppendType
<1> HIDE DEF ch2
<1>2. ASSUME NEW i \in 1 .. Len(ch2), IsState(ch2[i])
      PROVE  GenuineState(e, ch2[i].state) /\ Follows(e, sv, ch2[i].state)
  <2>1. CASE i \in 1 .. Len(ch)
    BY <1>1, <1>2, <2>1 DEF Chain
  <2>2. CASE i = Len(ch) + 1
    BY <1>1, <1>2, <2>2 DEF FollowsAll
  <2>3. QED
    BY <1>1, <2>1, <2>2
<1>3. ASSUME NEW i \in 1 .. Len(ch2), NEW j \in 1 .. Len(ch2), i < j,
             IsState(ch2[i]), IsState(ch2[j])
      PROVE  Follows(e, ch2[i].state, ch2[j].state)
  <2>1. i \in 1 .. Len(ch)
    BY <1>1, <1>3
  <2>2. CASE j \in 1 .. Len(ch)
    BY <1>1, <1>3, <2>1, <2>2 DEF Chain
  <2>3. CASE j = Len(ch) + 1
    BY <1>1, <1>3, <2>1, <2>3 DEF FollowsAll
  <2>4. QED
    BY <1>1, <2>2, <2>3
<1>4. QED
  BY <1>2, <1>3 DEF Chain, ch2

LEMMA AppendFollows ==
  ASSUME NEW e, NEW sv, NEW ch \in Seq(Messages), NEW m \in Messages, NEW s,
         FollowsAll(e, sv, ch, s), IsState(m) => Follows(e, m.state, s)
  PROVE  FollowsAll(e, sv, Append(ch, m), s)
<1> DEFINE ch2 == Append(ch, m)
<1>1. /\ Len(ch) \in Nat /\ Len(ch2) = Len(ch) + 1
      /\ \A i \in 1 .. Len(ch) : ch2[i] = ch[i]
      /\ ch2[Len(ch) + 1] = m
  BY AppendType
<1> HIDE DEF ch2
<1>2. ASSUME NEW i \in 1 .. Len(ch2), IsState(ch2[i]) PROVE Follows(e, ch2[i].state, s)
  <2>1. CASE i \in 1 .. Len(ch)
    BY <1>1, <1>2, <2>1 DEF FollowsAll
  <2>2. CASE i = Len(ch) + 1
    BY <1>1, <1>2, <2>2
  <2>3. QED
    BY <1>1, <2>1, <2>2
<1>3. QED
  BY <1>2 DEF FollowsAll, ch2

\* A state that follows the last one follows them all.
LEMMA FollowsAllOn ==
  ASSUME NEW e, NEW sv \in States, NEW ch \in Seq(Messages), NEW s \in States, NEW t \in States,
         FollowsAll(e, sv, ch, s), Follows(e, s, t)
  PROVE  FollowsAll(e, sv, ch, t)
<1>1. Follows(e, sv, t)
  BY FollowsOn DEF FollowsAll
<1>2. ASSUME NEW i \in 1 .. Len(ch), IsState(ch[i]) PROVE Follows(e, ch[i].state, t)
  <2>1. ch[i] \in Messages /\ ch[i].kind = "state"
    BY <1>2 DEF IsState
  <2>2. ch[i].state \in States
    BY <2>1 DEF Messages
  <2>3. Follows(e, ch[i].state, s)
    BY <1>2 DEF FollowsAll
  <2>4. QED
    BY <2>2, <2>3, FollowsOn
<1>3. QED
  BY <1>1, <1>2 DEF FollowsAll

\* A delivery: the first message is a record, or the state saved from now on.
LEMMA DeliveryChain ==
  ASSUME NEW e, NEW sv, NEW sv2, NEW ch \in Seq(Messages), ch # <<>>, Chain(e, sv, ch),
         sv2 = sv \/ (IsState(Head(ch)) /\ sv2 = Head(ch).state)
  PROVE  /\ Chain(e, sv2, Tail(ch))
         /\ \A s : FollowsAll(e, sv, ch, s) => FollowsAll(e, sv2, Tail(ch), s)
<1> DEFINE ch2 == Tail(ch)
<1>1. /\ Len(ch) \in Nat /\ Len(ch) >= 1
      /\ Len(ch2) = Len(ch) - 1
      /\ \A i \in 1 .. Len(ch) - 1 : ch2[i] = ch[i + 1]
      /\ Head(ch) = ch[1]
  BY TailType
<1> HIDE DEF ch2
<1>2. ASSUME NEW i \in 1 .. Len(ch2) PROVE i + 1 \in 1 .. Len(ch) /\ 1 < i + 1 /\ ch2[i] = ch[i + 1]
  BY <1>1
<1>3. ASSUME NEW i \in 1 .. Len(ch2), IsState(ch2[i])
      PROVE  GenuineState(e, ch2[i].state) /\ Follows(e, sv2, ch2[i].state)
  BY <1>1, <1>2, <1>3 DEF Chain
<1>4. ASSUME NEW i \in 1 .. Len(ch2), NEW j \in 1 .. Len(ch2), i < j,
             IsState(ch2[i]), IsState(ch2[j])
      PROVE  Follows(e, ch2[i].state, ch2[j].state)
  <2>1. i + 1 < j + 1
    BY <1>4
  <2>2. QED
    BY <1>2, <1>4, <2>1 DEF Chain
<1>5. ASSUME NEW s, FollowsAll(e, sv, ch, s) PROVE FollowsAll(e, sv2, ch2, s)
  <2>1. Follows(e, sv2, s)
    BY <1>1, <1>5 DEF FollowsAll
  <2>2. ASSUME NEW i \in 1 .. Len(ch2), IsState(ch2[i]) PROVE Follows(e, ch2[i].state, s)
    BY <1>2, <1>5, <2>2 DEF FollowsAll
  <2>3. QED
    BY <2>1, <2>2 DEF FollowsAll
<1>6. QED
  BY <1>3, <1>4, <1>5 DEF Chain, ch2

\* A reset of a root only weakens what is asked of its cursors.
LEMMA ResetChain ==
  ASSUME NEW e, NEW e2, \A r \in Roots : e[r] # 0 => e2[r] # 0
  PROVE  /\ \A r \in Roots : \A c : Genuine(e, r, c) => Genuine(e2, r, c)
         /\ \A s : GenuineState(e, s) => GenuineState(e2, s)
         /\ \A sv, ch : Chain(e, sv, ch) => Chain(e2, sv, ch)
         /\ \A sv, ch, s : FollowsAll(e, sv, ch, s) => FollowsAll(e2, sv, ch, s)
<1>1. \A r \in Roots : \A c : Genuine(e, r, c) => Genuine(e2, r, c)
  BY DEF Genuine
<1>2. \A s : GenuineState(e, s) => GenuineState(e2, s)
  BY <1>1 DEF GenuineState
<1>3. ASSUME NEW a, NEW b, Follows(e, a, b) PROVE Follows(e2, a, b)
  BY <1>3 DEF Follows, Roots
<1>4. \A sv, ch : Chain(e, sv, ch) => Chain(e2, sv, ch)
  BY <1>2, <1>3 DEF Chain
<1>5. \A sv, ch, s : FollowsAll(e, sv, ch, s) => FollowsAll(e2, sv, ch, s)
  BY <1>3 DEF FollowsAll
<1>6. QED
  BY <1>1, <1>2, <1>4, <1>5

\* What was sent is not ahead of the folder.
LEMMA SentWithin ==
  ASSUME CoverInv, NEW r \in Roots, NEW p \in Paths, NEW v \in Nat,
         Sent(dest, channel, Len(channel), r, p, v)
  PROVE  v <= folder[r][p]
<1>1. NotBeyond(dest, channel, r, p, folder[r][p])
  BY DEF CoverInv, ChannelInv
<1>2. dest[r][p] \in Nat /\ folder[r][p] \in Nat /\ channel \in Seq(Messages)
  BY DEF CoverInv, TypeOK, OutsideTypeOK
<1>3. CASE v <= dest[r][p]
  BY <1>1, <1>2, <1>3 DEF NotBeyond
<1>4. CASE \E j \in 1 .. Len(channel) : IsRecord(channel[j], r, p) /\ v <= channel[j].version
  <2>1. PICK j \in 1 .. Len(channel) : IsRecord(channel[j], r, p) /\ v <= channel[j].version
    BY <1>4
  <2>2. channel[j] \in Messages
    BY <1>2
  <2>3. channel[j].version \in Nat
    BY <2>1, <2>2, RecordType
  <2>4. QED
    BY <1>1, <1>2, <2>1, <2>3 DEF NotBeyond
<1>5. QED
  BY <1>3, <1>4 DEF Sent

\* A page goes on from what its listing has shown, and shows nothing that is not there.
LEMMA PageShows ==
  ASSUME CoverInv, FetchPage
  PROVE  /\ phase = "list" /\ phase' = "read"
         /\ page'.cursor \in Cursor /\ page'.cursor # NoCursor /\ page'.cursor.epoch = epoch[Root]
         /\ \A p \in Paths :
               /\ Shown[p] \in Nat /\ folder[Root][p] \in Nat /\ Shown[p] <= folder[Root][p]
               /\ p \in page'.unread => /\ page'.cursor.shown[p] = folder[Root][p]
                                        /\ Shown[p] # folder[Root][p]
               /\ p \notin page'.unread => page'.cursor.shown[p] = Shown[p]
<1>1. TypeOK /\ phase = "list" /\ phase' = "read"
  BY DEF FetchPage, CoverInv
<1>2. Root \in Roots
  BY <1>1, RootType
<1>3. PICK S \in SUBSET Pending :
         page' = [cursor |-> [epoch |-> epoch[Root],
                              shown |-> [p \in Paths |-> IF p \in S THEN folder[Root][p]
                                                         ELSE Shown[p]]],
                  paths |-> S, unread |-> S, more |-> S # Pending]
  BY DEF FetchPage
<1>4. ASSUME NEW p \in Paths
      PROVE  Shown[p] \in Nat /\ folder[Root][p] \in Nat /\ Shown[p] <= folder[Root][p]
  <2>1. folder[Root][p] \in Nat
    BY <1>1, <1>2 DEF TypeOK, OutsideTypeOK
  <2>2. CASE at = NoCursor
    BY <2>1, <2>2 DEF Shown
  <2>3. CASE at # NoCursor
    <3>1. Shown[p] = at.shown[p] /\ at.shown[p] \in Nat
      BY <1>1, <2>3 DEF Shown, TypeOK, SyncTypeOK, Cursor
    <3>2. Sent(dest, channel, Len(channel), Root, p, at.shown[p])
      BY <2>3 DEF CoverInv, SyncInv, CursorSent
    <3>3. QED
      BY <1>2, <2>1, <3>1, <3>2, SentWithin
  <2>4. QED
    BY <2>2, <2>3
<1>5. page'.cursor.epoch = epoch[Root] /\ page'.unread = S
  BY <1>3
<1>6. \A p \in Paths : page'.cursor.shown[p] = IF p \in S THEN folder[Root][p] ELSE Shown[p]
  BY <1>3
<1>7. \A p \in S : Shown[p] # folder[Root][p]
  BY DEF Pending
<1>8. page'.cursor \in Cursor /\ page'.cursor # NoCursor
  <2>1. TypeOK'
    BY <1>1, NextType DEF Next, Sync
  <2>2. page' \in Pages /\ page'.cursor # NoCursor
    BY <1>1, <2>1 DEF TypeOK, SyncTypeOK
  <2>3. QED
    BY <2>2 DEF Pages
<1>9. QED
  BY <1>1, <1>4, <1>5, <1>6, <1>7, <1>8

LEMMA EndSyncKeeps ==
  ASSUME EndSync
  PROVE  StateFollows' /\ ListingFits'
  BY DEF EndSync, StateFollows, ListingFits

\* The next page, or the next root, is listed on from its cursor in the state.
LEMMA NextPageKeeps ==
  ASSUME TypeOK, phase = "read", NEW s \in States, NextPage(s), s[Root] = page.cursor,
         GenuineState(epoch', s), selection' = selection,
         IsMultiNamespace => s[Current] = NoCursor,
         FollowsAll(epoch', saved', channel', s)
  PROVE  StateFollows' /\ ListingFits'
<1>1. CASE page.more
  <2>1. phase' = "list" /\ at' = page.cursor /\ state' = s /\ left' = left
    BY <1>1 DEF NextPage
  <2>2. Root' = Root
    BY <2>1 DEF Root
  <2>3. QED
    BY <2>1, <2>2 DEF StateFollows, ListingFits, IsMultiNamespace
<1>2. CASE ~page.more /\ left # {Root}
  <2>1. /\ phase' = "list" /\ at' = s[First(left \ {Root})] /\ state' = s
        /\ left' = left \ {Root}
    BY <1>2 DEF NextPage
  <2>2. Root' = First(left \ {Root})
    BY <2>1 DEF Root
  <2>3. QED
    BY <2>1, <2>2 DEF StateFollows, ListingFits, IsMultiNamespace
<1>3. CASE ~page.more /\ left = {Root}
  BY <1>3, EndSyncKeeps DEF NextPage
<1>4. QED
  BY <1>1, <1>2, <1>3

\* The sync is where it was, and nothing was delivered.
LEMMA QuietKeeps ==
  ASSUME KeptInv, UNCHANGED <<epoch, saved, channel>>
  PROVE  GenuineState(epoch', saved') /\ Chain(epoch', saved', channel')
  BY DEF KeptInv

\* The state goes out behind those it follows.
LEMMA StateSentKeeps ==
  ASSUME KeptInv, phase # "idle", NEW s \in States, channel' = Append(channel, StateMsg(s)),
         UNCHANGED <<epoch, saved>>, GenuineState(epoch, s), Follows(epoch, state, s)
  PROVE  /\ GenuineState(epoch', saved') /\ Chain(epoch', saved', channel')
         /\ FollowsAll(epoch', saved', channel', s)
<1> DEFINE m == StateMsg(s)
<1>1. channel \in Seq(Messages) /\ m \in Messages /\ saved \in States /\ state \in States
  BY DEF KeptInv, CoverInv, TypeOK, OutsideTypeOK, SyncTypeOK, StateMsg, Messages
<1>2. m.kind = "state" /\ m.state = s
  BY DEF StateMsg
<1> HIDE DEF m
<1>3. channel' = Append(channel, m)
  BY DEF m
<1>4. FollowsAll(epoch, saved, channel, state)
  BY DEF KeptInv, StateFollows
<1>5. FollowsAll(epoch, saved, channel, s)
  BY <1>1, <1>4, FollowsAllOn
<1>6. Chain(epoch, saved, Append(channel, m))
  BY <1>1, <1>2, <1>5, AppendChain DEF KeptInv
<1>7. FollowsAll(epoch, saved, Append(channel, m), s)
  BY <1>1, <1>2, <1>5, FollowsItself, AppendFollows
<1>8. QED
  BY <1>3, <1>6, <1>7 DEF KeptInv

\* The state after a page follows the one before it.
LEMMA CheckpointFollows ==
  ASSUME KeptInv, phase = "read"
  PROVE  LET s == CheckpointPage(Root, page.cursor) IN
         /\ s \in States /\ s[Root] = page.cursor
         /\ GenuineState(epoch, s) /\ Follows(epoch, state, s)
         /\ IsMultiNamespace => s[Current] = NoCursor
<1> DEFINE s == CheckpointPage(Root, page.cursor)
<1>1. TypeOK
  BY DEF KeptInv, CoverInv
<1>2. s \in States /\ Root \in Roots /\ Root \in selection
  BY <1>1, CheckpointPageType, RootType
<1>3. page.cursor \in Cursor /\ page.cursor # NoCursor /\ state \in States
  BY <1>1 DEF TypeOK, SyncTypeOK, Pages
<1>4. GenuineState(epoch, state) /\ (IsMultiNamespace => state[Current] = NoCursor)
  BY DEF KeptInv, StateFollows
<1>5. Genuine(epoch, Root, page.cursor)
  BY DEF KeptInv, ListingFits
<1>6. CASE IsMultiNamespace
  <2>1. Root # Current /\ Current \in Roots
    BY <1>1, <1>2, <1>6, SelectionType, EntriesAssumption DEF TypeOK, EntriesAssumption, Roots
  <2>2. /\ s[Root] = page.cursor /\ s[Current] = NoCursor
        /\ \A r \in Roots : r # Root /\ r # Current => s[r] = state[r]
    BY <1>2, <1>3, <1>6, <2>1 DEF CheckpointPage, States
  <2> HIDE DEF s
  <2>3. GenuineState(epoch, s)
    BY <1>4, <1>5, <2>2 DEF GenuineState, Genuine
  <2>4. ASSUME NEW n \in Namespaces, state[n] # NoCursor
        PROVE  /\ s[n] # NoCursor
               /\ epoch[n] # 0 \/ \A p \in Paths : state[n].shown[p] <= s[n].shown[p]
    <3>1. n \in Roots /\ n # Current
      BY EntriesAssumption DEF EntriesAssumption, Roots
    <3>2. CASE n = Root
      BY <1>3, <2>2, <2>4, <3>2 DEF KeptInv, ListingFits
    <3>3. CASE n # Root
      <4>1. s[n] = state[n]
        BY <2>2, <3>1, <3>3
      <4>2. ASSUME NEW p \in Paths PROVE state[n].shown[p] <= s[n].shown[p]
        BY <1>3, <2>4, <3>1, <4>1, CursorType
      <4>3. QED
        BY <2>4, <4>1, <4>2
    <3>4. QED
      BY <3>2, <3>3
  <2>5. Follows(epoch, state, s)
    BY <1>4, <1>6, <2>4 DEF Follows
  <2>6. QED
    BY <1>2, <2>2, <2>3, <2>5 DEF s
<1>7. CASE ~IsMultiNamespace
  <2>1. Root = Current
    BY <1>1, <1>2, <1>7, SelectionType DEF TypeOK
  <2>2. s[Root] = page.cursor /\ \A r \in Roots : r # Root => s[r] = NoCursor
    BY <1>2, <1>7 DEF CheckpointPage, NoCursors
  <2> HIDE DEF s
  <2>3. GenuineState(epoch, s)
    BY <1>5, <2>2 DEF GenuineState, Genuine
  <2>4. Follows(epoch, state, s)
    BY <1>3, <2>1, <2>2 DEF Follows
  <2>5. QED
    BY <1>2, <1>7, <2>2, <2>3, <2>4 DEF s
<1>8. QED
  BY <1>6, <1>7

\* The next record of a page, and where it comes from.
LEMMA RecordSent ==
  ASSUME TypeOK, ReadRecord
  PROVE  LET q == First(page.unread)  m == RecordMsg(Root, q, page.cursor.shown[q]) IN
         /\ Root \in Roots /\ q \in page.unread /\ q \in Paths
         /\ page.cursor.shown[q] \in Nat /\ m \in Messages
<1>1. Root \in Roots /\ page \in Pages /\ page.unread \subseteq Paths /\ page.cursor \in Cursor
  BY RootType DEF ReadRecord, TypeOK, SyncTypeOK, Pages
<1>2. page.unread \in SUBSET Nat /\ page.unread # {}
  BY <1>1, EntriesAssumption DEF ReadRecord, EntriesAssumption
<1>3. First(page.unread) \in page.unread /\ First(page.unread) \in Paths
  BY <1>1, <1>2, FirstIsMember
<1>4. page.cursor.shown[First(page.unread)] \in Nat
  BY <1>1, <1>3 DEF Cursor
<1>5. QED
  BY <1>1, <1>3, <1>4 DEF RecordMsg, Messages

LEMMA InitKeeps == Init => KeptInv
<1> SUFFICES ASSUME Init PROVE KeptInv
  OBVIOUS
<1>1. CoverInv
  BY InitCovers
<1>2. channel = <<>> /\ Len(channel) = 0 /\ phase = "idle" /\ saved = NoCursors
  BY DEF Init
<1>3. GenuineState(epoch, saved)
  BY <1>2 DEF GenuineState, Genuine, NoCursors
<1>4. Chain(epoch, saved, channel) /\ StateFollows /\ ListingFits
  BY <1>2 DEF Chain, StateFollows, ListingFits
<1>5. QED
  BY <1>1, <1>3, <1>4 DEF KeptInv

LEMMA NextKeeps == KeptInv /\ [Next]_vars => KeptInv'
<1> SUFFICES ASSUME KeptInv, [Next]_vars PROVE KeptInv'
  OBVIOUS
<1>0. TypeOK /\ TypeOK' /\ CoverInv /\ CoverInv'
  BY NextType, NextCovers DEF KeptInv, CoverInv
<1> USE <1>0
<1>a. channel \in Seq(Messages) /\ saved \in States /\ state \in States
  BY DEF TypeOK, OutsideTypeOK, SyncTypeOK
<1>1. CASE Start
  <2>1. GenuineState(epoch', saved') /\ Chain(epoch', saved', channel')
    BY <1>1, QuietKeeps DEF Start, dropboxVars, platformVars
  <2>2. /\ state' = saved /\ at' = saved[First(selection)] /\ left' = selection
        /\ phase' = "list" /\ channel = <<>> /\ ~Refused
        /\ UNCHANGED <<epoch, saved, channel, selection>>
    BY <1>1 DEF Start, dropboxVars, platformVars
  <2>3. Root' = First(selection)
    BY <2>2 DEF Root
  <2>4. FollowsAll(epoch, saved, <<>>, saved)
    BY <1>a, FollowsItself DEF FollowsAll
  <2>5. StateFollows'
    BY <2>1, <2>2, <2>4 DEF StateFollows, IsMultiNamespace, Refused
  <2>6. ListingFits'
    BY <2>2, <2>3 DEF ListingFits
  <2>7. QED
    BY <2>1, <2>5, <2>6 DEF KeptInv
<1>2. CASE FetchPage
  <2>1. GenuineState(epoch', saved') /\ Chain(epoch', saved', channel')
    BY <1>2, QuietKeeps DEF FetchPage, dropboxVars, platformVars
  <2>2. UNCHANGED <<epoch, saved, channel, selection, state, at, Root>>
    BY <1>2 DEF FetchPage, dropboxVars, platformVars, Root
  <2>3. /\ phase = "list" /\ phase' = "read"
        /\ page'.cursor.epoch = epoch[Root]
        /\ \A p \in Paths :
              /\ Shown[p] \in Nat /\ folder[Root][p] \in Nat /\ Shown[p] <= folder[Root][p]
              /\ p \in page'.unread => page'.cursor.shown[p] = folder[Root][p]
              /\ p \notin page'.unread => page'.cursor.shown[p] = Shown[p]
    BY <1>2, PageShows
  <2>4. StateFollows'
    BY <2>2, <2>3 DEF KeptInv, StateFollows, IsMultiNamespace
  <2>5. ASSUME state[Root] # NoCursor, epoch[Root] = 0, NEW p \in Paths
        PROVE  state[Root].shown[p] <= page'.cursor.shown[p]
    <3>1. at = state[Root]
      BY <2>3, <2>5 DEF KeptInv, ListingFits
    <3>2. Shown[p] = state[Root].shown[p]
      BY <2>5, <3>1 DEF Shown
    <3>3. QED
      BY <2>3, <3>2
  <2>6. ListingFits'
    BY <2>2, <2>3, <2>5 DEF ListingFits, Genuine
  <2>7. QED
    BY <2>1, <2>4, <2>6 DEF KeptInv
<1>3. CASE RestartListing
  <2>1. GenuineState(epoch', saved') /\ Chain(epoch', saved', channel')
    BY <1>3, QuietKeeps DEF RestartListing, dropboxVars, platformVars
  <2>2. /\ UNCHANGED <<epoch, saved, channel, selection, state, phase, Root>>
        /\ phase = "list" /\ ~CursorIsValid
    BY <1>3 DEF RestartListing, dropboxVars, platformVars, Root
  <2>3. Root \in Roots
    BY <2>2, RootType
  <2>4. epoch[Root] # 0
    <3>1. at # NoCursor /\ at.epoch # epoch[Root]
      BY <2>2 DEF CursorIsValid
    <3>2. at = state[Root] => Genuine(epoch, Root, at)
      BY <2>2, <2>3 DEF KeptInv, StateFollows, GenuineState
    <3>3. QED
      BY <2>2, <3>1, <3>2 DEF KeptInv, ListingFits, Genuine
  <2>5. StateFollows'
    BY <2>2 DEF KeptInv, StateFollows, IsMultiNamespace
  <2>6. ListingFits'
    BY <2>2, <2>4 DEF ListingFits
  <2>7. QED
    BY <2>1, <2>5, <2>6 DEF KeptInv
<1>4. CASE RefuseSecondReset
  <2>1. GenuineState(epoch', saved') /\ Chain(epoch', saved', channel')
    BY <1>4, QuietKeeps DEF RefuseSecondReset, dropboxVars, platformVars
  <2>2. QED
    BY <1>4, <2>1, EndSyncKeeps DEF RefuseSecondReset, KeptInv
<1>5. CASE ReadRecord
  <2> DEFINE m == RecordMsg(Root, First(page.unread), page.cursor.shown[First(page.unread)])
  <2>1. /\ phase = "read" /\ channel' = Append(channel, m)
        /\ page' = [page EXCEPT !.unread = @ \ {First(page.unread)}]
        /\ UNCHANGED <<epoch, saved, selection, phase, state, at, Root>>
    BY <1>5 DEF ReadRecord, dropboxVars, platformVars, Root
  <2>2. m \in Messages
    BY <1>5, RecordSent
  <2>3. ~IsState(m)
    BY DEF IsState, RecordMsg
  <2>4. page'.cursor = page.cursor
    BY <2>1 DEF TypeOK, SyncTypeOK, Pages
  <2> HIDE DEF m
  <2>5. Chain(epoch, saved, Append(channel, m))
    BY <1>a, <2>2, <2>3, AppendChain DEF KeptInv
  <2>6. FollowsAll(epoch, saved, Append(channel, m), state)
    BY <1>a, <2>1, <2>2, <2>3, AppendFollows DEF KeptInv, StateFollows
  <2>7. StateFollows'
    BY <2>1, <2>6 DEF KeptInv, StateFollows, IsMultiNamespace
  <2>8. ListingFits'
    BY <2>1, <2>4 DEF KeptInv, ListingFits
  <2>9. QED
    BY <2>1, <2>5, <2>7, <2>8 DEF KeptInv
<1>6. CASE Checkpoint
  <2> DEFINE s == CheckpointPage(Root, page.cursor)
  <2>1. /\ phase = "read" /\ channel' = Append(channel, StateMsg(s)) /\ NextPage(s)
        /\ UNCHANGED <<epoch, saved, selection>>
    BY <1>6 DEF Checkpoint, dropboxVars, platformVars
  <2>2. /\ s \in States /\ s[Root] = page.cursor
        /\ GenuineState(epoch, s) /\ Follows(epoch, state, s)
        /\ IsMultiNamespace => s[Current] = NoCursor
    BY <2>1, CheckpointFollows
  <2> HIDE DEF s
  <2>3. /\ GenuineState(epoch', saved') /\ Chain(epoch', saved', channel')
        /\ FollowsAll(epoch', saved', channel', s)
    BY <2>1, <2>2, StateSentKeeps
  <2>4. StateFollows' /\ ListingFits'
    BY <2>1, <2>2, <2>3, NextPageKeeps
  <2>5. QED
    BY <2>3, <2>4 DEF KeptInv
<1>7. CASE StopMidPage
  <2>1. /\ phase = "read" /\ channel' = Append(channel, StateMsg(state))
        /\ UNCHANGED <<epoch, saved, selection>>
    BY <1>7 DEF StopMidPage, dropboxVars, platformVars
  <2>2. GenuineState(epoch, state) /\ Follows(epoch, state, state)
    BY <1>a, <2>1, FollowsItself DEF KeptInv, StateFollows
  <2>3. /\ GenuineState(epoch', saved') /\ Chain(epoch', saved', channel')
        /\ FollowsAll(epoch', saved', channel', state)
    BY <1>a, <2>1, <2>2, StateSentKeeps
  <2>4. CASE PageWasCheckpointed
    <3>1. NextPage(state) /\ state[Root] = page.cursor
      BY <1>7, <2>4 DEF StopMidPage, PageWasCheckpointed
    <3>2. IsMultiNamespace => state[Current] = NoCursor
      BY <2>1 DEF KeptInv, StateFollows
    <3>3. StateFollows' /\ ListingFits'
      BY <1>a, <2>1, <2>2, <2>3, <3>1, <3>2, NextPageKeeps
    <3>4. QED
      BY <2>3, <3>3 DEF KeptInv
  <2>5. CASE ~PageWasCheckpointed
    BY <1>7, <2>3, <2>5, EndSyncKeeps DEF StopMidPage, KeptInv
  <2>6. QED
    BY <2>4, <2>5
<1>8. CASE Fail
  <2>1. GenuineState(epoch', saved') /\ Chain(epoch', saved', channel')
    BY <1>8, QuietKeeps DEF Fail, dropboxVars, platformVars
  <2>2. QED
    BY <1>8, <2>1, EndSyncKeeps DEF Fail, KeptInv
<1>9. CASE Kill
  <2>1. channel' = <<>> /\ Len(channel') = 0 /\ UNCHANGED <<epoch, saved>>
    BY <1>9 DEF Kill, dropboxVars, platformVars
  <2>2. GenuineState(epoch', saved') /\ Chain(epoch', saved', channel')
    BY <2>1 DEF KeptInv, Chain
  <2>3. QED
    BY <1>9, <2>2, EndSyncKeeps DEF Kill, KeptInv
<1>10. CASE DeliverRecord
  <2>1. /\ channel # <<>> /\ channel' = Tail(channel)
        /\ UNCHANGED <<epoch, saved, selection, phase, state, at, page, Root>>
    BY <1>10 DEF DeliverRecord, dropboxVars, platformVars, syncVars, Root
  <2>2. /\ Chain(epoch, saved, Tail(channel))
        /\ \A s : FollowsAll(epoch, saved, channel, s) =>
                     FollowsAll(epoch, saved, Tail(channel), s)
    <3>1. Chain(epoch, saved, channel) /\ channel # <<>>
      BY <2>1 DEF KeptInv
    <3>2. QED
      BY <1>a, <3>1, DeliveryChain, Zenon
  <2>3. StateFollows'
    BY <2>1, <2>2 DEF KeptInv, StateFollows, IsMultiNamespace
  <2>4. ListingFits'
    BY <2>1 DEF KeptInv, ListingFits
  <2>5. QED
    BY <2>1, <2>2, <2>3, <2>4 DEF KeptInv
<1>11. CASE DeliverState
  <2>1. /\ channel # <<>> /\ channel' = Tail(channel)
        /\ IsState(Head(channel)) /\ saved' = Head(channel).state
        /\ UNCHANGED <<epoch, selection, phase, state, at, page, Root>>
    BY <1>11 DEF DeliverState, dropboxVars, syncVars, Root, IsState
  <2>2. /\ Chain(epoch, saved', Tail(channel))
        /\ \A s : FollowsAll(epoch, saved, channel, s) =>
                     FollowsAll(epoch, saved', Tail(channel), s)
    BY <1>a, <2>1, DeliveryChain DEF KeptInv
  <2>3. GenuineState(epoch, saved')
    <3>1. Head(channel) = channel[1] /\ 1 \in 1 .. Len(channel)
      BY <1>a, <2>1, TailType
    <3>2. QED
      BY <2>1, <3>1 DEF KeptInv, Chain
  <2>4. StateFollows'
    BY <2>1, <2>2 DEF KeptInv, StateFollows, IsMultiNamespace
  <2>5. ListingFits'
    BY <2>1 DEF KeptInv, ListingFits
  <2>6. QED
    BY <2>1, <2>2, <2>3, <2>4, <2>5 DEF KeptInv
<1>12. CASE Select
  <2>1. GenuineState(epoch', saved') /\ Chain(epoch', saved', channel')
    BY <1>12, QuietKeeps DEF Select, dropboxVars
  <2>2. phase' = "idle"
    BY <1>12 DEF Select, syncVars
  <2>3. QED
    BY <2>1, <2>2 DEF KeptInv, StateFollows, ListingFits
<1>13. CASE ResetState
  <2>1. phase' = "idle" /\ saved' = NoCursors /\ channel' = <<>> /\ Len(channel') = 0
    BY <1>13 DEF ResetState, syncVars
  <2>2. GenuineState(epoch', saved')
    BY <2>1 DEF GenuineState, Genuine, NoCursors
  <2>3. QED
    BY <2>1, <2>2 DEF KeptInv, Chain, StateFollows, ListingFits
<1>14. ASSUME NEW r \in Roots, NEW p \in Paths, Change(r, p) PROVE KeptInv'
  <2>1. UNCHANGED <<epoch, saved, channel, selection, phase, state, at, page, Root>>
    BY <1>14 DEF Change, platformVars, syncVars, Root
  <2>2. QED
    BY <2>1 DEF KeptInv, StateFollows, ListingFits, IsMultiNamespace
<1>15. ASSUME NEW r \in Roots, Invalidate(r) PROVE KeptInv'
  <2>1. UNCHANGED <<saved, channel, selection, phase, state, at, page, Root>>
    BY <1>15 DEF Invalidate, platformVars, syncVars, Root
  <2>2. \A q \in Roots : epoch[q] # 0 => epoch'[q] # 0
    BY <1>15 DEF Invalidate, TypeOK, OutsideTypeOK
  <2>3. /\ GenuineState(epoch', saved) /\ Chain(epoch', saved, channel)
        /\ GenuineState(epoch, state) => GenuineState(epoch', state)
        /\ FollowsAll(epoch, saved, channel, state) => FollowsAll(epoch', saved, channel, state)
        /\ \A q \in Roots : \A c : Genuine(epoch, q, c) => Genuine(epoch', q, c)
    BY <2>2, ResetChain DEF KeptInv
  <2>4. StateFollows'
    BY <2>1, <2>3 DEF KeptInv, StateFollows, IsMultiNamespace
  <2>5. ListingFits'
    <3>1. phase # "idle" => Root \in Roots
      BY RootType
    <3>2. QED
      BY <2>1, <2>2, <2>3, <3>1 DEF KeptInv, ListingFits
  <2>6. QED
    BY <2>1, <2>3, <2>4, <2>5 DEF KeptInv
<1>16. CASE UNCHANGED vars
  <2>1. UNCHANGED <<epoch, saved, channel, selection, phase, state, at, page, Root>>
    BY <1>16 DEF vars, Root
  <2>2. QED
    BY <2>1 DEF KeptInv, StateFollows, ListingFits, IsMultiNamespace
<1>17. QED
  BY <1>1, <1>2, <1>3, <1>4, <1>5, <1>6, <1>7, <1>8, <1>9, <1>10, <1>11, <1>12, <1>13,
     <1>14, <1>15, <1>16 DEF Next, Sync, Deliver

\* What is saved next follows what is saved, unless the operator resets a state that
\* has no namespaces.
LEMMA SavedFollows ==
  ASSUME KeptInv, [Next]_vars
  PROVE  \/ Follows(epoch, saved, saved')
         \/ \A n \in Namespaces : saved[n] = NoCursor
<1>1. TypeOK /\ saved \in States /\ channel \in Seq(Messages)
  BY DEF KeptInv, CoverInv, TypeOK, OutsideTypeOK
<1>2. CASE DeliverState
  <2>1. channel # <<>> /\ IsState(Head(channel)) /\ saved' = Head(channel).state
    BY <1>2 DEF DeliverState, IsState
  <2>2. Head(channel) = channel[1] /\ 1 \in 1 .. Len(channel)
    BY <1>1, <2>1, TailType
  <2>3. QED
    BY <2>1, <2>2 DEF KeptInv, Chain
<1>3. CASE ResetState
  BY <1>1, <1>3 DEF ResetState, Refused, States
<1>4. CASE ~DeliverState /\ ~ResetState
  <2>1. saved' = saved
    BY <1>4 DEF Next, Sync, Deliver, Start, FetchPage, RestartListing, RefuseSecondReset,
       ReadRecord, Checkpoint, StopMidPage, Fail, Kill, DeliverRecord, Select, Change,
       Invalidate, vars, platformVars
  <2>2. QED
    BY <1>1, <2>1, FollowsItself
<1>5. QED
  BY <1>2, <1>3, <1>4

\* A namespace's cursor gets lost only to a sync of the single root, and goes back only
\* after a reset of that namespace, whatever is selected, reset or cut short.
THEOREM CursorsKept == Spec => CursorsAreKept
<1>1. Init => KeptInv
  BY InitKeeps
<1>2. KeptInv /\ [Next]_vars => KeptInv'
  BY NextKeeps
<1>3. KeptInv /\ [Next]_vars =>
        [\A n \in Namespaces :
          saved[n] # NoCursor =>
            \/ saved'[Current] # NoCursor
            \/ /\ saved'[n] # NoCursor
               /\ \/ epoch[n] # 0
                  \/ \A p \in Paths : saved[n].shown[p] <= saved'[n].shown[p]]_vars
  BY SavedFollows DEF Follows
<1>4. QED
  BY <1>1, <1>2, <1>3, PTL DEF Spec, CursorsAreKept

-----------------------------------------------------------------------------
(* The invariant behind OnlyNews: until a sync is cut short, the selection *)
(* changes or the root is reset, a cursor has shown all that was sent.     *)

Quiet(r) == epoch[r] = 0 /\ spent["interrupt"] = 0 /\ spent["select"] = 0

\* What cursor c has shown of path p.
ShownBy(c, p) == IF c = NoCursor THEN 0 ELSE c.shown[p]

\* Cursor c of root r has shown what has arrived and the first n messages.
Told(d, ch, n, r, c) ==
    \A p \in Paths :
        /\ d[r][p] <= ShownBy(c, p)
        /\ \A i \in 1 .. n : IsRecord(ch[i], r, p) => ch[i].version <= ShownBy(c, p)

\* Version v of a path is later than any that has arrived or is among the first n messages.
Newer(d, ch, n, r, p, v) ==
    /\ d[r][p] < v
    /\ \A i \in 1 .. n : IsRecord(ch[i], r, p) => ch[i].version < v

\* A record on its way is news to what is ahead of it, and a state has shown all of that.
News(d, ch, r) ==
    \A p \in Paths : \A i \in 1 .. Len(ch) :
        IsRecord(ch[i], r, p) => Newer(d, ch, i - 1, r, p, ch[i].version)
StatesTold(d, ch, r) ==
    \A i \in 1 .. Len(ch) : IsState(ch[i]) => Told(d, ch, i - 1, r, ch[i].state[r])

\* So has the saved state when nothing is on its way, and the state of the sync but for
\* the page at hand, whose unread entries are news.
CursorsTold(r) ==
    /\ phase # "read" /\ channel = <<>> => Told(dest, channel, 0, r, saved[r])
    /\ phase # "idle" /\ ~(phase = "read" /\ r = Root) =>
          Told(dest, channel, Len(channel), r, state[r])
    /\ phase = "read" /\ r = Root =>
          /\ Told(dest, channel, Len(channel), r, page.cursor)
          /\ \A p \in page.unread :
                Newer(dest, channel, Len(channel), r, p, page.cursor.shown[p])

\* A sync that is not cut short sends a state behind the records of a page.
StateIsLast ==
    spent["interrupt"] = 0 /\ phase # "read" /\ channel # <<>> => IsState(channel[Len(channel)])

OfSelection(s) == \A r \in Roots : s[r] # NoCursor => r \in selection

\* While the selection has not changed, there are cursors of its roots only.
OneSelection ==
    spent["select"] = 0 =>
        /\ OfSelection(saved) /\ OfSelection(state)
        /\ \A i \in 1 .. Len(channel) : IsState(channel[i]) => OfSelection(channel[i].state)

RootNews(r) == News(dest, channel, r) /\ StatesTold(dest, channel, r) /\ CursorsTold(r)

NewsInv ==
    /\ KeptInv /\ StateIsLast /\ OneSelection
    /\ \A r \in Roots : Quiet(r) => RootNews(r)

\* A message more: what was sent before is as it was, and the message is news.
LEMMA AppendTold ==
  ASSUME NEW d, NEW ch \in Seq(Messages), NEW m \in Messages, NEW r
  PROVE  /\ \A n \in 0 .. Len(ch) : \A c : Told(d, ch, n, r, c) => Told(d, Append(ch, m), n, r, c)
         /\ \A n \in 0 .. Len(ch) : \A p, v :
               Newer(d, ch, n, r, p, v) => Newer(d, Append(ch, m), n, r, p, v)
         /\ \A c : /\ Told(d, ch, Len(ch), r, c)
                   /\ \A p \in Paths : IsRecord(m, r, p) => m.version <= ShownBy(c, p)
                   => Told(d, Append(ch, m), Len(ch) + 1, r, c)
         /\ \A p, v : Newer(d, ch, Len(ch), r, p, v) /\ ~IsRecord(m, r, p) =>
                        Newer(d, Append(ch, m), Len(ch) + 1, r, p, v)
<1> DEFINE ch2 == Append(ch, m)
<1>1. /\ Len(ch) \in Nat
      /\ \A i \in 1 .. Len(ch) : ch2[i] = ch[i]
      /\ ch2[Len(ch) + 1] = m
  BY AppendType
<1> HIDE DEF ch2
<1>2. ASSUME NEW n \in 0 .. Len(ch), NEW i \in 1 .. n PROVE i \in 1 .. Len(ch) /\ ch2[i] = ch[i]
  BY <1>1
<1>3. ASSUME NEW n \in 0 .. Len(ch), NEW c, Told(d, ch, n, r, c) PROVE Told(d, ch2, n, r, c)
  BY <1>2, <1>3 DEF Told
<1>4. ASSUME NEW n \in 0 .. Len(ch), NEW p, NEW v, Newer(d, ch, n, r, p, v)
      PROVE  Newer(d, ch2, n, r, p, v)
  BY <1>2, <1>4 DEF Newer
<1>5. ASSUME NEW c, Told(d, ch, Len(ch), r, c),
             \A p \in Paths : IsRecord(m, r, p) => m.version <= ShownBy(c, p)
      PROVE  Told(d, ch2, Len(ch) + 1, r, c)
  <2>1. ASSUME NEW p \in Paths, NEW i \in 1 .. (Len(ch) + 1), IsRecord(ch2[i], r, p)
        PROVE  ch2[i].version <= ShownBy(c, p)
    <3>1. CASE i \in 1 .. Len(ch)
      BY <1>1, <1>5, <2>1, <3>1 DEF Told
    <3>2. CASE i = Len(ch) + 1
      BY <1>1, <1>5, <2>1, <3>2
    <3>3. QED
      BY <1>1, <3>1, <3>2
  <2>2. QED
    BY <1>5, <2>1 DEF Told
<1>6. ASSUME NEW p, NEW v, Newer(d, ch, Len(ch), r, p, v), ~IsRecord(m, r, p)
      PROVE  Newer(d, ch2, Len(ch) + 1, r, p, v)
  <2>1. ASSUME NEW i \in 1 .. (Len(ch) + 1), IsRecord(ch2[i], r, p) PROVE ch2[i].version < v
    <3>1. CASE i \in 1 .. Len(ch)
      BY <1>1, <1>6, <2>1, <3>1 DEF Newer
    <3>2. CASE i = Len(ch) + 1
      BY <1>1, <1>6, <2>1, <3>2
    <3>3. QED
      BY <1>1, <3>1, <3>2
  <2>2. QED
    BY <1>6, <2>1 DEF Newer
<1>7. QED
  BY <1>3, <1>4, <1>5, <1>6 DEF ch2

LEMMA AppendNews ==
  ASSUME NEW d, NEW ch \in Seq(Messages), NEW m \in Messages, NEW r,
         News(d, ch, r), StatesTold(d, ch, r),
         \A p \in Paths : IsRecord(m, r, p) => Newer(d, ch, Len(ch), r, p, m.version),
         IsState(m) => Told(d, ch, Len(ch), r, m.state[r])
  PROVE  News(d, Append(ch, m), r) /\ StatesTold(d, Append(ch, m), r)
<1> DEFINE ch2 == Append(ch, m)
<1>1. /\ Len(ch) \in Nat /\ Len(ch2) = Len(ch) + 1
      /\ \A i \in 1 .. Len(ch) : ch2[i] = ch[i]
      /\ ch2[Len(ch) + 1] = m
  BY AppendType
<1>2. \A n \in 0 .. Len(ch) :
         /\ \A c : Told(d, ch, n, r, c) => Told(d, ch2, n, r, c)
         /\ \A p, v : Newer(d, ch, n, r, p, v) => Newer(d, ch2, n, r, p, v)
  BY AppendTold
<1> HIDE DEF ch2
<1>3. ASSUME NEW i \in 1 .. Len(ch2)
      PROVE  i - 1 \in 0 .. Len(ch) /\ (i \in 1 .. Len(ch) \/ i = Len(ch) + 1)
  BY <1>1
<1>4. ASSUME NEW p \in Paths, NEW i \in 1 .. Len(ch2), IsRecord(ch2[i], r, p)
      PROVE  Newer(d, ch2, i - 1, r, p, ch2[i].version)
  <2>1. Newer(d, ch, i - 1, r, p, ch2[i].version)
    <3>1. CASE i \in 1 .. Len(ch)
      BY <1>1, <1>4, <3>1 DEF News
    <3>2. CASE i = Len(ch) + 1
      BY <1>1, <1>4, <3>2
    <3>3. QED
      BY <1>3, <3>1, <3>2
  <2>2. QED
    BY <1>2, <1>3, <2>1
<1>5. ASSUME NEW i \in 1 .. Len(ch2), IsState(ch2[i])
      PROVE  Told(d, ch2, i - 1, r, ch2[i].state[r])
  <2>1. Told(d, ch, i - 1, r, ch2[i].state[r])
    <3>1. CASE i \in 1 .. Len(ch)
      BY <1>1, <1>5, <3>1 DEF StatesTold
    <3>2. CASE i = Len(ch) + 1
      BY <1>1, <1>5, <3>2
    <3>3. QED
      BY <1>3, <3>1, <3>2
  <2>2. QED
    BY <1>2, <1>3, <2>1
<1>6. QED
  BY <1>4, <1>5 DEF News, StatesTold, ch2

\* A delivery takes the first message from those that were sent to what has arrived.
LEMMA DeliveryTold ==
  ASSUME NEW d \in Arrived, NEW d2 \in Arrived, NEW ch \in Seq(Messages), ch # <<>>,
         TakenUp(d, d2, ch), NEW r \in Roots, NEW n \in 1 .. Len(ch)
  PROVE  /\ \A c : Told(d, ch, n, r, c) => Told(d2, Tail(ch), n - 1, r, c)
         /\ \A p \in Paths : \A v :
               Newer(d, ch, n, r, p, v) => Newer(d2, Tail(ch), n - 1, r, p, v)
<1> DEFINE ch2 == Tail(ch)
<1>1. /\ Len(ch) \in Nat
      /\ \A i \in 1 .. Len(ch) - 1 : ch2[i] = ch[i + 1]
      /\ Head(ch) = ch[1]
  BY TailType
<1> HIDE DEF ch2
<1>2. ASSUME NEW i \in 1 .. (n - 1) PROVE i + 1 \in 1 .. n /\ ch2[i] = ch[i + 1]
  BY <1>1
<1>3. 1 \in 1 .. n
  BY <1>1
<1>4. ASSUME NEW c, Told(d, ch, n, r, c) PROVE Told(d2, ch2, n - 1, r, c)
  <2>1. ASSUME NEW p \in Paths PROVE d2[r][p] <= ShownBy(c, p)
    <3>1. CASE IsRecord(Head(ch), r, p)
      BY <1>1, <1>3, <1>4, <3>1 DEF TakenUp, Told
    <3>2. CASE ~IsRecord(Head(ch), r, p)
      BY <1>4, <3>2 DEF TakenUp, Told
    <3>3. QED
      BY <3>1, <3>2
  <2>2. ASSUME NEW p \in Paths, NEW i \in 1 .. (n - 1), IsRecord(ch2[i], r, p)
        PROVE  ch2[i].version <= ShownBy(c, p)
    BY <1>2, <1>4, <2>2 DEF Told
  <2>3. QED
    BY <2>1, <2>2 DEF Told
<1>5. ASSUME NEW p \in Paths, NEW v, Newer(d, ch, n, r, p, v)
      PROVE  Newer(d2, ch2, n - 1, r, p, v)
  <2>1. d2[r][p] < v
    <3>1. CASE IsRecord(Head(ch), r, p)
      BY <1>1, <1>3, <1>5, <3>1 DEF TakenUp, Newer
    <3>2. CASE ~IsRecord(Head(ch), r, p)
      BY <1>5, <3>2 DEF TakenUp, Newer
    <3>3. QED
      BY <3>1, <3>2
  <2>2. ASSUME NEW i \in 1 .. (n - 1), IsRecord(ch2[i], r, p) PROVE ch2[i].version < v
    BY <1>2, <1>5, <2>2 DEF Newer
  <2>3. QED
    BY <2>1, <2>2 DEF Newer
<1>6. QED
  BY <1>4, <1>5 DEF ch2

LEMMA DeliveryNews ==
  ASSUME NEW d \in Arrived, NEW d2 \in Arrived, NEW ch \in Seq(Messages), ch # <<>>,
         TakenUp(d, d2, ch), NEW r \in Roots, News(d, ch, r), StatesTold(d, ch, r)
  PROVE  News(d2, Tail(ch), r) /\ StatesTold(d2, Tail(ch), r)
<1> DEFINE ch2 == Tail(ch)
<1>1. /\ Len(ch) \in Nat /\ Len(ch2) = Len(ch) - 1
      /\ \A i \in 1 .. Len(ch) - 1 : ch2[i] = ch[i + 1]
  BY TailType
<1>2. \A n \in 1 .. Len(ch) :
         /\ \A c : Told(d, ch, n, r, c) => Told(d2, ch2, n - 1, r, c)
         /\ \A p \in Paths : \A v : Newer(d, ch, n, r, p, v) => Newer(d2, ch2, n - 1, r, p, v)
  BY DeliveryTold
<1> HIDE DEF ch2
<1>3. ASSUME NEW i \in 1 .. Len(ch2)
      PROVE  i \in 1 .. Len(ch) /\ i + 1 \in 1 .. Len(ch) /\ (i + 1) - 1 = i /\ ch2[i] = ch[i + 1]
  BY <1>1
<1>4. ASSUME NEW p \in Paths, NEW i \in 1 .. Len(ch2), IsRecord(ch2[i], r, p)
      PROVE  Newer(d2, ch2, i - 1, r, p, ch2[i].version)
  <2>1. Newer(d, ch, i, r, p, ch2[i].version)
    BY <1>3, <1>4 DEF News
  <2>2. QED
    BY <1>2, <1>3, <2>1
<1>5. ASSUME NEW i \in 1 .. Len(ch2), IsState(ch2[i])
      PROVE  Told(d2, ch2, i - 1, r, ch2[i].state[r])
  <2>1. Told(d, ch, i, r, ch2[i].state[r])
    BY <1>3, <1>5 DEF StatesTold
  <2>2. QED
    BY <1>2, <1>3, <2>1
<1>6. QED
  BY <1>4, <1>5 DEF News, StatesTold, ch2

\* Budgets are only spent, and roots only reset: what is quiet was quiet before.
LEMMA QuietBefore ==
  ASSUME TypeOK, [Next]_vars
  PROVE  /\ spent'["interrupt"] = 0 => /\ spent["interrupt"] = 0
                                       /\ ~StopMidPage /\ ~Fail /\ ~Kill
         /\ spent'["select"] = 0 => spent["select"] = 0 /\ ~Select
         /\ \A r \in Roots : epoch'[r] = 0 => epoch[r] = 0
<1>1. spent \in [Events -> Nat] /\ "interrupt" \in Events /\ "select" \in Events
  BY DEF TypeOK, OutsideTypeOK, Events
<1>2. ASSUME NEW e \in Events, Spend(e)
      PROVE  \A x \in Events : spent'[x] = IF x = e THEN spent[x] + 1 ELSE spent[x]
  BY <1>1, <1>2 DEF Spend
<1>3. spent'["interrupt"] = 0 => ~StopMidPage /\ ~Fail /\ ~Kill
  <2>1. Spend("interrupt") => spent'["interrupt"] # 0
    BY <1>1, <1>2
  <2>2. QED
    BY <2>1 DEF StopMidPage, Fail, Kill
<1>4. spent'["select"] = 0 => ~Select
  <2>1. Spend("select") => spent'["select"] # 0
    BY <1>1, <1>2
  <2>2. QED
    BY <2>1 DEF Select
<1>5. \A x \in Events : spent'[x] = 0 => spent[x] = 0
  <2>1. spent' = spent \/ \E e \in Events : Spend(e)
    BY DEF Next, Sync, Deliver, Start, FetchPage, RestartListing, RefuseSecondReset, ReadRecord,
       Checkpoint, StopMidPage, Fail, Kill, DeliverRecord, DeliverState, Select, ResetState,
       Change, Invalidate, vars, Events
  <2>2. QED
    BY <1>1, <1>2, <2>1
<1>6. \A r \in Roots : epoch'[r] = 0 => epoch[r] = 0
  <2>1. CASE \E q \in Roots : Invalidate(q)
    BY <2>1 DEF Invalidate, TypeOK, OutsideTypeOK
  <2>2. CASE ~ \E q \in Roots : Invalidate(q)
    BY <2>2 DEF Next, Sync, Deliver, Start, FetchPage, RestartListing, RefuseSecondReset, ReadRecord,
       Checkpoint, StopMidPage, Fail, Kill, DeliverRecord, DeliverState, Select, ResetState,
       Change, vars, dropboxVars
  <2>3. QED
    BY <2>1, <2>2
<1>7. QED
  BY <1>1, <1>3, <1>4, <1>5, <1>6

LEMMA SelectionSent ==
  ASSUME NEW ch \in Seq(Messages),
         \A i \in 1 .. Len(ch) : IsState(ch[i]) => OfSelection(ch[i].state)
  PROVE  /\ \A m \in Messages : (IsState(m) => OfSelection(m.state)) =>
               \A i \in 1 .. Len(Append(ch, m)) :
                  IsState(Append(ch, m)[i]) => OfSelection(Append(ch, m)[i].state)
         /\ ch # <<>> =>
               /\ IsState(Head(ch)) => OfSelection(Head(ch).state)
               /\ \A i \in 1 .. Len(Tail(ch)) : IsState(Tail(ch)[i]) => OfSelection(Tail(ch)[i].state)
<1>1. ASSUME NEW m \in Messages, IsState(m) => OfSelection(m.state)
      PROVE  \A i \in 1 .. Len(Append(ch, m)) :
                IsState(Append(ch, m)[i]) => OfSelection(Append(ch, m)[i].state)
  <2> DEFINE ch2 == Append(ch, m)
  <2>1. /\ Len(ch) \in Nat /\ Len(ch2) = Len(ch) + 1
        /\ \A i \in 1 .. Len(ch) : ch2[i] = ch[i]
        /\ ch2[Len(ch) + 1] = m
    BY AppendType
  <2> HIDE DEF ch2
  <2>2. ASSUME NEW i \in 1 .. Len(ch2), IsState(ch2[i]) PROVE OfSelection(ch2[i].state)
    <3>1. CASE i \in 1 .. Len(ch)
      BY <2>1, <2>2, <3>1
    <3>2. CASE i = Len(ch) + 1
      BY <1>1, <2>1, <2>2, <3>2
    <3>3. QED
      BY <2>1, <3>1, <3>2
  <2>3. QED
    BY <2>2 DEF ch2
<1>2. ASSUME ch # <<>>
      PROVE  /\ IsState(Head(ch)) => OfSelection(Head(ch).state)
             /\ \A i \in 1 .. Len(Tail(ch)) : IsState(Tail(ch)[i]) => OfSelection(Tail(ch)[i].state)
  <2> DEFINE ch2 == Tail(ch)
  <2>1. /\ Len(ch) \in Nat /\ Len(ch) >= 1 /\ Len(ch2) = Len(ch) - 1
        /\ \A i \in 1 .. Len(ch) - 1 : ch2[i] = ch[i + 1]
        /\ Head(ch) = ch[1]
    BY <1>2, TailType
  <2> HIDE DEF ch2
  <2>2. \A i \in 1 .. Len(ch2) : i + 1 \in 1 .. Len(ch) /\ ch2[i] = ch[i + 1]
    BY <2>1
  <2>3. \A i \in 1 .. Len(ch2) : IsState(ch2[i]) => OfSelection(ch2[i].state)
    BY <2>2
  <2>4. IsState(Head(ch)) => OfSelection(Head(ch).state)
    BY <2>1
  <2>5. QED
    BY <2>3, <2>4 DEF ch2
<1>3. QED
  BY <1>1, <1>2

\* While the selection has not changed, a page adds the cursor of its root and no more.
LEMMA CheckpointAdds ==
  ASSUME NewsInv, phase = "read", spent["select"] = 0
  PROVE  LET s == CheckpointPage(Root, page.cursor) IN
         /\ OfSelection(s)
         /\ s[Root] = page.cursor
         /\ \A r \in Roots : r # Root => s[r] = state[r]
<1> DEFINE s == CheckpointPage(Root, page.cursor)
<1>1. TypeOK /\ state \in States /\ OfSelection(state)
  BY DEF NewsInv, KeptInv, CoverInv, TypeOK, SyncTypeOK, OneSelection
<1>2. Root \in Roots /\ Root \in selection /\ Current \in Roots
  BY <1>1, RootType DEF Roots
<1>3. CASE IsMultiNamespace
  <2>1. Root # Current /\ state[Current] = NoCursor
    BY <1>1, <1>2, <1>3, SelectionType, EntriesAssumption
       DEF TypeOK, EntriesAssumption, NewsInv, KeptInv, StateFollows
  <2>2. /\ s[Root] = page.cursor /\ s[Current] = NoCursor
        /\ \A r \in Roots : r # Root /\ r # Current => s[r] = state[r]
    BY <1>1, <1>2, <1>3, <2>1 DEF CheckpointPage, States
  <2> HIDE DEF s
  <2>3. \A r \in Roots : r # Root => s[r] = state[r]
    BY <2>1, <2>2
  <2>4. OfSelection(s)
    BY <1>1, <1>2, <2>3 DEF OfSelection
  <2>5. QED
    BY <2>2, <2>3, <2>4 DEF s
<1>4. CASE ~IsMultiNamespace
  <2>1. selection = {Current} /\ Root = Current
    BY <1>1, <1>2, <1>4, SelectionType DEF TypeOK
  <2>2. s[Root] = page.cursor /\ \A r \in Roots : r # Root => s[r] = NoCursor
    BY <1>2, <1>4 DEF CheckpointPage, NoCursors
  <2> HIDE DEF s
  <2>3. \A r \in Roots : r # Root => state[r] = NoCursor
    BY <1>1, <2>1 DEF OfSelection
  <2>4. OfSelection(s)
    BY <1>2, <2>2 DEF OfSelection
  <2>5. QED
    BY <2>2, <2>3, <2>4 DEF s
<1>5. QED
  BY <1>3, <1>4

LEMMA NextPageState ==
  ASSUME NEW s, NextPage(s)
  PROVE  phase' \in {"list", "idle"} /\ state' \in {s, NoCursors} /\ (phase' # "idle" => state' = s)
  BY DEF NextPage, EndSync

LEMMA NoCursorsSelected == OfSelection(NoCursors)
  BY DEF OfSelection, NoCursors

LEMMA SelectionStays ==
  ASSUME NewsInv, [Next]_vars
  PROVE  OneSelection'
<1> SUFFICES ASSUME spent'["select"] = 0
             PROVE  /\ selection' = selection
                    /\ OfSelection(saved') /\ OfSelection(state')
                    /\ \A i \in 1 .. Len(channel') :
                          IsState(channel'[i]) => OfSelection(channel'[i].state)
  BY DEF OneSelection, OfSelection
<1>1. TypeOK /\ channel \in Seq(Messages) /\ state \in States
  BY DEF NewsInv, KeptInv, CoverInv, TypeOK, OutsideTypeOK, SyncTypeOK
<1>2. spent["select"] = 0 /\ ~Select
  BY <1>1, QuietBefore
<1>3. /\ OfSelection(saved) /\ OfSelection(state) /\ OfSelection(NoCursors)
      /\ \A i \in 1 .. Len(channel) : IsState(channel[i]) => OfSelection(channel[i].state)
  BY <1>2, NoCursorsSelected DEF NewsInv, OneSelection
<1>4. selection' = selection
  BY <1>2 DEF Next, Sync, Deliver, Start, FetchPage, RestartListing, RefuseSecondReset, ReadRecord,
     Checkpoint, StopMidPage, Fail, Kill, DeliverRecord, DeliverState, ResetState,
     Change, Invalidate, vars, platformVars
<1>5. CASE ReadRecord
  <2> DEFINE m == RecordMsg(Root, First(page.unread), page.cursor.shown[First(page.unread)])
  <2>1. channel' = Append(channel, m) /\ saved' = saved /\ state' = state /\ phase = "read"
    BY <1>5 DEF ReadRecord, platformVars
  <2>2. m \in Messages
    BY <1>1, <1>5, RecordSent
  <2>3. ~IsState(m)
    BY DEF IsState, RecordMsg
  <2> HIDE DEF m
  <2>4. QED
    BY <1>1, <1>3, <1>4, <2>1, <2>2, <2>3, SelectionSent
<1>6. CASE Checkpoint
  <2> DEFINE s == CheckpointPage(Root, page.cursor)
             m == StateMsg(s)
  <2>1. /\ channel' = Append(channel, m) /\ saved' = saved /\ phase = "read" /\ NextPage(s)
    BY <1>6 DEF Checkpoint, platformVars
  <2>2. OfSelection(s) /\ s \in States
    BY <1>1, <1>2, <2>1, CheckpointAdds, CheckpointPageType
  <2> HIDE DEF s
  <2>3. m \in Messages /\ m.state = s
    BY <2>2 DEF StateMsg, Messages
  <2>4. state' \in {s, NoCursors}
    BY <2>1, NextPageState
  <2> HIDE DEF m
  <2>5. QED
    BY <1>1, <1>3, <1>4, <2>1, <2>2, <2>3, <2>4, SelectionSent
<1>7. CASE StopMidPage
  <2> DEFINE m == StateMsg(state)
  <2>1. channel' = Append(channel, m) /\ saved' = saved /\ (NextPage(state) \/ EndSync)
    BY <1>7 DEF StopMidPage, platformVars
  <2>2. m \in Messages /\ m.state = state
    BY <1>1 DEF StateMsg, Messages
  <2>3. state' \in {state, NoCursors}
    BY <2>1, NextPageState DEF EndSync
  <2> HIDE DEF m
  <2>4. QED
    BY <1>1, <1>3, <1>4, <2>1, <2>2, <2>3, SelectionSent
<1>8. CASE DeliverRecord
  <2>1. channel # <<>> /\ channel' = Tail(channel) /\ saved' = saved /\ state' = state
    BY <1>8 DEF DeliverRecord, platformVars, syncVars
  <2>2. QED
    BY <1>1, <1>3, <1>4, <2>1, SelectionSent
<1>9. CASE DeliverState
  <2>1. /\ channel # <<>> /\ channel' = Tail(channel) /\ state' = state
        /\ IsState(Head(channel)) /\ saved' = Head(channel).state
    BY <1>9 DEF DeliverState, syncVars, IsState
  <2>2. QED
    BY <1>1, <1>3, <1>4, <2>1, SelectionSent
<1>10. CASE Start
  BY <1>3, <1>4, <1>10 DEF Start, platformVars
<1>11. CASE ~ (ReadRecord \/ Checkpoint \/ StopMidPage \/ Deliver \/ Start)
  <2>1. /\ saved' \in {saved, NoCursors} /\ state' \in {state, NoCursors}
        /\ channel' = channel \/ channel' = <<>>
    BY <1>2, <1>11 DEF Next, Sync, FetchPage, RestartListing, RefuseSecondReset, Fail, Kill,
       ResetState, Change, Invalidate, vars, platformVars, syncVars, EndSync
  <2>2. channel' = <<>> => Len(channel') = 0
    OBVIOUS
  <2>3. QED
    BY <1>3, <1>4, <2>1, <2>2
<1>12. QED
  BY <1>5, <1>6, <1>7, <1>8, <1>9, <1>10, <1>11 DEF Deliver

LEMMA StateStaysLast ==
  ASSUME NewsInv, [Next]_vars
  PROVE  StateIsLast'
<1> SUFFICES ASSUME spent'["interrupt"] = 0, phase' # "read", channel' # <<>>
             PROVE  IsState(channel'[Len(channel')])
  BY DEF StateIsLast
<1>1. TypeOK /\ channel \in Seq(Messages)
  BY DEF NewsInv, KeptInv, CoverInv, TypeOK, OutsideTypeOK
<1>2. spent["interrupt"] = 0 /\ ~StopMidPage /\ ~Fail /\ ~Kill
  BY <1>1, QuietBefore
<1>3. phase # "read" /\ channel # <<>> => IsState(channel[Len(channel)])
  BY <1>2 DEF NewsInv, StateIsLast
<1>4. CASE Checkpoint
  <2> DEFINE m == StateMsg(CheckpointPage(Root, page.cursor))
  <2>1. channel' = Append(channel, m)
    BY <1>4 DEF Checkpoint
  <2>2. m \in Messages /\ IsState(m)
    BY <1>1, <1>4, CheckpointPageType DEF Checkpoint, StateMsg, Messages, IsState
  <2> HIDE DEF m
  <2>3. QED
    BY <1>1, <2>1, <2>2, AppendType
<1>5. CASE Deliver
  <2>1. channel # <<>> /\ channel' = Tail(channel) /\ phase' = phase
    BY <1>5 DEF Deliver, DeliverRecord, DeliverState, syncVars
  <2>2. /\ Len(channel) \in Nat /\ Len(channel') = Len(channel) - 1
        /\ \A i \in 1 .. Len(channel) - 1 : channel'[i] = channel[i + 1]
        /\ channel' \in Seq(Messages)
    BY <1>1, <2>1, TailType
  <2>3. Len(channel') \in 1 .. Len(channel) - 1
    <3>1. Len(channel') # 0
      BY <2>2, EmptySeq
    <3>2. QED
      BY <2>2, <3>1
  <2>4. channel'[Len(channel')] = channel[Len(channel)]
    BY <2>2, <2>3
  <2>5. QED
    BY <1>3, <2>1, <2>4
<1>6. CASE ~Checkpoint /\ ~Deliver
  <2>1. phase # "read" /\ channel' = channel
    BY <1>2, <1>6 DEF Next, Sync, Start, FetchPage, RestartListing, RefuseSecondReset,
       ReadRecord, Select, ResetState, Change, Invalidate, vars, syncVars
  <2>2. QED
    BY <1>3, <2>1
<1>7. QED
  BY <1>4, <1>5, <1>6

\* A page: what it shows for the first time is news, and its cursor has shown all.
LEMMA PageIsNews ==
  ASSUME NewsInv, FetchPage, Quiet(Root), RootNews(Root)
  PROVE  /\ Told(dest, channel, Len(channel), Root, page'.cursor)
         /\ \A p \in page'.unread :
               Newer(dest, channel, Len(channel), Root, p, page'.cursor.shown[p])
<1>1. TypeOK /\ TypeOK' /\ CoverInv /\ channel \in Seq(Messages)
  BY NextType DEF NewsInv, KeptInv, CoverInv, TypeOK, OutsideTypeOK, Next, Sync
<1>2. /\ phase = "list" /\ phase' = "read" /\ page'.cursor # NoCursor
      /\ \A p \in Paths :
            /\ Shown[p] \in Nat /\ folder[Root][p] \in Nat /\ Shown[p] <= folder[Root][p]
            /\ p \in page'.unread => /\ page'.cursor.shown[p] = folder[Root][p]
                                     /\ Shown[p] # folder[Root][p]
            /\ p \notin page'.unread => page'.cursor.shown[p] = Shown[p]
  BY <1>1, PageShows
<1>3. Root \in Roots /\ page'.unread \subseteq Paths
  BY <1>1, <1>2, RootType DEF TypeOK, SyncTypeOK, Pages
<1>4. at = state[Root]
  BY <1>2 DEF NewsInv, KeptInv, ListingFits, Quiet
<1>5. Told(dest, channel, Len(channel), Root, at)
  BY <1>2, <1>4 DEF RootNews, CursorsTold
<1>6. ASSUME NEW p \in Paths PROVE ShownBy(at, p) = Shown[p] /\ dest[Root][p] \in Nat
  BY <1>1, <1>3 DEF ShownBy, Shown, TypeOK, OutsideTypeOK
<1>7. ASSUME NEW p \in Paths, NEW i \in 1 .. Len(channel), IsRecord(channel[i], Root, p)
      PROVE  channel[i].version \in Nat
  <2>1. channel[i] \in Messages
    BY <1>1
  <2>2. QED
    BY <1>7, <2>1, RecordType
<1>8. ASSUME NEW p \in Paths
      PROVE  /\ ShownBy(page'.cursor, p) = page'.cursor.shown[p]
             /\ page'.cursor.shown[p] \in Nat /\ Shown[p] <= page'.cursor.shown[p]
             /\ p \in page'.unread => Shown[p] < page'.cursor.shown[p]
  BY <1>2 DEF ShownBy
<1>9. Told(dest, channel, Len(channel), Root, page'.cursor)
  BY <1>2, <1>5, <1>6, <1>7, <1>8 DEF Told
<1>10. ASSUME NEW p \in page'.unread
       PROVE  Newer(dest, channel, Len(channel), Root, p, page'.cursor.shown[p])
  BY <1>2, <1>3, <1>5, <1>6, <1>7, <1>8 DEF Told, Newer
<1>11. QED
  BY <1>9, <1>10

LEMMA NewsStays ==
  ASSUME NewsInv, [Next]_vars, NEW r \in Roots, Quiet(r)'
  PROVE  RootNews(r)'
<1>1. /\ TypeOK /\ TypeOK' /\ channel \in Seq(Messages) /\ dest \in Arrived /\ dest' \in Arrived
      /\ state \in States
  <2>1. TypeOK
    BY DEF NewsInv, KeptInv, CoverInv
  <2>2. QED
    BY <2>1, NextType DEF TypeOK, OutsideTypeOK, SyncTypeOK, Arrived
<1>2. Quiet(r) /\ ~StopMidPage /\ ~Fail /\ ~Kill /\ ~Select
  BY <1>1, QuietBefore DEF Quiet
<1>3. RootNews(r) /\ News(dest, channel, r) /\ StatesTold(dest, channel, r) /\ CursorsTold(r)
  BY <1>2 DEF NewsInv, RootNews
<1>4. CASE Start
  <2>1. /\ phase = "idle" /\ phase' = "list" /\ channel = <<>> /\ Len(channel) = 0
        /\ state' = saved /\ UNCHANGED <<dest, channel, saved>>
    BY <1>4 DEF Start, platformVars
  <2>2. Told(dest, channel, 0, r, saved[r])
    BY <1>3, <2>1 DEF CursorsTold
  <2>3. CursorsTold(r)'
    BY <2>1, <2>2 DEF CursorsTold
  <2>4. QED
    BY <1>3, <2>1, <2>3 DEF RootNews
<1>5. CASE FetchPage
  <2>1. /\ phase = "list" /\ phase' = "read"
        /\ UNCHANGED <<dest, channel, saved, state, Root>>
    BY <1>5 DEF FetchPage, platformVars, Root
  <2>2. CASE r = Root
    <3>1. /\ Told(dest, channel, Len(channel), Root, page'.cursor)
          /\ \A p \in page'.unread :
                Newer(dest, channel, Len(channel), Root, p, page'.cursor.shown[p])
      BY <1>2, <1>3, <1>5, <2>2, PageIsNews
    <3>2. CursorsTold(r)'
      BY <2>1, <2>2, <3>1 DEF CursorsTold
    <3>3. QED
      BY <1>3, <2>1, <3>2 DEF RootNews
  <2>3. CASE r # Root
    <3>1. CursorsTold(r)'
      BY <1>3, <2>1, <2>3 DEF CursorsTold
    <3>2. QED
      BY <1>3, <2>1, <3>1 DEF RootNews
  <2>4. QED
    BY <2>2, <2>3
<1>6. CASE RefuseSecondReset
  <2>1. /\ phase = "list" /\ phase' = "idle" /\ UNCHANGED <<dest, channel, saved>>
    BY <1>6 DEF RefuseSecondReset, EndSync, platformVars
  <2>2. CursorsTold(r)'
    BY <1>3, <2>1 DEF CursorsTold
  <2>3. QED
    BY <1>3, <2>1, <2>2 DEF RootNews
<1>7. CASE ReadRecord
  <2> DEFINE q == First(page.unread)
             m == RecordMsg(Root, q, page.cursor.shown[q])
  <2>1. /\ phase = "read" /\ channel' = Append(channel, m)
        /\ page' = [page EXCEPT !.unread = @ \ {q}]
        /\ UNCHANGED <<phase, state, dest, saved, Root>>
    BY <1>7 DEF ReadRecord, platformVars, Root
  <2>2. /\ Root \in Roots /\ q \in page.unread /\ q \in Paths
        /\ page.cursor.shown[q] \in Nat /\ m \in Messages
    BY <1>1, <1>7, RecordSent
  <2>3. page'.unread = page.unread \ {q} /\ page'.cursor = page.cursor /\ page.cursor # NoCursor
    BY <1>1, <2>1 DEF TypeOK, SyncTypeOK, Pages
  <2>4. /\ m.version = page.cursor.shown[q] /\ ~IsState(m)
        /\ \A x, p : IsRecord(m, x, p) <=> x = Root /\ p = q
    BY DEF IsRecord, IsState, RecordMsg
  <2> HIDE DEF q, m
  <2>5. Len(channel) \in Nat /\ Len(channel') = Len(channel) + 1 /\ channel' # <<>>
    BY <1>1, <2>1, <2>2, AppendType
  <2>6. /\ \A c : /\ Told(dest, channel, Len(channel), r, c)
                  /\ \A p \in Paths : IsRecord(m, r, p) => m.version <= ShownBy(c, p)
                  => Told(dest, channel', Len(channel'), r, c)
        /\ \A p, v : Newer(dest, channel, Len(channel), r, p, v) /\ ~IsRecord(m, r, p) =>
                       Newer(dest, channel', Len(channel'), r, p, v)
    BY <1>1, <2>1, <2>2, <2>5, AppendTold
  <2>7. CASE r = Root
    <3>1. /\ Told(dest, channel, Len(channel), r, page.cursor)
          /\ \A p \in page.unread :
                Newer(dest, channel, Len(channel), r, p, page.cursor.shown[p])
      BY <1>3, <2>1, <2>7 DEF CursorsTold
    <3>2. \A p \in Paths : IsRecord(m, r, p) => Newer(dest, channel, Len(channel), r, p, m.version)
      BY <2>2, <2>4, <3>1
    <3>3. News(dest, channel', r) /\ StatesTold(dest, channel', r)
      BY <1>1, <1>3, <2>1, <2>2, <2>4, <3>2, AppendNews
    <3>4. \A p \in Paths : IsRecord(m, r, p) => m.version <= ShownBy(page.cursor, p)
      BY <2>2, <2>3, <2>4 DEF ShownBy
    <3>5. Told(dest, channel', Len(channel'), r, page.cursor)
      BY <2>6, <3>1, <3>4
    <3>6. ASSUME NEW p \in page.unread \ {q}
          PROVE  Newer(dest, channel', Len(channel'), r, p, page.cursor.shown[p])
      BY <2>4, <2>6, <3>1
    <3>7. CursorsTold(r)'
      BY <2>1, <2>3, <2>7, <3>5, <3>6 DEF CursorsTold
    <3>8. QED
      BY <2>1, <3>3, <3>7 DEF RootNews
  <2>8. CASE r # Root
    <3>1. \A p : ~IsRecord(m, r, p)
      BY <2>4, <2>8
    <3>2. News(dest, channel', r) /\ StatesTold(dest, channel', r)
      BY <1>1, <1>3, <2>1, <2>2, <2>4, <3>1, AppendNews
    <3>3. Told(dest, channel, Len(channel), r, state[r])
      BY <1>3, <2>1, <2>8 DEF CursorsTold
    <3>4. Told(dest, channel', Len(channel'), r, state[r])
      BY <2>6, <3>1, <3>3
    <3>5. CursorsTold(r)'
      BY <2>1, <2>8, <3>4 DEF CursorsTold
    <3>6. QED
      BY <2>1, <3>2, <3>5 DEF RootNews
  <2>9. QED
    BY <2>7, <2>8
<1>8. CASE Checkpoint
  <2> DEFINE s == CheckpointPage(Root, page.cursor)
             m == StateMsg(s)
  <2>1. /\ phase = "read" /\ channel' = Append(channel, m) /\ NextPage(s)
        /\ UNCHANGED <<dest, saved>>
    BY <1>8 DEF Checkpoint, platformVars
  <2>2. /\ s \in States /\ s[Root] = page.cursor
        /\ \A x \in Roots : x # Root => s[x] = state[x]
    BY <1>1, <1>2, <2>1, CheckpointAdds, CheckpointPageType DEF Quiet
  <2> HIDE DEF s
  <2>3. m \in Messages /\ m.state = s /\ \A p : ~IsRecord(m, r, p)
    BY <2>2 DEF StateMsg, Messages, IsRecord
  <2>4. phase' \in {"list", "idle"} /\ (phase' # "idle" => state' = s)
    BY <2>1, NextPageState
  <2> HIDE DEF m
  <2>5. Len(channel) \in Nat /\ Len(channel') = Len(channel) + 1 /\ channel' # <<>>
    BY <1>1, <2>1, <2>3, AppendType
  <2>6. Told(dest, channel, Len(channel), r, s[r])
    BY <1>3, <2>1, <2>2 DEF CursorsTold
  <2>7. News(dest, channel', r) /\ StatesTold(dest, channel', r)
    BY <1>1, <1>3, <2>1, <2>3, <2>6, AppendNews
  <2>8. Told(dest, channel', Len(channel'), r, s[r])
    BY <1>1, <2>1, <2>3, <2>5, <2>6, AppendTold
  <2>9. CursorsTold(r)'
    BY <2>1, <2>4, <2>5, <2>8 DEF CursorsTold
  <2>10. QED
    BY <2>1, <2>7, <2>9 DEF RootNews
<1>9. CASE Deliver
  <2>1. /\ channel # <<>> /\ channel' = Tail(channel)
        /\ UNCHANGED <<phase, state, page, Root>>
        /\ saved' = IF IsState(Head(channel)) THEN Head(channel).state ELSE saved
    BY <1>9 DEF Deliver, DeliverRecord, DeliverState, syncVars, platformVars, Root, IsState
  <2>2. TakenUp(dest, dest', channel)
    <3>1. Head(channel) \in Messages
      BY <1>1, <2>1, TailType
    <3>2. CASE DeliverRecord
      BY <1>1, <3>1, <3>2 DEF DeliverRecord, TakenUp, IsRecord, Arrived, Messages
    <3>3. CASE DeliverState
      BY <3>3 DEF DeliverState, TakenUp, IsRecord
    <3>4. QED
      BY <1>9, <3>2, <3>3 DEF Deliver
  <2>3. /\ Len(channel) \in 1 .. Len(channel) /\ 1 \in 1 .. Len(channel)
        /\ Len(channel') = Len(channel) - 1 /\ Head(channel) = channel[1]
    BY <1>1, <2>1, TailType
  <2>4. News(dest', channel', r) /\ StatesTold(dest', channel', r)
    BY <1>1, <1>3, <2>1, <2>2, DeliveryNews
  <2>5. /\ \A c : Told(dest, channel, Len(channel), r, c) => Told(dest', channel', Len(channel'), r, c)
        /\ \A p \in Paths : \A v :
              Newer(dest, channel, Len(channel), r, p, v) =>
                 Newer(dest', channel', Len(channel'), r, p, v)
    BY <1>1, <2>1, <2>2, <2>3, DeliveryTold
  <2>6. ASSUME phase # "read", channel' = <<>> PROVE Told(dest', channel', 0, r, saved'[r])
    <3>1. Len(channel) = 1
      BY <2>3, <2>6
    <3>2. IsState(channel[1])
      BY <1>2, <2>1, <2>6, <3>1 DEF NewsInv, StateIsLast, Quiet
    <3>3. saved' = channel[1].state
      BY <2>1, <2>3, <3>2
    <3>4. Told(dest, channel, 0, r, channel[1].state[r])
      BY <1>3, <2>3, <3>2 DEF StatesTold
    <3>5. dest' = dest
      BY <1>9, <2>3, <3>2 DEF Deliver, DeliverRecord, DeliverState, IsState
    <3>6. QED
      BY <3>3, <3>4, <3>5 DEF Told
  <2>7. page.unread \subseteq Paths
    BY <1>1 DEF TypeOK, SyncTypeOK, Pages
  <2>8. CursorsTold(r)'
    <3>1. (phase # "idle" /\ ~(phase = "read" /\ r = Root)) =>
             Told(dest', channel', Len(channel'), r, state[r])
      BY <1>3, <2>5 DEF CursorsTold
    <3>2. phase = "read" /\ r = Root =>
             /\ Told(dest', channel', Len(channel'), r, page.cursor)
             /\ \A p \in page.unread :
                   Newer(dest', channel', Len(channel'), r, p, page.cursor.shown[p])
      BY <1>3, <2>5, <2>7 DEF CursorsTold
    <3>3. QED
      BY <2>1, <2>6, <3>1, <3>2 DEF CursorsTold
  <2>9. QED
    BY <2>4, <2>8 DEF RootNews
<1>10. CASE ResetState
  <2>1. OfSelection(saved) /\ IsMultiNamespace /\ saved[Current] # NoCursor
    BY <1>2, <1>10 DEF ResetState, Refused, NewsInv, OneSelection, Quiet
  <2>2. Current \in selection
    BY <2>1 DEF OfSelection, Roots
  <2>3. QED
    BY <1>1, <2>1, <2>2, SelectionType, EntriesAssumption DEF TypeOK, EntriesAssumption
<1>11. CASE ~ (Start \/ FetchPage \/ RefuseSecondReset \/ ReadRecord \/ Checkpoint \/ Deliver
              \/ ResetState)
  <2>1. UNCHANGED <<dest, channel, saved, phase, state, page, Root>>
    BY <1>2, <1>11 DEF Next, Sync, RestartListing, Change, Invalidate, vars, platformVars, syncVars,
       Root
  <2>2. QED
    BY <1>3, <2>1 DEF RootNews, CursorsTold
<1>12. QED
  BY <1>4, <1>5, <1>6, <1>7, <1>8, <1>9, <1>10, <1>11

LEMMA InitNews == Init => NewsInv
<1> SUFFICES ASSUME Init PROVE NewsInv
  OBVIOUS
<1>1. /\ channel = <<>> /\ Len(channel) = 0 /\ phase = "idle"
      /\ saved = NoCursors /\ state = NoCursors
  BY DEF Init
<1>2. ASSUME NEW r \in Roots PROVE RootNews(r)
  <2>1. Told(dest, channel, 0, r, saved[r])
    BY <1>1 DEF Init, Told, ShownBy, NoCursors
  <2>2. QED
    BY <1>1, <2>1 DEF RootNews, News, StatesTold, CursorsTold
<1>3. StateIsLast /\ OneSelection
  BY <1>1, NoCursorsSelected DEF StateIsLast, OneSelection
<1>4. QED
  BY <1>2, <1>3, InitKeeps DEF NewsInv

\* A record on its way is news to the destination, unless a sync was cut short, the
\* selection has changed or the root was reset.
THEOREM NewsOnly == Spec => []OnlyNews
<1>1. Init => NewsInv
  BY InitNews
<1>2. NewsInv /\ [Next]_vars => NewsInv'
  BY NextKeeps, SelectionStays, StateStaysLast, NewsStays DEF NewsInv
<1>3. NewsInv => OnlyNews
  <2> SUFFICES ASSUME NewsInv, NEW i \in DOMAIN channel, channel[i].kind = "record",
                      Quiet(channel[i].root)
               PROVE  channel[i].version > dest[channel[i].root][channel[i].path]
    BY DEF OnlyNews, Quiet
  <2> DEFINE r == channel[i].root
             p == channel[i].path
  <2>1. channel \in Seq(Messages) /\ dest \in Arrived
    BY DEF NewsInv, KeptInv, CoverInv, TypeOK, OutsideTypeOK, Arrived
  <2>2. i \in 1 .. Len(channel) /\ channel[i] \in Messages
    BY <2>1
  <2>3. r \in Roots /\ p \in Paths /\ channel[i].version \in Nat /\ IsRecord(channel[i], r, p)
    BY <2>2 DEF Messages, IsRecord
  <2>4. Newer(dest, channel, i - 1, r, p, channel[i].version)
    BY <2>2, <2>3 DEF NewsInv, RootNews, News
  <2>5. dest[r][p] \in Nat
    BY <2>1, <2>3 DEF Arrived
  <2>6. QED
    BY <2>3, <2>4, <2>5 DEF Newer
<1>4. QED
  BY <1>1, <1>2, <1>3, PTL DEF Spec
=============================================================================
