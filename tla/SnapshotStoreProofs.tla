------------------------- MODULE SnapshotStoreProofs -------------------------
(***************************************************************************)
(* The snapshot store for any number of blobs, publications, replicas,     *)
(* epochs and crashes: what is committed is complete, what an interrupted  *)
(* commit left is never adopted, what a control record names is kept, and  *)
(* the head grows only under the durable epoch.                            *)
(***************************************************************************)
EXTENDS SnapshotStore, WellFoundedInduction, TLAPS

(* A step that does not name the SMT solver is left to Zenon. *)
USE ZenonT(20)

-----------------------------------------------------------------------------
(* The inductive invariant                                                 *)

Holding == {"locked", "intent", "manifest", "head", "finished"}
Committing == {"intent", "manifest", "head"}
Checked == {"verified", "locked", "intent", "manifest"}

(* Who is at which step holds which lock; only the collector of a store    *)
(* that is retained takes the collection lock outside a commit, and such a *)
(* store has no reconstruction.                                            *)
LocksHeld ==
    /\ \A s \in Slots : slot[s].pc \in Holding <=> gcLock = s
    /\ \A s \in Slots : slot[s].pc \in Committing <=> worldLock = s
    /\ gcLock = "collector" => "retain" \in use
    /\ "retain" \in use => \A r \in Replicas : slot[r].pc = "free"

(* The head record and the intent around it: an intent closes the head or  *)
(* the snapshot right after it, and only that one may lie above the head.  *)
HeadRecorded ==
    /\ \A n \in Present : Len(manifests[n]) = n
    /\ IF head = None THEN ~required /\ intent = None ELSE TargetValid(head)
    /\ intent # None => intent # <<>> /\ (head = intent \/ head = Front(intent))
    /\ OrphanFailsClosed

(* What a commit has written when it is between two of its writes. *)
CommitUnderway ==
    \A s \in Slots :
        /\ slot[s].pc # "free" => slot[s].target # <<>>
        /\ slot[s].pc \in {"intent", "manifest"} =>
              /\ intent = slot[s].target
              /\ head = Front(slot[s].target)
              /\ Last(slot[s].target).epoch = epoch
        /\ slot[s].pc = "intent" => manifests[Len(slot[s].target)] = None
        /\ slot[s].pc = "manifest" => manifests[Len(slot[s].target)] = slot[s].target
        /\ slot[s].pc = "head" => intent = slot[s].target /\ head = slot[s].target

(* What the pruner still removes lies below the head and is no control     *)
(* record's snapshot.                                                      *)
PruneBelowHead ==
    /\ control # None => control # <<>> /\ manifests[Len(control)] = control
    /\ pruner # None =>
          /\ head # None
          /\ \A n \in pruner : n < Len(head) /\ (control # None => n # Len(control))

(* The blobs of manifests and of verified targets are there, and a running *)
(* collector has marked all that it must keep.                             *)
BlobsKept ==
    /\ \A n \in Present : Complete(manifests[n])
    /\ \A s \in Slots : slot[s].pc \in Checked =>
          Complete(slot[s].target) /\ (s \in Publications => OwnsPins(s))
    /\ gcLock = "collector" =>
          /\ \A n \in Present : Last(manifests[n]).entries \subseteq collector
          /\ \A s \in Slots : slot[s].pins \subseteq collector

StoreInv ==
    TypeOK /\ LocksHeld /\ HeadRecorded /\ CommitUnderway /\ PruneBelowHead /\ BlobsKept

-----------------------------------------------------------------------------
(* Histories and minima                                                    *)

(* A history is a sequence of at most MaxNumber snapshots. *)
LEMMA HistoryIsSeq ==
    ASSUME StoreConstants, NEW h \in History
    PROVE  /\ h \in Seq(Snapshot) /\ Len(h) \in Nat /\ Len(h) <= MaxNumber
           /\ h # <<>> => Len(h) \in Numbers
<1>1. MaxNumber \in Nat
  BY DEF StoreConstants
<1>2. PICK n \in 0 .. MaxNumber : h \in [1 .. n -> Snapshot]
  BY DEF History
<1>3. n \in Nat /\ n <= MaxNumber /\ h \in Seq(Snapshot)
  BY SMTT(30), <1>1, <1>2
<1>4. Len(h) = n
  BY SMTT(30), <1>2, <1>3
<1>5. Len(h) = 0 => h = <<>>
  BY SMTT(30), <1>3
<1>. QED
  BY SMTT(30), <1>1, <1>3, <1>4, <1>5 DEF Numbers

LEMMA SeqIsHistory ==
    ASSUME StoreConstants, NEW h \in Seq(Snapshot), Len(h) <= MaxNumber
    PROVE  h \in History
<1>1. MaxNumber \in Nat
  BY DEF StoreConstants
<1>2. Len(h) \in 0 .. MaxNumber /\ h \in [1 .. Len(h) -> Snapshot]
  BY SMTT(30), <1>1
<1>. QED
  BY <1>2 DEF History

(* The next snapshot of a history, and the history it was taken from. *)
LEMMA HistoryAppend ==
    ASSUME StoreConstants, NEW h \in History, Len(h) < MaxNumber, NEW e \in Snapshot
    PROVE  /\ Append(h, e) \in History /\ Append(h, e) # <<>>
           /\ Last(Append(h, e)) = e
<1>1. h \in Seq(Snapshot) /\ Len(h) \in Nat /\ MaxNumber \in Nat
  BY HistoryIsSeq DEF StoreConstants
<1>2. Append(h, e) \in Seq(Snapshot) /\ Len(Append(h, e)) = Len(h) + 1
  BY SMTT(30), <1>1
<1>3. Append(h, e)[Len(h) + 1] = e
  BY SMTT(30), <1>1
<1>4. Len(Append(h, e)) <= MaxNumber /\ Append(h, e) # <<>>
  BY SMTT(30), <1>1, <1>2
<1>5. Append(h, e) \in History
  BY <1>2, <1>4, SeqIsHistory
<1>. QED
  BY <1>2, <1>3, <1>4, <1>5 DEF Last

LEMMA PrefixProperties ==
    ASSUME NEW S, NEW h \in Seq(S), NEW m \in Nat, m <= Len(h)
    PROVE  SubSeq(h, 1, m) \in Seq(S) /\ Len(SubSeq(h, 1, m)) = m
  BY SMTT(30)

LEMMA HistoryFront ==
    ASSUME StoreConstants, NEW h \in History, h # <<>>
    PROVE  /\ Front(h) \in History /\ Len(Front(h)) = Len(h) - 1
           /\ Last(h) \in Snapshot /\ Last(h).entries \in Contents
<1>1. h \in Seq(Snapshot) /\ Len(h) \in Nat \ {0} /\ Len(h) <= MaxNumber /\ MaxNumber \in Nat
  BY SMTT(30), HistoryIsSeq DEF StoreConstants, Numbers
<1>2. Front(h) \in Seq(Snapshot) /\ Len(Front(h)) = Len(h) - 1
  <2>1. Len(h) - 1 \in Nat /\ Len(h) - 1 <= Len(h)
    BY SMTT(30), <1>1
  <2>. QED
    BY <1>1, <2>1, PrefixProperties, Zenon DEF Front
<1>3. Len(Front(h)) <= MaxNumber
  BY SMTT(30), <1>1, <1>2
<1>5. Front(h) \in History
  BY <1>2, <1>3, SeqIsHistory
<1>4. Last(h) \in Snapshot
  BY SMTT(30), <1>1 DEF Last
<1>. QED
  BY <1>2, <1>4, <1>5 DEF Snapshot

(* A nonempty set of naturals has a least element. *)
LEMMA LeastExists ==
    ASSUME NEW S \in SUBSET Nat, S # {}
    PROVE  \E n \in S : \A k \in S : n <= k
<1>1. PICK n \in S : \A k \in S : ~(<<k, n>> \in OpToRel(<, Nat))
  BY NatLessThanWellFounded, WFMin
<1>2. \A k \in S : ~(k < n)
  BY <1>1 DEF OpToRel
<1>. QED
  BY SMTT(30), <1>2

(* The highest manifest on disk exists when there is one at all. *)
LEMMA HighestExists ==
    ASSUME StoreConstants, Present # {}
    PROVE  \E n \in Present : \A k \in Present : k <= n
<1>1. MaxNumber \in Nat /\ Present \subseteq Numbers
  BY DEF StoreConstants, Present
<1>. DEFINE D == {MaxNumber - k : k \in Present}
<1>2. D \subseteq Nat /\ D # {}
  <2>1. \A k \in Present : MaxNumber - k \in Nat
    BY SMTT(30), <1>1 DEF Numbers
  <2>. QED
    BY <2>1
<1>3. PICK d \in D : \A c \in D : d <= c
  BY <1>2, LeastExists
<1>4. PICK n \in Present : d = MaxNumber - n
  BY <1>3
<1>5. ASSUME NEW k \in Present PROVE k <= n
  <2>1. MaxNumber - n <= MaxNumber - k
    BY <1>3, <1>4
  <2>. QED
    BY SMTT(30), <2>1, <1>1, <1>4 DEF Numbers
<1>. QED
  BY <1>4, <1>5

-----------------------------------------------------------------------------
(* Loading the head                                                        *)

SlotRecord == [pc : PCs, target : History, pins : SUBSET Blobs, done : SUBSET Blobs]

HeadLoads == load_or_initialize \/ UNCHANGED <<head, required, intent>>

LEMMA ManifestNumbers ==
    ASSUME StoreConstants, TypeOK
    PROVE  \A n \in Present : n \in Numbers /\ n \in Nat /\ manifests[n] \in History
  BY SMTT(30) DEF StoreConstants, TypeOK, Present, Numbers

(* The head that load_or_initialize writes names a manifest on disk, and   *)
(* a head adopted from a world without one is the highest manifest.        *)
LEMMA LoadedIsValid ==
    ASSUME StoreConstants, TypeOK, HeadRecorded
    PROVE  /\ Loaded \in History /\ TargetValid(Loaded)
           /\ head # None => Loaded = head
           /\ head = None => \A n \in Present : n <= Len(Loaded)
<1>1. CASE head # None
  BY <1>1 DEF Loaded, HeadRecorded, TypeOK
<1>2. CASE head = None /\ Present = {}
  <2>1. <<>> \in Seq(Snapshot) /\ Len(<<>>) <= MaxNumber
    BY SMTT(30) DEF StoreConstants
  <2>2. <<>> \in History
    BY <2>1, SeqIsHistory
  <2>. QED
    BY <1>2, <2>2 DEF Loaded, highest_legacy_manifest, TargetValid
<1>3. CASE head = None /\ Present # {}
  <2>. DEFINE latest == CHOOSE n \in Present : \A k \in Present : k <= n
  <2>1. latest \in Present /\ \A k \in Present : k <= latest
    BY <1>3, HighestExists
  <2>2. Loaded = manifests[latest]
    BY <1>3 DEF Loaded, highest_legacy_manifest
  <2>. HIDE DEF latest
  <2>3. Loaded \in History /\ Len(Loaded) = latest
    BY <2>1, <2>2, ManifestNumbers DEF HeadRecorded
  <2>4. TargetValid(Loaded)
    BY <2>2, <2>3 DEF TargetValid
  <2>. QED
    BY <1>3, <2>1, <2>3, <2>4
<1>. QED
  BY <1>1, <1>2, <1>3

(* When the head can be loaded, no manifest lies above it. *)
LEMMA LoadableCovers ==
    ASSUME StoreConstants, TypeOK, HeadRecorded, Loadable
    PROVE  \A n \in Present : n <= Len(Loaded) /\ ~(n > Len(Loaded))
<1>. SUFFICES ASSUME NEW n \in Present PROVE n <= Len(Loaded) /\ ~(n > Len(Loaded))
  OBVIOUS
<1>1. /\ Loaded \in History /\ (head # None => Loaded = head)
      /\ head = None => n <= Len(Loaded)
  BY LoadedIsValid
<1>2. n \in Nat /\ Len(manifests[n]) = n /\ manifests[n] # None /\ Len(Loaded) \in Nat
  BY <1>1, ManifestNumbers, HistoryIsSeq DEF HeadRecorded, Present
<1>3. CASE head = None
  BY SMTT(30), <1>1, <1>2, <1>3
<1>4. CASE head # None
  <2>. SUFFICES ASSUME n > Len(Loaded) PROVE FALSE
    BY SMTT(30), <1>2
  <2>1. intent = manifests[n]
    BY <1>1, <1>4 DEF HeadRecorded, OrphanFailsClosed
  <2>2. head = intent
    BY <1>2, <2>1 DEF Loadable
  <2>. QED
    BY SMTT(30), <1>1, <1>2, <1>4, <2>1, <2>2
<1>. QED
  BY <1>3, <1>4

(* Loading the head changes it only when there was none, never under a     *)
(* commit, and leaves the records consistent.                              *)
LEMMA LoadKeepsHead ==
    ASSUME StoreConstants, StoreInv, HeadLoads, UNCHANGED manifests
    PROVE  /\ HeadRecorded'
           /\ head' \in History \cup {None} /\ intent' \in History \cup {None}
           /\ required' \in BOOLEAN
           /\ head # None => head' = head
           /\ worldLock # None => UNCHANGED <<head, intent>>
<1>1. TypeOK /\ HeadRecorded
  BY DEF StoreInv
<1>2. Present' = Present
  BY DEF Present
<1>3. CASE UNCHANGED <<head, required, intent>>
  BY <1>1, <1>2, <1>3 DEF TypeOK, HeadRecorded, OrphanFailsClosed, TargetValid
<1>4. CASE load_or_initialize
  <2>1. /\ head' = Loaded /\ required' = TRUE /\ intent' = None /\ Loadable
        /\ worldLock = None
    BY <1>4 DEF load_or_initialize
  <2>2. /\ Loaded \in History /\ Loaded # None /\ TargetValid(Loaded)
        /\ head # None => Loaded = head
        /\ head = None => \A n \in Present : n <= Len(Loaded)
    BY <1>1, LoadedIsValid DEF StoreConstants
  <2>3. TargetValid(head)'
    BY <2>1, <2>2 DEF TargetValid
  <2>4. \A n \in Present : ~(n > Len(Loaded))
    BY <1>1, <2>1, LoadableCovers
  <2>5. HeadRecorded'
    BY <1>1, <1>2, <2>1, <2>2, <2>3, <2>4 DEF HeadRecorded, OrphanFailsClosed
  <2>. QED
    BY <2>1, <2>2, <2>5
<1>. QED
  BY <1>3, <1>4 DEF HeadLoads

-----------------------------------------------------------------------------
(* Steps of a publication or reconstruction outside its commit             *)

LEMMA OtherSlots ==
    ASSUME TypeOK, NEW s \in Slots, NEW r, Slot(s, r)
    PROVE  /\ slot'[s] = r
           /\ \A t \in Slots : t # s => slot'[t] = slot[t]
           /\ r \in SlotRecord => slot' \in [Slots -> SlotRecord]
  BY DEF TypeOK, Slot, SlotRecord

LEMMA SlotTypes ==
    ASSUME TypeOK, NEW s \in Slots
    PROVE  slot[s] \in SlotRecord
  BY DEF TypeOK, SlotRecord

Quiet(s, r) ==
    /\ Slot(s, r) /\ r \in SlotRecord
    /\ slot[s].pc \notin Holding /\ r.pc \notin Holding
    /\ r.pc # "free" => r.target # <<>>
    /\ r.pc = "verified" =>
          /\ Last(r.target).entries \subseteq blobs'
          /\ s \in Publications => Last(r.target).entries \subseteq r.pins
    /\ gcLock = "collector" => r.pins \subseteq collector
    /\ "retain" \in use /\ s \in Replicas => r.pc = "free"
    /\ blobs \subseteq blobs' /\ blobs' \subseteq Blobs
    /\ HeadLoads
    /\ UNCHANGED <<manifests, epoch, control, gcLock, worldLock, collector, pruner, use, crashes>>

LEMMA QuietKeeps ==
    ASSUME StoreConstants, StoreInv, NEW s \in Slots, NEW r, Quiet(s, r)
    PROVE  StoreInv'
<1>1. TypeOK /\ LocksHeld /\ HeadRecorded /\ CommitUnderway /\ PruneBelowHead /\ BlobsKept
  BY DEF StoreInv
<1>2. slot'[s] = r /\ (\A t \in Slots : t # s => slot'[t] = slot[t]) /\ slot' \in [Slots -> SlotRecord]
  BY <1>1, OtherSlots DEF Quiet
<1>3. /\ HeadRecorded'
      /\ head' \in History \cup {None} /\ intent' \in History \cup {None} /\ required' \in BOOLEAN
      /\ head # None => head' = head
      /\ worldLock # None => UNCHANGED <<head, intent>>
  BY LoadKeepsHead DEF Quiet
<1>4. Present' = Present /\ manifests' = manifests
  BY DEF Present, Quiet
<1>5. TypeOK'
  <2>1. manifests \in [Numbers -> History \cup {None}]
    BY <1>1 DEF TypeOK
  <2>. QED
    BY <1>1, <1>2, <1>3 DEF TypeOK, Quiet, SlotRecord
<1>6. LocksHeld'
  BY <1>1, <1>2 DEF LocksHeld, Quiet, Holding, Committing, Slots
<1>7. CommitUnderway'
  <2>. SUFFICES ASSUME NEW t \in Slots
                PROVE  CommitUnderway!(t)'
    BY DEF CommitUnderway
  <2>1. CASE t = s
    BY <1>2, <2>1 DEF Quiet, Holding
  <2>2. CASE t # s
    <3>1. slot[t].pc \in Committing => worldLock # None
      BY <1>1 DEF LocksHeld, StoreConstants
    <3>2. slot[t].pc \in Committing => UNCHANGED <<head, intent>>
      BY <1>3, <3>1
    <3>. QED
      BY <1>1, <1>2, <2>2, <3>2 DEF CommitUnderway, Quiet, Committing
  <2>. QED
    BY <2>1, <2>2
<1>8. PruneBelowHead'
  BY <1>1, <1>3 DEF PruneBelowHead, Quiet
<1>9. BlobsKept'
  <2>1. \A n \in Present' : Complete(manifests[n])'
    BY <1>1, <1>4 DEF BlobsKept, Complete, Quiet
  <2>2. ASSUME NEW t \in Slots, slot'[t].pc \in Checked
        PROVE  Complete(slot[t].target)' /\ (t \in Publications => OwnsPins(t)')
    <3>1. CASE t = s
      BY <1>2, <2>2, <3>1 DEF Quiet, Holding, Checked, Complete, OwnsPins
    <3>2. CASE t # s
      BY <1>1, <1>2, <2>2, <3>2 DEF Quiet, BlobsKept, Complete, OwnsPins
    <3>. QED
      BY <3>1, <3>2
  <2>3. gcLock' = "collector" =>
          /\ \A n \in Present' : Last(manifests'[n]).entries \subseteq collector'
          /\ \A t \in Slots : slot'[t].pins \subseteq collector'
    BY <1>1, <1>2, <1>4 DEF Quiet, BlobsKept
  <2>. QED
    BY <2>1, <2>2, <2>3 DEF BlobsKept
<1>. QED
  BY <1>3, <1>5, <1>6, <1>7, <1>8, <1>9 DEF StoreInv

(* What a busy slot still has to fetch is among the blobs. *)
LEMMA WantedBlobs ==
    ASSUME StoreConstants, StoreInv, NEW s \in Slots, slot[s].pc # "free"
    PROVE  /\ slot[s] \in SlotRecord /\ slot[s].target \in History /\ slot[s].target # <<>>
           /\ Wanted(s) \subseteq Blobs /\ Wanted(s) \subseteq Nat
           /\ Wanted(s) # {} => NextFile(s) \in Wanted(s)
<1>1. slot[s] \in SlotRecord /\ slot[s].target \in History /\ slot[s].target # <<>>
  BY SlotTypes DEF StoreInv, CommitUnderway, SlotRecord
<1>2. Last(slot[s].target).entries \in Contents
  BY <1>1, HistoryFront
<1>3. Wanted(s) \subseteq Blobs /\ Wanted(s) \subseteq Nat
  BY <1>2 DEF Wanted, StoreConstants
<1>4. Wanted(s) # {} => NextFile(s) \in Wanted(s)
  BY <1>3, LeastExists DEF NextFile
<1>. QED
  BY <1>1, <1>3, <1>4

(* A new target continues the loaded head in the durable epoch. *)
LEMMA NewTarget ==
    ASSUME StoreConstants, StoreInv, Len(Loaded) < MaxNumber, NEW entries \in Contents
    PROVE  LET t == Append(Loaded, [epoch |-> epoch, entries |-> entries])
           IN  t \in History /\ t # <<>>
<1>1. Loaded \in History
  BY LoadedIsValid DEF StoreInv
<1>2. [epoch |-> epoch, entries |-> entries] \in Snapshot
  BY DEF StoreInv, TypeOK, Snapshot
<1>. QED
  BY <1>1, <1>2, HistoryAppend

LEMMA BeginPublicationKeeps ==
    ASSUME StoreConstants, StoreInv, NEW p \in Publications, NEW entries \in Contents,
           begin_snapshot_publication(p, entries)
    PROVE  StoreInv'
<1>. DEFINE t == Append(Loaded, [epoch |-> epoch, entries |-> entries])
            r == [Free EXCEPT !.pc = "building", !.target = t]
<1>1. p \in Slots /\ p \notin Replicas
  BY DEF Slots, StoreConstants
<1>2. Len(Loaded) < MaxNumber /\ slot[p].pc = "free"
  BY DEF begin_snapshot_publication
<1>3. t \in History /\ t # <<>>
  BY <1>2, NewTarget
<1>4. Slot(p, r)
  BY DEF begin_snapshot_publication
<1>. HIDE DEF t
<1>5. r \in SlotRecord /\ r.pc = "building" /\ r.target = t /\ r.pins = {}
  BY <1>3 DEF SlotRecord, Free, PCs
<1>. HIDE DEF r
<1>6. blobs \subseteq Blobs
  BY DEF StoreInv, TypeOK
<1>7. Quiet(p, r)
  BY <1>1, <1>2, <1>3, <1>4, <1>5, <1>6
  DEF Quiet, begin_snapshot_publication, HeadLoads, Frame, Holding
<1>. QED
  BY <1>1, <1>7, QuietKeeps

LEMMA PinKeeps ==
    ASSUME StoreConstants, StoreInv, NEW p \in Publications, pin_hash(p)
    PROVE  StoreInv'
<1>. DEFINE r == [slot[p] EXCEPT !.pins = @ \cup {NextFile(p)}]
<1>1. p \in Slots /\ p \notin Replicas
  BY DEF Slots, StoreConstants
<1>2. slot[p].pc = "building" /\ Wanted(p) # {} /\ gcLock = None /\ Slot(p, r)
  BY DEF pin_hash
<1>3. slot[p] \in SlotRecord /\ slot[p].target # <<>> /\ NextFile(p) \in Blobs
  BY <1>1, <1>2, WantedBlobs
<1>4. r \in SlotRecord /\ r.pc = "building" /\ r.target = slot[p].target
  BY <1>2, <1>3 DEF SlotRecord
<1>5. blobs \subseteq Blobs /\ gcLock # "collector"
  BY <1>2 DEF StoreInv, TypeOK, StoreConstants
<1>. HIDE DEF r
<1>6. Quiet(p, r)
  BY <1>1, <1>2, <1>3, <1>4, <1>5 DEF Quiet, pin_hash, HeadLoads, Frame, Holding
<1>. QED
  BY <1>1, <1>6, QuietKeeps

LEMMA PutBlobKeeps ==
    ASSUME StoreConstants, StoreInv, NEW p \in Publications, put_file_blob(p)
    PROVE  StoreInv'
<1>. DEFINE r == [slot[p] EXCEPT !.done = @ \cup {NextFile(p)}]
<1>1. p \in Slots /\ p \notin Replicas
  BY DEF Slots, StoreConstants
<1>2. slot[p].pc = "building" /\ Wanted(p) # {} /\ Slot(p, r) /\ blobs' = blobs \cup {NextFile(p)}
  BY DEF put_file_blob
<1>3. slot[p] \in SlotRecord /\ slot[p].target # <<>> /\ NextFile(p) \in Blobs
  BY <1>1, <1>2, WantedBlobs
<1>4. r \in SlotRecord /\ r.pc = "building" /\ r.target = slot[p].target /\ r.pins = slot[p].pins
  BY <1>2, <1>3 DEF SlotRecord
<1>5. blobs \subseteq Blobs /\ (gcLock = "collector" => slot[p].pins \subseteq collector)
  BY <1>1 DEF StoreInv, TypeOK, BlobsKept
<1>. HIDE DEF r
<1>6. Quiet(p, r)
  BY <1>1, <1>2, <1>3, <1>4, <1>5 DEF Quiet, put_file_blob, HeadLoads, Frame, Holding
<1>. QED
  BY <1>1, <1>6, QuietKeeps

LEMMA VerifyKeeps ==
    ASSUME StoreConstants, StoreInv, NEW p \in Publications, verify_snapshot(p)
    PROVE  StoreInv'
<1>. DEFINE pc == IF OwnsPins(p) /\ Complete(slot[p].target) THEN "verified" ELSE "failed"
            r == [slot[p] EXCEPT !.pc = pc]
<1>1. p \in Slots /\ p \notin Replicas
  BY DEF Slots, StoreConstants
<1>2. slot[p].pc = "building" /\ Slot(p, r)
  BY DEF verify_snapshot, Moved
<1>3. slot[p] \in SlotRecord /\ slot[p].target # <<>>
  BY <1>1, <1>2, WantedBlobs
<1>4. /\ pc \in {"verified", "failed"}
      /\ pc = "verified" => OwnsPins(p) /\ Complete(slot[p].target)
  OBVIOUS
<1>. HIDE DEF pc
<1>5. r \in SlotRecord /\ r.pc = pc /\ r.target = slot[p].target /\ r.pins = slot[p].pins
  BY <1>3, <1>4 DEF SlotRecord, PCs
<1>6. blobs \subseteq Blobs /\ (gcLock = "collector" => slot[p].pins \subseteq collector)
  BY <1>1 DEF StoreInv, TypeOK, BlobsKept
<1>. HIDE DEF r
<1>7. Quiet(p, r)
  BY <1>1, <1>2, <1>3, <1>4, <1>5, <1>6
  DEF Quiet, verify_snapshot, HeadLoads, Frame, Holding, OwnsPins, Complete
<1>. QED
  BY <1>1, <1>7, QuietKeeps

LEMMA ReplicaAlone ==
    ASSUME StoreConstants, StoreInv, NEW r \in Replicas,
           slot[r].pc # "free" \/ "replicate" \in use
    PROVE  r \in Slots /\ r \notin Publications /\ "retain" \notin use /\ gcLock # "collector"
<1>1. r \in Slots /\ r \notin Publications
  BY DEF Slots, StoreConstants
<1>2. "retain" \notin use
  BY SMTT(30), <1>1 DEF StoreInv, LocksHeld, TypeOK, StoreConstants
<1>. QED
  BY <1>1, <1>2 DEF StoreInv, LocksHeld

LEMMA ReconstructKeeps ==
    ASSUME StoreConstants, StoreInv, NEW r \in Replicas, NEW entries \in Contents,
           reconstruct(r, entries)
    PROVE  StoreInv'
<1>. DEFINE t == Append(Loaded, [epoch |-> epoch, entries |-> entries])
            missing == entries \ blobs
            q == [pc |-> "building", pins |-> missing, done |-> entries \ missing, target |-> t]
<1>1. Len(Loaded) < MaxNumber /\ slot[r].pc = "free" /\ "replicate" \in use /\ Slot(r, q)
  BY DEF reconstruct
<1>2. r \in Slots /\ r \notin Publications /\ "retain" \notin use /\ gcLock # "collector"
  BY <1>1, ReplicaAlone
<1>3. t \in History /\ t # <<>>
  BY <1>1, NewTarget
<1>. HIDE DEF t
<1>4. entries \subseteq Blobs
  BY DEF StoreConstants
<1>5. q \in SlotRecord /\ q.pc = "building" /\ q.target = t
  BY <1>3, <1>4 DEF SlotRecord, PCs
<1>. HIDE DEF q
<1>6. blobs \subseteq Blobs
  BY DEF StoreInv, TypeOK
<1>7. Quiet(r, q)
  BY <1>1, <1>2, <1>3, <1>5, <1>6 DEF Quiet, reconstruct, HeadLoads, Frame, Holding
<1>. QED
  BY <1>2, <1>7, QuietKeeps

LEMMA ReceiveKeeps ==
    ASSUME StoreConstants, StoreInv, NEW r \in Replicas, NEW b \in Blobs, receive_blob(r, b)
    PROVE  StoreInv'
<1>. DEFINE q == [slot[r] EXCEPT !.done = @ \cup {b}]
<1>1. slot[r].pc = "building" /\ Slot(r, q) /\ blobs' = blobs \cup {b}
  BY DEF receive_blob
<1>2. r \in Slots /\ r \notin Publications /\ "retain" \notin use /\ gcLock # "collector"
  BY <1>1, ReplicaAlone
<1>3. slot[r] \in SlotRecord /\ slot[r].target # <<>>
  BY <1>1, <1>2, WantedBlobs
<1>4. q \in SlotRecord /\ q.pc = "building" /\ q.target = slot[r].target
  BY <1>1, <1>3 DEF SlotRecord
<1>5. blobs \subseteq Blobs
  BY DEF StoreInv, TypeOK
<1>. HIDE DEF q
<1>6. Quiet(r, q)
  BY <1>1, <1>2, <1>3, <1>4, <1>5 DEF Quiet, receive_blob, HeadLoads, Frame, Holding
<1>. QED
  BY <1>2, <1>6, QuietKeeps

LEMMA FinalizeKeeps ==
    ASSUME StoreConstants, StoreInv, NEW r \in Replicas, finalize_replica(r)
    PROVE  StoreInv'
<1>. DEFINE m == slot[r].target
            pc == IF ~(NamespaceValid /\ Complete(m)) THEN "failed"
                  ELSE IF m = Loaded THEN "done"
                  ELSE IF validate_direct_extension(Loaded, m) THEN "verified"
                  ELSE "failed"
            q == [slot[r] EXCEPT !.pc = pc]
<1>1. slot[r].pc = "building" /\ Slot(r, q)
  BY DEF finalize_replica, Moved
<1>2. r \in Slots /\ r \notin Publications /\ "retain" \notin use /\ gcLock # "collector"
  BY <1>1, ReplicaAlone
<1>3. slot[r] \in SlotRecord /\ slot[r].target # <<>>
  BY <1>1, <1>2, WantedBlobs
<1>4. pc \in {"failed", "done", "verified"} /\ (pc = "verified" => Complete(m))
  OBVIOUS
<1>. HIDE DEF pc
<1>5. q \in SlotRecord /\ q.pc = pc /\ q.target = slot[r].target
  BY <1>3, <1>4 DEF SlotRecord, PCs
<1>6. blobs \subseteq Blobs /\ HeadLoads /\ blobs' = blobs
  BY DEF StoreInv, TypeOK, finalize_replica, HeadLoads
<1>. HIDE DEF q
<1>7. Quiet(r, q)
  BY <1>1, <1>2, <1>3, <1>4, <1>5, <1>6
  DEF Quiet, finalize_replica, Frame, Holding, Complete
<1>. QED
  BY <1>2, <1>7, QuietKeeps

LEMMA DropKeeps ==
    ASSUME StoreConstants, StoreInv, NEW s \in Slots, Drop(s)
    PROVE  StoreInv'
<1>. DEFINE q == IF s \in Publications THEN [slot[s] EXCEPT !.pc = "stale"] ELSE Free
<1>1. slot[s].pc \in {"done", "failed"} /\ Slot(s, q)
  BY DEF Drop
<1>2. slot[s] \in SlotRecord /\ slot[s].target # <<>> /\ <<>> \in History
  <2>1. <<>> \in Seq(Snapshot) /\ Len(<<>>) <= MaxNumber
    BY SMTT(30) DEF StoreConstants
  <2>. QED
    BY <1>1, <2>1, WantedBlobs, SeqIsHistory
<1>3. /\ q \in SlotRecord /\ q.pc \in {"stale", "free"} /\ q.pins \subseteq slot[s].pins
      /\ q.pc = "stale" => q.target = slot[s].target /\ s \in Publications
  BY <1>2 DEF SlotRecord, PCs, Free
<1>4. /\ blobs \subseteq Blobs /\ (gcLock = "collector" => slot[s].pins \subseteq collector)
      /\ s \in Publications => s \notin Replicas
  BY DEF StoreInv, TypeOK, BlobsKept, StoreConstants
<1>. HIDE DEF q
<1>5. Quiet(s, q)
  BY <1>1, <1>2, <1>3, <1>4 DEF Quiet, Drop, HeadLoads, Frame, Holding
<1>. QED
  BY <1>5, QuietKeeps

-----------------------------------------------------------------------------
(* Taking and releasing the collection lock                                *)

Locking(s, r) ==
    /\ Slot(s, r) /\ r \in SlotRecord
    /\ slot[s].pc \notin Committing \cup {"free"} /\ r.pc \notin Committing \cup {"free"}
    /\ r.pc \in Holding <=> gcLock' = s
    /\ gcLock \in {None, s} /\ gcLock' \in {None, s}
    /\ r.target = slot[s].target
    /\ r.pc \in Checked => slot[s].pc \in Checked /\ r.pins = slot[s].pins
    /\ HeadLoads
    /\ UNCHANGED <<blobs, manifests, epoch, control, worldLock, collector, pruner, use, crashes>>

LEMMA LockingKeeps ==
    ASSUME StoreConstants, StoreInv, NEW s \in Slots, NEW r, Locking(s, r)
    PROVE  StoreInv'
<1>1. TypeOK /\ LocksHeld /\ HeadRecorded /\ CommitUnderway /\ PruneBelowHead /\ BlobsKept
  BY DEF StoreInv
<1>2. slot'[s] = r /\ (\A t \in Slots : t # s => slot'[t] = slot[t]) /\ slot' \in [Slots -> SlotRecord]
  BY <1>1, OtherSlots DEF Locking
<1>3. /\ HeadRecorded'
      /\ head' \in History \cup {None} /\ intent' \in History \cup {None} /\ required' \in BOOLEAN
      /\ head # None => head' = head
      /\ worldLock # None => UNCHANGED <<head, intent>>
  BY LoadKeepsHead DEF Locking
<1>4. Present' = Present /\ manifests' = manifests /\ gcLock' # "collector"
  BY DEF Present, Locking, StoreConstants
<1>5. TypeOK'
  BY <1>1, <1>2, <1>3, <1>4 DEF TypeOK, Locking, SlotRecord
<1>6. LocksHeld'
  <2>1. \A t \in Slots : slot'[t].pc \in Holding <=> gcLock' = t
    BY SMTT(30), <1>1, <1>2 DEF LocksHeld, Locking, StoreConstants
  <2>2. \A t \in Slots : slot'[t].pc \in Committing <=> worldLock' = t
    BY <1>1, <1>2 DEF LocksHeld, Locking
  <2>3. "retain" \in use' => \A t \in Replicas : slot'[t].pc = "free"
    BY <1>1, <1>2 DEF LocksHeld, Locking, Slots
  <2>. QED
    BY <1>4, <2>1, <2>2, <2>3 DEF LocksHeld
<1>7. CommitUnderway'
  <2>. SUFFICES ASSUME NEW t \in Slots
                PROVE  CommitUnderway!(t)'
    BY DEF CommitUnderway
  <2>1. CASE t = s
    BY <1>1, <1>2, <2>1 DEF Locking, Committing, CommitUnderway
  <2>2. CASE t # s
    <3>1. slot[t].pc \in Committing => worldLock # None
      BY <1>1 DEF LocksHeld, StoreConstants
    <3>2. slot[t].pc \in Committing => UNCHANGED <<head, intent>>
      BY <1>3, <3>1
    <3>. QED
      BY <1>1, <1>2, <2>2, <3>2 DEF CommitUnderway, Locking, Committing
  <2>. QED
    BY <2>1, <2>2
<1>8. PruneBelowHead'
  BY <1>1, <1>3 DEF PruneBelowHead, Locking
<1>9. BlobsKept'
  <2>1. \A n \in Present' : Complete(manifests[n])'
    BY <1>1, <1>4 DEF BlobsKept, Complete, Locking
  <2>2. ASSUME NEW t \in Slots, slot'[t].pc \in Checked
        PROVE  Complete(slot[t].target)' /\ (t \in Publications => OwnsPins(t)')
    <3>1. CASE t = s
      BY <1>1, <1>2, <2>2, <3>1 DEF Locking, BlobsKept, Complete, OwnsPins
    <3>2. CASE t # s
      BY <1>1, <1>2, <2>2, <3>2 DEF Locking, BlobsKept, Complete, OwnsPins
    <3>. QED
      BY <3>1, <3>2
  <2>. QED
    BY <1>4, <2>1, <2>2 DEF BlobsKept
<1>. QED
  BY <1>3, <1>5, <1>6, <1>7, <1>8, <1>9 DEF StoreInv

LEMMA LockKeeps ==
    ASSUME StoreConstants, StoreInv, NEW s \in Slots, lock_blob_gc(s)
    PROVE  StoreInv'
<1>. DEFINE r == [slot[s] EXCEPT !.pc = "locked"]
<1>1. slot[s].pc = "verified" /\ gcLock = None /\ gcLock' = s /\ Slot(s, r)
  BY DEF lock_blob_gc, Moved
<1>2. slot[s] \in SlotRecord
  BY SlotTypes DEF StoreInv
<1>3. r \in SlotRecord /\ r.pc = "locked" /\ r.target = slot[s].target /\ r.pins = slot[s].pins
  BY <1>2 DEF SlotRecord, PCs
<1>. HIDE DEF r
<1>4. Locking(s, r)
  BY <1>1, <1>3 DEF Locking, lock_blob_gc, HeadLoads, Frame, Holding, Committing, Checked
<1>. QED
  BY <1>4, LockingKeeps

LEMMA CommitExistingKeeps ==
    ASSUME StoreConstants, StoreInv, NEW s \in Slots, commit_existing(s)
    PROVE  StoreInv'
<1>. DEFINE r == IF NamespaceValid /\ manifests[Len(slot[s].target)] = slot[s].target
                 THEN [slot[s] EXCEPT !.pc = "done",
                         !.pins = IF s \in Publications THEN {} ELSE @]
                 ELSE [slot[s] EXCEPT !.pc = "failed"]
<1>1. slot[s].pc = "locked" /\ gcLock' = None /\ Slot(s, r) /\ HeadLoads
  BY DEF commit_existing, HeadLoads
<1>2. slot[s] \in SlotRecord /\ gcLock = s
  BY <1>1, SlotTypes DEF StoreInv, LocksHeld, Holding
<1>3. r \in SlotRecord /\ r.pc \in {"done", "failed"} /\ r.target = slot[s].target
  BY <1>2 DEF SlotRecord, PCs
<1>. HIDE DEF r
<1>4. Locking(s, r)
  BY <1>1, <1>2, <1>3
  DEF Locking, commit_existing, Frame, Holding, Committing, Checked, StoreConstants
<1>. QED
  BY <1>4, LockingKeeps

LEMMA ReleaseKeeps ==
    ASSUME StoreConstants, StoreInv, NEW s \in Slots, release_publication_pins(s)
    PROVE  StoreInv'
<1>. DEFINE r == [slot[s] EXCEPT !.pc = "done", !.pins = IF s \in Publications THEN {} ELSE @]
<1>1. slot[s].pc = "finished" /\ gcLock' = None /\ Slot(s, r) /\ HeadLoads
  BY DEF release_publication_pins, HeadLoads
<1>2. slot[s] \in SlotRecord /\ gcLock = s
  BY <1>1, SlotTypes DEF StoreInv, LocksHeld, Holding
<1>3. r \in SlotRecord /\ r.pc = "done" /\ r.target = slot[s].target
  BY <1>2 DEF SlotRecord, PCs
<1>. HIDE DEF r
<1>4. Locking(s, r)
  BY <1>1, <1>2, <1>3
  DEF Locking, release_publication_pins, Frame, Holding, Committing, Checked, StoreConstants
<1>. QED
  BY <1>4, LockingKeeps

-----------------------------------------------------------------------------
(* The writes of a commit                                                  *)

(* A commit that is refused leaves the head loaded and frees the lock. *)
LEMMA RefuseCommitKeeps ==
    ASSUME StoreConstants, StoreInv, NEW s \in Slots, begin_snapshot_commit(s),
           slot'[s].pc = "failed"
    PROVE  StoreInv'
<1>. DEFINE m == slot[s].target
            ok == Loadable /\ validate_direct_extension(Loaded, m) /\ EpochAllows(m)
            r == [slot[s] EXCEPT !.pc = "failed"]
<1>1. /\ slot[s].pc = "locked" /\ worldLock = None
      /\ head' = IF Loadable THEN Loaded ELSE head
      /\ required' = (Loadable \/ required)
      /\ intent' = IF ok THEN m ELSE IF Loadable THEN None ELSE intent
      /\ worldLock' = IF ok THEN s ELSE None
      /\ gcLock' = IF ok THEN s ELSE None
      /\ Slot(s, [slot[s] EXCEPT !.pc = IF ok THEN "intent" ELSE "failed"])
      /\ UNCHANGED <<blobs, manifests, crashes, epoch, control, collector, pruner, use>>
  BY DEF begin_snapshot_commit, Moved, Frame
<1>2. slot[s] \in SlotRecord /\ gcLock = s /\ required \in BOOLEAN
  BY <1>1, SlotTypes DEF StoreInv, LocksHeld, Holding, TypeOK
<1>. HIDE DEF ok, m
<1>3. ~ok
  <2>. SUFFICES ASSUME ok PROVE FALSE
    OBVIOUS
  <2>1. slot'[s] = [slot[s] EXCEPT !.pc = IF ok THEN "intent" ELSE "failed"]
    BY <1>1, OtherSlots DEF StoreInv
  <2>2. slot'[s].pc = "intent"
    BY <1>2, <2>1 DEF SlotRecord
  <2>. QED
    BY <2>2
<1>4. HeadLoads
  BY <1>1, <1>2, <1>3 DEF HeadLoads, load_or_initialize
<1>5. r \in SlotRecord /\ r.pc = "failed" /\ r.target = slot[s].target
  BY <1>2 DEF SlotRecord, PCs
<1>6. Slot(s, r)
  BY <1>1, <1>3
<1>. HIDE DEF r
<1>7. Locking(s, r)
  BY <1>1, <1>2, <1>3, <1>4, <1>5, <1>6
  DEF Locking, Holding, Committing, Checked, StoreConstants
<1>. QED
  BY <1>7, LockingKeeps

(* The intent of a commit that directly extends the head in the epoch. *)
LEMMA BeginCommitKeeps ==
    ASSUME StoreConstants, StoreInv, NEW s \in Slots, begin_snapshot_commit(s),
           slot'[s].pc # "failed"
    PROVE  StoreInv'
<1>. DEFINE m == slot[s].target
            r == [slot[s] EXCEPT !.pc = "intent"]
<1>0. TypeOK /\ LocksHeld /\ HeadRecorded /\ CommitUnderway /\ PruneBelowHead /\ BlobsKept
  BY DEF StoreInv
<1>1. slot[s].pc = "locked" /\ worldLock = None /\ manifests[Len(m)] = None
  BY DEF begin_snapshot_commit
<1>2. slot[s] \in SlotRecord /\ gcLock = s /\ m \in History /\ m # <<>> /\ m # None
  BY <1>0, <1>1, SlotTypes, WantedBlobs DEF LocksHeld, Holding, StoreConstants
<1>3. /\ Loadable /\ Front(m) = Loaded /\ Last(m).epoch = epoch
      /\ Slot(s, r)
      /\ head' = Loaded /\ required' = TRUE /\ intent' = m /\ worldLock' = s /\ gcLock' = s
      /\ UNCHANGED <<blobs, manifests, crashes, epoch, control, collector, pruner, use>>
  <2>. DEFINE ok == Loadable /\ validate_direct_extension(Loaded, m) /\ EpochAllows(m)
  <2>1. Slot(s, [slot[s] EXCEPT !.pc = IF ok THEN "intent" ELSE "failed"])
    BY DEF begin_snapshot_commit, Moved
  <2>2. ok
    <3>. HIDE DEF ok
    <3>. SUFFICES ASSUME ~ok PROVE FALSE
      OBVIOUS
    <3>1. slot'[s] = [slot[s] EXCEPT !.pc = "failed"]
      BY <1>0, <2>1, OtherSlots
    <3>. QED
      BY <1>2, <3>1 DEF SlotRecord
  <2>. QED
    BY <2>1, <2>2
    DEF begin_snapshot_commit, Frame, validate_direct_extension, EpochAllows
<1>. HIDE DEF m
<1>4. r \in SlotRecord /\ r.pc = "intent" /\ r.target = m /\ r.pins = slot[s].pins
  BY <1>2 DEF SlotRecord, PCs, m
<1>5. slot'[s] = r /\ (\A t \in Slots : t # s => slot'[t] = slot[t]) /\ slot' \in [Slots -> SlotRecord]
  BY <1>0, <1>3, <1>4, OtherSlots
<1>. HIDE DEF r
<1>6. /\ Loaded \in History /\ Loaded # None /\ TargetValid(Loaded)
      /\ head # None => Loaded = head
  BY <1>0, LoadedIsValid DEF StoreConstants
<1>7. Present' = Present
  BY <1>3 DEF Present
<1>8. TypeOK'
  BY <1>0, <1>2, <1>3, <1>5, <1>6 DEF TypeOK, SlotRecord
<1>9. LocksHeld'
  <2>1. \A t \in Slots : slot'[t].pc \in Holding <=> gcLock' = t
    BY <1>0, <1>2, <1>3, <1>4, <1>5 DEF LocksHeld, Holding
  <2>2. \A t \in Slots : slot'[t].pc \in Committing <=> worldLock' = t
    BY SMTT(30), <1>0, <1>1, <1>3, <1>4, <1>5 DEF LocksHeld, Committing, StoreConstants
  <2>3. "retain" \in use' => \A t \in Replicas : slot'[t].pc = "free"
    BY <1>0, <1>1, <1>3, <1>5 DEF LocksHeld, Slots
  <2>4. gcLock' # "collector"
    BY <1>3 DEF StoreConstants
  <2>. QED
    BY <2>1, <2>2, <2>3, <2>4 DEF LocksHeld
<1>10. HeadRecorded'
  <2>1. \A n \in Present : ~(n > Len(Loaded))
    BY <1>0, <1>3, LoadableCovers
  <2>2. TargetValid(head)'
    BY <1>3, <1>6 DEF TargetValid
  <2>. QED
    BY <1>0, <1>2, <1>3, <1>6, <1>7, <2>1, <2>2 DEF HeadRecorded, OrphanFailsClosed
<1>11. CommitUnderway'
  <2>. SUFFICES ASSUME NEW t \in Slots
                PROVE  CommitUnderway!(t)'
    BY DEF CommitUnderway
  <2>1. CASE t = s
    BY <1>1, <1>2, <1>3, <1>4, <1>5, <2>1
  <2>2. CASE t # s
    <3>1. slot[t].pc \notin Committing
      BY <1>0, <1>1 DEF LocksHeld, StoreConstants
    <3>. QED
      BY <1>0, <1>5, <2>2, <3>1 DEF CommitUnderway, Committing
  <2>. QED
    BY <2>1, <2>2
<1>12. PruneBelowHead'
  BY <1>0, <1>3, <1>6 DEF PruneBelowHead
<1>13. BlobsKept'
  <2>1. \A n \in Present' : Complete(manifests[n])'
    BY <1>0, <1>3, <1>7 DEF BlobsKept, Complete
  <2>2. ASSUME NEW t \in Slots, slot'[t].pc \in Checked
        PROVE  Complete(slot[t].target)' /\ (t \in Publications => OwnsPins(t)')
    <3>1. slot[t].pc \in Checked /\ slot'[t].target = slot[t].target /\ slot'[t].pins = slot[t].pins
      BY <1>1, <1>4, <1>5, <2>2 DEF Checked, m
    <3>. QED
      BY <1>0, <1>3, <3>1 DEF BlobsKept, Complete, OwnsPins
  <2>3. gcLock' # "collector"
    BY <1>3 DEF StoreConstants
  <2>. QED
    BY <2>1, <2>2, <2>3 DEF BlobsKept
<1>. QED
  BY <1>8, <1>9, <1>10, <1>11, <1>12, <1>13 DEF StoreInv

LEMMA PublishKeeps ==
    ASSUME StoreConstants, StoreInv, NEW s \in Slots, publish_immutable_manifest(s)
    PROVE  StoreInv'
<1>. DEFINE m == slot[s].target
            r == [slot[s] EXCEPT !.pc = "manifest"]
<1>0. TypeOK /\ LocksHeld /\ HeadRecorded /\ CommitUnderway /\ PruneBelowHead /\ BlobsKept
  BY DEF StoreInv
<1>1. /\ slot[s].pc = "intent" /\ Slot(s, r)
      /\ manifests' = [manifests EXCEPT ![Len(m)] = m]
      /\ UNCHANGED <<blobs, head, required, intent, gcLock, worldLock, crashes,
                     epoch, control, collector, pruner, use>>
  BY DEF publish_immutable_manifest, Moved, Frame
<1>2. /\ slot[s] \in SlotRecord /\ m \in History /\ m # <<>> /\ m # None
      /\ gcLock = s /\ worldLock = s
  BY <1>0, <1>1, WantedBlobs DEF LocksHeld, Holding, Committing, StoreConstants
<1>3. /\ intent = m /\ head = Front(m) /\ Last(m).epoch = epoch
      /\ manifests[Len(m)] = None /\ Complete(m)
  BY <1>0, <1>1 DEF CommitUnderway, BlobsKept, Checked
<1>. HIDE DEF m
<1>4. r \in SlotRecord /\ r.pc = "manifest" /\ r.target = m /\ r.pins = slot[s].pins
  BY <1>2 DEF SlotRecord, PCs, m
<1>5. slot'[s] = r /\ (\A t \in Slots : t # s => slot'[t] = slot[t]) /\ slot' \in [Slots -> SlotRecord]
  BY <1>0, <1>1, <1>4, OtherSlots
<1>. HIDE DEF r
<1>6. /\ Len(m) \in Numbers /\ Len(m) \in Nat /\ head \in History /\ head # None
      /\ Len(head) = Len(m) - 1 /\ Len(head) \in Nat
  BY <1>2, <1>3, HistoryIsSeq, HistoryFront DEF StoreConstants
<1>7. /\ manifests' \in [Numbers -> History \cup {None}] /\ manifests'[Len(m)] = m
      /\ \A n \in Numbers : n # Len(m) => manifests'[n] = manifests[n]
  BY <1>0, <1>1, <1>2, <1>6 DEF TypeOK
<1>8. \A n \in Present' : n \in Numbers /\ (n # Len(m) => n \in Present /\ manifests'[n] = manifests[n])
  BY <1>7 DEF Present
<1>9. TypeOK'
  BY <1>0, <1>1, <1>5, <1>7 DEF TypeOK, SlotRecord
<1>10. LocksHeld'
  <2>1. \A t \in Slots : slot'[t].pc \in Holding <=> gcLock' = t
    BY <1>0, <1>1, <1>2, <1>4, <1>5 DEF LocksHeld, Holding
  <2>2. \A t \in Slots : slot'[t].pc \in Committing <=> worldLock' = t
    BY <1>0, <1>1, <1>2, <1>4, <1>5 DEF LocksHeld, Committing
  <2>3. "retain" \in use' => \A t \in Replicas : slot'[t].pc = "free"
    BY <1>0, <1>1, <1>5 DEF LocksHeld, Slots
  <2>4. gcLock' # "collector"
    BY <1>1, <1>2 DEF StoreConstants
  <2>. QED
    BY <2>1, <2>2, <2>3, <2>4 DEF LocksHeld
<1>11. HeadRecorded'
  <2>1. \A n \in Present' : Len(manifests'[n]) = n
    BY <1>0, <1>7, <1>8 DEF HeadRecorded
  <2>2. TargetValid(head)'
    <3>1. head # <<>> => manifests[Len(head)] = head /\ Len(head) \in Numbers /\ Len(head) # Len(m)
      BY SMTT(30), <1>0, <1>6, HistoryIsSeq DEF HeadRecorded, TargetValid
    <3>. QED
      BY <1>1, <1>7, <3>1 DEF TargetValid
  <2>3. OrphanFailsClosed'
    BY <1>0, <1>1, <1>3, <1>6, <1>7, <1>8 DEF HeadRecorded, OrphanFailsClosed
  <2>. QED
    BY <1>0, <1>1, <1>6, <2>1, <2>2, <2>3 DEF HeadRecorded
<1>12. CommitUnderway'
  <2>. SUFFICES ASSUME NEW t \in Slots
                PROVE  CommitUnderway!(t)'
    BY DEF CommitUnderway
  <2>1. CASE t = s
    BY <1>1, <1>2, <1>3, <1>4, <1>5, <1>7, <2>1
  <2>2. CASE t # s
    <3>1. slot[t].pc \notin Committing
      BY <1>0, <1>2, <2>2 DEF LocksHeld
    <3>. QED
      BY <1>0, <1>5, <2>2, <3>1 DEF CommitUnderway, Committing
  <2>. QED
    BY <2>1, <2>2
<1>13. PruneBelowHead'
  <2>1. control # None => Len(control) \in Numbers /\ Len(control) # Len(m)
    BY <1>0, <1>3, HistoryIsSeq DEF PruneBelowHead, TypeOK
  <2>. QED
    BY <1>0, <1>1, <1>7, <2>1 DEF PruneBelowHead
<1>14. BlobsKept'
  <2>1. \A n \in Present' : Complete(manifests[n])'
    BY <1>0, <1>1, <1>3, <1>7, <1>8 DEF BlobsKept, Complete
  <2>2. ASSUME NEW t \in Slots, slot'[t].pc \in Checked
        PROVE  Complete(slot[t].target)' /\ (t \in Publications => OwnsPins(t)')
    <3>1. slot[t].pc \in Checked /\ slot'[t].target = slot[t].target /\ slot'[t].pins = slot[t].pins
      BY <1>1, <1>4, <1>5, <2>2 DEF Checked, m
    <3>. QED
      BY <1>0, <1>1, <3>1 DEF BlobsKept, Complete, OwnsPins
  <2>3. gcLock' # "collector"
    BY <1>1, <1>2 DEF StoreConstants
  <2>. QED
    BY <2>1, <2>2, <2>3 DEF BlobsKept
<1>. QED
  BY <1>9, <1>10, <1>11, <1>12, <1>13, <1>14 DEF StoreInv

LEMMA WriteHeadKeeps ==
    ASSUME StoreConstants, StoreInv, NEW s \in Slots, write_head(s)
    PROVE  StoreInv'
<1>. DEFINE m == slot[s].target
            r == [slot[s] EXCEPT !.pc = "head"]
<1>0. TypeOK /\ LocksHeld /\ HeadRecorded /\ CommitUnderway /\ PruneBelowHead /\ BlobsKept
  BY DEF StoreInv
<1>1. /\ slot[s].pc = "manifest" /\ Slot(s, r) /\ head' = m
      /\ UNCHANGED <<blobs, manifests, required, intent, gcLock, worldLock, crashes,
                     epoch, control, collector, pruner, use>>
  BY DEF write_head, Moved, Frame
<1>2. /\ slot[s] \in SlotRecord /\ m \in History /\ m # <<>> /\ m # None
      /\ gcLock = s /\ worldLock = s
  BY <1>0, <1>1, WantedBlobs DEF LocksHeld, Holding, Committing, StoreConstants
<1>3. intent = m /\ head = Front(m) /\ manifests[Len(m)] = m
  BY <1>0, <1>1 DEF CommitUnderway
<1>. HIDE DEF m
<1>4. r \in SlotRecord /\ r.pc = "head" /\ r.target = m
  BY <1>2 DEF SlotRecord, PCs, m
<1>5. slot'[s] = r /\ (\A t \in Slots : t # s => slot'[t] = slot[t]) /\ slot' \in [Slots -> SlotRecord]
  BY <1>0, <1>1, <1>4, OtherSlots
<1>. HIDE DEF r
<1>7. /\ Len(m) \in Nat /\ head \in History /\ head # None
      /\ Len(head) = Len(m) - 1 /\ Len(head) \in Nat
  BY <1>2, <1>3, HistoryIsSeq, HistoryFront DEF StoreConstants
<1>8. Present' = Present
  BY <1>1 DEF Present
<1>9. TypeOK'
  BY <1>0, <1>1, <1>2, <1>5 DEF TypeOK, SlotRecord
<1>10. LocksHeld'
  <2>1. \A t \in Slots : slot'[t].pc \in Holding <=> gcLock' = t
    BY <1>0, <1>1, <1>2, <1>4, <1>5 DEF LocksHeld, Holding
  <2>2. \A t \in Slots : slot'[t].pc \in Committing <=> worldLock' = t
    BY <1>0, <1>1, <1>2, <1>4, <1>5 DEF LocksHeld, Committing
  <2>3. "retain" \in use' => \A t \in Replicas : slot'[t].pc = "free"
    BY <1>0, <1>1, <1>5 DEF LocksHeld, Slots
  <2>4. gcLock' # "collector"
    BY <1>1, <1>2 DEF StoreConstants
  <2>. QED
    BY <2>1, <2>2, <2>3, <2>4 DEF LocksHeld
<1>11. HeadRecorded'
  <2>1. TargetValid(head)'
    BY <1>1, <1>3 DEF TargetValid
  <2>2. ASSUME NEW n \in Present PROVE ~(n > Len(m))
    <3>1. n \in Nat /\ Len(manifests[n]) = n
      BY <1>0, ManifestNumbers DEF HeadRecorded
    <3>2. n > Len(m) => n > Len(head)
      BY SMTT(30), <1>7, <3>1
    <3>3. n > Len(m) => intent = manifests[n]
      BY <1>0, <1>7, <3>2 DEF HeadRecorded, OrphanFailsClosed
    <3>. QED
      BY SMTT(30), <1>3, <1>7, <3>1, <3>3
  <2>. QED
    BY <1>0, <1>1, <1>2, <1>3, <1>8, <2>1, <2>2 DEF HeadRecorded, OrphanFailsClosed
<1>12. CommitUnderway'
  <2>. SUFFICES ASSUME NEW t \in Slots
                PROVE  CommitUnderway!(t)'
    BY DEF CommitUnderway
  <2>1. CASE t = s
    BY <1>1, <1>2, <1>3, <1>4, <1>5, <2>1
  <2>2. CASE t # s
    <3>1. slot[t].pc \notin Committing
      BY <1>0, <1>2, <2>2 DEF LocksHeld
    <3>. QED
      BY <1>0, <1>5, <2>2, <3>1 DEF CommitUnderway, Committing
  <2>. QED
    BY <2>1, <2>2
<1>13. PruneBelowHead'
  <2>1. ASSUME pruner # None, NEW n \in pruner PROVE n < Len(m)
    <3>1. n \in Nat /\ n < Len(head)
      BY SMTT(30), <1>0, <2>1 DEF PruneBelowHead, TypeOK, Numbers
    <3>. QED
      BY SMTT(30), <1>7, <3>1
  <2>. QED
    BY <1>0, <1>1, <1>2, <2>1 DEF PruneBelowHead
<1>14. BlobsKept'
  <2>1. \A n \in Present' : Complete(manifests[n])'
    BY <1>0, <1>1, <1>8 DEF BlobsKept, Complete
  <2>2. ASSUME NEW t \in Slots, slot'[t].pc \in Checked
        PROVE  Complete(slot[t].target)' /\ (t \in Publications => OwnsPins(t)')
    <3>1. slot[t].pc \in Checked /\ slot'[t] = slot[t]
      BY <1>1, <1>4, <1>5, <2>2 DEF Checked
    <3>. QED
      BY <1>0, <1>1, <3>1 DEF BlobsKept, Complete, OwnsPins
  <2>3. gcLock' # "collector"
    BY <1>1, <1>2 DEF StoreConstants
  <2>. QED
    BY <2>1, <2>2, <2>3 DEF BlobsKept
<1>. QED
  BY <1>9, <1>10, <1>11, <1>12, <1>13, <1>14 DEF StoreInv

LEMMA FinishKeeps ==
    ASSUME StoreConstants, StoreInv, NEW s \in Slots, finish_snapshot_commit(s)
    PROVE  StoreInv'
<1>. DEFINE m == slot[s].target
            r == [slot[s] EXCEPT !.pc = "finished"]
<1>0. TypeOK /\ LocksHeld /\ HeadRecorded /\ CommitUnderway /\ PruneBelowHead /\ BlobsKept
  BY DEF StoreInv
<1>1. /\ slot[s].pc = "head" /\ Slot(s, r)
      /\ required' = TRUE /\ intent' = None /\ worldLock' = None
      /\ UNCHANGED <<blobs, manifests, head, gcLock, crashes,
                     epoch, control, collector, pruner, use>>
  BY DEF finish_snapshot_commit, Moved, Frame
<1>2. /\ slot[s] \in SlotRecord /\ m \in History /\ m # <<>> /\ m # None
      /\ gcLock = s /\ worldLock = s
  BY <1>0, <1>1, WantedBlobs DEF LocksHeld, Holding, Committing, StoreConstants
<1>3. intent = m /\ head = m
  BY <1>0, <1>1 DEF CommitUnderway
<1>. HIDE DEF m
<1>4. r \in SlotRecord /\ r.pc = "finished" /\ r.target = m
  BY <1>2 DEF SlotRecord, PCs, m
<1>5. slot'[s] = r /\ (\A t \in Slots : t # s => slot'[t] = slot[t]) /\ slot' \in [Slots -> SlotRecord]
  BY <1>0, <1>1, <1>4, OtherSlots
<1>. HIDE DEF r
<1>6. Present' = Present
  BY <1>1 DEF Present
<1>7. TypeOK'
  BY <1>0, <1>1, <1>5 DEF TypeOK, SlotRecord
<1>8. LocksHeld'
  <2>1. \A t \in Slots : slot'[t].pc \in Holding <=> gcLock' = t
    BY <1>0, <1>1, <1>2, <1>4, <1>5 DEF LocksHeld, Holding
  <2>2. \A t \in Slots : slot'[t].pc \in Committing <=> worldLock' = t
    BY <1>0, <1>1, <1>2, <1>4, <1>5 DEF LocksHeld, Committing, StoreConstants
  <2>3. "retain" \in use' => \A t \in Replicas : slot'[t].pc = "free"
    BY <1>0, <1>1, <1>5 DEF LocksHeld, Slots
  <2>4. gcLock' # "collector"
    BY <1>1, <1>2 DEF StoreConstants
  <2>. QED
    BY <2>1, <2>2, <2>3, <2>4 DEF LocksHeld
<1>9. HeadRecorded'
  <2>1. TargetValid(head)'
    BY <1>0, <1>1, <1>2, <1>3 DEF TargetValid, HeadRecorded
  <2>2. ASSUME NEW n \in Present PROVE ~(n > Len(m))
    <3>1. n \in Nat /\ Len(manifests[n]) = n
      BY <1>0, ManifestNumbers DEF HeadRecorded
    <3>2. n > Len(m) => intent = manifests[n]
      BY <1>0, <1>2, <1>3 DEF HeadRecorded, OrphanFailsClosed
    <3>. QED
      BY SMTT(30), <1>3, <3>1, <3>2
  <2>. QED
    BY <1>0, <1>1, <1>2, <1>3, <1>6, <2>1, <2>2 DEF HeadRecorded, OrphanFailsClosed
<1>10. CommitUnderway'
  <2>. SUFFICES ASSUME NEW t \in Slots
                PROVE  CommitUnderway!(t)'
    BY DEF CommitUnderway
  <2>1. CASE t = s
    BY <1>2, <1>4, <1>5, <2>1
  <2>2. CASE t # s
    <3>1. slot[t].pc \notin Committing
      BY <1>0, <1>2, <2>2 DEF LocksHeld
    <3>. QED
      BY <1>0, <1>5, <2>2, <3>1 DEF CommitUnderway, Committing
  <2>. QED
    BY <2>1, <2>2
<1>11. PruneBelowHead'
  BY <1>0, <1>1 DEF PruneBelowHead
<1>12. BlobsKept'
  <2>1. \A n \in Present' : Complete(manifests[n])'
    BY <1>0, <1>1, <1>6 DEF BlobsKept, Complete
  <2>2. ASSUME NEW t \in Slots, slot'[t].pc \in Checked
        PROVE  Complete(slot[t].target)' /\ (t \in Publications => OwnsPins(t)')
    <3>1. slot[t].pc \in Checked /\ slot'[t] = slot[t]
      BY <1>1, <1>4, <1>5, <2>2 DEF Checked
    <3>. QED
      BY <1>0, <1>1, <3>1 DEF BlobsKept, Complete, OwnsPins
  <2>3. gcLock' # "collector"
    BY <1>1, <1>2 DEF StoreConstants
  <2>. QED
    BY <2>1, <2>2, <2>3 DEF BlobsKept
<1>. QED
  BY <1>7, <1>8, <1>9, <1>10, <1>11, <1>12 DEF StoreInv

(* A process that stops leaves the files of its commit where they are. *)
LEMMA CrashKeeps ==
    ASSUME StoreConstants, StoreInv, NEW s \in Slots, Crash(s)
    PROVE  StoreInv'
<1>. DEFINE r == [slot[s] EXCEPT !.pc = IF s \in Publications THEN "stale" ELSE "leaked"]
<1>0. TypeOK /\ LocksHeld /\ HeadRecorded /\ CommitUnderway /\ PruneBelowHead /\ BlobsKept
  BY DEF StoreInv
<1>1. /\ slot[s].pc # "free" /\ Slot(s, r)
      /\ gcLock' = (IF gcLock = s THEN None ELSE gcLock)
      /\ worldLock' = (IF worldLock = s THEN None ELSE worldLock)
      /\ UNCHANGED <<blobs, manifests, head, required, intent, epoch, control,
                     collector, pruner, use>>
  BY DEF Crash, Moved, Frame
<1>2. slot[s] \in SlotRecord /\ slot[s].target # <<>>
  BY <1>1, WantedBlobs
<1>3. /\ r \in SlotRecord /\ r.pc \in {"stale", "leaked"}
      /\ r.target = slot[s].target /\ r.pins = slot[s].pins
  BY <1>2 DEF SlotRecord, PCs
<1>4. slot'[s] = r /\ (\A t \in Slots : t # s => slot'[t] = slot[t]) /\ slot' \in [Slots -> SlotRecord]
  BY <1>0, <1>1, <1>3, OtherSlots
<1>. HIDE DEF r
<1>5. Present' = Present
  BY <1>1 DEF Present
<1>6. TypeOK'
  <2>1. crashes' \in 0 .. MaxCrashes
    BY SMTT(30), <1>0 DEF Crash, TypeOK, StoreConstants
  <2>. QED
    BY <1>0, <1>1, <1>4, <2>1 DEF TypeOK, SlotRecord
<1>7. LocksHeld'
  <2>1. \A t \in Slots : slot'[t].pc \in Holding <=> gcLock' = t
    BY <1>0, <1>1, <1>3, <1>4 DEF LocksHeld, Holding, StoreConstants
  <2>2. \A t \in Slots : slot'[t].pc \in Committing <=> worldLock' = t
    BY <1>0, <1>1, <1>3, <1>4 DEF LocksHeld, Committing, StoreConstants
  <2>3. "retain" \in use' => \A t \in Replicas : slot'[t].pc = "free"
    BY <1>0, <1>1, <1>4 DEF LocksHeld, Slots
  <2>4. gcLock' = "collector" => gcLock = "collector"
    BY <1>1 DEF StoreConstants
  <2>. QED
    BY <1>0, <1>1, <2>1, <2>2, <2>3, <2>4 DEF LocksHeld
<1>8. HeadRecorded'
  BY <1>0, <1>1, <1>5 DEF HeadRecorded, OrphanFailsClosed, TargetValid
<1>9. CommitUnderway'
  <2>. SUFFICES ASSUME NEW t \in Slots
                PROVE  CommitUnderway!(t)'
    BY DEF CommitUnderway
  <2>1. CASE t = s
    BY <1>2, <1>3, <1>4, <2>1
  <2>2. CASE t # s
    BY <1>0, <1>1, <1>4, <2>2 DEF CommitUnderway
  <2>. QED
    BY <2>1, <2>2
<1>10. PruneBelowHead'
  BY <1>0, <1>1 DEF PruneBelowHead
<1>11. BlobsKept'
  <2>1. \A n \in Present' : Complete(manifests[n])'
    BY <1>0, <1>1, <1>5 DEF BlobsKept, Complete
  <2>2. ASSUME NEW t \in Slots, slot'[t].pc \in Checked
        PROVE  Complete(slot[t].target)' /\ (t \in Publications => OwnsPins(t)')
    <3>1. slot[t].pc \in Checked /\ slot'[t] = slot[t]
      BY <1>3, <1>4, <2>2 DEF Checked
    <3>. QED
      BY <1>0, <1>1, <3>1 DEF BlobsKept, Complete, OwnsPins
  <2>3. gcLock' = "collector" => gcLock = "collector"
    BY <1>1 DEF StoreConstants
  <2>4. \A t \in Slots : slot'[t].pins = slot[t].pins
    BY <1>3, <1>4
  <2>5. gcLock' = "collector" =>
          /\ \A n \in Present' : Last(manifests'[n]).entries \subseteq collector'
          /\ \A t \in Slots : slot'[t].pins \subseteq collector'
    BY <1>0, <1>1, <1>5, <2>3, <2>4 DEF BlobsKept
  <2>. QED
    BY <2>1, <2>2, <2>5 DEF BlobsKept
<1>. QED
  BY <1>6, <1>7, <1>8, <1>9, <1>10, <1>11 DEF StoreInv

-----------------------------------------------------------------------------
(* Loads, retention and the other writers                                  *)

LEMMA LoadKeeps ==
    ASSUME StoreConstants, StoreInv, LoadHead
    PROVE  StoreInv'
<1>0. TypeOK /\ LocksHeld /\ HeadRecorded /\ CommitUnderway /\ PruneBelowHead /\ BlobsKept
  BY DEF StoreInv
<1>1. /\ HeadLoads
      /\ UNCHANGED <<blobs, manifests, epoch, control, gcLock, worldLock, slot,
                     collector, pruner, use, crashes>>
  BY DEF LoadHead, HeadLoads
<1>2. /\ HeadRecorded'
      /\ head' \in History \cup {None} /\ intent' \in History \cup {None} /\ required' \in BOOLEAN
      /\ head # None => head' = head
      /\ worldLock # None => UNCHANGED <<head, intent>>
  BY <1>1, LoadKeepsHead
<1>3. Present' = Present
  BY <1>1 DEF Present
<1>4. TypeOK'
  BY <1>0, <1>1, <1>2 DEF TypeOK
<1>5. LocksHeld'
  BY <1>0, <1>1 DEF LocksHeld
<1>6. CommitUnderway'
  <2>1. \A s \in Slots : slot[s].pc \in Committing => worldLock # None
    BY <1>0 DEF LocksHeld, StoreConstants
  <2>. QED
    BY <1>0, <1>1, <1>2, <2>1 DEF CommitUnderway, Committing
<1>7. PruneBelowHead'
  BY <1>0, <1>1, <1>2 DEF PruneBelowHead
<1>8. BlobsKept'
  BY <1>0, <1>1, <1>3 DEF BlobsKept, Complete, OwnsPins
<1>. QED
  BY <1>2, <1>4, <1>5, <1>6, <1>7, <1>8 DEF StoreInv

LEMMA LoadTornKeeps ==
    ASSUME StoreConstants, StoreInv, LoadTorn
    PROVE  StoreInv'
<1>0. TypeOK /\ LocksHeld /\ HeadRecorded /\ CommitUnderway /\ PruneBelowHead /\ BlobsKept
  BY DEF StoreInv
<1>1. /\ worldLock = None /\ intent = None /\ head = None /\ ~required
      /\ head' = Loaded
      /\ UNCHANGED <<blobs, manifests, required, intent, epoch, control, gcLock,
                     worldLock, slot, collector, pruner, use>>
  BY DEF LoadTorn, Loaded
<1>2. Loaded \in History /\ Loaded # None /\ TargetValid(Loaded)
  BY <1>0, LoadedIsValid DEF StoreConstants
<1>3. \A n \in Present : ~(n > Len(Loaded))
  BY <1>0, <1>1, LoadableCovers DEF Loadable
<1>4. Present' = Present
  BY <1>1 DEF Present
<1>5. TypeOK'
  <2>1. crashes' \in 0 .. MaxCrashes
    BY SMTT(30), <1>0 DEF LoadTorn, TypeOK, StoreConstants
  <2>. QED
    BY <1>0, <1>1, <1>2, <2>1 DEF TypeOK
<1>6. LocksHeld'
  BY <1>0, <1>1 DEF LocksHeld
<1>7. HeadRecorded'
  <2>1. TargetValid(head)'
    BY <1>1, <1>2 DEF TargetValid
  <2>. QED
    BY <1>0, <1>1, <1>2, <1>3, <1>4, <2>1 DEF HeadRecorded, OrphanFailsClosed
<1>8. CommitUnderway'
  <2>1. \A s \in Slots : slot[s].pc \notin Committing
    BY <1>0, <1>1 DEF LocksHeld, StoreConstants
  <2>. QED
    BY <1>0, <1>1, <2>1 DEF CommitUnderway, Committing
<1>9. PruneBelowHead'
  BY <1>0, <1>1 DEF PruneBelowHead
<1>10. BlobsKept'
  BY <1>0, <1>1, <1>4 DEF BlobsKept, Complete, OwnsPins
<1>. QED
  BY <1>5, <1>6, <1>7, <1>8, <1>9, <1>10 DEF StoreInv

(* Recovering abandoned publications frees their slots and no others. *)
LEMMA RecoveredSlots ==
    ASSUME StoreConstants, StoreInv
    PROVE  /\ Recovered \in [Slots -> SlotRecord]
           /\ \A s \in Slots : Recovered[s] = slot[s] \/ (Recovered[s] = Free /\ slot[s].pc = "stale")
           /\ \A s \in Slots : Recovered[s].pins \subseteq Blobs
<1>1. <<>> \in Seq(Snapshot) /\ Len(<<>>) <= MaxNumber
  BY SMTT(30) DEF StoreConstants
<1>2. <<>> \in History
  BY <1>1, SeqIsHistory
<1>3. Free \in SlotRecord
  BY <1>2 DEF Free, SlotRecord, PCs
<1>4. \A s \in Slots : Recovered[s] = IF slot[s].pc = "stale" THEN Free ELSE slot[s]
  BY DEF Recovered
<1>5. Recovered \in [Slots -> SlotRecord]
  BY <1>3, SlotTypes DEF Recovered, StoreInv
<1>6. \A s \in Slots : Recovered[s].pins \subseteq Blobs
  BY <1>5 DEF SlotRecord
<1>. QED
  BY <1>4, <1>5, <1>6

LocksAndBlobsStand ==
    /\ \A s \in Slots : slot'[s].pc \in Holding <=> gcLock = s
    /\ \A s \in Slots : slot'[s].pc \in Committing <=> worldLock' = s
    /\ "retain" \in use' => \A r \in Replicas : slot'[r].pc = "free"
    /\ \A n \in Present' : Complete(manifests[n])'
    /\ \A s \in Slots : slot'[s].pc \in Checked =>
          Complete(slot[s].target)' /\ (s \in Publications => OwnsPins(s)')

(* With only abandoned slots freed and the head perhaps loaded, everything *)
(* that does not speak of the collector stays.                             *)
LEMMA RecoverySteps ==
    ASSUME StoreConstants, StoreInv, slot' = Recovered, HeadLoads,
           UNCHANGED <<blobs, manifests, epoch, control, worldLock, pruner, use, crashes>>
    PROVE  /\ HeadRecorded' /\ CommitUnderway' /\ PruneBelowHead'
           /\ LocksAndBlobsStand
<1>0. TypeOK /\ LocksHeld /\ HeadRecorded /\ CommitUnderway /\ PruneBelowHead /\ BlobsKept
  BY DEF StoreInv
<1>1. \A s \in Slots : slot'[s] = slot[s] \/ (slot'[s] = Free /\ slot[s].pc = "stale")
  BY RecoveredSlots
<1>2. HeadRecorded' /\ (head # None => head' = head) /\ (worldLock # None => UNCHANGED <<head, intent>>)
  BY LoadKeepsHead
<1>3. Free.pc = "free"
  BY DEF Free
<1>4. Present' = Present
  BY DEF Present
<1>5. CommitUnderway'
  <2>. SUFFICES ASSUME NEW t \in Slots
                PROVE  CommitUnderway!(t)'
    BY DEF CommitUnderway
  <2>1. slot[t].pc \in Committing => UNCHANGED <<head, intent>>
    BY <1>0, <1>2 DEF LocksHeld, StoreConstants
  <2>2. CASE slot'[t] = Free
    BY <1>3, <2>2
  <2>3. CASE slot'[t] = slot[t]
    BY <1>0, <2>1, <2>3 DEF CommitUnderway, Committing
  <2>. QED
    BY <1>1, <2>2, <2>3
<1>6. PruneBelowHead'
  BY <1>0, <1>2 DEF PruneBelowHead
<1>7. \A s \in Slots : slot'[s].pc \in Holding <=> gcLock = s
  BY <1>0, <1>1, <1>3 DEF LocksHeld, Holding
<1>8. \A s \in Slots : slot'[s].pc \in Committing <=> worldLock' = s
  BY <1>0, <1>1, <1>3 DEF LocksHeld, Committing
<1>9. "retain" \in use' => \A r \in Replicas : slot'[r].pc = "free"
  BY <1>0, <1>1, <1>3 DEF LocksHeld, Slots
<1>10. \A n \in Present' : Complete(manifests[n])'
  BY <1>0, <1>4 DEF BlobsKept, Complete
<1>11. ASSUME NEW s \in Slots, slot'[s].pc \in Checked
       PROVE  Complete(slot[s].target)' /\ (s \in Publications => OwnsPins(s)')
  <2>1. slot'[s] = slot[s]
    BY <1>1, <1>3, <1>11 DEF Checked
  <2>. QED
    BY <1>0, <1>11, <2>1 DEF BlobsKept, Complete, OwnsPins
<1>. QED
  BY <1>2, <1>5, <1>6, <1>7, <1>8, <1>9, <1>10, <1>11 DEF LocksAndBlobsStand

LEMMA RecoverKeeps ==
    ASSUME StoreConstants, StoreInv, recover_abandoned_publications
    PROVE  StoreInv'
<1>1. /\ gcLock = None /\ gcLock' = None /\ slot' = Recovered /\ HeadLoads
      /\ UNCHANGED <<blobs, manifests, head, required, intent, epoch, control, worldLock,
                     collector, pruner, use, crashes>>
  BY DEF recover_abandoned_publications, HeadLoads, Frame
<1>2. HeadRecorded' /\ CommitUnderway' /\ PruneBelowHead' /\ LocksAndBlobsStand
  BY <1>1, RecoverySteps
<1>3. gcLock' # "collector"
  BY <1>1 DEF StoreConstants
<1>4. TypeOK'
  BY <1>1, RecoveredSlots DEF StoreInv, TypeOK, SlotRecord
<1>5. LocksHeld'
  BY <1>1, <1>2, <1>3 DEF LocksHeld, LocksAndBlobsStand
<1>6. BlobsKept'
  BY <1>2, <1>3 DEF BlobsKept, LocksAndBlobsStand
<1>. QED
  BY <1>2, <1>4, <1>5, <1>6 DEF StoreInv

(* The collector marks what manifests and pins name when it takes the lock. *)
LEMMA CollectKeeps ==
    ASSUME StoreConstants, StoreInv, garbage_collect_blobs
    PROVE  StoreInv'
<1>1. /\ "retain" \in use /\ gcLock = None /\ gcLock' = "collector" /\ slot' = Recovered
      /\ HeadLoads
      /\ collector' = Referenced \cup UNION {Recovered[s].pins : s \in Slots}
      /\ UNCHANGED <<blobs, manifests, epoch, control, worldLock, pruner, use, crashes>>
  BY DEF garbage_collect_blobs, HeadLoads
<1>2. HeadRecorded' /\ CommitUnderway' /\ PruneBelowHead' /\ LocksAndBlobsStand
  BY <1>1, RecoverySteps
<1>3. /\ head' \in History \cup {None} /\ intent' \in History \cup {None} /\ required' \in BOOLEAN
  BY <1>1, LoadKeepsHead
<1>4. Present' = Present
  BY <1>1 DEF Present
<1>5. \A n \in Present' : Last(manifests'[n]).entries \subseteq collector'
  BY <1>1, <1>4 DEF Referenced
<1>6. \A s \in Slots : slot'[s].pins \subseteq collector'
  BY <1>1
<1>7. collector' \subseteq Blobs
  <2>1. \A s \in Slots : Recovered[s].pins \subseteq Blobs
    BY RecoveredSlots
  <2>2. \A n \in Present : Last(manifests[n]).entries \subseteq Blobs
    BY DEF StoreInv, TypeOK, BlobsKept, Complete
  <2>. QED
    BY <1>1, <2>1, <2>2 DEF Referenced
<1>8. TypeOK'
  BY <1>1, <1>3, <1>7, RecoveredSlots DEF StoreInv, TypeOK, SlotRecord
<1>9. LocksHeld'
  BY <1>1, <1>2 DEF LocksHeld, LocksAndBlobsStand, StoreConstants
<1>10. BlobsKept'
  BY <1>2, <1>5, <1>6 DEF BlobsKept, LocksAndBlobsStand
<1>. QED
  BY <1>2, <1>8, <1>9, <1>10 DEF StoreInv

(* What the collector removes is named by no manifest and, in a store that *)
(* is retained, by no verified target.                                     *)
LEMMA CollectStepKeeps ==
    ASSUME StoreConstants, StoreInv, collect_step
    PROVE  StoreInv'
<1>0. TypeOK /\ LocksHeld /\ HeadRecorded /\ CommitUnderway /\ PruneBelowHead /\ BlobsKept
  BY DEF StoreInv
<1>1. /\ gcLock = "collector"
      /\ blobs' \subseteq blobs /\ blobs \cap collector \subseteq blobs'
      /\ (gcLock' = "collector" /\ collector' = collector) \/ (gcLock' = None /\ collector' = {})
      /\ UNCHANGED <<manifests, head, required, intent, epoch, control, worldLock, slot,
                     pruner, use, crashes>>
  BY DEF collect_step
<1>2. Present' = Present
  BY <1>1 DEF Present
<1>3. TypeOK'
  BY <1>0, <1>1 DEF TypeOK
<1>4. LocksHeld'
  BY <1>0, <1>1 DEF LocksHeld, StoreConstants
<1>5. HeadRecorded'
  BY <1>0, <1>1, <1>2 DEF HeadRecorded, OrphanFailsClosed, TargetValid
<1>6. CommitUnderway' /\ PruneBelowHead'
  BY <1>0, <1>1 DEF CommitUnderway, PruneBelowHead
<1>7. BlobsKept'
  <2>1. \A n \in Present' : Complete(manifests[n])'
    BY <1>0, <1>1, <1>2 DEF BlobsKept, Complete
  <2>2. ASSUME NEW s \in Slots, slot'[s].pc \in Checked
        PROVE  Complete(slot[s].target)' /\ (s \in Publications => OwnsPins(s)')
    <3>1. s \in Publications
      BY <1>0, <1>1, <2>2 DEF LocksHeld, Slots, Checked
    <3>2. OwnsPins(s) /\ Complete(slot[s].target) /\ slot[s].pins \subseteq collector
      BY <1>0, <1>1, <2>2, <3>1 DEF BlobsKept
    <3>. QED
      BY <1>1, <3>2 DEF Complete, OwnsPins
  <2>3. gcLock' = "collector" =>
          /\ \A n \in Present' : Last(manifests'[n]).entries \subseteq collector'
          /\ \A s \in Slots : slot'[s].pins \subseteq collector'
    BY <1>0, <1>1, <1>2 DEF BlobsKept, StoreConstants
  <2>. QED
    BY <2>1, <2>2, <2>3 DEF BlobsKept
<1>. QED
  BY <1>3, <1>4, <1>5, <1>6, <1>7 DEF StoreInv

(* The pruner takes only what lies below the highest manifest and is named *)
(* by no control record.                                                   *)
LEMMA PruneKeeps ==
    ASSUME StoreConstants, StoreInv, NEW keep, prune_snapshots(keep)
    PROVE  StoreInv'
<1>0. TypeOK /\ LocksHeld /\ HeadRecorded /\ CommitUnderway /\ PruneBelowHead /\ BlobsKept
  BY DEF StoreInv
<1>1. /\ HeadLoads /\ load_or_initialize /\ Loadable /\ head' = Loaded /\ Present # {}
      /\ pruner' = Present \ retention_roots(keep)
      /\ UNCHANGED <<blobs, manifests, epoch, control, gcLock, worldLock, slot,
                     collector, use, crashes>>
  BY DEF prune_snapshots, HeadLoads, load_or_initialize
<1>2. /\ HeadRecorded'
      /\ head' \in History \cup {None} /\ intent' \in History \cup {None} /\ required' \in BOOLEAN
      /\ worldLock # None => UNCHANGED <<head, intent>>
  BY <1>1, LoadKeepsHead
<1>3. Present' = Present /\ Present \subseteq Numbers
  BY <1>1 DEF Present
<1>4. TypeOK'
  BY <1>0, <1>1, <1>2, <1>3 DEF TypeOK
<1>5. LocksHeld'
  BY <1>0, <1>1 DEF LocksHeld
<1>6. CommitUnderway'
  <2>1. \A s \in Slots : slot[s].pc \in Committing => worldLock # None
    BY <1>0 DEF LocksHeld, StoreConstants
  <2>. QED
    BY <1>0, <1>1, <1>2, <2>1 DEF CommitUnderway, Committing
<1>7. PruneBelowHead'
  <2>. DEFINE latest == CHOOSE n \in Present : \A k \in Present : k <= n
  <2>1. latest \in Present /\ \A k \in Present : k <= latest
    BY <1>1, HighestExists
  <2>2. /\ latest \in retention_roots(keep)
        /\ \A n \in Present : control # None /\ manifests[n] = control => n \in retention_roots(keep)
    BY DEF retention_roots
  <2>. HIDE DEF latest
  <2>3. head' # None /\ head' \in History /\ Len(head') \in Nat /\ latest <= Len(head')
    BY <1>0, <1>1, <2>1, LoadedIsValid, LoadableCovers, HistoryIsSeq DEF StoreConstants
  <2>4. ASSUME NEW n \in pruner' PROVE n < Len(head')
    <3>1. n \in Nat /\ latest \in Nat /\ n <= latest /\ n # latest
      BY <1>0, <1>1, <2>1, <2>2, ManifestNumbers
    <3>. QED
      BY SMTT(30), <2>3, <3>1
  <2>5. ASSUME NEW n \in pruner', control # None PROVE n # Len(control)
    <3>1. n \in Present /\ n \notin retention_roots(keep)
      BY <1>1
    <3>2. manifests[Len(control)] = control
      BY <1>0, <2>5 DEF PruneBelowHead
    <3>. QED
      BY <2>2, <2>5, <3>1, <3>2
  <2>. QED
    BY <1>0, <1>1, <2>3, <2>4, <2>5 DEF PruneBelowHead
<1>8. BlobsKept'
  BY <1>0, <1>1, <1>3 DEF BlobsKept, Complete, OwnsPins
<1>. QED
  BY <1>2, <1>4, <1>5, <1>6, <1>7, <1>8 DEF StoreInv

LEMMA PruneStepKeeps ==
    ASSUME StoreConstants, StoreInv, prune_step
    PROVE  StoreInv'
<1>0. TypeOK /\ LocksHeld /\ HeadRecorded /\ CommitUnderway /\ PruneBelowHead /\ BlobsKept
  BY DEF StoreInv
<1>1. /\ pruner # None /\ head # None
      /\ UNCHANGED <<blobs, head, required, intent, epoch, control, gcLock, worldLock,
                     slot, collector, use, crashes>>
  BY <1>0 DEF prune_step, PruneBelowHead
<1>2. /\ pruner \subseteq Numbers /\ (pruner' = None \/ pruner' \subseteq pruner)
      /\ manifests' \in [Numbers -> History \cup {None}]
      /\ \A n \in Numbers : manifests'[n] = manifests[n] \/ (n \in pruner /\ manifests'[n] = None)
  BY <1>0, <1>1 DEF prune_step, TypeOK
<1>3. \A n \in Present' : n \in Present /\ manifests'[n] = manifests[n]
  BY <1>2 DEF Present
<1>4. \A n \in Numbers : n \notin pruner => manifests'[n] = manifests[n]
  BY <1>2
<1>5. /\ head \in History /\ Len(head) \in Nat /\ (head # <<>> => Len(head) \in Numbers)
      /\ Len(head) \notin pruner
  BY SMTT(30), <1>0, <1>1, HistoryIsSeq DEF TypeOK, PruneBelowHead
<1>6. TypeOK'
  BY <1>0, <1>1, <1>2 DEF TypeOK
<1>7. LocksHeld'
  BY <1>0, <1>1 DEF LocksHeld
<1>8. HeadRecorded'
  <2>1. TargetValid(head)'
    BY <1>0, <1>1, <1>4, <1>5 DEF HeadRecorded, TargetValid
  <2>. QED
    BY <1>0, <1>1, <1>3, <2>1 DEF HeadRecorded, OrphanFailsClosed
<1>9. CommitUnderway'
  <2>. SUFFICES ASSUME NEW s \in Slots
                PROVE  CommitUnderway!(s)'
    BY DEF CommitUnderway
  <2>1. ASSUME slot[s].pc \in {"intent", "manifest"}
        PROVE  /\ Len(slot[s].target) \in Numbers /\ Len(slot[s].target) \notin pruner
    <3>1. /\ slot[s].target \in History /\ slot[s].target # <<>>
          /\ head = Front(slot[s].target)
      BY <1>0, <2>1, WantedBlobs DEF CommitUnderway
    <3>2. Len(slot[s].target) \in Numbers /\ Len(head) = Len(slot[s].target) - 1
      BY <3>1, HistoryIsSeq, HistoryFront
    <3>3. \A n \in pruner : n \in Nat /\ n < Len(head)
      BY SMTT(30), <1>0, <1>1, <1>2 DEF PruneBelowHead, Numbers
    <3>. QED
      BY SMTT(30), <3>2, <3>3 DEF Numbers
  <2>. QED
    BY <1>0, <1>1, <1>4, <2>1 DEF CommitUnderway
<1>10. PruneBelowHead'
  <2>1. control # None => Len(control) \in Numbers /\ Len(control) \notin pruner
    BY <1>0, <1>1, HistoryIsSeq DEF PruneBelowHead, TypeOK
  <2>. QED
    BY <1>0, <1>1, <1>2, <1>4, <2>1 DEF PruneBelowHead
<1>11. BlobsKept'
  BY <1>0, <1>1, <1>3 DEF BlobsKept, Complete, OwnsPins
<1>. QED
  BY <1>6, <1>7, <1>8, <1>9, <1>10, <1>11 DEF StoreInv

LEMMA SaveEpochKeeps ==
    ASSUME StoreConstants, StoreInv, save_epoch_record
    PROVE  StoreInv'
<1>0. TypeOK /\ LocksHeld /\ HeadRecorded /\ CommitUnderway /\ PruneBelowHead /\ BlobsKept
  BY DEF StoreInv
<1>1. /\ worldLock = None
      /\ UNCHANGED <<blobs, manifests, head, required, intent, control, gcLock, worldLock,
                     slot, collector, pruner, use, crashes>>
  BY DEF save_epoch_record
<1>2. Present' = Present
  BY <1>1 DEF Present
<1>3. TypeOK'
  <2>1. epoch' \in 1 .. MaxEpoch
    BY SMTT(30), <1>0 DEF save_epoch_record, TypeOK, StoreConstants
  <2>. QED
    BY <1>0, <1>1, <2>1 DEF TypeOK
<1>4. LocksHeld'
  BY <1>0, <1>1 DEF LocksHeld
<1>5. HeadRecorded'
  BY <1>0, <1>1, <1>2 DEF HeadRecorded, OrphanFailsClosed, TargetValid
<1>6. CommitUnderway'
  <2>1. \A s \in Slots : slot[s].pc \notin Committing
    BY <1>0, <1>1 DEF LocksHeld, StoreConstants
  <2>. QED
    BY <1>0, <1>1, <2>1 DEF CommitUnderway, Committing
<1>7. PruneBelowHead'
  BY <1>0, <1>1 DEF PruneBelowHead
<1>8. BlobsKept'
  BY <1>0, <1>1, <1>2 DEF BlobsKept, Complete, OwnsPins
<1>. QED
  BY <1>3, <1>4, <1>5, <1>6, <1>7, <1>8 DEF StoreInv

LEMMA ControlKeeps ==
    ASSUME StoreConstants, StoreInv, save_control_record \/ clear_control_record
    PROVE  StoreInv'
<1>0. TypeOK /\ LocksHeld /\ HeadRecorded /\ CommitUnderway /\ PruneBelowHead /\ BlobsKept
  BY DEF StoreInv
<1>1. /\ UNCHANGED <<blobs, manifests, head, required, intent, epoch, gcLock, worldLock,
                     slot, collector, pruner, use, crashes>>
      /\ control' = None \/ (head # None /\ head # <<>> /\ control' = head)
  BY DEF save_control_record, clear_control_record
<1>2. Present' = Present
  BY <1>1 DEF Present
<1>3. TypeOK'
  BY <1>0, <1>1 DEF TypeOK
<1>4. LocksHeld' /\ CommitUnderway'
  BY <1>0, <1>1 DEF LocksHeld, CommitUnderway
<1>5. HeadRecorded'
  BY <1>0, <1>1, <1>2 DEF HeadRecorded, OrphanFailsClosed, TargetValid
<1>6. PruneBelowHead'
  <2>1. head # None => Len(head) \in Nat
    BY <1>0, HistoryIsSeq DEF TypeOK
  <2>2. \A n \in Numbers : head # None /\ n < Len(head) => n # Len(head)
    BY SMTT(30), <2>1 DEF Numbers
  <2>. QED
    BY <1>0, <1>1, <2>2 DEF PruneBelowHead, HeadRecorded, TargetValid, TypeOK
<1>7. BlobsKept'
  BY <1>0, <1>1, <1>2 DEF BlobsKept, Complete, OwnsPins
<1>. QED
  BY <1>3, <1>4, <1>5, <1>6, <1>7 DEF StoreInv

-----------------------------------------------------------------------------
(* The invariant is inductive                                              *)

LEMMA InitStore ==
    ASSUME StoreConstants, Init
    PROVE  StoreInv
<1>1. <<>> \in Seq(Snapshot) /\ Len(<<>>) <= MaxNumber
  BY SMTT(30) DEF StoreConstants
<1>2. <<>> \in History
  BY <1>1, SeqIsHistory
<1>3. \A s \in Slots : slot[s] = Free /\ slot[s] \in SlotRecord
  BY <1>2 DEF Init, Free, SlotRecord, PCs
<1>4. \A n \in Present : n = 1 /\ \E es \in Contents : manifests[n] = <<[epoch |-> 1, entries |-> es]>>
  BY DEF Init, Legacy, Present
<1>5. manifests \in [Numbers -> History \cup {None}]
  <2>1. ASSUME NEW es \in Contents, 1 \in Numbers
        PROVE  <<[epoch |-> 1, entries |-> es]>> \in History
    <3>1. [epoch |-> 1, entries |-> es] \in Snapshot /\ 1 <= MaxNumber
      BY SMTT(30), <2>1 DEF Snapshot, StoreConstants, Numbers
    <3>2. <<[epoch |-> 1, entries |-> es]>> \in Seq(Snapshot) /\ Len(<<[epoch |-> 1, entries |-> es]>>) = 1
      BY SMTT(30), <3>1
    <3>. QED
      BY <3>1, <3>2, SeqIsHistory
  <2>. QED
    BY <2>1 DEF Init, Legacy
<1>6. \A n \in Present : Len(manifests[n]) = n
  BY <1>4
<1>7. blobs \subseteq Blobs /\ \A n \in Present : Last(manifests[n]).entries \subseteq blobs
  <2>1. \A n \in Present : manifests[n] \in History /\ manifests[n] # <<>>
    BY SMTT(30), <1>4, <1>5 DEF Present
  <2>2. \A n \in Present : Last(manifests[n]).entries \in Contents
    BY <2>1, HistoryFront
  <2>. QED
    BY <2>2 DEF Init, StoreConstants
<1>8. TypeOK
  <2>1. slot \in [Slots -> SlotRecord]
    BY <1>3 DEF Init
  <2>2. epoch \in 1 .. MaxEpoch /\ crashes \in 0 .. MaxCrashes
    BY SMTT(30) DEF Init, StoreConstants
  <2>. QED
    BY <1>5, <1>7, <2>1, <2>2 DEF Init, TypeOK, SlotRecord
<1>9. LocksHeld
  BY <1>3 DEF Init, LocksHeld, Free, Holding, Committing, Slots, StoreConstants
<1>10. HeadRecorded
  BY <1>6 DEF Init, HeadRecorded, OrphanFailsClosed
<1>11. CommitUnderway
  BY SMTT(30), <1>3 DEF CommitUnderway, Free
<1>12. PruneBelowHead
  BY DEF Init, PruneBelowHead
<1>13. BlobsKept
  BY <1>3, <1>7 DEF Init, BlobsKept, Free, Checked, Complete, StoreConstants
<1>. QED
  BY <1>8, <1>9, <1>10, <1>11, <1>12, <1>13 DEF StoreInv

LEMMA NextStore ==
    ASSUME StoreConstants, StoreInv, [Next]_vars
    PROVE  StoreInv'
<1>1. CASE LoadHead
  BY <1>1, LoadKeeps
<1>2. CASE LoadTorn
  BY <1>2, LoadTornKeeps
<1>3. ASSUME NEW p \in Publications,
             \/ \E entries \in Contents : begin_snapshot_publication(p, entries)
             \/ pin_hash(p)
             \/ put_file_blob(p)
             \/ verify_snapshot(p)
      PROVE  StoreInv'
  BY <1>3, BeginPublicationKeeps, PinKeeps, PutBlobKeeps, VerifyKeeps
<1>4. ASSUME NEW r \in Replicas,
             \/ \E entries \in Contents : reconstruct(r, entries)
             \/ \E b \in Blobs : receive_blob(r, b)
             \/ finalize_replica(r)
      PROVE  StoreInv'
  BY <1>4, ReconstructKeeps, ReceiveKeeps, FinalizeKeeps
<1>5. ASSUME NEW s \in Slots,
             \/ lock_blob_gc(s)
             \/ commit_existing(s)
             \/ begin_snapshot_commit(s)
             \/ publish_immutable_manifest(s)
             \/ write_head(s)
             \/ finish_snapshot_commit(s)
             \/ release_publication_pins(s)
             \/ Drop(s)
             \/ Crash(s)
      PROVE  StoreInv'
  BY <1>5, LockKeeps, CommitExistingKeeps, RefuseCommitKeeps, BeginCommitKeeps, PublishKeeps,
     WriteHeadKeeps, FinishKeeps, ReleaseKeeps, DropKeeps, CrashKeeps
<1>6. CASE recover_abandoned_publications
  BY <1>6, RecoverKeeps
<1>7. CASE \E keep \in 0 .. 1 : prune_snapshots(keep)
  BY <1>7, PruneKeeps
<1>8. CASE prune_step
  BY <1>8, PruneStepKeeps
<1>9. CASE garbage_collect_blobs
  BY <1>9, CollectKeeps
<1>10. CASE collect_step
  BY <1>10, CollectStepKeeps
<1>11. CASE save_epoch_record
  BY <1>11, SaveEpochKeeps
<1>12. CASE save_control_record \/ clear_control_record
  BY <1>12, ControlKeeps
<1>13. CASE UNCHANGED vars
  BY SMTT(30), <1>13 DEF vars, StoreInv, TypeOK, LocksHeld, HeadRecorded, OrphanFailsClosed,
     TargetValid, CommitUnderway, PruneBelowHead, BlobsKept, Complete, OwnsPins, Present
<1>. QED
  BY <1>1, <1>2, <1>3, <1>4, <1>5, <1>6, <1>7, <1>8, <1>9, <1>10, <1>11, <1>12, <1>13 DEF Next

-----------------------------------------------------------------------------
(* What the store promises                                                 *)

(* The conjunction of the file, lock, commit, pruning and blob invariants  *)
(* holds however publications, reconstructions, retention, record writes   *)
(* and crashes interleave.                                                 *)
THEOREM StoreInvCorrect == Spec => []StoreInv
<1>1. Init => StoreInv
  BY InitStore, StoreAssumption
<1>2. StoreInv /\ [Next]_vars => StoreInv'
  BY NextStore, StoreAssumption
<1>. QED
  BY <1>1, <1>2, PTL DEF Spec

(* The files and locks of a store keep their shape. *)
THEOREM StoreTypeCorrect == Spec => []TypeOK
<1>1. StoreInv => TypeOK
  BY DEF StoreInv
<1>. QED
  BY <1>1, StoreInvCorrect, PTL

(* Every manifest on disk and the canonical head can be restored, whatever *)
(* the collector, the pruner and stopped processes did in between          *)
(* (commit_snapshot_streaming_inner, garbage_collect_blobs).               *)
THEOREM CommittedCompleteCorrect == Spec => []CommittedComplete
<1>1. StoreInv => CommittedComplete
  BY DEF StoreInv, HeadRecorded, BlobsKept, CommittedComplete
<1>. QED
  BY <1>1, StoreInvCorrect, PTL

(* A manifest above the head is covered by the intent of the commit that   *)
(* was interrupted, so load_or_initialize_canonical_head_locked refuses    *)
(* the world instead of adopting it.                                       *)
THEOREM OrphanFailsClosedCorrect == Spec => []OrphanFailsClosed
<1>1. StoreInv => OrphanFailsClosed
  BY DEF StoreInv, HeadRecorded
<1>. QED
  BY <1>1, StoreInvCorrect, PTL

(* prune_snapshots never removes the snapshot a transfer, sleep or         *)
(* recovery record names, even when the record is written while it runs.   *)
THEOREM ControlRetainedCorrect == Spec => []ControlRetained
<1>1. StoreInv => ControlRetained
  BY DEF StoreInv, PruneBelowHead, ControlRetained
<1>. QED
  BY <1>1, StoreInvCorrect, PTL

HeadStep == head' # head /\ head # None => Front(head') = head /\ Last(head').epoch = epoch

LEMMA LoadIsHeadStep ==
    ASSUME StoreConstants, StoreInv, HeadLoads, UNCHANGED manifests
    PROVE  HeadStep
  BY LoadKeepsHead DEF HeadStep

(* The head moves only to its direct extension, in the epoch that is       *)
(* durable at that moment (begin_snapshot_commit_transaction's fence).     *)
THEOREM HeadExtendsInEpochCorrect == Spec => HeadExtendsInEpoch
<1>1. ASSUME StoreInv, [Next]_vars PROVE [HeadStep]_vars
  <2>1. ASSUME NEW s \in Slots, write_head(s) PROVE HeadStep
    BY <1>1, <2>1 DEF write_head, StoreInv, CommitUnderway, HeadStep
  <2>2. CASE head' = head
    BY <2>2 DEF HeadStep
  <2>3. CASE LoadHead \/ \E keep \in 0 .. 1 : prune_snapshots(keep)
    BY <1>1, <2>3, LoadIsHeadStep, StoreAssumption DEF LoadHead, prune_snapshots, HeadLoads
  <2>4. CASE LoadTorn
    BY <2>4 DEF LoadTorn, HeadStep
  <2>5. ASSUME NEW p \in Publications, NEW es \in Contents, begin_snapshot_publication(p, es)
        PROVE  HeadStep
    BY <1>1, <2>5, LoadIsHeadStep, StoreAssumption DEF begin_snapshot_publication, HeadLoads
  <2>6. ASSUME NEW r \in Replicas, NEW es \in Contents, reconstruct(r, es) PROVE HeadStep
    BY <1>1, <2>6, LoadIsHeadStep, StoreAssumption DEF reconstruct, HeadLoads
  <2>7. ASSUME NEW r \in Replicas, finalize_replica(r) PROVE HeadStep
    BY <1>1, <2>7, LoadIsHeadStep, StoreAssumption DEF finalize_replica, HeadLoads
  <2>8. ASSUME NEW s \in Slots, commit_existing(s) PROVE HeadStep
    BY <1>1, <2>8, LoadIsHeadStep, StoreAssumption DEF commit_existing, HeadLoads
  <2>9. ASSUME NEW s \in Slots, begin_snapshot_commit(s) PROVE HeadStep
    <3>1. head # None => Loaded = head
      BY DEF Loaded
    <3>. QED
      BY <2>9, <3>1 DEF begin_snapshot_commit, HeadStep
  <2>10. CASE garbage_collect_blobs
    BY <1>1, <2>10, LoadIsHeadStep, StoreAssumption DEF garbage_collect_blobs, HeadLoads
  <2>11. ASSUME NEW s \in Slots,
                \/ lock_blob_gc(s) \/ publish_immutable_manifest(s)
                \/ finish_snapshot_commit(s) \/ release_publication_pins(s) \/ Drop(s) \/ Crash(s)
         PROVE  head' = head
    BY <2>11 DEF lock_blob_gc, publish_immutable_manifest, finish_snapshot_commit,
       release_publication_pins, Drop, Crash
  <2>12. ASSUME NEW p \in Publications, pin_hash(p) \/ put_file_blob(p) \/ verify_snapshot(p)
         PROVE  head' = head
    BY <2>12 DEF pin_hash, put_file_blob, verify_snapshot
  <2>13. ASSUME NEW r \in Replicas, NEW b \in Blobs, receive_blob(r, b) PROVE head' = head
    BY <2>13 DEF receive_blob
  <2>14. CASE \/ recover_abandoned_publications \/ prune_step \/ collect_step
              \/ save_epoch_record \/ save_control_record \/ clear_control_record
    BY <2>2, <2>14 DEF recover_abandoned_publications, prune_step, collect_step,
       save_epoch_record, save_control_record, clear_control_record
  <2>15. CASE UNCHANGED vars
    BY <2>15
  <2>. QED
    BY <1>1, <2>1, <2>2, <2>3, <2>4, <2>5, <2>6, <2>7, <2>8, <2>9, <2>10, <2>11, <2>12, <2>13,
       <2>14, <2>15 DEF Next
<1>2. [][HeadStep]_vars => HeadExtendsInEpoch
  BY PTL DEF HeadStep, HeadExtendsInEpoch
<1>. QED
  BY <1>1, <1>2, StoreInvCorrect, PTL DEF Spec
=============================================================================
