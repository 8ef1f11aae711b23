-------------------------- MODULE PagerRefinement --------------------------
(***************************************************************************)
(* The pager implements AtomicStore under the mapping at the end of Pager: *)
(* writing a meta puts a commit in doubt, the second sync confirms it, a   *)
(* crash settles it, and no other step shows.                              *)
(***************************************************************************)
EXTENDS PagerProofs

\* The refinement: whether a newer meta is in doubt shows in one slot only.
LEMMA DoubtIs ==
    ASSUME TypeOK, AnchorInv
    PROVE  LET there == 1 - (Current.txid % 2)
           IN  InDoubt = IF TxidOf(disk[there]) > Current.txid THEN {Shown(disk[there])} ELSE {}
<1> DEFINE here == Current.txid % 2
<1> DEFINE there == 1 - here
<1>1. Current \in Metas /\ Current.txid \in Nat /\ disk[here] = Current
  BY MetaType DEF AnchorInv
<1>2. Slots = {here, there}
  BY <1>1, SlotParity DEF Slots
<1>3. ~(TxidOf(disk[here]) > Current.txid)
  BY <1>1, MetaType DEF TxidOf
<1> HIDE DEF here, there
<1>4. {t \in Slots : TxidOf(disk[t]) > Current.txid}
         = IF TxidOf(disk[there]) > Current.txid THEN {there} ELSE {}
  BY <1>2, <1>3
<1>5. InDoubt = IF TxidOf(disk[there]) > Current.txid THEN {Shown(disk[there])} ELSE {}
  BY <1>4 DEF InDoubt
<1> QED
  BY <1>5, SMTT(60) DEF here, there

NothingAhead ==
    LET o == disk[1 - (Current.txid % 2)]
    IN  o = Torn \/ o.txid < Current.txid \/ o = Current

\* With nothing newer in the other slot, no commit is in doubt.
LEMMA NoDoubt == TypeOK /\ AnchorInv /\ NothingAhead => InDoubt = {}
<1> SUFFICES ASSUME TypeOK, AnchorInv, NothingAhead PROVE InDoubt = {}
  BY SMTT(60)
<1> DEFINE there == 1 - (Current.txid % 2)
<1>1. Current \in Metas /\ Current.txid \in Nat
  BY MetaType DEF AnchorInv
<1>2. there \in Slots
  BY <1>1, SlotParity
<1>3. disk[there] \in SlotImages
  BY <1>2, FileType DEF TypeOK
<1> HIDE DEF there
<1>4. disk[there] # Torn => TxidOf(disk[there]) = disk[there].txid /\ disk[there].txid \in Nat
  BY <1>3, MetaType DEF SlotImages, TxidOf
<1>5. disk[there] = Torn => TxidOf(disk[there]) = 0
  BY DEF TxidOf, Torn
<1>6. ~(TxidOf(disk[there]) > Current.txid)
  BY <1>1, <1>4, <1>5 DEF there, NothingAhead
<1> QED
  BY <1>6, DoubtIs DEF there

\* Steps that change neither what readers see nor the meta slots.
LEMMA StoreFrame ==
    ASSUME Current' = Current, \A s \in Slots : disk'[s] = disk[s]
    PROVE  UNCHANGED Store!store
<1>1. InDoubt' = InDoubt
  BY DEF InDoubt, TxidOf
<1> QED
  BY <1>1 DEF Store!store

\* Steps that leave the file and the handle alone.
LEMMA QuietFrame ==
    ASSUME UNCHANGED <<disk, handle, committed>>
    PROVE  UNCHANGED Store!store
<1>1. Current' = Current
  BY DEF Current, Recover
<1> QED
  BY <1>1, StoreFrame

\* Writing a data page shows nothing to the abstract store.
LEMMA StoreWrite ==
    ASSUME PagerInvariant, phase = "write", NEW p \in batch.todo, NEW image,
           disk' = [disk EXCEPT ![p] = image], UNCHANGED <<handle, committed>>
    PROVE  UNCHANGED Store!store
<1> USE DEF PagerInvariant
<1>1. handle = "open" /\ batch \in Batches /\ Settling(batch) /\ disk \in Files
  BY SMTT(60) DEF WriterInv, TypeOK
<1>2. p \in Pages /\ p \notin Slots
  BY <1>1, WriteTarget, Zenon DEF Settling
<1>3. \A s \in Slots : disk'[s] = disk[s]
  BY <1>1, <1>2, FileType
<1>4. Current' = Current
  BY <1>1 DEF Current
<1> QED
  BY <1>3, <1>4, StoreFrame, SMTT(60)

\* Writing the meta puts the commit in doubt.
LEMMA WriteMetaTries ==
    ASSUME PagerInvariant, PagerInvariant', WriteMeta
    PROVE  Store!Try
<1> USE DEF PagerInvariant
<1>1. /\ phase = "meta" /\ disk' = [disk EXCEPT ![NewSlot] = NewMeta]
      /\ UNCHANGED <<handle, committed, batch, attempts>>
  BY SMTT(60) DEF WriteMeta
<1>2. /\ handle = "open" /\ batch \in Batches /\ batch.base = committed
      /\ TxidOf(disk[NewSlot]) <= committed.txid
      /\ disk \in Files /\ attempts \in Nat /\ committed \in Metas /\ committed.txid \in Nat
  BY <1>1, MetaType, SMTT(60) DEF WriterInv, TypeOK
<1>3. Current = committed /\ Current' = committed
  BY <1>1, <1>2 DEF Current
<1>4. InDoubt = {}
  <2>1. NothingAhead
    BY <1>2, <1>3, NothingNewer DEF NewSlot, NewTxid, NothingAhead
  <2> QED
    BY <2>1, NoDoubt, SMTT(60)
<1>5. NewMeta \in Metas /\ NewMeta.txid = committed.txid + 1
  BY <1>2, NewMetaType
<1> DEFINE here == committed.txid % 2
<1> DEFINE there == 1 - here
<1>6. /\ there \in Slots /\ here \in Slots /\ NewSlot = there
      /\ Slots = {here, there} /\ here # there
  BY <1>2, SlotParity DEF NewSlot, NewTxid, Slots
<1> HIDE DEF here, there
<1>7. there \in Pages /\ here \in Pages
  BY <1>6, PagerAssumption, SMTT(60) DEF Slots, Pages
<1>8. disk'[there] = NewMeta /\ disk'[here] = committed
  BY <1>1, <1>2, <1>6, <1>7, FileType, OpenAnchor, SMTT(60) DEF here
<1>9. {t \in Slots : TxidOf(disk'[t]) > committed.txid} = {there}
  BY <1>2, <1>5, <1>6, <1>8, MetaType DEF TxidOf
<1>10. InDoubt' = {Shown(NewMeta)}
  BY <1>3, <1>8, <1>9 DEF InDoubt, TxidOf
<1>11. Shown(NewMeta).id = Shown(Current).id + 1
  BY <1>3, <1>5 DEF Shown
<1> QED
  BY <1>3, <1>4, <1>10, <1>11 DEF Store!Try

\* The commit point settles the doubt for the commit.
LEMMA SyncMetaConfirms ==
    ASSUME PagerInvariant, PagerInvariant', SyncMeta
    PROVE  Store!Confirm
<1> USE DEF PagerInvariant
<1>1. /\ phase = "point" /\ committed' = NewMeta /\ UNCHANGED <<disk, handle>>
  BY SMTT(60) DEF SyncMeta
<1>2. /\ handle = "open" /\ batch \in Batches /\ batch.base = committed
      /\ disk[NewSlot] = NewMeta
      /\ attempts \in Nat /\ committed \in Metas /\ committed.txid \in Nat
  BY <1>1, MetaType, ZenonT(60) DEF WriterInv, TypeOK
<1>3. Current = committed /\ Current' = NewMeta
  BY <1>1, <1>2 DEF Current
<1>4. NewMeta \in Metas /\ NewMeta.txid = committed.txid + 1 /\ TxidOf(NewMeta) = NewMeta.txid
  BY <1>2, NewMetaType, MetaType DEF TxidOf
<1>5. NewSlot \in Slots
  BY <1>2, SlotParity DEF NewSlot, NewTxid
<1>6. Shown(NewMeta) \in InDoubt
  BY <1>2, <1>3, <1>4, <1>5 DEF InDoubt
<1>7. (TypeOK /\ AnchorInv /\ NothingAhead => InDoubt = {})'
  BY NoDoubt, PTL
<1>8. NothingAhead'
  <2>1. NewMeta.txid % 2 = 1 - (committed.txid % 2) /\ 1 - (NewMeta.txid % 2) = committed.txid % 2
    BY <1>2, <1>4, SlotParity DEF Slots
  <2>2. disk[committed.txid % 2] = committed
    BY <1>2, OpenAnchor
  <2>3. committed.txid < NewMeta.txid
    BY <1>2, <1>4
  <2> QED
    BY <1>1, <1>3, <2>1, <2>2, <2>3 DEF NothingAhead
<1> QED
  BY <1>3, <1>6, <1>7, <1>8 DEF Store!Confirm

\* A crash settles the doubt one way or the other.
LEMMA CrashCrashes ==
    ASSUME PagerInvariant, PagerInvariant', Die, disk' \in Files, synced' = disk',
           \A p \in Pages : disk'[p] \in {disk[p], synced[p], Torn},
           \A p \in Pages : disk[p] = synced[p] => disk'[p] = disk[p]
    PROVE  Store!Crash
<1> USE DEF PagerInvariant
<1> DEFINE there == 1 - (Current.txid % 2)
<1>1. handle' = "closed"
  BY DEF Die
<1>2. Current' = Current \/ (Current' = disk[there] /\ Current'.txid = Current.txid + 1)
  BY <1>1, CrashAnchor, SMTT(60)
<1>3. Current \in Metas /\ Current.txid \in Nat /\ Current' \in Metas
  BY MetaType, SMTT(60) DEF AnchorInv
<1>4. Shown(Current') \in {Shown(Current)} \cup InDoubt
  <2>1. CASE Current' = Current
    BY <2>1
  <2>2. CASE Current' = disk[there] /\ Current'.txid = Current.txid + 1
    <3>1. TxidOf(disk[there]) > Current.txid
      BY <2>2, <1>3, MetaType DEF TxidOf
    <3> QED
      BY <2>2, <3>1, DoubtIs
  <2> QED
    BY <1>2, <2>1, <2>2
<1>5. (TypeOK /\ AnchorInv /\ NothingAhead => InDoubt = {})'
  BY NoDoubt, PTL
<1>6. NothingAhead'
  BY <1>1, SMTT(60) DEF AnchorInv, NothingAhead
<1>7. Shown(Current)' = Shown(Current')
  BY DEF Shown
<1> QED
  BY <1>4, <1>5, <1>6, <1>7, SMTT(60) DEF Store!Crash

\* A failed meta write shows nothing to the abstract store.
LEMMA WriteMetaFailsStutters ==
    ASSUME PagerInvariant, PagerInvariant', WriteMetaFails
    PROVE  UNCHANGED Store!store
<1> USE DEF PagerInvariant
<1>1. /\ phase = "meta" /\ disk' \in {disk, [disk EXCEPT ![NewSlot] = Torn]}
      /\ UNCHANGED <<handle, committed>>
  BY DEF WriteMetaFails
<1>2. CASE disk' = disk
  BY <1>1, <1>2, QuietFrame
<1>3. CASE disk' = [disk EXCEPT ![NewSlot] = Torn]
  <2>1. /\ handle = "open" /\ batch.base = committed /\ TxidOf(disk[NewSlot]) <= committed.txid
        /\ disk \in Files /\ committed \in Metas /\ committed.txid \in Nat
    BY <1>1, MetaType, SMTT(60) DEF WriterInv, TypeOK
  <2>2. Current = committed /\ Current' = committed
    BY <1>1, <2>1, SMTT(60) DEF Current
  <2>3. InDoubt = {}
    <3>1. NothingAhead
      BY <2>1, <2>2, NothingNewer DEF NewSlot, NewTxid, NothingAhead
    <3> QED
      BY <3>1, NoDoubt
  <2>4. NewSlot = 1 - (committed.txid % 2) /\ NewSlot \in Pages
    BY <2>1, SlotParity, PagerAssumption DEF NewSlot, NewTxid, Slots, Pages
  <2> HIDE DEF NewSlot
  <2>5. disk'[NewSlot] = Torn
    BY <1>3, <2>1, <2>4, FileType
  <2>6. NothingAhead'
    BY <2>2, <2>4, <2>5 DEF NothingAhead
  <2>7. (TypeOK /\ AnchorInv /\ NothingAhead => InDoubt = {})'
    BY NoDoubt, PTL
  <2> QED
    BY <2>2, <2>3, <2>6, <2>7, SMTT(60) DEF Store!store
<1> QED
  BY <1>1, <1>2, <1>3

\* Every step of the pager is a step of the store or changes nothing in it.
LEMMA StoreNext ==
    ASSUME PagerInvariant, PagerInvariant', WriteBack, [Next]_vars
    PROVE  [Store!Next]_(Store!store)
<1>1. CASE WriteMeta
  BY <1>1, WriteMetaTries DEF Store!Next
<1>2. CASE SyncMeta
  BY <1>2, SyncMetaConfirms DEF Store!Next
<1>3. CASE PowerLoss \/ ProcessCrash
  <2>1. Die /\ disk' \in Files /\ synced' = disk'
    BY <1>3 DEF PowerLoss, ProcessCrash, PagerInvariant, TypeOK
  <2>2. /\ \A p \in Pages : disk'[p] \in {disk[p], synced[p], Torn}
        /\ \A p \in Pages : disk[p] = synced[p] => disk'[p] = disk[p]
    BY <1>3 DEF PowerLoss, ProcessCrash, Unsynced
  <2> QED
    BY <2>1, <2>2, CrashCrashes DEF Store!Next
<1>4. CASE WritePage \/ WritePageFails
  <2>1. phase = "write" /\ UNCHANGED <<handle, committed>>
    BY <1>4 DEF WritePage, WritePageFails
  <2>2. \/ disk' = disk
        \/ \E p \in batch.todo : disk' = [disk EXCEPT ![p] = ImageOf(p)]
        \/ \E p \in batch.todo : disk' = [disk EXCEPT ![p] = Torn]
    BY <1>4 DEF WritePage, WritePageFails
  <2> QED
    BY <2>1, <2>2, StoreWrite, QuietFrame
<1>5. CASE WriteMetaFails
  BY <1>5, WriteMetaFailsStutters
<1>6. CASE Open
  <2>1. Current' = Current /\ UNCHANGED disk
    BY <1>6 DEF Open, Current, medium
  <2> QED
    BY <2>1, StoreFrame
<1>7. CASE \/ Begin \/ Allocate \/ Collect \/ Rollback \/ Suspend \/ Resume
           \/ CommitRaced \/ CommitSettle \/ SettleStep \/ Seal \/ SyncData \/ SyncDataFails
           \/ SyncMetaFails \/ OpenSnapshot \/ CloseSnapshot \/ UNCHANGED vars
  <2>1. UNCHANGED <<disk, handle, committed>>
    BY <1>7, Zenon DEF Begin, Allocate, Collect, GcSweep, Rollback, Suspend, Resume, CommitRaced,
       CommitSettle, SettleStep, Seal, SyncData, SyncDataFails, SyncMetaFails, OpenSnapshot,
       CloseSnapshot, vars, medium
  <2> QED
    BY <2>1, QuietFrame, SMTT(60)
<1> QED
  BY <1>1, <1>2, <1>3, <1>4, <1>5, <1>6, <1>7 DEF Next

\* A fresh file shows a fresh store.
LEMMA StoreInit == Init => Store!Init
<1> SUFFICES ASSUME Init PROVE Store!Init
  OBVIOUS
<1>1. Current = Blank /\ Blank.txid = 0
  BY DEF Init, Current, Blank, MetaPage
<1>2. PagerInvariant
  BY PagerInit
<1>3. NothingAhead
  <2>1. 0 % 2 = 0 /\ 1 - (Blank.txid % 2) = 1 /\ 1 \in Pages /\ 1 \in Slots
    BY <1>1, PagerAssumption DEF Pages, Slots
  <2>2. disk[1] = Blank
    BY <2>1 DEF Init
  <2> QED
    BY <1>1, <2>1, <2>2 DEF NothingAhead
<1>4. InDoubt = {}
  BY <1>2, <1>3, NoDoubt DEF PagerInvariant
<1> QED
  BY <1>1, <1>4 DEF Store!Init, Shown

\* The pager implements AtomicStore: whatever is written, fails or crashes,
\* callers only ever see whole commits, one after the other; under the two
\* conditions of PagerInductive.
THEOREM Refinement ==
    ASSUME WriteBack, RefsRewritten
    PROVE  Spec => Implements
<1>1. PagerInvariant /\ PagerInvariant' /\ [Next]_vars => [Store!Next]_(Store!store)
  BY StoreNext
<1> QED
  BY <1>1, StoreInit, PagerInductive, PTL DEF Spec, Implements, Store!Spec
=============================================================================
