------------------------------- MODULE Pager -------------------------------
(***************************************************************************)
(* The pager of quantydb-core (pager.rs, meta.rs, freelist.rs) on top of   *)
(* one file: the write batch, the free list chain, the two-sync commit,    *)
(* the two meta slots, failures at every I/O call, crashes and recovery.   *)
(*                                                                         *)
(* What is abstracted.  The layers above the pager only allocate pages and *)
(* hang them under roots, so the five root pointers of a meta are replaced *)
(* by what they reach: tree[p] is the stamp of the page image the meta     *)
(* expects at p, 0 when it does not reach p.  A stamp names one commit     *)
(* attempt: two attempts at the same txid write different bytes.  A commit *)
(* keeps everything its base reaches (history is retained); only garbage   *)
(* collection lets go of pages.  Id lists are sets: no property depends on *)
(* the order a vector happens to have.  A checksum separates a whole page  *)
(* from a torn one and is taken to be perfect.                             *)
(*                                                                         *)
(* The medium.  disk[p] is what a read returns (the operating system's     *)
(* cache), synced[p] what the last successful sync left on the medium.  A  *)
(* power failure keeps, loses or tears each unsynced page on its own.      *)
(***************************************************************************)
EXTENDS Integers, FiniteSets, Sequences

CONSTANTS
    MaxPage,      \* bound: the largest page id the file can grow to
    MaxAttempts,  \* bound: commit attempts that reach the disk
    MaxAllocs,    \* bound: tree pages one batch allocates
    MaxParked,    \* bound: suspended batches alive at a time
    MaxReaders,   \* bound: commits with an open snapshot at a time
    PerPage,      \* freelist::ids_per_page, how many ids one chain page holds
    WriteBack,    \* TRUE: after a process dies the kernel writes its cache
                  \* back before the machine itself can fail
    RefsRewritten \* TRUE: putting every branch again copies every page of
                  \* the refs tree, see GcSweep

ASSUME PagerAssumption ==
    /\ MaxPage \in Nat /\ MaxPage >= 2
    /\ MaxAttempts \in Nat
    /\ MaxAllocs \in Nat
    /\ MaxParked \in Nat
    /\ MaxReaders \in Nat
    /\ PerPage \in Nat \ {0}
    /\ WriteBack \in BOOLEAN
    /\ RefsRewritten \in BOOLEAN

NIL == 0
Slots == {0, 1}
DataPages == 2..MaxPage
Pages == 0..MaxPage
-----------------------------------------------------------------------------
(* Page images.                                                            *)

Torn == [kind |-> "torn"]
TreePage(s) == [kind |-> "tree", stamp |-> s]
ChainPage(next, ids) == [kind |-> "free", next |-> next, ids |-> ids]

\* list is the chain as it was written, last page first: list[Len(list)] is
\* the page freelist_root points at, and each entry points at the one below.
MetaPage(txid, tree, free, list, count) ==
    [kind |-> "meta", txid |-> txid, tree |-> tree,
     freelist_root |-> free, list |-> list, page_count |-> count]

ListEntry == [page : DataPages, ids : SUBSET DataPages]
TreeImages == [kind : {"tree"}, stamp : Nat]
ChainImages == [kind : {"free"}, next : {NIL} \cup DataPages, ids : SUBSET DataPages]
Metas == [kind : {"meta"}, txid : Nat, tree : [DataPages -> Nat],
          freelist_root : {NIL} \cup DataPages, list : Seq(ListEntry),
          page_count : 2..MaxPage + 1]
SlotImages == {Torn} \cup Metas
DataImages == {Torn} \cup TreeImages \cup ChainImages

TreePages(m) == {p \in DataPages : m.tree[p] # 0}
ChainPages(list) == {list[i].page : i \in DOMAIN list}
FreeIds(list) == UNION {list[i].ids : i \in DOMAIN list}
Top(list) == IF list = <<>> THEN NIL ELSE list[Len(list)].page
Below(list) == SubSeq(list, 1, Len(list) - 1)
ChainImage(list, i) ==
    ChainPage(IF i = 1 THEN NIL ELSE list[i - 1].page, list[i].ids)

\* Mutant: the check for a newer meta in the slot never finds one.
TxidOfBlind(image) == 0

\* Meta::decode seen from above: a torn slot holds nothing valid.
TxidOf(image) == IF image.kind = "meta" THEN image.txid ELSE 0

\* meta::recover over the two slots; the first one wins a tie.
Recover(a, b) ==
    CASE a.kind = "meta" /\ b.kind = "meta" -> IF b.txid > a.txid THEN b ELSE a
      [] a.kind = "meta" /\ b.kind # "meta" -> a
      [] OTHER -> b
-----------------------------------------------------------------------------
VARIABLES
    disk,       \* what a read of each page returns
    synced,     \* what the medium is known to hold
    handle,     \* "open" while a Pager exists, "closed" otherwise
    committed,  \* Pager.committed
    phase,      \* where the writer is: idle, open, settle, write, meta, point
    batch,      \* the WriteBatch behind the writer mutex
    parked,     \* SuspendedBatches kept by callers
    snaps,      \* metas some Snapshot still reads through
    attempts,   \* commit attempts that reached the disk (source of stamps)
    seen        \* the newest state a caller was ever shown

vars == <<disk, synced, handle, committed, phase, batch, parked, snaps,
          attempts, seen>>
writer == <<phase, batch>>
medium == <<disk, synced>>

\* Pager::begin: a batch over the committed meta.
NewBatch(base) ==
    [base |-> base, next_page |-> base.page_count, reuse_pool |-> {},
     chain_cursor |-> base.freelist_root, deferred_free |-> {},
     touched_freelist |-> FALSE, allow_reuse |-> TRUE,
     gc |-> FALSE, swept |-> {}, live |-> TreePages(base), dirty |-> {},
     rest |-> base.list, writable |-> {}, remaining |-> {}, chain |-> {},
     todo |-> {}]

Blank == MetaPage(0, [p \in DataPages |-> 0], NIL, <<>>, 2)

\* Pager::create leaves the same empty meta in both slots, synced.
Init ==
    /\ disk = [p \in Pages |-> IF p \in Slots THEN Blank ELSE Torn]
    /\ synced = disk
    /\ handle = "open"
    /\ committed = Blank
    /\ phase = "idle"
    /\ batch = NewBatch(Blank)
    /\ parked = {}
    /\ snaps = {}
    /\ attempts = 0
    /\ seen = Blank
-----------------------------------------------------------------------------
(* Building a batch.                                                       *)

Begin ==
    /\ handle = "open" /\ phase = "idle"
    /\ phase' = "open"
    /\ batch' = NewBatch(committed)
    /\ UNCHANGED <<medium, handle, committed, parked, snaps, attempts, seen>>

\* Dropping a batch is its rollback: the next Begin starts from committed.
Forget == phase' = "idle" /\ batch' = NewBatch(committed)

\* First half of take_page_id: refill an empty pool from the next chain page.
\* A page that cannot be read or is no chain page ends the harvest.
Harvest(b) ==
    LET image == disk[b.chain_cursor]
        stop  == [b EXCEPT !.chain_cursor = NIL, !.rest = <<>>]
    IN  IF b.allow_reuse /\ b.reuse_pool = {} /\ b.chain_cursor # NIL
        THEN {stop} \cup
             (IF image.kind = "free"
              THEN {[b EXCEPT !.reuse_pool = image.ids,
                              !.deferred_free = @ \cup {b.chain_cursor},
                              !.chain_cursor = image.next,
                              !.rest = Below(@),
                              !.touched_freelist = TRUE]}
              ELSE {})
        ELSE {b}

\* Second half: an id from the pool, or the next one past the end.
Take(b) ==
    IF b.allow_reuse /\ b.reuse_pool # {}
    THEN {[id |-> p, b |-> [b EXCEPT !.reuse_pool = @ \ {p}]] : p \in b.reuse_pool}
    ELSE {[id |-> p, b |-> [b EXCEPT !.next_page = p + 1]] :
            p \in {b.next_page} \cap DataPages}

Allocate ==
    /\ phase = "open"
    /\ Cardinality(batch.dirty) < MaxAllocs
    /\ \E h \in Harvest(batch) : \E t \in Take(h) :
          batch' = [t.b EXCEPT !.dirty = @ \cup {t.id}]
    /\ UNCHANGED <<medium, handle, committed, phase, parked, snaps, attempts, seen>>

\* Mutant: collection that does not wait for snapshots to go away.
GcSweepUnderReaders(marked, left) ==
    /\ phase = "open"
    /\ ~batch.gc /\ batch.dirty = {} /\ ~batch.touched_freelist
    /\ marked \cup left \subseteq batch.live
    /\ RefsRewritten => left = {}
    /\ batch' = [batch EXCEPT !.gc = TRUE, !.touched_freelist = TRUE,
                              !.live = marked \cup left,
                              !.swept = (2..batch.base.page_count - 1) \ marked]
    /\ UNCHANGED <<medium, handle, committed, phase, parked, snaps, attempts, seen>>

\* Db::gc: every page of the committed file that the mark phase did not reach
\* is listed as free.  It needs &mut Db, so no snapshot is alive.
\* The mark phase reaches records, data and catalogs, not the refs tree.  The
\* refs pages that putting every branch again copies are the Allocate steps
\* that follow; `left` are those it does not copy, which the new meta still
\* reaches although they are listed.  When there are such pages is the
\* subject of module RefsTree: none with up to six branches of its instance,
\* some with seven.
GcSweep(marked, left) ==
    /\ phase = "open" /\ snaps = {}
    /\ ~batch.gc /\ batch.dirty = {} /\ ~batch.touched_freelist
    /\ marked \cup left \subseteq batch.live
    /\ RefsRewritten => left = {}
    /\ batch' = [batch EXCEPT !.gc = TRUE, !.touched_freelist = TRUE,
                              !.live = marked \cup left,
                              !.swept = (2..batch.base.page_count - 1) \ marked]
    /\ UNCHANGED <<medium, handle, committed, phase, parked, snaps, attempts, seen>>

Rollback ==
    /\ phase = "open"
    /\ Forget
    /\ UNCHANGED <<medium, handle, committed, parked, snaps, attempts, seen>>

\* WriteBatch::suspend keeps the owned half and gives the writer mutex back.
Suspend ==
    /\ phase = "open" /\ ~batch.gc /\ Cardinality(parked) < MaxParked
    /\ parked' = parked \cup {batch}
    /\ Forget
    /\ UNCHANGED <<medium, handle, committed, snaps, attempts, seen>>

\* Pager::resume.  A refusal consumes the suspended batch as well.
Resume ==
    /\ handle = "open" /\ phase = "idle"
    /\ \E b \in parked :
          /\ parked' = parked \ {b}
          /\ \/ /\ b.base.txid = committed.txid
                /\ phase' = "open" /\ batch' = b
             \/ /\ b.base.txid # committed.txid
                /\ UNCHANGED writer
    /\ UNCHANGED <<medium, handle, committed, snaps, attempts, seen>>
-----------------------------------------------------------------------------
(* Committing.                                                             *)

NewTxid == batch.base.txid + 1

\* Mutant: every commit writes the first slot.
NewSlotFixed == 0

NewSlot == NewTxid % 2

\* The guard of commit: somebody else's meta is already in the slot.
CommitRaced ==
    /\ phase = "open"
    /\ TxidOf(disk[NewSlot]) > batch.base.txid
    /\ Forget
    /\ UNCHANGED <<medium, handle, committed, parked, snaps, attempts, seen>>

\* commit up to the loop of settle_freelist: what has to be listed, and the
\* part of the old chain that stays in place behind it.
CommitSettle ==
    /\ phase = "open"
    /\ attempts < MaxAttempts
    /\ TxidOf(disk[NewSlot]) <= batch.base.txid
    /\ batch.touched_freelist
    /\ batch' = [batch EXCEPT
          !.writable = batch.reuse_pool,
          !.reuse_pool = {},
          !.remaining = IF batch.gc THEN batch.swept \ batch.dirty
                                    ELSE batch.reuse_pool \cup batch.deferred_free,
          !.rest = IF batch.gc THEN <<>> ELSE @,
          !.allow_reuse = FALSE,
          !.chain_cursor = NIL,
          !.deferred_free = {}]
    /\ phase' = "settle"
    /\ UNCHANGED <<medium, handle, committed, parked, snaps, attempts, seen>>

\* Mutant: the id that becomes a chain page stays in the list.
SettleStepKeeps ==
    /\ phase = "settle" /\ batch.remaining # {}
    /\ LET usable == batch.remaining \cap batch.writable
           fresh  == {batch.next_page} \cap DataPages
       IN  \E p \in (IF usable # {} THEN usable ELSE fresh) :
           \E chunk \in SUBSET batch.remaining :
              /\ \/ chunk = batch.remaining /\ Cardinality(chunk) <= PerPage
                 \/ Cardinality(chunk) = PerPage
              /\ batch' = [batch EXCEPT
                    !.remaining = @ \ chunk,
                    !.next_page = IF usable # {} THEN @ ELSE p + 1,
                    !.chain = @ \cup {p},
                    !.rest = Append(@, [page |-> p, ids |-> chunk])]
    /\ UNCHANGED <<medium, handle, committed, phase, parked, snaps, attempts, seen>>

\* One turn of the loop: a chain page that may be written now, from the list
\* itself if there is one, and as many ids as it holds.
SettleStep ==
    /\ phase = "settle" /\ batch.remaining # {}
    /\ LET usable == batch.remaining \cap batch.writable
           fresh  == {batch.next_page} \cap DataPages
       IN  \E p \in (IF usable # {} THEN usable ELSE fresh) :
           LET left == batch.remaining \ {p}
           IN  \E chunk \in SUBSET left :
                 /\ \/ chunk = left /\ Cardinality(left) <= PerPage
                    \/ Cardinality(chunk) = PerPage
                 /\ batch' = [batch EXCEPT
                       !.remaining = left \ chunk,
                       !.next_page = IF usable # {} THEN @ ELSE p + 1,
                       !.chain = @ \cup {p},
                       !.rest = Append(@, [page |-> p, ids |-> chunk])]
    /\ UNCHANGED <<medium, handle, committed, phase, parked, snaps, attempts, seen>>

\* The batch is complete: its pages are sealed and the writing starts.
Seal ==
    /\ attempts < MaxAttempts
    /\ \/ phase = "settle" /\ batch.remaining = {}
       \/ /\ phase = "open" /\ ~batch.touched_freelist
          /\ TxidOf(disk[NewSlot]) <= batch.base.txid
    /\ attempts' = attempts + 1
    /\ phase' = "write"
    /\ batch' = [batch EXCEPT !.todo = batch.dirty \cup batch.chain,
                              !.rest = IF phase = "open" THEN batch.base.list ELSE @]
    /\ UNCHANGED <<medium, handle, committed, parked, snaps, seen>>

\* What the batch stores in page p, and the meta it is about to write.
ImageOf(p) ==
    IF p \in batch.chain
    THEN ChainImage(batch.rest, CHOOSE i \in DOMAIN batch.rest : batch.rest[i].page = p)
    ELSE TreePage(attempts)

NewMeta ==
    MetaPage(NewTxid,
             [p \in DataPages |-> IF p \in batch.dirty THEN attempts
                                  ELSE IF p \in batch.live THEN batch.base.tree[p]
                                  ELSE 0],
             IF batch.touched_freelist THEN Top(batch.rest) ELSE batch.base.freelist_root,
             batch.rest,
             batch.next_page)

\* Step 1, one page at a time in id order.
WritePage ==
    /\ phase = "write"
    /\ \E p \in batch.todo :
          /\ \A q \in batch.todo : p <= q
          /\ disk' = [disk EXCEPT ![p] = ImageOf(p)]
          /\ batch' = [batch EXCEPT !.todo = @ \ {p}]
    /\ UNCHANGED <<synced, handle, committed, phase, parked, snaps, attempts, seen>>

\* A write that fails may leave a torn page behind; commit returns the error.
WritePageFails ==
    /\ phase = "write"
    /\ \E p \in batch.todo :
          /\ \A q \in batch.todo : p <= q
          /\ disk' \in {disk, [disk EXCEPT ![p] = Torn]}
    /\ Forget
    /\ UNCHANGED <<synced, handle, committed, parked, snaps, attempts, seen>>

\* Mutant: step 2 left out.
SyncDataSkipped ==
    /\ phase = "write" /\ batch.todo = {}
    /\ phase' = "meta"
    /\ UNCHANGED <<medium, handle, committed, batch, parked, snaps, attempts, seen>>

\* Step 2.
SyncData ==
    /\ phase = "write" /\ batch.todo = {}
    /\ synced' = disk
    /\ phase' = "meta"
    /\ UNCHANGED <<disk, handle, committed, batch, parked, snaps, attempts, seen>>

SyncDataFails ==
    /\ phase = "write" /\ batch.todo = {}
    /\ Forget
    /\ UNCHANGED <<medium, handle, committed, parked, snaps, attempts, seen>>

\* Step 3.
WriteMeta ==
    /\ phase = "meta"
    /\ disk' = [disk EXCEPT ![NewSlot] = NewMeta]
    /\ phase' = "point"
    /\ UNCHANGED <<synced, handle, committed, batch, parked, snaps, attempts, seen>>

WriteMetaFails ==
    /\ phase = "meta"
    /\ disk' \in {disk, [disk EXCEPT ![NewSlot] = Torn]}
    /\ Forget
    /\ UNCHANGED <<synced, handle, committed, parked, snaps, attempts, seen>>

\* Step 4, the commit point, and the publication that follows it.
SyncMeta ==
    /\ phase = "point"
    /\ synced' = disk
    /\ committed' = NewMeta
    /\ seen' = NewMeta
    /\ phase' = "idle"
    /\ batch' = NewBatch(NewMeta)
    /\ UNCHANGED <<disk, handle, parked, snaps, attempts>>

\* The meta is written but the caller is told the commit failed.
SyncMetaFails ==
    /\ phase = "point"
    /\ Forget
    /\ UNCHANGED <<medium, handle, committed, parked, snaps, attempts, seen>>
-----------------------------------------------------------------------------
(* Readers, crashes, recovery.                                             *)

OpenSnapshot ==
    /\ handle = "open" /\ ~batch.gc /\ Cardinality(snaps) < MaxReaders
    /\ snaps' = snaps \cup {committed}
    /\ UNCHANGED <<medium, handle, committed, writer, parked, attempts, seen>>

CloseSnapshot ==
    /\ \E m \in snaps : snaps' = snaps \ {m}
    /\ UNCHANGED <<medium, handle, committed, writer, parked, attempts, seen>>

Unsynced == {p \in Pages : disk[p] # synced[p]}

\* Everything in memory is gone.
Die ==
    /\ handle' = "closed"
    /\ committed' = Blank
    /\ phase' = "idle" /\ batch' = NewBatch(Blank)
    /\ parked' = {} /\ snaps' = {}
    /\ UNCHANGED <<attempts, seen>>

PowerLoss ==
    /\ \E kept \in SUBSET Unsynced : \E torn \in SUBSET (Unsynced \ kept) :
          disk' = [p \in Pages |-> IF p \in torn THEN Torn
                                   ELSE IF p \in kept THEN disk[p] ELSE synced[p]]
    /\ synced' = disk'
    /\ Die

\* The process is killed; the operating system keeps its cache.
ProcessCrash ==
    /\ handle = "open"
    /\ synced' = IF WriteBack THEN disk ELSE synced
    /\ UNCHANGED disk
    /\ Die

\* Pager::open.
Open ==
    /\ handle = "closed"
    /\ LET m == Recover(disk[0], disk[1])
       IN  /\ m.kind = "meta"
           /\ committed' = m
           /\ seen' = m
           /\ batch' = NewBatch(m)
    /\ handle' = "open"
    /\ UNCHANGED <<medium, phase, parked, snaps, attempts>>
-----------------------------------------------------------------------------
Collect ==
    \E marked \in SUBSET batch.live :
       \E left \in IF RefsRewritten THEN {{}} ELSE SUBSET (batch.live \ marked) :
          GcSweep(marked, left)

Next ==
    \/ Begin \/ Allocate \/ Collect \/ Rollback \/ Suspend \/ Resume
    \/ CommitRaced \/ CommitSettle \/ SettleStep \/ Seal
    \/ WritePage \/ WritePageFails \/ SyncData \/ SyncDataFails
    \/ WriteMeta \/ WriteMetaFails \/ SyncMeta \/ SyncMetaFails
    \/ OpenSnapshot \/ CloseSnapshot
    \/ PowerLoss \/ ProcessCrash \/ Open

Spec == Init /\ [][Next]_vars
-----------------------------------------------------------------------------
(* Properties.                                                             *)

Batches ==
    [base : Metas, next_page : 2..MaxPage + 1, reuse_pool : SUBSET DataPages,
     chain_cursor : {NIL} \cup DataPages, deferred_free : SUBSET DataPages,
     touched_freelist : BOOLEAN, allow_reuse : BOOLEAN, gc : BOOLEAN,
     swept : SUBSET DataPages, live : SUBSET DataPages,
     dirty : SUBSET DataPages, rest : Seq(ListEntry),
     writable : SUBSET DataPages, remaining : SUBSET DataPages,
     chain : SUBSET DataPages, todo : SUBSET DataPages]

Files ==
    {file \in [Pages -> SlotImages \cup DataImages] :
        /\ \A s \in Slots : file[s] \in SlotImages
        /\ \A p \in DataPages : file[p] \in DataImages}

\* The types of the pager's fields: a slot holds a meta or a torn page, a
\* data page a tree page, a chain page or nothing readable.
TypeOK ==
    /\ disk \in Files /\ synced \in Files
    /\ handle \in {"open", "closed"}
    /\ committed \in Metas /\ seen \in Metas
    /\ phase \in {"idle", "open", "settle", "write", "meta", "point"}
    /\ batch \in Batches
    /\ \A b \in parked : b \in Batches
    /\ \A m \in snaps : m \in Metas
    /\ attempts \in Nat

\* Every page meta m reaches holds, in the given view of the file, the image
\* m expects, and the chain hangs off freelist_root.
Intact(m, view) ==
    /\ \A p \in TreePages(m) : view[p] = TreePage(m.tree[p])
    /\ \A i \in DOMAIN m.list : view[m.list[i].page] = ChainImage(m.list, i)
    /\ m.freelist_root = Top(m.list)

\* What a power failure right now may leave in slot s.
MayHold(s) == {disk[s], synced[s]} \cup (IF disk[s] = synced[s] THEN {} ELSE {Torn})

\* Whatever a crash at this instant does to the unsynced writes, Pager::open
\* finds a meta and every page that meta reaches is whole: "a crash before
\* step 4 completes leaves ... the previous commit fully intact"
\* (pager.rs:15-18).
CrashSafe ==
    \A a \in MayHold(0), b \in MayHold(1) :
       LET m == Recover(a, b)
       IN  m.kind = "meta" /\ Intact(m, disk) /\ Intact(m, synced)

\* The commit point: once commit returned (or open showed a state), no crash
\* brings back anything older, and nothing else under the same txid.
Durable ==
    \A a \in MayHold(0), b \in MayHold(1) :
       LET m == Recover(a, b)
       IN  m.kind = "meta" => m.txid > seen.txid \/ m = seen

\* freelist.rs:12-17: "a page id listed in the free list is referenced by
\* nothing at all, including the free list itself"; an id is listed once and
\* lies inside the file.
Sound(tree, list, count) ==
    /\ FreeIds(list) \cap (tree \cup ChainPages(list)) = {}
    /\ tree \cap ChainPages(list) = {}
    /\ tree \cup ChainPages(list) \cup FreeIds(list) \subseteq 2..count - 1
    /\ \A i, j \in DOMAIN list :
          i # j => list[i].page # list[j].page /\ list[i].ids \cap list[j].ids = {}

FreeListSound(m) == Sound(TreePages(m), m.list, m.page_count)

\* The free list of the committed meta and of every meta a crash may bring
\* back names only pages nothing refers to, as long as every collection
\* copies the whole refs tree (RefsRewritten; freelist.rs, pager.rs:
\* settle_freelist, db.rs: gc).
FreeListsSound ==
    \A m \in {committed} \cup MayHold(0) \cup MayHold(1) :
       m.kind = "meta" => FreeListSound(m)

\* A snapshot reads the pages of its own commit for as long as it lives,
\* however many commits, failed commits and reuses of free pages happen
\* meanwhile (db.rs:565-568: "a reused page can never pull the rug out from
\* under a live snapshot").
SnapshotsIntact ==
    \A m \in snaps : \A p \in TreePages(m) : disk[p] = TreePage(m.tree[p])

\* "Transaction T only ever writes to page ids that no meta with txid <= T-1
\* references" (FORMAT.md:214-215), the metas being those the file holds.
WritesAvoidOlderMetas ==
    phase = "write" =>
       \A s \in Slots :
          TxidOf(disk[s]) < NewTxid /\ disk[s].kind = "meta" =>
             batch.todo \cap (TreePages(disk[s]) \cup ChainPages(disk[s].list)) = {}

\* "every page the batch itself writes (refs updates, the new chain) lands
\* past base.page_count" (db.rs:615-617), of the batch garbage collection runs.
GcWritesFreshPages ==
    batch.gc => batch.dirty \cup batch.chain \subseteq batch.base.page_count..MaxPage

\* The refinement: readers see the committed meta while a handle is open and
\* the one Pager::open would pick while none is; a newer meta that already
\* sits in a slot is in doubt.
Shown(m) == [id |-> m.txid, contents |-> m.tree]
Current == IF handle = "open" THEN committed ELSE Recover(disk[0], disk[1])
InDoubt == {Shown(m) : m \in {disk[s] : s \in {t \in Slots : TxidOf(disk[t]) > Current.txid}}}
Store == INSTANCE AtomicStore WITH
    Initial <- Blank.tree, cur <- Shown(Current), doubt <- InDoubt

\* The pager implements an atomic store: page writes, syncs, failures and
\* crashes only ever show callers whole commits, one after the other.
Implements == Store!Spec
=============================================================================
