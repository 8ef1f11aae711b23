---------------------------- MODULE PagerProofs ----------------------------
(***************************************************************************)
(* PagerInv's invariant is inductive, and the pager's safety properties    *)
(* follow from it, for every file size, every number of ids per free list  *)
(* page and any number of commits, failures and crashes.                   *)
(***************************************************************************)
EXTENDS PagerInv, SequenceTheorems, TLAPS

\* The two slots are the parities of a txid, and consecutive txids use
\* different ones.
LEMMA SlotParity ==
    ASSUME NEW n \in Nat
    PROVE  /\ n % 2 \in Slots /\ 1 - (n % 2) \in Slots
           /\ (n + 1) % 2 = 1 - (n % 2)
BY DEF Slots

\* Types of the parts of a chain entry.
LEMMA ListEntryType ==
    ASSUME NEW e \in ListEntry
    PROVE  e.page \in DataPages /\ e.ids \subseteq DataPages
BY DEF ListEntry

\* Pages and ids of a chain are data pages.
LEMMA ChainTypes ==
    ASSUME NEW list \in Seq(ListEntry)
    PROVE  /\ ChainPages(list) \subseteq DataPages
           /\ FreeIds(list) \subseteq DataPages
           /\ Top(list) \in {NIL} \cup DataPages
           /\ list # <<>> => Top(list) \in ChainPages(list)
<1>1. \A i \in DOMAIN list : list[i] \in ListEntry
  OBVIOUS
<1>2. list # <<>> => Len(list) \in DOMAIN list
  OBVIOUS
<1> QED
  BY <1>1, <1>2, ListEntryType DEF ChainPages, FreeIds, Top

\* What is left of a chain when its first page has been read.
LEMMA BelowType ==
    ASSUME NEW list \in Seq(ListEntry), list # <<>>
    PROVE  /\ Below(list) \in Seq(ListEntry)
           /\ Len(Below(list)) = Len(list) - 1
           /\ DOMAIN Below(list) = 1..Len(list) - 1
           /\ \A i \in DOMAIN Below(list) : Below(list)[i] = list[i]
<1> DEFINE n == Len(list) - 1
<1>1. n \in Nat /\ Len(list) = n + 1
  BY EmptySeq
<1>2. \A i \in 1..n : list[i] \in ListEntry
  BY <1>1
<1> HIDE DEF n
<1>3. /\ SubSeq(list, 1, n) \in Seq(ListEntry)
      /\ Len(SubSeq(list, 1, n)) = IF 1 <= n THEN n - 1 + 1 ELSE 0
      /\ \A i \in 1..n - 1 + 1 : SubSeq(list, 1, n)[i] = list[1 + i - 1]
  <2>1. n \in Int /\ 1 \in Int
    BY <1>1
  <2> QED
    BY <2>1, <1>2, SubSeqProperties
<1>4. Below(list) = SubSeq(list, 1, n)
  BY DEF Below, n
<1> QED
  BY <1>1, <1>3, <1>4

\* Types of the fields of a meta; a meta is never a torn page.
LEMMA MetaType ==
    ASSUME NEW m \in Metas
    PROVE  /\ m.kind = "meta" /\ m.txid \in Nat /\ m.tree \in [DataPages -> Nat]
           /\ m.freelist_root \in {NIL} \cup DataPages /\ m.list \in Seq(ListEntry)
           /\ m.page_count \in 2..MaxPage + 1
           /\ m # Torn
BY DEF Metas, Torn

\* A chain is its first page and what hangs behind it.
LEMMA ChainParts ==
    ASSUME NEW list \in Seq(ListEntry), list # <<>>
    PROVE  /\ Len(list) \in DOMAIN list
           /\ Top(list) = list[Len(list)].page
           /\ ChainPages(list) = ChainPages(Below(list)) \cup {Top(list)}
           /\ FreeIds(list) = FreeIds(Below(list)) \cup list[Len(list)].ids
<1>1. Len(list) \in Nat /\ Len(list) # 0 /\ DOMAIN list = 1..Len(list)
  BY EmptySeq
<1>2. \A i \in DOMAIN list : i = Len(list) \/ i \in DOMAIN Below(list)
  BY <1>1, BelowType
<1>3. \A i \in DOMAIN Below(list) : i \in DOMAIN list /\ Below(list)[i] = list[i]
  BY <1>1, BelowType
<1>4. Top(list) = list[Len(list)].page
  BY DEF Top
<1>5. ChainPages(list) = ChainPages(Below(list)) \cup {Top(list)}
  BY <1>1, <1>2, <1>3, <1>4 DEF ChainPages
<1>6. FreeIds(list) = FreeIds(Below(list)) \cup list[Len(list)].ids
  BY <1>1, <1>2, <1>3 DEF FreeIds
<1> QED
  BY <1>1, <1>4, <1>5, <1>6

\* A chain with one more page in front.
LEMMA AppendParts ==
    ASSUME NEW list \in Seq(ListEntry), NEW e \in ListEntry
    PROVE  /\ Append(list, e) \in Seq(ListEntry)
           /\ Len(Append(list, e)) = Len(list) + 1
           /\ DOMAIN Append(list, e) = DOMAIN list \cup {Len(list) + 1}
           /\ \A i \in DOMAIN list : Append(list, e)[i] = list[i]
           /\ Append(list, e)[Len(list) + 1] = e
           /\ Len(list) + 1 \notin DOMAIN list
           /\ ChainPages(Append(list, e)) = ChainPages(list) \cup {e.page}
           /\ FreeIds(Append(list, e)) = FreeIds(list) \cup e.ids
<1>1. /\ Append(list, e) \in Seq(ListEntry)
      /\ Len(Append(list, e)) = Len(list) + 1
      /\ DOMAIN Append(list, e) = DOMAIN list \cup {Len(list) + 1}
      /\ \A i \in DOMAIN list : Append(list, e)[i] = list[i]
      /\ Append(list, e)[Len(list) + 1] = e
      /\ Len(list) + 1 \notin DOMAIN list
  OBVIOUS
<1>2. ChainPages(Append(list, e)) = ChainPages(list) \cup {e.page}
  BY <1>1 DEF ChainPages
<1>3. FreeIds(Append(list, e)) = FreeIds(list) \cup e.ids
  BY <1>1 DEF FreeIds
<1> QED
  BY <1>1, <1>2, <1>3

\* What is left of a chain names nothing the chain does not.
LEMMA PrefixParts ==
    ASSUME NEW list \in Seq(ListEntry), NEW rest \in Seq(ListEntry),
           Len(rest) <= Len(list), \A i \in DOMAIN rest : rest[i] = list[i]
    PROVE  /\ DOMAIN rest \subseteq DOMAIN list
           /\ ChainPages(rest) \subseteq ChainPages(list)
           /\ FreeIds(rest) \subseteq FreeIds(list)
<1>1. DOMAIN rest \subseteq DOMAIN list
  OBVIOUS
<1> QED
  BY <1>1 DEF ChainPages, FreeIds

\* The files of the two views are written a page at a time.
LEMMA FileType ==
    ASSUME NEW file \in Files
    PROVE  /\ file \in [Pages -> SlotImages \cup DataImages]
           /\ \A s \in Slots : file[s] \in SlotImages
           /\ \A p \in DataPages : file[p] \in DataImages
BY DEF Files

\* A page write that respects the page's kind keeps a file a file.
LEMMA WriteType ==
    ASSUME NEW file \in Files, NEW p \in Pages, NEW image,
           p \in Slots => image \in SlotImages,
           p \in DataPages => image \in DataImages
    PROVE  [file EXCEPT ![p] = image] \in Files
<1>1. Slots \cap DataPages = {} /\ Slots \cup DataPages = Pages
  BY PagerAssumption DEF Slots, DataPages, Pages
<1> QED
  BY <1>1 DEF Files

\* Pager::begin builds a well-typed batch.
LEMMA NewBatchType ==
    ASSUME NEW m \in Metas
    PROVE  NewBatch(m) \in Batches
<1>1. TreePages(m) \subseteq DataPages
  BY DEF TreePages
<1> QED
  BY <1>1, MetaType DEF NewBatch, Batches

\* The meta Pager::create writes is well-typed.
LEMMA BlankType == Blank \in Metas
BY PagerAssumption DEF Blank, MetaPage, Metas, NIL

\* The empty meta reaches nothing, so nothing can be wrong with it.
LEMMA BlankSound ==
    /\ FreeListSound(Blank) /\ Blank.freelist_root = Top(Blank.list)
    /\ \A view : Intact(Blank, view)
BY DEF Blank, MetaPage, FreeListSound, Sound, TreePages, ChainPages, FreeIds, Top, Intact, NIL

\* A batch starts out with nothing harvested and nothing written.
LEMMA NewBatchBuilding ==
    ASSUME NEW m \in Metas, FreeListSound(m), m.freelist_root = Top(m.list)
    PROVE  Building(NewBatch(m)) /\ ~NewBatch(m).gc /\ NewBatch(m).base = m
<1>1. /\ m.page_count \in Int /\ Len(m.list) \in Nat
  BY MetaType
<1>2. ~NewBatch(m).gc /\ NewBatch(m).base = m /\ NewBatch(m).allow_reuse
  BY DEF NewBatch
<1>3. /\ NewBatch(m).rest = m.list /\ NewBatch(m).chain_cursor = m.freelist_root
      /\ NewBatch(m).next_page = m.page_count /\ NewBatch(m).live = TreePages(m)
      /\ NewBatch(m).dirty = {} /\ NewBatch(m).reuse_pool = {}
      /\ NewBatch(m).deferred_free = {} /\ NewBatch(m).writable = {}
      /\ NewBatch(m).remaining = {} /\ NewBatch(m).chain = {} /\ NewBatch(m).todo = {}
  BY SMTT(60) DEF NewBatch
<1> QED
  BY <1>1, <1>2, <1>3 DEF Building

\* Steps that touch neither view of the file nor what readers see.
LEMMA AnchorFrame ==
    ASSUME AnchorInv, UNCHANGED <<disk, synced, handle, committed>>
    PROVE  AnchorInv'
BY ZenonT(60) DEF AnchorInv, Current, Recover

\* Steps of the writer that readers cannot see.
LEMMA ReaderFrame ==
    ASSUME ReaderInv, UNCHANGED <<disk, synced, handle, committed, seen, snaps>>,
           handle = "open", snaps # {} => ~batch'.gc
    PROVE  ReaderInv'
BY DEF ReaderInv

\* While a handle is open, readers see the committed meta.
LEMMA OpenAnchor ==
    ASSUME AnchorInv, handle = "open"
    PROVE  /\ committed \in Metas /\ FreeListSound(committed)
           /\ committed.freelist_root = Top(committed.list)
           /\ Intact(committed, disk) /\ Intact(committed, synced)
           /\ disk[committed.txid % 2] = committed
           /\ synced[committed.txid % 2] = committed
BY Zenon DEF AnchorInv, Current, Intact

\* Pager::begin keeps the invariant.
LEMMA BeginStep ==
    ASSUME PagerInvariant, Begin
    PROVE  PagerInvariant'
<1> USE DEF PagerInvariant
<1>1. /\ handle = "open" /\ phase' = "open" /\ batch' = NewBatch(committed)
      /\ UNCHANGED <<disk, synced, handle, committed, parked, snaps, attempts, seen>>
  BY DEF Begin, medium
<1>2. TypeOK'
  BY <1>1, NewBatchType DEF TypeOK
<1>3. Building(batch') /\ ~batch'.gc /\ batch'.base = committed
  BY <1>1, OpenAnchor, NewBatchBuilding
<1>4. WriterInv'
  BY <1>1, <1>3 DEF WriterInv
<1> QED
  BY <1>1, <1>2, <1>3, <1>4, AnchorFrame, ReaderFrame

\* Steps that drop the batch and leave everything else as it is.
LEMMA ForgetStep ==
    ASSUME PagerInvariant, phase # "idle", Forget,
           UNCHANGED <<disk, synced, handle, committed, parked, snaps, attempts, seen>>
    PROVE  PagerInvariant'
<1> USE DEF PagerInvariant
<1>1. handle = "open" /\ phase' = "idle" /\ batch' = NewBatch(committed) /\ ~batch'.gc
  BY DEF WriterInv, Forget, NewBatch
<1>2. TypeOK'
  BY <1>1, NewBatchType DEF TypeOK
<1>3. WriterInv'
  BY <1>1 DEF WriterInv
<1> QED
  BY <1>1, <1>2, <1>3, AnchorFrame, ReaderFrame

\* The sweep of Db::gc keeps the invariant: no snapshot is open, and no refs
\* page is left behind.
LEMMA CollectStep ==
    ASSUME PagerInvariant, RefsRewritten, NEW keep, NEW left, GcSweep(keep, left)
    PROVE  PagerInvariant'
<1> USE DEF PagerInvariant
<1>1. /\ phase = "open" /\ phase' = "open" /\ snaps = {} /\ handle = "open"
      /\ keep \subseteq batch.live /\ ~batch.gc /\ batch.dirty = {} /\ ~batch.touched_freelist
      /\ UNCHANGED <<disk, synced, handle, committed, parked, snaps, attempts, seen>>
  BY DEF GcSweep, medium, WriterInv
<1> DEFINE free == (2..batch.base.page_count - 1) \ keep
<1>2. batch' = [batch EXCEPT !.gc = TRUE, !.touched_freelist = TRUE, !.live = keep, !.swept = free]
  <2>1. keep \cup left = keep
    BY Zenon DEF GcSweep
  <2> QED
    BY <2>1 DEF GcSweep
<1>3. batch \in Batches /\ batch.base \in Metas /\ batch.live \subseteq DataPages
  BY DEF TypeOK, Batches
<1>4. free \subseteq DataPages
  BY <1>3, MetaType, PagerAssumption DEF DataPages
<1>5. batch' \in Batches
  BY <1>1, <1>2, <1>3, <1>4, Zenon DEF Batches
<1>6. TypeOK'
  BY <1>1, <1>5 DEF TypeOK
<1>7. Building(batch) /\ batch.base = committed
  BY <1>1 DEF WriterInv
<1>8. Building(batch') /\ batch'.base = committed
  BY <1>1, <1>2, <1>3, <1>7 DEF Building, Batches
<1>9. WriterInv'
  BY <1>1, <1>8 DEF WriterInv
<1> QED
  BY <1>1, <1>6, <1>9, AnchorFrame, ReaderFrame

\* A chain page read in the order the cursor visits the chain.
LEMMA ChainImageParts ==
    ASSUME NEW list \in Seq(ListEntry), NEW rest \in Seq(ListEntry), rest # <<>>,
           Len(rest) <= Len(list), \A i \in DOMAIN rest : rest[i] = list[i]
    PROVE  /\ Len(rest) \in DOMAIN list
           /\ list[Len(rest)] = rest[Len(rest)]
           /\ ChainImage(list, Len(rest)).ids = rest[Len(rest)].ids
           /\ ChainImage(list, Len(rest)).next = Top(Below(rest))
<1>1. Len(rest) \in Nat /\ Len(rest) # 0 /\ Len(list) \in Nat
      /\ DOMAIN rest = 1..Len(rest) /\ DOMAIN list = 1..Len(list)
  BY EmptySeq
<1>2. Len(rest) \in DOMAIN list /\ list[Len(rest)] = rest[Len(rest)]
  BY <1>1
<1>3. CASE Len(rest) = 1
  <2>1. Below(rest) = <<>>
    BY <1>3, BelowType, EmptySeq
  <2> QED
    BY <1>2, <1>3, <2>1 DEF ChainImage, ChainPage, Top
<1>4. CASE Len(rest) # 1
  <2>1. Below(rest) # <<>> /\ Len(Below(rest)) = Len(rest) - 1
    <3>1. Len(Below(rest)) = Len(rest) - 1
      BY BelowType
    <3>2. Len(rest) - 1 # 0
      BY <1>1, <1>4
    <3>3. Len(<<>>) = 0
      OBVIOUS
    <3> QED
      BY <3>1, <3>2, <3>3
  <2>2. Below(rest)[Len(rest) - 1] = list[Len(rest) - 1]
    BY <1>1, <1>4, BelowType
  <2> QED
    BY <1>2, <1>4, <2>1, <2>2 DEF ChainImage, ChainPage, Top
<1> QED
  BY <1>3, <1>4

\* Types of the fields of a batch.
LEMMA BatchType ==
    ASSUME NEW b \in Batches
    PROVE  /\ b.base \in Metas /\ b.base.list \in Seq(ListEntry) /\ b.rest \in Seq(ListEntry)
           /\ b.base.page_count \in 2..MaxPage + 1 /\ b.next_page \in 2..MaxPage + 1
           /\ b.chain_cursor \in {NIL} \cup DataPages
           /\ b.reuse_pool \subseteq DataPages /\ b.deferred_free \subseteq DataPages
           /\ b.dirty \subseteq DataPages /\ b.live \subseteq DataPages
           /\ b.swept \subseteq DataPages /\ b.writable \subseteq DataPages
           /\ b.remaining \subseteq DataPages /\ b.chain \subseteq DataPages
           /\ b.todo \subseteq DataPages
           /\ b.allow_reuse \in BOOLEAN /\ b.touched_freelist \in BOOLEAN /\ b.gc \in BOOLEAN
BY MetaType DEF Batches

\* Refilling the pool hands out ids of the chain page the cursor is at.
LEMMA HarvestBuilding ==
    ASSUME NEW b \in Batches, Building(b), disk \in Files, Intact(b.base, disk),
           NEW h \in Harvest(b)
    PROVE  h \in Batches /\ Building(h) /\ h.base = b.base /\ h.gc = b.gc
<1> DEFINE image == disk[b.chain_cursor]
<1> DEFINE stop == [b EXCEPT !.chain_cursor = NIL, !.rest = <<>>]
<1> DEFINE full == [b EXCEPT !.reuse_pool = image.ids,
                             !.deferred_free = @ \cup {b.chain_cursor},
                             !.chain_cursor = image.next,
                             !.rest = Below(@),
                             !.touched_freelist = TRUE]
<1>1. CASE h = b
  BY <1>1
<1>2. CASE h = stop /\ b.reuse_pool = {}
  <2>1. stop \in Batches
    <3>1. <<>> \in Seq(ListEntry) /\ NIL \in {NIL} \cup DataPages
      OBVIOUS
    <3> QED
      BY <3>1, Zenon DEF Batches
  <2>2. ChainPages(<<>>) = {} /\ FreeIds(<<>>) = {} /\ Top(<<>>) = NIL /\ Len(<<>>) = 0
    BY DEF ChainPages, FreeIds, Top
  <2>3. /\ h.rest = <<>> /\ h.chain_cursor = NIL
        /\ h.base = b.base /\ h.next_page = b.next_page /\ h.reuse_pool = b.reuse_pool
        /\ h.dirty = b.dirty /\ h.deferred_free = b.deferred_free /\ h.live = b.live
        /\ h.gc = b.gc /\ h.touched_freelist = b.touched_freelist /\ h.swept = b.swept
        /\ h.allow_reuse = b.allow_reuse /\ h.writable = b.writable /\ h.chain = b.chain
        /\ h.remaining = b.remaining /\ h.todo = b.todo
    BY <1>2 DEF Batches
  <2> QED
    BY <1>2, <2>1, <2>2, <2>3, BatchType DEF Building
<1>3. CASE /\ h = full /\ image.kind = "free" /\ b.chain_cursor # NIL
           /\ b.reuse_pool = {}
  <2> DEFINE n == Len(b.rest)
  <2>1. b.rest # <<>> /\ b.chain_cursor = b.rest[n].page
    BY <1>3 DEF Building, Top
  <2>2. /\ n \in DOMAIN b.base.list /\ b.base.list[n] = b.rest[n]
        /\ image.ids = b.rest[n].ids /\ image.next = Top(Below(b.rest))
    <3>1. /\ b.base.list \in Seq(ListEntry) /\ b.rest \in Seq(ListEntry)
          /\ Len(b.rest) <= Len(b.base.list)
          /\ \A i \in DOMAIN b.rest : b.rest[i] = b.base.list[i]
      BY BatchType DEF Building
    <3>2. /\ n \in DOMAIN b.base.list /\ b.base.list[n] = b.rest[n]
          /\ ChainImage(b.base.list, n).ids = b.rest[n].ids
          /\ ChainImage(b.base.list, n).next = Top(Below(b.rest))
      BY <3>1, <2>1, ChainImageParts, Zenon
    <3>3. image = ChainImage(b.base.list, n)
      BY <3>2, <2>1 DEF Intact
    <3> QED
      BY <3>2, <3>3
  <2>3. /\ Below(b.rest) \in Seq(ListEntry) /\ Len(Below(b.rest)) = n - 1
        /\ DOMAIN Below(b.rest) = 1..n - 1 /\ n \in Nat
        /\ \A i \in DOMAIN Below(b.rest) : Below(b.rest)[i] = b.base.list[i]
    BY SMTT(40), <2>1, BatchType, BelowType DEF Building
  <2>4. b.rest[n] \in ListEntry
    BY <2>1, BatchType, ChainParts
  <2>5. full \in Batches
    <3>1. image.ids \subseteq DataPages /\ image.next \in {NIL} \cup DataPages
      BY <2>2, <2>3, <2>4, ChainTypes, ListEntryType
    <3>2. b.deferred_free \cup {b.chain_cursor} \subseteq DataPages
      BY <1>3, BatchType
    <3> QED
      BY <3>1, <3>2, <2>3, Zenon DEF Batches
  <2>6. /\ h.rest = Below(b.rest) /\ h.chain_cursor = Top(Below(b.rest))
        /\ h.deferred_free = b.deferred_free \cup {b.rest[n].page}
        /\ h.base = b.base /\ h.next_page = b.next_page /\ h.reuse_pool = b.rest[n].ids
        /\ h.dirty = b.dirty /\ h.live = b.live /\ h.swept = b.swept
        /\ h.allow_reuse = b.allow_reuse /\ h.writable = b.writable /\ h.chain = b.chain
        /\ h.remaining = b.remaining /\ h.todo = b.todo
        /\ h.gc = b.gc /\ h.touched_freelist
    BY <1>3, <2>1, <2>2 DEF Batches
  <2>7. /\ FreeIds(b.rest) = FreeIds(Below(b.rest)) \cup b.rest[n].ids
        /\ ChainPages(b.rest) = ChainPages(Below(b.rest)) \cup {b.rest[n].page}
        /\ FreeIds(b.rest) \subseteq FreeIds(b.base.list)
        /\ ChainPages(b.rest) \subseteq ChainPages(b.base.list)
    BY <2>1, BatchType, ChainParts, PrefixParts, SMTT(60) DEF Building
  <2>7a. \A i \in DOMAIN Below(b.rest) : i \in DOMAIN b.base.list /\ i # n
    <3>1. \A i \in 1..n - 1 : i \in DOMAIN b.rest /\ i # n
      BY <2>3, BatchType
    <3> QED
      BY <3>1, <2>3, BatchType, PrefixParts DEF Building
  <2>8. b.rest[n].ids \cap FreeIds(Below(b.rest)) = {}
    BY SMTT(40), <2>2, <2>3, <2>7a DEF Building, FreeListSound, Sound, FreeIds
  <2>9. b.rest[n].page \notin ChainPages(Below(b.rest))
    <3> SUFFICES ASSUME NEW i \in DOMAIN Below(b.rest),
                        Below(b.rest)[i].page = b.rest[n].page
                 PROVE  FALSE
      BY DEF ChainPages
    <3>1. b.base.list[i].page = b.base.list[n].page /\ i # n /\ i \in DOMAIN b.base.list
      BY <2>2, <2>3, <2>7a
    <3> QED
      BY <3>1, <2>2 DEF Building, FreeListSound, Sound
  <2>10. FreeIds(b.base.list) \cap (b.base.page_count..b.next_page - 1) = {}
    BY BatchType DEF Building, FreeListSound, Sound
  <2>11. Len(h.rest) <= Len(h.base.list)
    BY <2>3, <2>6, BatchType DEF Building
  <2> QED
    BY <1>3, <2>3, <2>5, <2>6, <2>7, <2>8, <2>9, <2>10, <2>11 DEF Building
<1> QED
  BY <1>1, <1>2, <1>3 DEF Harvest

\* Taking an id moves it from the pool, or from past the end, to the batch.
LEMMA TakeBuilding ==
    ASSUME NEW b \in Batches, Building(b), NEW t \in Take(b),
           NEW d, d = [t.b EXCEPT !.dirty = @ \cup {t.id}]
    PROVE  d \in Batches /\ Building(d) /\ d.base = b.base /\ d.gc = b.gc
<1>1. CASE \E p \in b.reuse_pool : t = [id |-> p, b |-> [b EXCEPT !.reuse_pool = @ \ {p}]]
  <2> PICK p \in b.reuse_pool : t = [id |-> p, b |-> [b EXCEPT !.reuse_pool = @ \ {p}]]
    BY <1>1, Zenon
  <2>1. /\ d = [b EXCEPT !.reuse_pool = @ \ {p}, !.dirty = @ \cup {p}]
        /\ p \in DataPages
    BY BatchType, Zenon DEF Batches
  <2>2. d \in Batches
    <3>1. b.reuse_pool \ {p} \in SUBSET DataPages /\ b.dirty \cup {p} \in SUBSET DataPages
      BY <2>1, BatchType
    <3> QED
      BY <2>1, <3>1, Zenon DEF Batches
  <2>3. /\ d.reuse_pool = b.reuse_pool \ {p} /\ d.dirty = b.dirty \cup {p}
        /\ d.rest = b.rest /\ d.chain_cursor = b.chain_cursor
        /\ d.base = b.base /\ d.next_page = b.next_page
        /\ d.deferred_free = b.deferred_free /\ d.live = b.live
        /\ d.gc = b.gc /\ d.touched_freelist = b.touched_freelist /\ d.swept = b.swept
        /\ d.allow_reuse = b.allow_reuse /\ d.writable = b.writable /\ d.chain = b.chain
        /\ d.remaining = b.remaining /\ d.todo = b.todo
    BY <2>1, SMTT(60) DEF Batches
  <2>4. /\ b.touched_freelist
        /\ p \in FreeIds(b.base.list) \ FreeIds(b.rest)
    BY DEF Building
  <2>5. /\ d.reuse_pool \subseteq FreeIds(b.base.list) \ FreeIds(b.rest)
        /\ d.reuse_pool \cap d.dirty = {}
        /\ d.dirty \subseteq (FreeIds(b.base.list) \ FreeIds(b.rest))
                                \cup (b.base.page_count..b.next_page - 1)
    BY <2>3, <2>4, Zenon DEF Building
  <2> QED
    BY <2>2, <2>3, <2>4, <2>5, ZenonT(60) DEF Building
<1>2. CASE \E p \in {b.next_page} \cap DataPages :
              t = [id |-> p, b |-> [b EXCEPT !.next_page = p + 1]]
  <2> DEFINE p == b.next_page
  <2>1. p \in DataPages /\ d = [b EXCEPT !.next_page = p + 1, !.dirty = @ \cup {p}]
    <3> PICK q \in {b.next_page} \cap DataPages :
                t = [id |-> q, b |-> [b EXCEPT !.next_page = q + 1]]
      BY <1>2
    <3>1. q = p /\ p \in DataPages
      OBVIOUS
    <3> QED
      BY <3>1, Zenon DEF Batches
  <2>2. p + 1 \in 2..MaxPage + 1 /\ p \in Int
    BY <2>1, PagerAssumption DEF DataPages
  <2>3. d \in Batches
    <3>1. b.dirty \cup {p} \in SUBSET DataPages
      BY <2>1, BatchType
    <3> QED
      BY <2>1, <2>2, <3>1, Zenon DEF Batches
  <2>4. /\ d.next_page = p + 1 /\ d.dirty = b.dirty \cup {p}
        /\ d.rest = b.rest /\ d.chain_cursor = b.chain_cursor
        /\ d.base = b.base /\ d.reuse_pool = b.reuse_pool
        /\ d.deferred_free = b.deferred_free /\ d.live = b.live
        /\ d.gc = b.gc /\ d.touched_freelist = b.touched_freelist /\ d.swept = b.swept
        /\ d.allow_reuse = b.allow_reuse /\ d.writable = b.writable /\ d.chain = b.chain
        /\ d.remaining = b.remaining /\ d.todo = b.todo
    BY <2>1, Zenon DEF Batches
  <2>5. /\ b.base.page_count \in Int /\ b.base.page_count <= p
        /\ b.base.page_count..p = (b.base.page_count..p - 1) \cup {p}
        /\ p + 1 - 1 = p /\ p + 1 >= b.base.page_count
    BY <2>2, BatchType DEF Building
  <2>6. p \notin FreeIds(b.base.list)
    BY <2>5, <2>2 DEF Building, FreeListSound, Sound
  <2>7. /\ d.reuse_pool \cap d.dirty = {}
        /\ d.dirty \subseteq (FreeIds(b.base.list) \ FreeIds(b.rest))
                                \cup (b.base.page_count..d.next_page - 1)
        /\ d.next_page >= b.base.page_count
        /\ ~b.touched_freelist => d.dirty \subseteq b.base.page_count..d.next_page - 1
    BY <2>4, <2>5, <2>6 DEF Building
  <2> HIDE DEF p
  <2>8. /\ ~d.gc => d.live = TreePages(d.base)
        /\ d.gc => d.touched_freelist /\ d.swept = (2..d.base.page_count - 1) \ d.live
        /\ d.allow_reuse /\ d.live \subseteq TreePages(d.base)
    BY <2>4, Zenon DEF Building
  <2> QED
    BY <2>3, <2>4, <2>7, <2>8 DEF Building
<1> QED
  BY <1>1, <1>2 DEF Take

\* WriteBatch::allocate keeps the invariant.
LEMMA AllocateStep ==
    ASSUME PagerInvariant, Allocate
    PROVE  PagerInvariant'
<1> USE DEF PagerInvariant
<1>1. /\ phase = "open" /\ phase' = "open"
      /\ UNCHANGED <<disk, synced, handle, committed, parked, snaps, attempts, seen>>
  BY DEF Allocate, medium
<1>2. handle = "open" /\ batch \in Batches /\ Building(batch) /\ batch.base = committed
  BY <1>1 DEF WriterInv, TypeOK
<1>3. PICK h \in Harvest(batch) : \E t \in Take(h) : batch' = [t.b EXCEPT !.dirty = @ \cup {t.id}]
  BY Zenon DEF Allocate
<1>4. h \in Batches /\ Building(h) /\ h.base = batch.base /\ h.gc = batch.gc
  BY <1>2, OpenAnchor, HarvestBuilding DEF TypeOK
<1>5. batch' \in Batches /\ Building(batch') /\ batch'.base = committed /\ batch'.gc = batch.gc
  BY <1>2, <1>3, <1>4, TakeBuilding, ZenonT(60)
<1>6. TypeOK'
  BY <1>1, <1>5 DEF TypeOK
<1>7. WriterInv'
  BY <1>1, <1>2, <1>5 DEF WriterInv
<1>8. snaps # {} => ~batch'.gc
  BY <1>5 DEF ReaderInv
<1> QED
  BY <1>1, <1>2, <1>6, <1>7, <1>8, AnchorFrame, ReaderFrame

\* WriteBatch::suspend keeps the invariant.
LEMMA SuspendStep ==
    ASSUME PagerInvariant, Suspend
    PROVE  PagerInvariant'
<1> USE DEF PagerInvariant
<1>1. /\ phase = "open" /\ phase' = "idle" /\ handle = "open" /\ ~batch.gc
      /\ parked' = parked \cup {batch} /\ batch' = NewBatch(committed) /\ ~batch'.gc
      /\ UNCHANGED <<disk, synced, handle, committed, snaps, attempts, seen>>
  BY DEF Suspend, medium, Forget, NewBatch, WriterInv
<1>2. TypeOK'
  BY <1>1, NewBatchType DEF TypeOK
<1>3. Building(batch) /\ batch.base = committed /\ committed.txid \in Nat
  BY <1>1, MetaType DEF WriterInv, TypeOK
<1>4. WriterInv'
  BY <1>1, <1>3 DEF WriterInv
<1> QED
  BY <1>1, <1>2, <1>4, AnchorFrame, ReaderFrame

\* Pager::resume keeps the invariant: an equal txid means the same base.
LEMMA ResumeStep ==
    ASSUME PagerInvariant, Resume
    PROVE  PagerInvariant'
<1> USE DEF PagerInvariant
<1>1. /\ handle = "open" /\ phase = "idle"
      /\ UNCHANGED <<disk, synced, handle, committed, snaps, attempts, seen>>
  BY DEF Resume, medium
<1>2. PICK b \in parked :
         /\ parked' = parked \ {b}
         /\ \/ b.base.txid = committed.txid /\ phase' = "open" /\ batch' = b
            \/ phase' = phase /\ batch' = batch
  BY DEF Resume, writer
<1>3. b \in Batches /\ Building(b) /\ ~b.gc /\ (b.base.txid = committed.txid => b.base = committed)
  BY DEF WriterInv, TypeOK
<1>4. TypeOK'
  BY <1>1, <1>2, <1>3 DEF TypeOK
<1>5. WriterInv' /\ ~batch'.gc
  BY <1>1, <1>2, <1>3 DEF WriterInv
<1> QED
  BY <1>1, <1>4, <1>5, AnchorFrame, ReaderFrame

\* The first half of settle_freelist keeps the invariant: what is left to
\* list is used by nothing the new meta reaches.
LEMMA CommitSettleStep ==
    ASSUME PagerInvariant, CommitSettle
    PROVE  PagerInvariant'
<1> USE DEF PagerInvariant
<1> DEFINE b == batch
<1> DEFINE d == batch'
<1>1. /\ phase = "open" /\ phase' = "settle"
      /\ TxidOf(disk[NewSlot]) <= b.base.txid /\ b.touched_freelist
      /\ UNCHANGED <<disk, synced, handle, committed, parked, snaps, attempts, seen>>
  BY DEF CommitSettle, medium
<1>2. handle = "open" /\ b \in Batches /\ Building(b) /\ b.base = committed
  BY <1>1 DEF WriterInv, TypeOK
<1> DEFINE left == IF b.gc THEN b.swept \ b.dirty ELSE b.reuse_pool \cup b.deferred_free
<1> DEFINE kept == IF b.gc THEN <<>> ELSE b.rest
<1>3. d = [b EXCEPT !.writable = b.reuse_pool, !.reuse_pool = {}, !.remaining = left,
                    !.rest = kept, !.allow_reuse = FALSE, !.chain_cursor = NIL,
                    !.deferred_free = {}]
  BY <1>2 DEF CommitSettle, Batches
<1>4. left \subseteq DataPages /\ kept \in Seq(ListEntry)
  BY <1>2, BatchType
<1>5. d \in Batches
  <2>1. left \in SUBSET DataPages /\ {} \in SUBSET DataPages /\ FALSE \in BOOLEAN
    BY <1>4
  <2> HIDE DEF left, kept
  <2> QED
    BY <1>2, <1>3, <1>4, <2>1, Zenon DEF Batches
<1>6. TypeOK'
  BY <1>1, <1>5 DEF TypeOK
<1>7. /\ d.base = b.base /\ d.next_page = b.next_page /\ d.live = b.live /\ d.gc = b.gc
      /\ d.writable = b.reuse_pool /\ d.dirty = b.dirty /\ d.chain = {} /\ d.rest = kept
      /\ d.remaining = left /\ d.touched_freelist /\ d.todo = {}
  <2>1. b.chain = {} /\ b.todo = {}
    BY <1>2 DEF Building
  <2> HIDE DEF left, kept
  <2> QED
    BY <1>1, <1>2, <1>3, <2>1 DEF Batches
<1>8. /\ FreeIds(b.base.list) \cap (TreePages(b.base) \cup ChainPages(b.base.list)) = {}
      /\ TreePages(b.base) \cap ChainPages(b.base.list) = {}
      /\ TreePages(b.base) \cup ChainPages(b.base.list) \cup FreeIds(b.base.list)
            \subseteq 2..b.base.page_count - 1
      /\ \A i, j \in DOMAIN b.base.list : i # j =>
            /\ b.base.list[i].page # b.base.list[j].page
            /\ b.base.list[i].ids \cap b.base.list[j].ids = {}
  BY <1>2 DEF Building, FreeListSound, Sound
<1>9. /\ DOMAIN b.rest \subseteq DOMAIN b.base.list
      /\ ChainPages(b.rest) \subseteq ChainPages(b.base.list)
      /\ FreeIds(b.rest) \subseteq FreeIds(b.base.list)
  BY <1>2, BatchType, PrefixParts DEF Building
<1>10. ChainPages(<<>>) = {} /\ FreeIds(<<>>) = {} /\ DOMAIN <<>> = {}
  BY DEF ChainPages, FreeIds
<1>11. /\ b.base.page_count \in Nat /\ b.next_page \in Nat /\ b.base.page_count <= b.next_page
       /\ 2..b.base.page_count - 1 \subseteq 2..b.next_page - 1
       /\ (2..b.base.page_count - 1) \cap (b.base.page_count..b.next_page - 1) = {}
       /\ b.base.page_count..b.next_page - 1 \subseteq 2..b.next_page - 1
  BY <1>2, BatchType, PagerAssumption DEF Building
<1>12. /\ b.dirty \cap (TreePages(b.base) \cup ChainPages(b.base.list)) = {}
       /\ b.dirty \cap FreeIds(b.rest) = {} /\ b.dirty \subseteq 2..b.next_page - 1
       /\ b.live \subseteq TreePages(b.base)
  BY <1>2, <1>8, <1>9, <1>11 DEF Building
<1>13. Sound(b.live \cup b.dirty, kept, b.next_page)
  BY <1>2, <1>8, <1>9, <1>10, <1>11, <1>12 DEF Building, Sound
<1>14. left \cap (b.live \cup b.dirty \cup ChainPages(kept) \cup FreeIds(kept)) = {}
  <2>1. CASE b.gc
    BY <1>2, <2>1, <1>10 DEF Building
  <2>2. CASE ~b.gc
    BY <1>2, <2>2, <1>8, <1>9, <1>12 DEF Building
  <2> QED
    BY <2>1, <2>2
<1>15. left \subseteq 2..b.next_page - 1
  BY <1>2, <1>8, <1>11 DEF Building
<1>16. \A i \in DOMAIN kept : i \in DOMAIN b.base.list /\ kept[i] = b.base.list[i]
  BY <1>2, <1>9, <1>10 DEF Building
<1>17. b.next_page >= b.base.page_count /\ FreeListSound(b.base)
  BY <1>2 DEF Building
<1>18. b.reuse_pool \subseteq FreeIds(b.base.list)
  BY <1>2 DEF Building
<1>19. b.dirty \subseteq FreeIds(b.base.list) \cup (b.base.page_count..b.next_page - 1)
  BY <1>2 DEF Building
<1>20. ~b.gc => b.live = TreePages(b.base)
  BY <1>2 DEF Building
<1>21. Settling(d)
  <2> HIDE DEF left, kept
  <2> QED
    BY <1>7, <1>12, <1>13, <1>14, <1>15, <1>16, <1>17, <1>18, <1>19, <1>20 DEF Settling
<1>22. WriterInv'
  <2> HIDE DEF left, kept
  <2> QED
    BY <1>1, <1>2, <1>7, <1>21 DEF WriterInv, NewSlot, NewTxid
<1>23. snaps # {} => ~d.gc
  BY <1>7 DEF ReaderInv
<1> QED
  BY <1>1, <1>2, <1>6, <1>22, <1>23, AnchorFrame, ReaderFrame

\* One more chain page in front of the list, taken out of what is left.
LEMMA SettleAppend ==
    ASSUME NEW b \in Batches, Settling(b), b.touched_freelist,
           NEW p \in DataPages, NEW chunk,
           NEW next \in 2..MaxPage + 1, next >= b.next_page, p < next,
           p \in b.remaining \cap b.writable \/ p = b.next_page,
           chunk \subseteq b.remaining \ {p},
           NEW d, d = [b EXCEPT !.remaining = (@ \ {p}) \ chunk, !.next_page = next,
                                !.chain = @ \cup {p},
                                !.rest = Append(@, [page |-> p, ids |-> chunk])]
    PROVE  d \in Batches /\ Settling(d)
<1> DEFINE e == [page |-> p, ids |-> chunk]
<1>1. e \in ListEntry /\ e.page = p /\ e.ids = chunk
  BY BatchType DEF ListEntry
<1> HIDE DEF e
<1>2. /\ d.base = b.base /\ d.next_page = next /\ d.live = b.live /\ d.gc = b.gc
      /\ d.writable = b.writable /\ d.dirty = b.dirty /\ d.chain = b.chain \cup {p}
      /\ d.rest = Append(b.rest, e) /\ d.remaining = (b.remaining \ {p}) \ chunk
      /\ d.touched_freelist = b.touched_freelist /\ d.todo = b.todo
  BY Zenon DEF Batches, e
<1>3. d \in Batches
  <2>1. /\ (b.remaining \ {p}) \ chunk \in SUBSET DataPages
        /\ b.chain \cup {p} \in SUBSET DataPages
        /\ Append(b.rest, e) \in Seq(ListEntry)
    BY <1>1, BatchType, AppendParts
  <2> QED
    BY <2>1, Zenon DEF Batches, e
<1>4. /\ b.next_page \in Nat /\ next \in Nat /\ b.base.page_count \in Nat /\ p \in Nat
      /\ b.base.page_count <= b.next_page
  BY BatchType, PagerAssumption DEF DataPages, Settling
<1>5. /\ FreeIds(b.rest) \cap (b.live \cup b.dirty \cup ChainPages(b.rest)) = {}
      /\ (b.live \cup b.dirty) \cap ChainPages(b.rest) = {}
      /\ b.live \cup b.dirty \cup ChainPages(b.rest) \cup FreeIds(b.rest) \subseteq 2..b.next_page - 1
      /\ \A i, j \in DOMAIN b.rest : i # j =>
            b.rest[i].page # b.rest[j].page /\ b.rest[i].ids \cap b.rest[j].ids = {}
  BY DEF Settling, Sound
<1>6. 2..b.next_page - 1 \subseteq 2..next - 1 /\ p \in 2..next - 1
  BY <1>4 DEF DataPages
<1>7. /\ p \notin b.live \cup b.dirty \cup ChainPages(b.rest) \cup FreeIds(b.rest)
      /\ p \notin chunk
  BY <1>4, <1>5 DEF Settling
<1>8. chunk \cap (b.live \cup b.dirty \cup ChainPages(b.rest) \cup FreeIds(b.rest)) = {}
  BY DEF Settling
<1>9. chunk \subseteq 2..next - 1
  BY <1>6 DEF Settling
<1>10. /\ DOMAIN d.rest = DOMAIN b.rest \cup {Len(b.rest) + 1}
       /\ \A i \in DOMAIN b.rest : d.rest[i] = b.rest[i]
       /\ d.rest[Len(b.rest) + 1] = e
       /\ Len(b.rest) + 1 \notin DOMAIN b.rest
       /\ ChainPages(d.rest) = ChainPages(b.rest) \cup {p}
       /\ FreeIds(d.rest) = FreeIds(b.rest) \cup chunk
  BY <1>1, <1>2, BatchType, AppendParts
<1>11. \A i \in DOMAIN b.rest : b.rest[i].page # p /\ b.rest[i].ids \cap chunk = {}
  BY <1>7, <1>8 DEF ChainPages, FreeIds
<1>12. \A i, j \in DOMAIN d.rest : i # j =>
          d.rest[i].page # d.rest[j].page /\ d.rest[i].ids \cap d.rest[j].ids = {}
  BY <1>1, <1>5, <1>10, <1>11
<1>13. Sound(d.live \cup d.dirty, d.rest, d.next_page)
  BY <1>2, <1>5, <1>6, <1>7, <1>8, <1>9, <1>10, <1>12, SMTT(60) DEF Sound
<1>14. \A i \in DOMAIN d.rest : d.rest[i].page \notin d.chain =>
          /\ i \in DOMAIN d.base.list /\ d.rest[i] = d.base.list[i]
          /\ i > 1 => d.rest[i - 1].page \notin d.chain
  <2> SUFFICES ASSUME NEW i \in DOMAIN d.rest, d.rest[i].page \notin d.chain
               PROVE  /\ i \in DOMAIN d.base.list /\ d.rest[i] = d.base.list[i]
                      /\ i > 1 => d.rest[i - 1].page \notin d.chain
    OBVIOUS
  <2>1. i \in DOMAIN b.rest /\ b.rest[i].page \notin b.chain
    BY <1>1, <1>2, <1>10
  <2>2. i > 1 => i - 1 \in DOMAIN b.rest
    BY <2>1, BatchType
  <2> QED
    BY <2>1, <2>2, <1>2, <1>10, <1>11 DEF Settling
<1>15. d.remaining \cap (d.live \cup d.dirty \cup ChainPages(d.rest) \cup FreeIds(d.rest)) = {}
  BY <1>2, <1>10 DEF Settling
<1>16. d.remaining \subseteq 2..d.next_page - 1
  BY <1>2, <1>6 DEF Settling
<1>17. d.dirty \cup d.chain \subseteq FreeIds(d.base.list) \cup (d.base.page_count..d.next_page - 1)
  <2>1. b.base.page_count..b.next_page - 1 \subseteq b.base.page_count..next - 1
    BY <1>4
  <2>2. p \in FreeIds(b.base.list) \cup (b.base.page_count..next - 1)
    BY <1>4 DEF Settling
  <2> QED
    BY <1>2, <2>1, <2>2 DEF Settling
<1>18. d.next_page >= d.base.page_count
  BY <1>2, <1>4
<1> QED
  BY <1>2, <1>3, <1>10, <1>13, <1>14, <1>15, <1>16, <1>17, <1>18, SMTT(60) DEF Settling

\* A turn of the loop of settle_freelist keeps the invariant.
LEMMA SettleStepStep ==
    ASSUME PagerInvariant, SettleStep
    PROVE  PagerInvariant'
<1> USE DEF PagerInvariant
<1>1. /\ phase = "settle" /\ phase' = "settle"
      /\ UNCHANGED <<disk, synced, handle, committed, parked, snaps, attempts, seen>>
  BY DEF SettleStep, medium
<1>2. /\ handle = "open" /\ batch \in Batches /\ Settling(batch) /\ batch.base = committed
      /\ batch.touched_freelist /\ TxidOf(disk[NewSlot]) <= batch.base.txid
  BY <1>1, SMTT(60) DEF WriterInv, TypeOK
<1> DEFINE usable == batch.remaining \cap batch.writable
<1>3. PICK p \in (IF usable # {} THEN usable ELSE {batch.next_page} \cap DataPages) :
         \E chunk \in SUBSET (batch.remaining \ {p}) :
            batch' = [batch EXCEPT
               !.remaining = (batch.remaining \ {p}) \ chunk,
               !.next_page = IF usable # {} THEN @ ELSE p + 1,
               !.chain = @ \cup {p},
               !.rest = Append(@, [page |-> p, ids |-> chunk])]
  BY ZenonT(60) DEF SettleStep
<1>4. PICK chunk \in SUBSET (batch.remaining \ {p}) :
         batch' = [batch EXCEPT
            !.remaining = (batch.remaining \ {p}) \ chunk,
            !.next_page = IF usable # {} THEN @ ELSE p + 1,
            !.chain = @ \cup {p},
            !.rest = Append(@, [page |-> p, ids |-> chunk])]
  BY <1>3, Zenon
<1> DEFINE next == IF usable # {} THEN batch.next_page ELSE p + 1
<1>5. p \in DataPages /\ (p \in usable \/ p = batch.next_page)
  BY <1>2, BatchType
<1>6. next \in 2..MaxPage + 1 /\ next >= batch.next_page /\ p < next
  <2>1. CASE usable # {}
    <3>1. p \in 2..batch.next_page - 1
      BY <1>2, <2>1 DEF Settling
    <3> QED
      BY <2>1, <3>1, <1>2, BatchType, PagerAssumption
  <2>2. CASE usable = {}
    BY <1>2, <1>5, <2>2, BatchType, PagerAssumption DEF DataPages
  <2> QED
    BY <2>1, <2>2
<1>7. batch' = [batch EXCEPT !.remaining = (@ \ {p}) \ chunk, !.next_page = next,
                             !.chain = @ \cup {p},
                             !.rest = Append(@, [page |-> p, ids |-> chunk])]
  BY <1>2, <1>4, SMTT(60) DEF Batches
<1> HIDE DEF next
<1>8. batch' \in Batches /\ Settling(batch')
  BY <1>2, <1>5, <1>6, <1>7, SettleAppend, Zenon
<1>9. /\ batch'.base = committed /\ batch'.gc = batch.gc
      /\ batch'.touched_freelist = batch.touched_freelist
  BY <1>2, <1>7, Zenon DEF Batches
<1>10. TypeOK'
  BY <1>1, <1>8 DEF TypeOK
<1>11. WriterInv'
  BY <1>1, <1>2, <1>8, <1>9 DEF WriterInv, NewSlot, NewTxid
<1>12. snaps # {} => ~batch'.gc
  BY <1>9 DEF ReaderInv
<1> QED
  BY <1>1, <1>2, <1>10, <1>11, <1>12, AnchorFrame, ReaderFrame

\* The end of settle_freelist keeps the invariant.
LEMMA SealStep ==
    ASSUME PagerInvariant, Seal
    PROVE  PagerInvariant'
<1> USE DEF PagerInvariant
<1> DEFINE b == batch
<1> DEFINE d == batch'
<1> DEFINE kept == IF phase = "open" THEN b.base.list ELSE b.rest
<1>1. /\ phase' = "write" /\ attempts' = attempts + 1
      /\ d = [b EXCEPT !.todo = b.dirty \cup b.chain, !.rest = kept]
      /\ UNCHANGED <<disk, synced, handle, committed, parked, snaps, seen>>
  BY DEF Seal, medium, TypeOK, Batches
<1>2. /\ phase \in {"settle", "open"} /\ handle = "open" /\ b \in Batches /\ b.base = committed
      /\ TxidOf(disk[NewSlot]) <= b.base.txid
  BY DEF Seal, WriterInv, TypeOK
<1>3. d \in Batches
  <2>1. kept \in Seq(ListEntry) /\ b.dirty \cup b.chain \in SUBSET DataPages
    BY <1>2, BatchType
  <2> HIDE DEF kept
  <2> QED
    BY <1>1, <1>2, <2>1, Zenon DEF Batches
<1>4. TypeOK'
  BY <1>1, <1>3 DEF TypeOK
<1>5. /\ d.base = b.base /\ d.next_page = b.next_page /\ d.live = b.live /\ d.gc = b.gc
      /\ d.writable = b.writable /\ d.dirty = b.dirty /\ d.chain = b.chain
      /\ d.rest = kept /\ d.remaining = b.remaining
      /\ d.touched_freelist = b.touched_freelist /\ d.todo = b.dirty \cup b.chain
  <2> HIDE DEF kept
  <2> QED
    BY <1>1, <1>2 DEF Batches
<1>6. Settling(d) /\ d.remaining = {}
  <2>1. CASE phase = "settle"
    <3>1. Settling(b) /\ b.remaining = {}
      BY <2>1 DEF WriterInv, Seal
    <3> QED
      BY <2>1, <3>1, <1>5 DEF Settling
  <2>2. CASE phase = "open"
    <3>1. Building(b) /\ ~b.touched_freelist
      BY <2>2 DEF WriterInv, Seal
    <3>2. /\ b.chain = {} /\ b.writable = {} /\ b.remaining = {} /\ kept = b.base.list
          /\ b.live = TreePages(b.base) /\ FreeListSound(b.base) /\ ~b.gc
          /\ b.dirty \subseteq b.base.page_count..b.next_page - 1
          /\ b.next_page >= b.base.page_count
      BY <2>2, <3>1 DEF Building
    <3>3. /\ b.base.page_count \in Nat /\ b.next_page \in Nat
          /\ 2..b.base.page_count - 1 \subseteq 2..b.next_page - 1
          /\ (2..b.base.page_count - 1) \cap (b.base.page_count..b.next_page - 1) = {}
          /\ b.base.page_count..b.next_page - 1 \subseteq 2..b.next_page - 1
      BY <3>2, <1>2, BatchType, PagerAssumption
    <3>4. Sound(b.live \cup b.dirty, b.base.list, b.next_page)
      BY <3>2, <3>3 DEF FreeListSound, Sound
    <3> QED
      BY <3>1, <3>2, <3>4, <1>5 DEF Settling
  <2> QED
    BY <1>2, <2>1, <2>2
<1>7. WriterInv'
  <2>1. (d.dirty \cup d.chain) \ d.todo = {}
    BY <1>5
  <2>2. d.base = committed
    BY <1>2, <1>5
  <2> HIDE DEF kept
  <2> QED
    BY <1>1, <1>2, <1>6, <2>1, <2>2 DEF WriterInv, NewSlot, NewTxid
<1>8. snaps # {} => ~d.gc
  BY <1>5 DEF ReaderInv
<1> QED
  BY <1>1, <1>2, <1>4, <1>7, <1>8, AnchorFrame, ReaderFrame

\* Writing a page a meta does not reach leaves everything it reaches whole.
LEMMA IntactOther ==
    ASSUME NEW m \in Metas, NEW view \in Files, NEW p \in Pages, NEW image,
           p \notin TreePages(m) \cup ChainPages(m.list), Intact(m, view)
    PROVE  Intact(m, [view EXCEPT ![p] = image])
<1>1. view \in [Pages -> SlotImages \cup DataImages]
  BY FileType
<1>2. \A q \in TreePages(m) : q # p /\ [view EXCEPT ![p] = image][q] = view[q]
  BY <1>1
<1>3. \A i \in DOMAIN m.list : m.list[i].page # p
                               /\ [view EXCEPT ![p] = image][m.list[i].page] = view[m.list[i].page]
  BY <1>1 DEF ChainPages
<1> QED
  BY <1>2, <1>3 DEF Intact

\* No page a batch writes is reachable from its base: copy on write.
LEMMA WriteTarget ==
    ASSUME NEW b \in Batches, Settling(b), NEW p \in b.dirty \cup b.chain
    PROVE  /\ p \in DataPages /\ p \in Pages /\ p \notin Slots
           /\ p \notin TreePages(b.base) \cup ChainPages(b.base.list)
<1>1. p \in DataPages
  BY BatchType
<1>2. p \in Pages /\ p \notin Slots
  BY <1>1, PagerAssumption DEF DataPages, Pages, Slots
<1>3. p \in FreeIds(b.base.list) \cup (b.base.page_count..b.next_page - 1)
  BY DEF Settling
<1>4. (TreePages(b.base) \cup ChainPages(b.base.list)) \cap (b.base.page_count..b.next_page - 1) = {}
  BY BatchType, PagerAssumption, SMTT(60) DEF Settling, FreeListSound, Sound
<1>5. FreeIds(b.base.list) \cap (TreePages(b.base) \cup ChainPages(b.base.list)) = {}
  BY DEF Settling, FreeListSound, Sound
<1> QED
  BY <1>1, <1>2, <1>3, <1>4, <1>5

\* A chain page is a data page.
LEMMA ChainImageType ==
    ASSUME NEW list \in Seq(ListEntry), NEW i \in DOMAIN list
    PROVE  ChainImage(list, i) \in DataImages
<1>1. list[i] \in ListEntry /\ (i # 1 => list[i - 1] \in ListEntry)
  OBVIOUS
<1> QED
  BY <1>1, ListEntryType DEF ChainImage, ChainPage, DataImages, ChainImages

\* What the batch writes to a page is a data page.
LEMMA ImageOfType ==
    ASSUME batch \in Batches, Settling(batch), attempts \in Nat,
           NEW p \in batch.dirty \cup batch.chain
    PROVE  ImageOf(p) \in DataImages
<1>1. CASE p \in batch.chain
  <2>1. \E i \in DOMAIN batch.rest : batch.rest[i].page = p
    BY <1>1 DEF Settling, ChainPages
  <2> DEFINE k == CHOOSE i \in DOMAIN batch.rest : batch.rest[i].page = p
  <2>2. k \in DOMAIN batch.rest
    BY <2>1
  <2>3. ImageOf(p) = ChainImage(batch.rest, k)
    BY <1>1 DEF ImageOf
  <2> HIDE DEF k
  <2> QED
    BY <2>2, <2>3, ChainImageType, BatchType
<1>2. CASE p \notin batch.chain
  BY <1>2, SMTT(60) DEF ImageOf, TreePage, DataImages, TreeImages
<1> QED
  BY <1>1, <1>2

\* The other slot when the check at the start of commit finds nothing newer.
LEMMA NothingNewer ==
    ASSUME TypeOK, AnchorInv, handle = "open",
           TxidOf(disk[(committed.txid + 1) % 2]) <= committed.txid
    PROVE  LET o == disk[1 - (committed.txid % 2)]
           IN  o = Torn \/ o.txid < committed.txid \/ o = committed
<1>1. committed \in Metas /\ disk \in Files /\ committed.txid \in Nat
  BY MetaType DEF TypeOK
<1> DEFINE there == 1 - (committed.txid % 2)
<1>2. there \in Slots /\ (committed.txid + 1) % 2 = there
  BY <1>1, SlotParity
<1>3. disk[there] \in SlotImages
  BY <1>1, <1>2, FileType
<1>4. disk[there] # Torn => TxidOf(disk[there]) = disk[there].txid
  BY <1>3, MetaType DEF SlotImages, TxidOf
<1>5. disk[there] # Torn => disk[there].txid <= committed.txid
  BY <1>2, <1>4
<1> HIDE DEF there
<1>6. disk[there].txid = committed.txid + 1 => ~(disk[there].txid <= committed.txid)
  BY SMTT(40), <1>1
<1> QED
  BY <1>5, <1>6 DEF AnchorInv, Current, there

\* A write to a data page outside the committed state.
LEMMA DataWriteAnchor ==
    ASSUME TypeOK, AnchorInv, handle = "open", NEW p \in DataPages, NEW image,
           p \notin TreePages(committed) \cup ChainPages(committed.list),
           TxidOf(disk[(committed.txid + 1) % 2]) <= committed.txid,
           disk' = [disk EXCEPT ![p] = image],
           UNCHANGED <<synced, handle, committed>>
    PROVE  AnchorInv'
<1>1. /\ committed \in Metas /\ disk \in Files /\ committed.txid \in Nat
      /\ p \in Pages /\ p \notin Slots
  BY MetaType, PagerAssumption DEF TypeOK, DataPages, Pages, Slots
<1> DEFINE here == committed.txid % 2
<1> DEFINE there == 1 - here
<1>2. here \in Slots /\ there \in Slots
  BY <1>1, SlotParity
<1>3. disk'[here] = disk[here] /\ disk'[there] = disk[there]
  BY <1>1, <1>2, FileType
<1>4. Intact(committed, disk')
  BY <1>1, OpenAnchor, IntactOther, Zenon
<1>5. disk[there] = Torn \/ disk[there].txid < committed.txid \/ disk[there] = committed
  BY NothingNewer
<1>6. Current' = committed /\ Current = committed
  BY DEF Current
<1> QED
  BY <1>3, <1>4, <1>5, <1>6 DEF AnchorInv

\* Writing one page of the batch keeps the invariant.
LEMMA WritePageStep ==
    ASSUME PagerInvariant, WritePage
    PROVE  PagerInvariant'
<1> USE DEF PagerInvariant
<1>1. /\ phase = "write" /\ phase' = "write"
      /\ UNCHANGED <<synced, handle, committed, parked, snaps, attempts, seen>>
  BY DEF WritePage
<1>2. PICK p \in batch.todo : /\ disk' = [disk EXCEPT ![p] = ImageOf(p)]
                              /\ batch' = [batch EXCEPT !.todo = @ \ {p}]
  BY Zenon DEF WritePage
<1>3. /\ handle = "open" /\ batch \in Batches /\ Settling(batch) /\ batch.base = committed
      /\ TxidOf(disk[NewSlot]) <= batch.base.txid /\ batch.remaining = {}
      /\ \A q \in (batch.dirty \cup batch.chain) \ batch.todo : disk[q] = ImageOf(q)
      /\ disk \in Files /\ attempts \in Nat
  BY <1>1 DEF WriterInv, TypeOK
<1>4. p \in batch.dirty \cup batch.chain
  BY <1>3 DEF Settling
<1>5. /\ p \in DataPages /\ p \in Pages /\ p \notin Slots
      /\ p \notin TreePages(committed) \cup ChainPages(committed.list)
  BY <1>3, <1>4, WriteTarget
<1>6. disk' \in Files
  BY <1>2, <1>3, <1>4, <1>5, ImageOfType, WriteType, Zenon
<1>7. batch' \in Batches
  <2>1. batch.todo \ {p} \in SUBSET DataPages
    BY <1>3, BatchType
  <2> QED
    BY <1>2, <1>3, <2>1, Zenon DEF Batches
<1>8. TypeOK'
  BY <1>1, <1>6, <1>7 DEF TypeOK
<1>9. /\ batch'.base = batch.base /\ batch'.next_page = batch.next_page
      /\ batch'.live = batch.live /\ batch'.gc = batch.gc /\ batch'.writable = batch.writable
      /\ batch'.dirty = batch.dirty /\ batch'.chain = batch.chain /\ batch'.rest = batch.rest
      /\ batch'.remaining = batch.remaining
      /\ batch'.touched_freelist = batch.touched_freelist
      /\ batch'.todo = batch.todo \ {p}
  BY <1>2, <1>3, SMTT(60) DEF Batches
<1>10. Settling(batch')
  BY <1>3, <1>9 DEF Settling
<1>11. AnchorInv'
  BY <1>1, <1>2, <1>3, <1>5, DataWriteAnchor, Zenon DEF NewSlot, NewTxid
<1>12. \A q : ImageOf(q)' = ImageOf(q)
  BY <1>1, <1>9 DEF ImageOf
<1>13. \A q \in (batch.dirty \cup batch.chain) \ (batch.todo \ {p}) : disk'[q] = ImageOf(q)
  <2> SUFFICES ASSUME NEW q \in (batch.dirty \cup batch.chain) \ (batch.todo \ {p})
               PROVE  disk'[q] = ImageOf(q)
    OBVIOUS
  <2>1. q \in Pages
    BY <1>3, WriteTarget
  <2> QED
    BY <2>1, <1>2, <1>3, <1>5, FileType
<1>14. TxidOf(disk[NewSlot])' <= batch'.base.txid
  <2>1. NewSlot' = NewSlot /\ NewSlot \in Slots
    BY <1>3, <1>9, MetaType, SlotParity DEF NewSlot, NewTxid, TypeOK
  <2>2. disk'[NewSlot] = disk[NewSlot]
    <3> HIDE DEF NewSlot
    <3>1. NewSlot # p
      BY <2>1, <1>5
    <3> QED
      BY <1>2, <1>3, <1>5, <3>1, FileType
  <2> QED
    BY <2>1, <2>2, <1>3, <1>9 DEF TxidOf
<1>15. WriterInv'
  BY <1>1, <1>3, <1>9, <1>10, <1>12, <1>13, <1>14, SMTT(60) DEF WriterInv
<1>16. ReaderInv'
  BY <1>1, <1>3, <1>9 DEF ReaderInv
<1> QED
  BY <1>8, <1>11, <1>15, <1>16

\* A page write that fails, torn or not, keeps the invariant.
LEMMA WritePageFailsStep ==
    ASSUME PagerInvariant, WritePageFails
    PROVE  PagerInvariant'
<1> USE DEF PagerInvariant
<1>1. /\ phase = "write" /\ phase' = "idle" /\ batch' = NewBatch(committed) /\ ~batch'.gc
      /\ UNCHANGED <<synced, handle, committed, parked, snaps, attempts, seen>>
  BY DEF WritePageFails, Forget, NewBatch
<1>2. PICK p \in batch.todo : disk' \in {disk, [disk EXCEPT ![p] = Torn]}
  BY DEF WritePageFails
<1>3. CASE disk' = disk
  BY <1>1, <1>3, ForgetStep DEF WritePageFails
<1>4. CASE disk' = [disk EXCEPT ![p] = Torn]
  <2>1. /\ handle = "open" /\ batch \in Batches /\ Settling(batch) /\ batch.base = committed
        /\ TxidOf(disk[NewSlot]) <= batch.base.txid /\ disk \in Files
    BY <1>1, SMTT(60) DEF WriterInv, TypeOK
  <2>2. /\ p \in DataPages /\ p \in Pages /\ p \notin Slots
        /\ p \notin TreePages(committed) \cup ChainPages(committed.list)
    BY <2>1, WriteTarget, Zenon DEF Settling
  <2>3. disk' \in Files
    BY <1>4, <2>1, <2>2, WriteType, Zenon DEF DataImages
  <2>4. TypeOK'
    BY <1>1, <2>3, NewBatchType DEF TypeOK
  <2>5. AnchorInv'
    BY <1>1, <1>4, <2>1, <2>2, DataWriteAnchor, Zenon DEF NewSlot, NewTxid
  <2>6. WriterInv'
    BY <1>1 DEF WriterInv
  <2>7. ReaderInv'
    BY <1>1, <2>1 DEF ReaderInv
  <2> QED
    BY <2>4, <2>5, <2>6, <2>7
<1> QED
  BY <1>2, <1>3, <1>4, SMTT(60)

\* The meta of a commit is well-typed and one ahead of its base.
LEMMA NewMetaType ==
    ASSUME batch \in Batches, attempts \in Nat
    PROVE  /\ NewMeta \in Metas /\ NewMeta.txid = batch.base.txid + 1
           /\ NewMeta.list = batch.rest /\ NewMeta.page_count = batch.next_page
           /\ \A p \in DataPages : NewMeta.tree[p] =
                 IF p \in batch.dirty THEN attempts
                 ELSE IF p \in batch.live THEN batch.base.tree[p] ELSE 0
<1> DEFINE tree == [p \in DataPages |-> IF p \in batch.dirty THEN attempts
                                        ELSE IF p \in batch.live THEN batch.base.tree[p]
                                        ELSE 0]
<1> DEFINE root == IF batch.touched_freelist THEN Top(batch.rest) ELSE batch.base.freelist_root
<1>1. batch.base.txid + 1 \in Nat /\ batch.base.tree \in [DataPages -> Nat]
  BY BatchType, MetaType
<1>2. tree \in [DataPages -> Nat]
  BY <1>1
<1>3. root \in {NIL} \cup DataPages
  BY BatchType, MetaType, ChainTypes
<1>4. NewMeta = MetaPage(batch.base.txid + 1, tree, root, batch.rest, batch.next_page)
  BY DEF NewMeta, NewTxid
<1>5. \A p \in DataPages : tree[p] = IF p \in batch.dirty THEN attempts
                                     ELSE IF p \in batch.live THEN batch.base.tree[p] ELSE 0
  BY SMTT(60)
<1> HIDE DEF tree, root
<1> QED
  BY <1>1, <1>2, <1>3, <1>4, <1>5, BatchType DEF MetaPage, Metas

\* The free list of a commit is sound.
LEMMA NewMetaSound ==
    ASSUME batch \in Batches, attempts \in Nat, Settling(batch)
    PROVE  FreeListSound(NewMeta)
<1>1. TreePages(NewMeta) \subseteq batch.live \cup batch.dirty
  BY NewMetaType DEF TreePages
<1> QED
  BY <1>1, NewMetaType DEF Settling, FreeListSound, Sound

\* Once every page is written, the new meta finds all it reaches: its own
\* pages where the batch put them, the base's where they were.
LEMMA NewMetaIntact ==
    ASSUME batch \in Batches, attempts \in Nat, Settling(batch), Intact(batch.base, disk),
           \A q \in batch.dirty \cup batch.chain : disk[q] = ImageOf(q)
    PROVE  Intact(NewMeta, disk)
<1> DEFINE list == batch.rest
<1>1. \A p \in TreePages(NewMeta) : disk[p] = TreePage(NewMeta.tree[p])
  <2> SUFFICES ASSUME NEW p \in DataPages, NewMeta.tree[p] # 0
               PROVE  disk[p] = TreePage(NewMeta.tree[p])
    BY DEF TreePages
  <2>1. CASE p \in batch.dirty
    <3>1. p \notin batch.chain
      BY <2>1 DEF Settling, Sound
    <3> QED
      BY <2>1, <3>1, NewMetaType, SMTT(60) DEF ImageOf
  <2>2. CASE p \notin batch.dirty
    <3>1. NewMeta.tree[p] = batch.base.tree[p] /\ p \in TreePages(batch.base)
      BY <2>2, NewMetaType DEF TreePages
    <3> QED
      BY <3>1 DEF Intact
  <2> QED
    BY <2>1, <2>2
<1>2. \A i \in DOMAIN list : disk[list[i].page] = ChainImage(list, i)
  <2> SUFFICES ASSUME NEW i \in DOMAIN list
               PROVE  disk[list[i].page] = ChainImage(list, i)
    OBVIOUS
  <2>1. CASE list[i].page \in batch.chain
    <3> DEFINE k == CHOOSE j \in DOMAIN list : list[j].page = list[i].page
    <3>1. k \in DOMAIN list /\ list[k].page = list[i].page
      BY SMTT(60)
    <3>2. k = i
      BY <3>1 DEF Settling, Sound
    <3>3. ImageOf(list[i].page) = ChainImage(list, k)
      BY <2>1 DEF ImageOf
    <3> HIDE DEF k
    <3> QED
      BY <2>1, <3>2, <3>3
  <2>2. CASE list[i].page \notin batch.chain
    <3>1. /\ i \in DOMAIN batch.base.list /\ list[i] = batch.base.list[i]
          /\ i > 1 => list[i - 1].page \notin batch.chain
      BY <2>2 DEF Settling
    <3>2. i \in Nat /\ i # 0 /\ (i > 1 => i - 1 \in DOMAIN list)
      BY BatchType, SMTT(60)
    <3>3. i # 1 => list[i - 1] = batch.base.list[i - 1]
      BY SMTT(40), <3>1, <3>2 DEF Settling
    <3>4. ChainImage(list, i) = ChainImage(batch.base.list, i)
      BY <3>1, <3>3 DEF ChainImage
    <3> QED
      BY <3>1, <3>4, SMTT(60) DEF Intact
  <2> QED
    BY <2>1, <2>2
<1>3. NewMeta.freelist_root = Top(list)
  <2>1. ~batch.touched_freelist => batch.base.freelist_root = Top(list)
    BY DEF Settling, Intact
  <2> QED
    BY <2>1, SMTT(60) DEF NewMeta, MetaPage
<1> QED
  BY <1>1, <1>2, <1>3, NewMetaType DEF Intact

\* The first sync keeps the invariant: the new state is whole on the medium.
LEMMA SyncDataStep ==
    ASSUME PagerInvariant, SyncData
    PROVE  PagerInvariant'
<1> USE DEF PagerInvariant
<1>1. /\ phase = "write" /\ phase' = "meta" /\ batch.todo = {} /\ synced' = disk
      /\ UNCHANGED <<disk, handle, committed, batch, parked, snaps, attempts, seen>>
  BY DEF SyncData
<1>2. /\ handle = "open" /\ batch \in Batches /\ Settling(batch) /\ batch.base = committed
      /\ TxidOf(disk[NewSlot]) <= batch.base.txid /\ batch.remaining = {}
      /\ \A q \in (batch.dirty \cup batch.chain) \ batch.todo : disk[q] = ImageOf(q)
      /\ disk \in Files /\ attempts \in Nat
  BY <1>1 DEF WriterInv, TypeOK
<1>3. TypeOK'
  BY <1>1, SMTT(60) DEF TypeOK
<1>4. Intact(NewMeta, disk)
  BY <1>1, <1>2, OpenAnchor, NewMetaIntact
<1>5. NewMeta' = NewMeta /\ NewSlot' = NewSlot
  BY SMTT(40), <1>1 DEF NewMeta, NewTxid, NewSlot
<1>6. WriterInv'
  BY <1>1, <1>2, <1>4, <1>5 DEF WriterInv
<1>7. Current = committed /\ Current' = committed
  BY <1>1, <1>2 DEF Current
<1>8. LET o == disk[1 - (committed.txid % 2)]
      IN  o = Torn \/ o.txid < committed.txid \/ o = committed
  BY <1>2, NothingNewer, SMTT(60) DEF NewSlot, NewTxid
<1>9. AnchorInv'
  BY <1>1, <1>7, <1>8, SMTT(60) DEF AnchorInv
<1>10. ReaderInv'
  BY <1>1, <1>2 DEF ReaderInv
<1> QED
  BY <1>3, <1>6, <1>9, <1>10

\* Writing a meta slot disturbs no page a meta reaches.
LEMMA IntactSlotWrite ==
    ASSUME NEW m \in Metas, NEW view \in Files, NEW s \in Slots, NEW image, Intact(m, view)
    PROVE  Intact(m, [view EXCEPT ![s] = image])
<1>1. Slots \cap DataPages = {} /\ s \in Pages
  BY PagerAssumption DEF Slots, DataPages, Pages
<1>2. TreePages(m) \subseteq DataPages /\ ChainPages(m.list) \subseteq DataPages
  BY MetaType, ChainTypes DEF TreePages
<1>3. s \notin TreePages(m) \cup ChainPages(m.list)
  BY <1>1, <1>2
<1> QED
  BY <1>1, <1>3, IntactOther

\* Writing the meta keeps the invariant: the committed slot is the other one.
LEMMA WriteMetaStep ==
    ASSUME PagerInvariant, WriteMeta
    PROVE  PagerInvariant'
<1> USE DEF PagerInvariant
<1>1. /\ phase = "meta" /\ phase' = "point" /\ disk' = [disk EXCEPT ![NewSlot] = NewMeta]
      /\ UNCHANGED <<synced, handle, committed, batch, parked, snaps, attempts, seen>>
  BY DEF WriteMeta
<1>2. /\ handle = "open" /\ batch \in Batches /\ Settling(batch) /\ batch.base = committed
      /\ batch.remaining = {} /\ Intact(NewMeta, disk) /\ Intact(NewMeta, synced)
      /\ disk \in Files /\ attempts \in Nat /\ committed \in Metas /\ committed.txid \in Nat
  BY <1>1, MetaType, SMTT(60) DEF WriterInv, TypeOK
<1>3. NewMeta \in Metas /\ NewMeta.txid = committed.txid + 1 /\ FreeListSound(NewMeta)
  BY <1>2, NewMetaType, NewMetaSound
<1> DEFINE here == committed.txid % 2
<1> DEFINE there == 1 - here
<1>4. here \in Slots /\ there \in Slots /\ NewSlot = there /\ here # there
  <2>1. NewSlot = (committed.txid + 1) % 2
    BY <1>2 DEF NewSlot, NewTxid
  <2> QED
    BY <1>2, <2>1, SlotParity DEF Slots
<1>5. there \in Pages /\ there \notin DataPages /\ here \in Pages
  BY <1>4, PagerAssumption DEF Slots, DataPages, Pages
<1>6. NewMeta' = NewMeta /\ NewSlot' = NewSlot
  BY <1>1 DEF NewMeta, NewTxid, NewSlot
<1> HIDE DEF there, here
<1>7. disk' \in Files
  BY <1>1, <1>2, <1>3, <1>4, <1>5, WriteType, Zenon DEF SlotImages
<1>8. TypeOK'
  BY <1>1, <1>7 DEF TypeOK
<1>9. disk'[there] = NewMeta /\ disk'[here] = disk[here]
  BY <1>1, <1>2, <1>4, <1>5, FileType
<1>10. Intact(NewMeta, disk') /\ Intact(committed, disk')
  BY <1>1, <1>2, <1>3, <1>4, OpenAnchor, IntactSlotWrite, ZenonT(60)
<1>11. WriterInv'
  BY SMTT(40), <1>1, <1>2, <1>4, <1>6, <1>9, <1>10 DEF WriterInv
<1>12. Current = committed /\ Current' = committed
  BY SMTT(40), <1>1, <1>2 DEF Current
<1>13. AnchorInv'
  BY <1>1, <1>2, <1>3, <1>9, <1>10, <1>12, SMTT(60) DEF AnchorInv, here, there
<1>14. ReaderInv'
  BY <1>1, <1>2 DEF ReaderInv
<1> QED
  BY <1>8, <1>11, <1>13, <1>14

\* A meta write that fails, torn or not, keeps the invariant.
LEMMA WriteMetaFailsStep ==
    ASSUME PagerInvariant, WriteMetaFails
    PROVE  PagerInvariant'
<1> USE DEF PagerInvariant
<1>1. /\ phase = "meta" /\ phase' = "idle" /\ batch' = NewBatch(committed) /\ ~batch'.gc
      /\ disk' \in {disk, [disk EXCEPT ![NewSlot] = Torn]}
      /\ UNCHANGED <<synced, handle, committed, parked, snaps, attempts, seen>>
  BY Zenon DEF WriteMetaFails, Forget, NewBatch
<1>2. CASE disk' = disk
  BY <1>1, <1>2, ForgetStep DEF WriteMetaFails
<1>3. CASE disk' = [disk EXCEPT ![NewSlot] = Torn]
  <2>1. /\ handle = "open" /\ batch.base = committed
        /\ disk \in Files /\ committed \in Metas /\ committed.txid \in Nat
    BY <1>1, MetaType DEF WriterInv, TypeOK
  <2> DEFINE here == committed.txid % 2
  <2> DEFINE there == 1 - here
  <2>2. here \in Slots /\ there \in Slots /\ NewSlot = there /\ here # there
    <3>1. NewSlot = (committed.txid + 1) % 2
      BY <2>1 DEF NewSlot, NewTxid
    <3> QED
      BY <2>1, <3>1, SlotParity DEF Slots
  <2>3. there \in Pages /\ there \notin DataPages /\ here \in Pages
    BY <2>2, PagerAssumption DEF Slots, DataPages, Pages
  <2> HIDE DEF there, here
  <2>4. disk' \in Files
    BY <1>3, <2>1, <2>2, <2>3, WriteType, Zenon DEF SlotImages
  <2>5. TypeOK'
    BY <1>1, <2>4, NewBatchType DEF TypeOK
  <2>6. disk'[there] = Torn /\ disk'[here] = disk[here]
    BY <1>3, <2>1, <2>2, <2>3, FileType
  <2>7. Intact(committed, disk')
    BY <1>3, <2>1, <2>2, OpenAnchor, IntactSlotWrite, ZenonT(60)
  <2>8. Current = committed /\ Current' = committed
    BY SMTT(40), <1>1, <2>1 DEF Current
  <2>9. AnchorInv'
    BY SMTT(40), <1>1, <2>6, <2>7, <2>8 DEF AnchorInv, here, there
  <2>10. WriterInv'
    BY <1>1 DEF WriterInv
  <2>11. ReaderInv'
    BY <1>1, <2>1, SMTT(60) DEF ReaderInv
  <2> QED
    BY <2>5, <2>9, <2>10, <2>11
<1> QED
  BY <1>1, <1>2, <1>3, SMTT(60)

\* The commit point keeps the invariant.
LEMMA SyncMetaStep ==
    ASSUME PagerInvariant, SyncMeta
    PROVE  PagerInvariant'
<1> USE DEF PagerInvariant
<1>1. /\ phase = "point" /\ phase' = "idle" /\ synced' = disk /\ committed' = NewMeta
      /\ seen' = NewMeta /\ batch' = NewBatch(NewMeta) /\ ~batch'.gc
      /\ UNCHANGED <<disk, handle, parked, snaps, attempts>>
  BY SMTT(60) DEF SyncMeta, NewBatch
<1>2. /\ handle = "open" /\ batch \in Batches /\ Settling(batch) /\ batch.base = committed
      /\ Intact(NewMeta, disk) /\ disk[NewSlot] = NewMeta
      /\ disk \in Files /\ attempts \in Nat /\ committed \in Metas /\ committed.txid \in Nat
  BY <1>1, MetaType, SMTT(60) DEF WriterInv, TypeOK
<1>3. NewMeta \in Metas /\ NewMeta.txid = committed.txid + 1 /\ FreeListSound(NewMeta)
  BY <1>2, NewMetaType, NewMetaSound
<1>4. TypeOK'
  BY <1>1, <1>2, <1>3, NewBatchType, SMTT(60) DEF TypeOK
<1>5. WriterInv'
  <2>1. \A b \in parked : b.base.txid \in Nat /\ b.base.txid <= committed.txid
    BY BatchType, MetaType DEF WriterInv, TypeOK
  <2>2. \A b \in parked : b.base.txid <= NewMeta.txid /\ b.base.txid # NewMeta.txid
    BY <2>1, <1>2, <1>3, SMTT(60)
  <2> QED
    BY <1>1, <2>2, SMTT(60) DEF WriterInv
<1>6. AnchorInv'
  <2> DEFINE here == NewMeta.txid % 2
  <2> DEFINE there == 1 - here
  <2>1. NewSlot = here /\ there = committed.txid % 2
    BY <1>2, <1>3, SlotParity, SMTT(60) DEF NewSlot, NewTxid, Slots
  <2>2. disk[there] = committed /\ FreeListSound(committed) /\ committed.txid < NewMeta.txid
    BY <1>2, <1>3, <2>1, OpenAnchor
  <2>3. Current' = NewMeta
    BY <1>1, <1>2 DEF Current
  <2> QED
    BY <1>1, <1>2, <1>3, <2>1, <2>2, <2>3, SMTT(60) DEF AnchorInv
<1>7. ReaderInv'
  <2> SUFFICES ASSUME NEW m \in snaps, NEW p \in TreePages(m)
               PROVE  NewMeta.tree[p] = m.tree[p]
    BY <1>1, <1>2 DEF ReaderInv
  <2>1. committed.tree[p] = m.tree[p] /\ ~batch.gc /\ p \in DataPages /\ m.tree[p] # 0
    BY DEF ReaderInv, TreePages
  <2>2. p \in TreePages(committed)
    BY <2>1, SMTT(60) DEF TreePages
  <2>3. p \in batch.live /\ p \notin batch.dirty
    BY <1>2, <2>1, <2>2, WriteTarget, Zenon DEF Settling
  <2> QED
    BY <1>2, <2>1, <2>3, NewMetaType
<1> QED
  BY <1>4, <1>5, <1>6, <1>7

\* Opening a snapshot keeps the invariant.
LEMMA OpenSnapshotStep ==
    ASSUME PagerInvariant, OpenSnapshot
    PROVE  PagerInvariant'
<1> USE DEF PagerInvariant
<1>1. /\ handle = "open" /\ ~batch.gc /\ snaps' = snaps \cup {committed}
      /\ UNCHANGED <<disk, synced, handle, committed, phase, batch, parked, attempts, seen>>
  BY DEF OpenSnapshot, medium, writer
<1>2. TypeOK'
  BY <1>1 DEF TypeOK
<1>3. WriterInv'
  BY <1>1, ZenonT(60) DEF WriterInv, NewSlot, NewTxid, ImageOf, NewMeta
<1>4. ReaderInv'
  BY <1>1 DEF ReaderInv
<1> QED
  BY <1>1, <1>2, <1>3, <1>4, AnchorFrame

\* Closing a snapshot keeps the invariant.
LEMMA CloseSnapshotStep ==
    ASSUME PagerInvariant, CloseSnapshot
    PROVE  PagerInvariant'
<1> USE DEF PagerInvariant
<1>1. /\ snaps # {} /\ snaps' \subseteq snaps
      /\ UNCHANGED <<disk, synced, handle, committed, phase, batch, parked, attempts, seen>>
  BY DEF CloseSnapshot, medium, writer
<1>2. TypeOK' /\ handle = "open"
  BY <1>1 DEF TypeOK, ReaderInv
<1>3. WriterInv'
  BY <1>1, ZenonT(60) DEF WriterInv, NewSlot, NewTxid, ImageOf, NewMeta
<1>4. ReaderInv'
  BY <1>1, <1>2 DEF ReaderInv
<1> QED
  BY <1>1, <1>2, <1>3, <1>4, AnchorFrame

\* Recovery picks the slot with the higher txid.
LEMMA RecoverPick ==
    ASSUME NEW a \in Metas, NEW o \in SlotImages,
           o = Torn \/ o.txid < a.txid \/ o = a
    PROVE  Recover(a, o) = a /\ Recover(o, a) = a
<1>1. CASE o = Torn
  BY <1>1, MetaType DEF Recover, Torn
<1>2. CASE o \in Metas
  <2>1. a.kind = "meta" /\ o.kind = "meta" /\ a.txid \in Nat /\ o.txid \in Nat
    BY <1>2, MetaType
  <2>2. o # Torn
    BY <1>2, MetaType
  <2> QED
    BY <2>1, <2>2 DEF Recover
<1> QED
  BY <1>1, <1>2 DEF SlotImages

\* What is the same in both views survives any crash.
LEMMA CrashIntact ==
    ASSUME NEW m \in Metas, NEW view, Intact(m, disk), Intact(m, synced),
           \A p \in Pages : disk[p] = synced[p] => view[p] = disk[p]
    PROVE  Intact(m, view)
<1>1. TreePages(m) \subseteq Pages /\ ChainPages(m.list) \subseteq Pages
  <2>1. DataPages \subseteq Pages
    BY PagerAssumption DEF DataPages, Pages
  <2> QED
    BY <2>1, MetaType, ChainTypes DEF TreePages
<1>2. \A i \in DOMAIN m.list : m.list[i].page \in Pages
  BY <1>1, SMTT(60) DEF ChainPages
<1> QED
  BY <1>1, <1>2 DEF Intact

\* After a crash the file holds the committed state or the one in doubt.
LEMMA CrashAnchor ==
    ASSUME TypeOK, AnchorInv, disk' \in Files, synced' = disk', handle' = "closed",
           \A p \in Pages : disk'[p] \in {disk[p], synced[p], Torn},
           \A p \in Pages : disk[p] = synced[p] => disk'[p] = disk[p]
    PROVE  /\ AnchorInv'
           /\ \/ Current' = Current
              \/ /\ Current' = disk[1 - (Current.txid % 2)]
                 /\ Current'.txid = Current.txid + 1
<1> DEFINE a == Current
<1> DEFINE here == a.txid % 2
<1> DEFINE there == 1 - here
<1>1. /\ a \in Metas /\ a.txid \in Nat /\ disk[here] = a /\ synced[here] = a
      /\ Intact(a, disk) /\ Intact(a, synced) /\ FreeListSound(a)
      /\ disk[there] # Torn => FreeListSound(disk[there])
      /\ synced[there] # Torn => FreeListSound(synced[there])
      /\ synced[there] = Torn \/ synced[there].txid < a.txid \/ synced[there] = a
      /\ \/ disk[there] = Torn
         \/ disk[there].txid < a.txid
         \/ disk[there] = a
         \/ /\ disk[there].txid = a.txid + 1
            /\ Intact(disk[there], disk) /\ Intact(disk[there], synced)
  BY MetaType, SMTT(60) DEF AnchorInv
<1>2. /\ here \in Slots /\ there \in Slots /\ {here, there} = Slots /\ here # there
      /\ here \in Pages /\ there \in Pages /\ 1 - there = here
  BY <1>1, SlotParity, PagerAssumption, SMTT(60) DEF Slots, Pages
<1>3. /\ disk'[here] = a /\ disk'[there] \in SlotImages
      /\ disk'[there] # Torn => FreeListSound(disk'[there])
      /\ disk'[there] \in {disk[there], synced[there], Torn}
  BY <1>1, <1>2, FileType
<1>4. Current' = Recover(disk'[0], disk'[1])
  BY DEF Current
<1>5. (here = 0 /\ there = 1) \/ (here = 1 /\ there = 0)
  BY <1>2, SMTT(60) DEF Slots
<1>6. Intact(a, disk')
  BY <1>1, CrashIntact, SMTT(60)
<1> HIDE DEF here, there
<1>7. CASE disk'[there] = Torn \/ disk'[there].txid < a.txid \/ disk'[there] = a
  <2>1. Current' = a
    BY <1>1, <1>3, <1>4, <1>5, <1>7, RecoverPick, SMTT(60)
  <2> QED
    BY <1>1, <1>3, <1>6, <1>7, <2>1, ZenonT(60) DEF AnchorInv, here, there
<1>8. CASE /\ disk'[there] = disk[there] /\ disk[there].txid = a.txid + 1 /\ disk'[there] # Torn
           /\ Intact(disk[there], disk) /\ Intact(disk[there], synced)
  <2> DEFINE o == disk[there]
  <2>1. o \in Metas /\ a.txid < o.txid /\ a \in SlotImages
    BY <1>1, <1>3, <1>8, SMTT(60) DEF SlotImages
  <2>2. Current' = o
    BY <1>3, <1>4, <1>5, <1>8, <2>1, RecoverPick
  <2>3. Intact(o, disk')
    BY <1>8, <2>1, CrashIntact, SMTT(60)
  <2>4. o.txid % 2 = there
    BY <1>1, <1>8, SlotParity, SMTT(60) DEF there, here
  <2>5. AnchorInv'
    BY <1>1, <1>2, <1>3, <1>8, <2>1, <2>2, <2>3, <2>4, SMTT(60) DEF AnchorInv
  <2> QED
    BY <1>8, <2>2, <2>5, SMTT(60) DEF here, there
<1> QED
  BY <1>1, <1>3, <1>7, <1>8, SMTT(60)

\* Both kinds of crash, given what they leave of the file.
LEMMA CrashStep ==
    ASSUME PagerInvariant, Die, disk' \in Files, synced' = disk',
           \A p \in Pages : disk'[p] \in {disk[p], synced[p], Torn},
           \A p \in Pages : disk[p] = synced[p] => disk'[p] = disk[p]
    PROVE  PagerInvariant'
<1> USE DEF PagerInvariant
<1>1. /\ handle' = "closed" /\ committed' = Blank /\ phase' = "idle"
      /\ batch' = NewBatch(Blank) /\ ~batch'.gc /\ parked' = {} /\ snaps' = {}
      /\ UNCHANGED <<attempts, seen>>
  BY DEF Die, NewBatch
<1>2. TypeOK'
  BY <1>1, BlankType, NewBatchType, SMTT(60) DEF TypeOK
<1>3. AnchorInv' /\ (Current' = Current \/ Current'.txid = Current.txid + 1)
  BY <1>1, CrashAnchor, SMTT(60)
<1>4. WriterInv'
  BY <1>1 DEF WriterInv
<1>5. Current.txid > seen.txid \/ Current = seen
  BY SMTT(60) DEF ReaderInv, Current, TypeOK
<1>6. Current.txid \in Nat /\ seen.txid \in Nat
  BY MetaType DEF AnchorInv, TypeOK
<1>7. Current'.txid > seen.txid \/ Current' = seen
  BY <1>3, <1>5, <1>6
<1>8. ReaderInv'
  BY <1>1, <1>7 DEF ReaderInv
<1> QED
  BY <1>2, <1>3, <1>4, <1>8, SMTT(60)

\* A power failure keeps the invariant.
LEMMA PowerLossStep ==
    ASSUME PagerInvariant, PowerLoss
    PROVE  PagerInvariant'
<1> USE DEF PagerInvariant
<1>1. PICK kept \in SUBSET Unsynced : \E torn \in SUBSET (Unsynced \ kept) :
         disk' = [p \in Pages |-> IF p \in torn THEN Torn
                                  ELSE IF p \in kept THEN disk[p] ELSE synced[p]]
  BY DEF PowerLoss
<1>2. PICK torn \in SUBSET (Unsynced \ kept) :
         disk' = [p \in Pages |-> IF p \in torn THEN Torn
                                  ELSE IF p \in kept THEN disk[p] ELSE synced[p]]
  BY <1>1
<1>3. \A p \in Pages : disk'[p] \in {disk[p], synced[p], Torn}
  BY <1>2
<1>4. \A p \in Pages : disk[p] = synced[p] => disk'[p] = disk[p]
  BY <1>2 DEF Unsynced
<1>5. disk' \in Files
  <2>1. Slots \cup DataPages = Pages
    BY PagerAssumption DEF Slots, DataPages, Pages
  <2>2. \A s \in Slots : disk'[s] \in SlotImages
    BY <1>3, <2>1, FileType DEF TypeOK, SlotImages
  <2>3. \A p \in DataPages : disk'[p] \in DataImages
    BY <1>3, <2>1, FileType DEF TypeOK, DataImages
  <2>4. disk' \in [Pages -> SlotImages \cup DataImages]
    BY <1>2, <2>1, <2>2, <2>3
  <2> QED
    BY <2>2, <2>3, <2>4 DEF Files
<1> QED
  BY <1>3, <1>4, <1>5, CrashStep DEF PowerLoss

\* A process crash keeps the invariant when its writes are written back.
LEMMA ProcessCrashStep ==
    ASSUME PagerInvariant, WriteBack, ProcessCrash
    PROVE  PagerInvariant'
<1>1. disk' = disk /\ synced' = disk' /\ Die
  BY DEF ProcessCrash
<1>2. disk' \in Files
  BY <1>1 DEF PagerInvariant, TypeOK
<1> QED
  BY <1>1, <1>2, CrashStep

\* Pager::open keeps the invariant.
LEMMA OpenStep ==
    ASSUME PagerInvariant, Open
    PROVE  PagerInvariant'
<1> USE DEF PagerInvariant
<1>1. /\ handle = "closed" /\ handle' = "open" /\ committed' = Current /\ seen' = Current
      /\ batch' = NewBatch(Current) /\ ~batch'.gc
      /\ UNCHANGED <<disk, synced, phase, parked, snaps, attempts>>
  BY ZenonT(60) DEF Open, medium, Current, NewBatch
<1>2. Current \in Metas /\ disk = synced /\ phase = "idle" /\ parked = {} /\ snaps = {}
  BY <1>1, Zenon DEF AnchorInv, ReaderInv
<1>3. TypeOK'
  BY <1>1, <1>2, NewBatchType DEF TypeOK
<1>4. Current' = Current
  BY <1>1, SMTT(60) DEF Current
<1>5. AnchorInv'
  BY <1>1, <1>4, SMTT(60) DEF AnchorInv
<1>6. WriterInv' /\ ReaderInv'
  BY <1>1, <1>2 DEF WriterInv, ReaderInv
<1> QED
  BY <1>3, <1>5, <1>6, SMTT(60)

\* A freshly created file satisfies the invariant.
LEMMA PagerInit == Init => PagerInvariant
<1> SUFFICES ASSUME Init PROVE PagerInvariant
  OBVIOUS
<1>1. Slots \cap DataPages = {} /\ Slots \cup DataPages = Pages /\ 0 \in Slots /\ 1 \in Slots
  BY PagerAssumption DEF Slots, DataPages, Pages
<1>2. disk \in Files /\ synced \in Files /\ disk[0] = Blank /\ disk[1] = Blank /\ synced = disk
  BY <1>1, BlankType DEF Init, Files, SlotImages, DataImages
<1>3. TypeOK
  BY <1>2, BlankType, NewBatchType DEF Init, TypeOK
<1>4. Current = Blank /\ Blank.txid = 0
  BY SMTT(40) DEF Init, Current, Blank, MetaPage
<1>5. AnchorInv
  BY <1>2, <1>4, BlankType, BlankSound, SMTT(60) DEF AnchorInv
<1>6. WriterInv /\ ReaderInv
  BY Zenon DEF Init, WriterInv, ReaderInv, NewBatch
<1> QED
  BY <1>3, <1>5, <1>6 DEF PagerInvariant

\* Every step keeps the invariant.
LEMMA PagerNext ==
    ASSUME PagerInvariant, WriteBack, RefsRewritten, [Next]_vars
    PROVE  PagerInvariant'
<1>1. CASE Begin
  BY <1>1, BeginStep
<1>2. CASE Allocate
  BY <1>2, AllocateStep
<1>3. CASE Collect
  BY <1>3, CollectStep DEF Collect
<1>4. CASE Rollback
  BY <1>4, ForgetStep DEF Rollback, medium
<1>5. CASE Suspend
  BY <1>5, SuspendStep
<1>6. CASE Resume
  BY <1>6, ResumeStep
<1>7. CASE CommitRaced
  BY <1>7, ForgetStep DEF CommitRaced, medium
<1>8. CASE CommitSettle
  BY <1>8, CommitSettleStep
<1>9. CASE SettleStep
  BY <1>9, SettleStepStep
<1>10. CASE Seal
  BY <1>10, SealStep
<1>11. CASE WritePage
  BY <1>11, WritePageStep
<1>12. CASE WritePageFails
  BY <1>12, WritePageFailsStep
<1>13. CASE SyncData
  BY <1>13, SyncDataStep
<1>14. CASE SyncDataFails
  BY <1>14, ForgetStep DEF SyncDataFails, medium
<1>15. CASE WriteMeta
  BY <1>15, WriteMetaStep
<1>16. CASE WriteMetaFails
  BY <1>16, WriteMetaFailsStep
<1>17. CASE SyncMeta
  BY <1>17, SyncMetaStep
<1>18. CASE SyncMetaFails
  BY <1>18, ForgetStep DEF SyncMetaFails, medium
<1>19. CASE OpenSnapshot
  BY <1>19, OpenSnapshotStep
<1>20. CASE CloseSnapshot
  BY <1>20, CloseSnapshotStep
<1>21. CASE PowerLoss
  BY <1>21, PowerLossStep
<1>22. CASE ProcessCrash
  BY <1>22, ProcessCrashStep
<1>23. CASE Open
  BY <1>23, OpenStep
<1>24. CASE UNCHANGED vars
  <2>1. UNCHANGED <<disk, synced, handle, committed, phase, batch, parked, snaps, attempts, seen>>
    BY <1>24 DEF vars
  <2>2. TypeOK' /\ ReaderInv'
    BY <2>1, SMTT(60) DEF PagerInvariant, TypeOK, ReaderInv, Current, Recover
  <2>3. WriterInv'
    BY <2>1, ZenonT(60) DEF PagerInvariant, WriterInv, NewSlot, NewTxid, ImageOf, NewMeta
  <2> QED
    BY <2>1, <2>2, <2>3, AnchorFrame DEF PagerInvariant
<1> QED
  BY SMTT(40), <1>1, <1>2, <1>3, <1>4, <1>5, <1>6, <1>7, <1>8, <1>9, <1>10, <1>11, <1>12, <1>13,
     <1>14, <1>15, <1>16, <1>17, <1>18, <1>19, <1>20, <1>21, <1>22, <1>23, <1>24, SMTT(60) DEF Next

\* The invariant of PagerInv holds in every reachable state, for every file
\* size and free list page size, provided a dead process's writes reach the
\* medium before the machine itself fails and a collection copies every page
\* of the refs tree.
THEOREM PagerInductive ==
    ASSUME WriteBack, RefsRewritten
    PROVE  Spec => []PagerInvariant
<1>1. PagerInvariant /\ [Next]_vars => PagerInvariant'
  BY PagerNext
<1> QED
  BY <1>1, PagerInit, PTL DEF Spec

\* The fields of the pager keep their types, whatever fails; like all that
\* follows, under the two conditions of PagerInductive.
THEOREM TypeCorrect ==
    ASSUME WriteBack, RefsRewritten
    PROVE  Spec => []TypeOK
<1>1. PagerInvariant => TypeOK
  BY DEF PagerInvariant
<1> QED
  BY <1>1, PagerInductive, PTL

\* What recovery would find after a crash at this instant.
LEMMA Recovered ==
    ASSUME PagerInvariant, NEW a \in MayHold(0), NEW b \in MayHold(1)
    PROVE  \/ Recover(a, b) = Current
           \/ /\ Recover(a, b) \in Metas /\ Recover(a, b).txid = Current.txid + 1
              /\ Intact(Recover(a, b), disk) /\ Intact(Recover(a, b), synced)
<1> USE DEF PagerInvariant
<1> DEFINE c == Current
<1> DEFINE here == c.txid % 2
<1> DEFINE there == 1 - here
<1>1. /\ c \in Metas /\ c.txid \in Nat /\ disk[here] = c /\ synced[here] = c
      /\ synced[there] = Torn \/ synced[there].txid < c.txid \/ synced[there] = c
      /\ \/ disk[there] = Torn
         \/ disk[there].txid < c.txid
         \/ disk[there] = c
         \/ /\ disk[there].txid = c.txid + 1
            /\ Intact(disk[there], disk) /\ Intact(disk[there], synced)
  BY MetaType, SMTT(60) DEF AnchorInv
<1>2. here \in Slots /\ there \in Slots
  BY <1>1, SlotParity
<1>3. (here = 0 /\ there = 1) \/ (here = 1 /\ there = 0)
  BY <1>2 DEF Slots
<1>4. disk[there] \in SlotImages /\ synced[there] \in SlotImages /\ Torn \in SlotImages
  BY SMTT(40), <1>2, FileType DEF TypeOK, SlotImages
<1> HIDE DEF here, there
<1>5. MayHold(here) = {c} /\ MayHold(there) \subseteq {disk[there], synced[there], Torn}
  BY <1>1, SMTT(60) DEF MayHold
<1>6. \A o \in MayHold(there) :
         \/ Recover(c, o) = c /\ Recover(o, c) = c
         \/ /\ o \in Metas /\ o.txid = c.txid + 1 /\ Intact(o, disk) /\ Intact(o, synced)
            /\ Recover(c, o) = o /\ Recover(o, c) = o
  <2> SUFFICES ASSUME NEW o \in {disk[there], synced[there], Torn}
               PROVE  \/ Recover(c, o) = c /\ Recover(o, c) = c
                      \/ /\ o \in Metas /\ o.txid = c.txid + 1
                         /\ Intact(o, disk) /\ Intact(o, synced)
                         /\ Recover(c, o) = o /\ Recover(o, c) = o
    BY SMTT(40), <1>5
  <2>1. CASE o = Torn \/ o.txid < c.txid \/ o = c
    BY <2>1, <1>1, <1>4, RecoverPick
  <2>2. CASE /\ o # Torn /\ o.txid = c.txid + 1 /\ Intact(o, disk) /\ Intact(o, synced)
    <3>1. o \in Metas /\ c \in SlotImages /\ c.txid < o.txid
      BY <2>2, <1>1, <1>4, SMTT(60) DEF SlotImages
    <3> QED
      BY <2>2, <3>1, RecoverPick
  <2> QED
    BY SMTT(40), <1>1, <2>1, <2>2
<1> QED
  BY <1>3, <1>5, <1>6

\* After any crash, in any state, recovery finds a meta, and every page it
\* reaches is whole.
THEOREM CrashSafety ==
    ASSUME WriteBack, RefsRewritten
    PROVE  Spec => []CrashSafe
<1>1. PagerInvariant => CrashSafe
  <2> SUFFICES ASSUME PagerInvariant, NEW a \in MayHold(0), NEW b \in MayHold(1)
               PROVE  LET m == Recover(a, b)
                      IN  m.kind = "meta" /\ Intact(m, disk) /\ Intact(m, synced)
    BY SMTT(60) DEF CrashSafe
  <2>1. Current \in Metas /\ Intact(Current, disk) /\ Intact(Current, synced)
    BY DEF PagerInvariant, AnchorInv
  <2> QED
    BY <2>1, Recovered, MetaType
<1> QED
  BY <1>1, PagerInductive, PTL

\* No crash undoes a commit a caller was told of, or a state open showed.
THEOREM Durability ==
    ASSUME WriteBack, RefsRewritten
    PROVE  Spec => []Durable
<1>1. PagerInvariant => Durable
  <2> SUFFICES ASSUME PagerInvariant, NEW a \in MayHold(0), NEW b \in MayHold(1)
               PROVE  LET m == Recover(a, b) IN m.txid > seen.txid \/ m = seen
    BY DEF Durable
  <2>1. Current.txid > seen.txid \/ Current = seen
    BY SMTT(60) DEF PagerInvariant, ReaderInv, TypeOK, Current
  <2>2. Current.txid \in Nat /\ seen.txid \in Nat
    BY MetaType DEF PagerInvariant, AnchorInv, TypeOK
  <2> QED
    BY <2>1, <2>2, Recovered
<1> QED
  BY <1>1, PagerInductive, PTL

\* Where a collection copies every page of the refs tree, the free list never
\* names a page that the same commit reaches, in the committed state or in
\* one a crash may bring back (freelist.rs:12-13).
THEOREM FreeListSafety ==
    ASSUME WriteBack, RefsRewritten
    PROVE  Spec => []FreeListsSound
<1>1. PagerInvariant => FreeListsSound
  <2> SUFFICES ASSUME PagerInvariant,
                      NEW m \in {committed} \cup MayHold(0) \cup MayHold(1), m.kind = "meta"
               PROVE  FreeListSound(m)
    BY DEF FreeListsSound
  <2> USE DEF PagerInvariant
  <2>1. m = committed \/ m = Torn \/ \E s \in Slots : m \in {disk[s], synced[s]}
    BY DEF MayHold, Slots
  <2>2. m # Torn
    BY SMTT(60) DEF Torn
  <2>3. Current.txid \in Nat
    BY MetaType DEF AnchorInv
  <2>4. \A s \in Slots : s = Current.txid % 2 \/ s = 1 - (Current.txid % 2)
    BY <2>3, SlotParity DEF Slots
  <2>5. CASE m = committed
    <3>1. CASE handle = "open"
      BY <2>5, <3>1, OpenAnchor
    <3>2. CASE handle # "open"
      BY <2>5, <3>2, BlankSound, SMTT(60) DEF ReaderInv, TypeOK
    <3> QED
      BY <3>1, <3>2
  <2>6. CASE \E s \in Slots : m \in {disk[s], synced[s]}
    BY <2>2, <2>4, <2>6, SMTT(60) DEF AnchorInv
  <2> QED
    BY <2>1, <2>2, <2>5, <2>6
<1> QED
  BY <1>1, PagerInductive, PTL

\* A snapshot reads the pages of its own commit for as long as it lives.
THEOREM SnapshotSafety ==
    ASSUME WriteBack, RefsRewritten
    PROVE  Spec => []SnapshotsIntact
<1>1. PagerInvariant => SnapshotsIntact
  <2> SUFFICES ASSUME PagerInvariant, NEW m \in snaps, NEW p \in TreePages(m)
               PROVE  disk[p] = TreePage(m.tree[p])
    BY DEF SnapshotsIntact
  <2> USE DEF PagerInvariant
  <2>1. handle = "open" /\ committed.tree[p] = m.tree[p]
    BY DEF ReaderInv, TypeOK
  <2>2. p \in TreePages(committed)
    BY <2>1 DEF TreePages
  <2> QED
    BY <2>1, <2>2, OpenAnchor DEF Intact
<1> QED
  BY <1>1, PagerInductive, PTL
=============================================================================
