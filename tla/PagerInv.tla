------------------------------ MODULE PagerInv ------------------------------
(***************************************************************************)
(* The inductive invariant behind the pager's safety properties: what the  *)
(* writer knows about the pages it may touch in each phase, and what both  *)
(* views of the file hold of the state a crash would recover.              *)
(***************************************************************************)
EXTENDS Pager

\* A prefix of the base's chain is still unread; ids from the part that was
\* read are in the pool, in use or (the chain pages themselves) deferred.
Building(b) ==
    /\ FreeListSound(b.base)
    /\ b.allow_reuse
    /\ b.writable = {} /\ b.remaining = {} /\ b.chain = {} /\ b.todo = {}
    /\ b.next_page >= b.base.page_count
    /\ Len(b.rest) <= Len(b.base.list)
    /\ \A i \in DOMAIN b.rest : b.rest[i] = b.base.list[i]
    /\ b.chain_cursor = Top(b.rest)
    /\ b.reuse_pool \subseteq FreeIds(b.base.list) \ FreeIds(b.rest)
    /\ b.dirty \subseteq (FreeIds(b.base.list) \ FreeIds(b.rest))
                            \cup (b.base.page_count..b.next_page - 1)
    /\ b.reuse_pool \cap b.dirty = {}
    /\ b.deferred_free \subseteq ChainPages(b.base.list) \ ChainPages(b.rest)
    /\ b.live \subseteq TreePages(b.base)
    /\ ~b.gc => b.live = TreePages(b.base)
    /\ b.gc => b.touched_freelist /\ b.swept = (2..b.base.page_count - 1) \ b.live
    /\ ~b.touched_freelist =>
          b.reuse_pool = {} /\ b.dirty \subseteq b.base.page_count..b.next_page - 1

\* The new list grows in front of what is kept of the old one, out of pages
\* and ids that nothing the new meta reaches uses.
Settling(b) ==
    /\ FreeListSound(b.base)
    /\ b.next_page >= b.base.page_count
    /\ b.live \subseteq TreePages(b.base)
    /\ ~b.gc => b.live = TreePages(b.base)
    /\ b.writable \subseteq FreeIds(b.base.list)
    /\ b.dirty \cup b.chain \subseteq FreeIds(b.base.list)
                                         \cup (b.base.page_count..b.next_page - 1)
    /\ Sound(b.live \cup b.dirty, b.rest, b.next_page)
    /\ b.chain \subseteq ChainPages(b.rest)
    /\ \A i \in DOMAIN b.rest : b.rest[i].page \notin b.chain =>
          /\ i \in DOMAIN b.base.list /\ b.rest[i] = b.base.list[i]
          /\ i > 1 => b.rest[i - 1].page \notin b.chain
    /\ b.remaining \cap (b.live \cup b.dirty \cup ChainPages(b.rest) \cup FreeIds(b.rest)) = {}
    /\ b.remaining \subseteq 2..b.next_page - 1
    /\ ~b.touched_freelist => b.rest = b.base.list
    /\ b.todo \subseteq b.dirty \cup b.chain

WriterInv ==
    /\ phase = "idle" => ~batch.gc
    /\ phase # "idle" => handle = "open" /\ batch.base = committed
    /\ phase = "open" => Building(batch)
    /\ phase \in {"settle", "write", "meta", "point"} => Settling(batch)
    /\ phase = "settle" => batch.touched_freelist
    /\ phase \in {"settle", "write", "meta"} => TxidOf(disk[NewSlot]) <= batch.base.txid
    /\ phase \in {"write", "meta", "point"} => batch.remaining = {}
    /\ phase = "write" =>
          \A p \in (batch.dirty \cup batch.chain) \ batch.todo : disk[p] = ImageOf(p)
    /\ phase \in {"meta", "point"} => Intact(NewMeta, disk) /\ Intact(NewMeta, synced)
    /\ phase = "point" => disk[NewSlot] = NewMeta
    /\ \A b \in parked :
          /\ Building(b) /\ ~b.gc
          /\ b.base.txid <= committed.txid
          /\ b.base.txid = committed.txid => b.base = committed

\* The state readers are shown lies whole in its slot, in the cache and on
\* the medium.  The other slot is older, torn, or (only in the cache) one
\* ahead and just as whole.
AnchorInv ==
    LET here  == Current.txid % 2
        there == 1 - here
    IN  /\ Current \in Metas
        /\ disk[here] = Current /\ synced[here] = Current
        /\ Intact(Current, disk) /\ Intact(Current, synced)
        /\ FreeListSound(Current)
        /\ \A o \in {disk[there], synced[there]} :
              o # Torn => FreeListSound(o)
        /\ \/ synced[there] = Torn
           \/ synced[there].txid < Current.txid
           \/ synced[there] = Current
        /\ \/ disk[there] = Torn
           \/ disk[there].txid < Current.txid
           \/ disk[there] = Current
           \/ /\ handle = "open" /\ disk[there].txid = Current.txid + 1
              /\ Intact(disk[there], disk) /\ Intact(disk[there], synced)

ReaderInv ==
    /\ handle = "open" => seen = committed
    /\ handle = "closed" =>
          /\ disk = synced /\ committed = Blank
          /\ phase = "idle" /\ parked = {} /\ snaps = {}
          /\ Current.txid > seen.txid \/ Current = seen
    /\ snaps # {} => ~batch.gc
    /\ \A m \in snaps : \A p \in TreePages(m) : committed.tree[p] = m.tree[p]

\* Everything above together; holds of every reachable state when WriteBack
\* and RefsRewritten.
PagerInvariant == TypeOK /\ WriterInv /\ AnchorInv /\ ReaderInv
=============================================================================
