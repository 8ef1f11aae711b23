------------------------------- MODULE Cache -------------------------------
(***************************************************************************)
(* The page cache (cache.rs) under the threads that share one Db: readers  *)
(* that look a page up, read it from the file on a miss and insert it      *)
(* afterwards, and a writer that inserts the pages it sealed before it     *)
(* publishes its meta (Pager::read_page and WriteBatch::commit).           *)
(*                                                                         *)
(* The bytes of a page are the txid that wrote them.  The trees of a       *)
(* commit are one page, its root.  The free list fits one chain page.      *)
(* What is durable when is the subject of Pager: here the file is what a   *)
(* read returns.                                                           *)
(***************************************************************************)
EXTENDS Naturals, FiniteSets

CONSTANTS Threads,    \* reading threads
          Counting,   \* those of them that call stats()
          CAPACITY,   \* slots of the cache
          MaxPage,    \* bound: the last page of the file
          MaxTxid     \* bound: commits and collections

ASSUME CacheAssumption == CAPACITY \in Nat \ {0} /\ MaxPage \in Nat /\ MaxTxid \in Nat

VARIABLES cache,   \* [used, id, buf, ref, map, hand]
          disk,    \* page -> the txid that wrote it
          meta,    \* committed: [txid, root, chain, ids, count]
          hist,    \* retained commits: [txid, page]
          thr,     \* thread -> [pc, what, page, want, buf]
          w        \* the writer: [pc, meta, todo]

vars == <<cache, disk, meta, hist, thr, w>>

Nil == 0
Pages == 2..MaxPage
Slots == 1..CAPACITY

-----------------------------------------------------------------------------
(* The cache: a map from page to slot, a ring of slots, a hand.            *)

EmptyCache == [used |-> 0, id |-> [s \in Slots |-> Nil], buf |-> [s \in Slots |-> 0],
               ref |-> [s \in Slots |-> FALSE], map |-> [p \in Pages |-> Nil], hand |-> 1]

Hit(c, p) == c.map[p] # Nil
Marked(c, p) == [c EXCEPT !.ref[c.map[p]] = TRUE]      \* what a hit changes

(* The sweep: from the hand on, the first slot that was not referenced     *)
(* since the hand last passed; if there is none, the one it began at.      *)
At(c, d) == IF c.hand + d <= CAPACITY THEN c.hand + d ELSE c.hand + d - CAPACITY
Resting(c) == {d \in 0..(CAPACITY - 1) : ~c.ref[At(c, d)]}
Nearest(c) == {d \in Resting(c) : \A e \in Resting(c) : d <= e}
Steps(c) == IF Nearest(c) = {} THEN CAPACITY ELSE CHOOSE d \in Nearest(c) : TRUE
Victim(c) == At(c, Steps(c))
Passed(c) == {At(c, d) : d \in {e \in 0..(CAPACITY - 1) : e < Steps(c)}}

evict(c, p, b) ==
    LET v == Victim(c) IN
    [used |-> c.used, id |-> [c.id EXCEPT ![v] = p], buf |-> [c.buf EXCEPT ![v] = b],
     ref |-> [s \in Slots |-> s = v \/ (c.ref[s] /\ s \notin Passed(c))],
     map |-> [q \in Pages |-> IF q = p THEN v ELSE IF q = c.id[v] THEN Nil ELSE c.map[q]],
     hand |-> (v % CAPACITY) + 1]

fill(c, p, b) ==
    LET s == c.used + 1 IN
    [used |-> s, id |-> [c.id EXCEPT ![s] = p], buf |-> [c.buf EXCEPT ![s] = b],
     ref |-> [c.ref EXCEPT ![s] = TRUE], map |-> [c.map EXCEPT ![p] = s], hand |-> c.hand]

replace(c, p, b) ==
    LET s == c.map[p] IN
    [used |-> c.used, id |-> c.id, buf |-> [c.buf EXCEPT ![s] = b],
     ref |-> [c.ref EXCEPT ![s] = TRUE], map |-> c.map, hand |-> c.hand]

insert(c, p, b) ==
    IF c.map[p] # Nil THEN replace(c, p, b)
    ELSE IF c.used < CAPACITY THEN fill(c, p, b)
    ELSE evict(c, p, b)

-----------------------------------------------------------------------------
(* Threads.  read_page() is three steps: the lookup, the read of the file  *)
(* on a miss, the insert.                                                  *)

Idle == [pc |-> "idle", what |-> "none", page |-> Nil, want |-> 0, buf |-> 0]
NoWriter == [pc |-> "idle", meta |-> meta, todo |-> {}]

Init ==
    /\ cache = EmptyCache /\ disk = [p \in Pages |-> 0]
    /\ meta = [txid |-> 0, root |-> Nil, chain |-> Nil, ids |-> {}, count |-> 2]
    /\ hist = {}
    /\ thr = [t \in Threads |-> Idle]
    /\ w = NoWriter

snapshot(t) ==
    /\ thr[t].pc = "idle"
    /\ \E h \in hist :
         thr' = [thr EXCEPT ![t] = [pc |-> "held", what |-> "snapshot", page |-> h.page,
                                    want |-> h.txid, buf |-> 0]]
    /\ UNCHANGED <<cache, disk, meta, hist, w>>

(* stats() walks the chain of the meta it read.                            *)
stats(t) ==
    /\ t \in Counting /\ thr[t].pc = "idle" /\ meta.chain # Nil
    /\ thr' = [thr EXCEPT ![t] = [pc |-> "held", what |-> "stats", page |-> meta.chain,
                                  want |-> disk[meta.chain], buf |-> 0]]
    /\ UNCHANGED <<cache, disk, meta, hist, w>>

Went(r, pc, buf) == [pc |-> pc, what |-> r.what, page |-> r.page, want |-> r.want, buf |-> buf]

read_cache(t) ==
    /\ thr[t].pc = "held"
    /\ IF Hit(cache, thr[t].page)
       THEN /\ thr' = [thr EXCEPT ![t] = Went(@, "read", cache.buf[cache.map[thr[t].page]])]
            /\ cache' = Marked(cache, thr[t].page)
       ELSE /\ thr' = [thr EXCEPT ![t] = Went(@, "missed", 0)]
            /\ UNCHANGED cache
    /\ UNCHANGED <<disk, meta, hist, w>>

read_disk(t) ==
    /\ thr[t].pc = "missed"
    /\ thr' = [thr EXCEPT ![t] = Went(@, "loaded", disk[thr[t].page])]
    /\ UNCHANGED <<cache, disk, meta, hist, w>>

read_insert(t) ==
    /\ thr[t].pc = "loaded"
    /\ cache' = insert(cache, thr[t].page, thr[t].buf)
    /\ thr' = [thr EXCEPT ![t] = Went(@, "read", thr[t].buf)]
    /\ UNCHANGED <<disk, meta, hist, w>>

(* A snapshot goes on reading or is dropped; stats is done.                *)
again(t) ==
    /\ thr[t].pc = "read" /\ thr[t].what = "snapshot"
    /\ thr' = [thr EXCEPT ![t] = Went(@, "held", 0)]
    /\ UNCHANGED <<cache, disk, meta, hist, w>>

drop(t) ==
    /\ thr[t].pc \in {"held", "read"}
    /\ thr' = [thr EXCEPT ![t] = Idle]
    /\ UNCHANGED <<cache, disk, meta, hist, w>>

-----------------------------------------------------------------------------
(* The writer.                                                             *)

(* What a batch finds when it reads the chain page: through the cache.     *)
ChainSeen == IF Hit(cache, meta.chain) THEN cache.buf[cache.map[meta.chain]] ELSE disk[meta.chain]
ChainRead == IF Hit(cache, meta.chain) THEN Marked(cache, meta.chain)
             ELSE insert(cache, meta.chain, disk[meta.chain])

Published(root, chain, ids, count) ==
    [txid |-> meta.txid + 1, root |-> root, chain |-> chain, ids |-> ids, count |-> count]

(* A batch that puts its root on a free page: the chain page it consumed   *)
(* is listed as free and another free page, or a new one, holds the list.  *)
Reusing ==
    {Published(x[1], x[2], (meta.ids \cup {meta.chain}) \ {x[1], x[2]}, meta.count) :
        x \in {y \in meta.ids \X meta.ids : y[1] # y[2]}}
LastFree ==
    {Published(r, meta.count, {meta.chain}, meta.count + 1) : r \in meta.ids}

commit_write ==
    /\ w.pc = "idle" /\ meta.txid < MaxTxid /\ meta.count < MaxPage
    /\ IF meta.chain # Nil /\ ChainSeen = disk[meta.chain]
       THEN /\ cache' = ChainRead
            /\ \E m \in (IF Cardinality(meta.ids) > 1 THEN Reusing ELSE LastFree) :
                 /\ w' = [pc |-> "written", meta |-> m, todo |-> {m.root, m.chain}]
                 /\ disk' = [p \in Pages |-> IF p \in {m.root, m.chain} THEN m.txid ELSE disk[p]]
       ELSE LET m == Published(meta.count, meta.chain, meta.ids, meta.count + 1) IN
            /\ cache' = IF meta.chain # Nil THEN ChainRead ELSE cache
            /\ w' = [pc |-> "written", meta |-> m, todo |-> {m.root}]
            /\ disk' = [disk EXCEPT ![m.root] = m.txid]
    /\ UNCHANGED <<meta, hist, thr>>

(* A write or a sync fails: the batch is gone, its pages are in the file.  *)
commit_fails ==
    /\ w.pc = "written"
    /\ w' = NoWriter
    /\ UNCHANGED <<cache, disk, meta, hist, thr>>

(* Mutant: the sealed pages are left to the readers to load. *)
commit_cache_skipped(p) ==
    /\ w.pc \in {"written", "caching"} /\ p \in w.todo
    /\ w' = [w EXCEPT !.pc = "caching", !.todo = @ \ {p}]
    /\ UNCHANGED <<cache, disk, meta, hist, thr>>

commit_cache(p) ==
    /\ w.pc \in {"written", "caching"} /\ p \in w.todo
    /\ cache' = insert(cache, p, w.meta.txid)
    /\ w' = [w EXCEPT !.pc = "caching", !.todo = @ \ {p}]
    /\ UNCHANGED <<disk, meta, hist, thr>>

commit_publish ==
    /\ w.pc = "caching" /\ w.todo = {}
    /\ meta' = w.meta /\ hist' = hist \cup {[txid |-> w.meta.txid, page |-> w.meta.root]}
    /\ w' = [pc |-> "idle", meta |-> w.meta, todo |-> {}]
    /\ UNCHANGED <<cache, disk, thr>>

(* gc() takes &mut self: no snapshot, no transaction, no other call.  Its  *)
(* list goes to a new page.                                                *)
gc ==
    /\ w.pc = "idle" /\ (\A t \in Threads : thr[t].pc = "idle")
    /\ meta.txid < MaxTxid /\ meta.count < MaxPage /\ meta.root # Nil
    /\ LET free == (2..(meta.count - 1)) \ {meta.root}
           m == IF free = {} THEN Published(meta.root, Nil, {}, meta.count)
                ELSE Published(meta.root, meta.count, free, meta.count + 1)
       IN  /\ meta' = m /\ w' = [pc |-> "idle", meta |-> m, todo |-> {}]
           /\ hist' = {h \in hist : h.page = meta.root}
           /\ disk' = IF free = {} THEN disk ELSE [disk EXCEPT ![m.chain] = m.txid]
           /\ cache' = IF free = {} THEN cache ELSE insert(cache, m.chain, m.txid)
    /\ UNCHANGED thr

Next ==
    \/ \E t \in Threads : snapshot(t) \/ stats(t) \/ read_cache(t) \/ read_disk(t)
                          \/ read_insert(t) \/ again(t) \/ drop(t)
    \/ commit_write \/ commit_fails \/ (\E p \in Pages : commit_cache(p))
    \/ commit_publish \/ gc

Spec == Init /\ [][Next]_vars

-----------------------------------------------------------------------------
(* Properties.                                                             *)

(* A snapshot reads the bytes its commit wrote, whoever else reads,        *)
(* commits, fails to commit or collected before, and whatever the cache    *)
(* held under that page id.                                                *)
SnapshotReads ==
    \A t \in Threads : thr[t].pc = "read" /\ thr[t].what = "snapshot" => thr[t].buf = thr[t].want

(* The same as long as nobody calls stats(): stats walks the free list     *)
(* without the writer's lock, everybody else reads pages no batch can      *)
(* reuse (Cache::get and insert, Pager::read_page and commit).             *)
UncountedReads == Counting = {} => SnapshotReads

(* The map and the ring name each other: a page is mapped to the slot that *)
(* holds it, a slot in use is found through the map, and no slot is lost   *)
(* to a page that was evicted.                                             *)
MapAndRing ==
    /\ \A p \in Pages : cache.map[p] # Nil => cache.map[p] <= cache.used /\ cache.id[cache.map[p]] = p
    /\ \A s \in 1..cache.used : cache.map[cache.id[s]] = s
=============================================================================
