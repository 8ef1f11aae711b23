---------------------------- MODULE CacheProofs ----------------------------
(***************************************************************************)
(* Proofs that the map and the ring of the page cache name each other, and *)
(* that snapshots read the bytes of their commit, for any capacity, any    *)
(* pages and any number of threads.                                        *)
(***************************************************************************)
EXTENDS Cache, TLAPS

(* A sound cache: its types, and that map and ring agree.                  *)
Sound(c) ==
    /\ c.used \in 0..CAPACITY /\ c.hand \in Slots
    /\ c.id \in [Slots -> Nat] /\ c.ref \in [Slots -> BOOLEAN]
    /\ c.map \in [Pages -> 0..CAPACITY]
    /\ \A s \in 1..c.used : c.id[s] \in Pages /\ c.map[c.id[s]] = s
    /\ \A p \in Pages : c.map[p] # Nil => c.map[p] <= c.used /\ c.id[c.map[p]] = p

(* A meta names pages of the file only.                                    *)
MetaOK(m) ==
    /\ m.root \in Pages \cup {Nil} /\ m.chain \in Pages \cup {Nil}
    /\ m.ids \subseteq Pages /\ m.count \in Nat /\ m.count >= 2

IInv ==
    /\ Sound(cache) /\ MetaOK(meta) /\ MetaOK(w.meta)
    /\ w.todo \subseteq Pages /\ (w.pc # "idle" => w.meta.root \in Pages)
    /\ \A h \in hist : h.page \in Pages
    /\ \A t \in Threads : thr[t].pc # "idle" => thr[t].page \in Pages
    /\ DOMAIN thr = Threads /\ thr = [t \in Threads |-> thr[t]]

(* The sweep ends at a slot and leaves the hand on one.                     *)
LEMMA VictimIsSlot ==
    ASSUME NEW c, Sound(c)
    PROVE  Victim(c) \in Slots /\ (Victim(c) % CAPACITY) + 1 \in Slots
<1>1. Steps(c) \in 0..CAPACITY
    BY CacheAssumption DEF Steps, Nearest, Resting
<1>2. Victim(c) \in Slots
    BY <1>1, CacheAssumption DEF Victim, At, Slots, Sound
<1>3. \A v \in Slots : v % CAPACITY \in 0..(CAPACITY - 1)
    BY CacheAssumption DEF Slots
<1> QED
    BY <1>2, <1>3, CacheAssumption DEF Slots

(* insert() keeps a sound cache sound: where the page is cached already,   *)
(* while there is room, and when a page has to go.                         *)
LEMMA InsertKeeps ==
    ASSUME NEW c, Sound(c), NEW p \in Pages, NEW b
    PROVE  Sound(insert(c, p, b))
<1> USE CacheAssumption
<1>p. Pages \subseteq Nat \ {0} /\ Nil = 0
    BY DEF Pages, Nil
<1>1. CASE c.map[p] # Nil
  <2>1. c.map[p] \in Slots
        BY <1>1, <1>p DEF Sound, Slots
  <2>2. /\ insert(c, p, b).used = c.used /\ insert(c, p, b).id = c.id
        /\ insert(c, p, b).map = c.map /\ insert(c, p, b).hand = c.hand
        /\ insert(c, p, b).ref = [c.ref EXCEPT ![c.map[p]] = TRUE]
        BY <1>1 DEF insert, replace
  <2> QED
        BY <2>1, <2>2 DEF Sound
<1>2. CASE c.map[p] = Nil /\ c.used < CAPACITY
  <2> DEFINE s == c.used + 1
  <2>1. s \in Slots /\ c.used \in Nat /\ s <= CAPACITY
        BY <1>2 DEF Sound, Slots
  <2>2. /\ insert(c, p, b).used = s /\ insert(c, p, b).id = [c.id EXCEPT ![s] = p]
        /\ insert(c, p, b).map = [c.map EXCEPT ![p] = s] /\ insert(c, p, b).hand = c.hand
        /\ insert(c, p, b).ref = [c.ref EXCEPT ![s] = TRUE]
        BY <1>2 DEF insert, fill
  <2> DEFINE id2 == [c.id EXCEPT ![s] = p]
             map2 == [c.map EXCEPT ![p] = s]
  <2>3. id2 \in [Slots -> Nat] /\ map2 \in [Pages -> 0..CAPACITY]
        BY <2>1, <1>p DEF Sound
  <2>4. \A x \in 1..s : id2[x] \in Pages /\ map2[id2[x]] = x
    <3> SUFFICES ASSUME NEW x \in 1..s PROVE id2[x] \in Pages /\ map2[id2[x]] = x
          OBVIOUS
    <3>1. CASE x = s
          BY <3>1, <2>1 DEF Sound
    <3>2. CASE x # s
      <4>1. x \in 1..c.used /\ x \in Slots
            BY <3>2, <2>1 DEF Slots
      <4>2. c.id[x] \in Pages /\ c.map[c.id[x]] = x
            BY <4>1 DEF Sound
      <4>3. c.id[x] # p
            BY <4>1, <4>2, <1>2 DEF Nil
      <4> QED
            BY <3>2, <4>1, <4>2, <4>3 DEF Sound
    <3> QED
          BY <3>1, <3>2
  <2>5. \A q \in Pages : map2[q] # Nil => map2[q] <= s /\ id2[map2[q]] = q
    <3> SUFFICES ASSUME NEW q \in Pages, map2[q] # Nil PROVE map2[q] <= s /\ id2[map2[q]] = q
          OBVIOUS
    <3>1. CASE q = p
          BY <3>1, <2>1 DEF Sound
    <3>2. CASE q # p
      <4>1. map2[q] = c.map[q] /\ c.map[q] # Nil /\ c.map[q] \in 0..CAPACITY
            BY <3>2 DEF Sound
      <4>2. c.map[q] <= c.used /\ c.id[c.map[q]] = q
            BY <4>1 DEF Sound
      <4> QED
            BY SMTT(40), <4>1, <4>2, <2>1 DEF Sound, Slots
    <3> QED
          BY <3>1, <3>2
  <2> HIDE DEF id2, map2
  <2>6. [c.ref EXCEPT ![s] = TRUE] \in [Slots -> BOOLEAN]
        BY <2>1 DEF Sound
  <2>7. insert(c, p, b).id = id2 /\ insert(c, p, b).map = map2
        BY <2>2 DEF id2, map2
  <2>8. c.hand \in Slots
        BY DEF Sound
  <2>9. s \in 0..CAPACITY
        BY <2>1
  <2> HIDE DEF s
  <2> QED
        BY ZenonT(60), <2>2, <2>3, <2>4, <2>5, <2>6, <2>7, <2>8, <2>9 DEF Sound
<1>3. CASE c.map[p] = Nil /\ ~(c.used < CAPACITY)
  <2> DEFINE v == Victim(c)
             id2 == [c.id EXCEPT ![v] = p]
             map2 == [q \in Pages |-> IF q = p THEN v ELSE IF q = c.id[v] THEN Nil ELSE c.map[q]]
             ref2 == [s \in Slots |-> s = v \/ (c.ref[s] /\ s \notin Passed(c))]
  <2>1. /\ insert(c, p, b).used = c.used /\ insert(c, p, b).id = id2
        /\ insert(c, p, b).map = map2 /\ insert(c, p, b).hand = (v % CAPACITY) + 1
        /\ insert(c, p, b).ref = ref2
        BY <1>3 DEF insert, evict
  <2>2. v \in Slots /\ (v % CAPACITY) + 1 \in Slots
        BY VictimIsSlot
  <2>3. c.used = CAPACITY /\ v \in 1..c.used
        BY <1>3, <2>2 DEF Sound, Slots
  <2>4. ref2 \in [Slots -> BOOLEAN]
        BY DEF Sound
  <2> HIDE DEF v, ref2
  <2>5. id2 \in [Slots -> Nat] /\ map2 \in [Pages -> 0..CAPACITY]
        BY <2>2, <1>p DEF Sound, Slots, Nil
  <2>6. \A x \in 1..c.used : id2[x] \in Pages /\ map2[id2[x]] = x
    <3> SUFFICES ASSUME NEW x \in 1..c.used PROVE id2[x] \in Pages /\ map2[id2[x]] = x
          OBVIOUS
    <3>0. x \in Slots
          BY <2>3 DEF Slots
    <3>1. CASE x = v
          BY <3>0, <3>1 DEF Sound
    <3>2. CASE x # v
      <4>1. c.id[x] \in Pages /\ c.map[c.id[x]] = x /\ c.map[c.id[v]] = v
            BY <2>3 DEF Sound
      <4>2. c.id[x] # p /\ c.id[x] # c.id[v]
            BY <4>1, <1>3, <3>2, <3>0 DEF Nil, Slots
      <4> QED
            BY <3>0, <3>2, <4>1, <4>2 DEF Sound
    <3> QED
          BY <3>1, <3>2
  <2>7. \A q \in Pages : map2[q] # Nil => map2[q] <= c.used /\ id2[map2[q]] = q
    <3> SUFFICES ASSUME NEW q \in Pages, map2[q] # Nil PROVE map2[q] <= c.used /\ id2[map2[q]] = q
          OBVIOUS
    <3>1. CASE q = p
          BY <3>1, <2>2, <2>3 DEF Sound, Slots
    <3>2. CASE q # p
      <4>1. map2[q] = c.map[q] /\ c.map[q] # Nil /\ q # c.id[v]
            BY <3>2
      <4>2. c.map[q] <= c.used /\ c.id[c.map[q]] = q /\ c.map[q] \in 0..CAPACITY
            BY <4>1 DEF Sound
      <4>3. c.map[q] # v /\ c.map[q] \in Slots
            BY <4>1, <4>2 DEF Slots, Nil
      <4> QED
            BY <4>1, <4>2, <4>3 DEF Sound
    <3> QED
          BY <3>1, <3>2
  <2> HIDE DEF id2, map2
  <2>8. c.used \in 0..CAPACITY
        BY DEF Sound
  <2> QED
        BY <2>1, <2>2, <2>4, <2>5, <2>6, <2>7, <2>8 DEF Sound
<1> QED
    BY <1>1, <1>2, <1>3

(* A hit only marks a slot.                                                *)
LEMMA MarkedKeeps ==
    ASSUME NEW c, Sound(c), NEW p \in Pages, Hit(c, p)
    PROVE  Sound(Marked(c, p))
<1>1. c.map[p] \in Slots
    BY DEF Sound, Hit, Slots, Nil
<1> QED
    BY <1>1 DEF Sound, Marked

LEMMA InitIInv == Init => IInv
<1> SUFFICES ASSUME Init PROVE IInv
    OBVIOUS
<1> USE CacheAssumption
<1>1. Sound(EmptyCache)
  <2>1. /\ EmptyCache.used = 0 /\ EmptyCache.hand = 1 /\ EmptyCache.id = [s \in Slots |-> Nil]
        /\ EmptyCache.ref = [s \in Slots |-> FALSE] /\ EmptyCache.map = [p \in Pages |-> Nil]
        BY DEF EmptyCache
  <2> QED
        BY <2>1 DEF Sound, Slots, Nil
<1>2. MetaOK(meta) /\ w.meta = meta /\ w.todo = {} /\ w.pc = "idle"
    BY DEF Init, MetaOK, NoWriter
<1>3. \A t \in Threads : thr[t].pc = "idle"
    BY DEF Init, Idle
<1> QED
    BY <1>1, <1>2, <1>3 DEF Init, IInv

(* A step of one thread that leaves the cache sound.                       *)
LEMMA ThreadKeeps ==
    ASSUME IInv, NEW t \in Threads, NEW r, thr' = [thr EXCEPT ![t] = r],
           r.pc # "idle" => r.page \in Pages, Sound(cache'), UNCHANGED <<meta, hist, w>>
    PROVE  IInv'
BY DEF IInv, MetaOK

LEMMA NextIInv == IInv /\ [Next]_vars => IInv'
<1> SUFFICES ASSUME IInv, [Next]_vars PROVE IInv'
    OBVIOUS
<1> USE CacheAssumption
<1>s. Sound(cache)
    BY DEF IInv
<1>1. ASSUME NEW t \in Threads, snapshot(t) PROVE IInv'
  <2>1. PICK h \in hist : thr' = [thr EXCEPT ![t] = [pc |-> "held", what |-> "snapshot", page |-> h.page,
                                    want |-> h.txid, buf |-> 0]]
        BY Zenon, <1>1 DEF snapshot
  <2>2. h.page \in Pages
        BY DEF IInv
  <2> QED
        BY Zenon, <1>1, <2>1, <2>2, <1>s, ThreadKeeps DEF snapshot
<1>2. ASSUME NEW t \in Threads, stats(t) PROVE IInv'
  <2>1. meta.chain \in Pages
        BY <1>2 DEF stats, IInv, MetaOK
  <2> QED
        BY Zenon, <1>2, <2>1, <1>s, ThreadKeeps DEF stats
<1>3. ASSUME NEW t \in Threads, thr[t].pc # "idle", NEW r, r.page = thr[t].page,
             thr' = [thr EXCEPT ![t] = r], Sound(cache'), UNCHANGED <<meta, hist, w>>
      PROVE IInv'
  <2>1. thr[t].page \in Pages
        BY <1>3 DEF IInv
  <2> QED
        BY Zenon, <1>3, <2>1, ThreadKeeps
<1>4. ASSUME NEW t \in Threads, read_cache(t) PROVE IInv'
  <2>1. thr[t].pc # "idle" /\ thr[t].page \in Pages
        BY <1>4 DEF read_cache, IInv
  <2>2. Sound(cache')
    <3>1. CASE Hit(cache, thr[t].page)
          BY <1>4, <3>1, <2>1, <1>s, MarkedKeeps DEF read_cache
    <3>2. CASE ~Hit(cache, thr[t].page)
          BY <1>4, <3>2, <1>s DEF read_cache
    <3> QED
          BY <3>1, <3>2
  <2> DEFINE r == IF Hit(cache, thr[t].page) THEN Went(thr[t], "read", cache.buf[cache.map[thr[t].page]])
                  ELSE Went(thr[t], "missed", 0)
  <2>3. r.page = thr[t].page /\ thr' = [thr EXCEPT ![t] = r]
        BY <1>4 DEF read_cache, Went
  <2> HIDE DEF r
  <2> QED
        BY Zenon, <1>3, <1>4, <2>1, <2>2, <2>3 DEF read_cache
<1>5. ASSUME NEW t \in Threads, read_disk(t) PROVE IInv'
  <2> DEFINE r == Went(thr[t], "loaded", disk[thr[t].page])
  <2>1. r.page = thr[t].page /\ thr' = [thr EXCEPT ![t] = r]
        BY <1>5 DEF read_disk, Went
  <2> HIDE DEF r
  <2> QED
        BY Zenon, <1>3, <1>5, <2>1, <1>s DEF read_disk
<1>6. ASSUME NEW t \in Threads, read_insert(t) PROVE IInv'
  <2> DEFINE r == Went(thr[t], "read", thr[t].buf)
  <2>1. r.page = thr[t].page /\ thr' = [thr EXCEPT ![t] = r]
        BY <1>6 DEF read_insert, Went
  <2> HIDE DEF r
  <2>2. thr[t].page \in Pages
        BY <1>6 DEF read_insert, IInv
  <2>3. Sound(cache')
        BY <1>6, <2>2, <1>s, InsertKeeps DEF read_insert
  <2> QED
        BY Zenon, <1>3, <1>6, <2>1, <2>3 DEF read_insert
<1>7. ASSUME NEW t \in Threads, again(t) PROVE IInv'
  <2> DEFINE r == Went(thr[t], "held", 0)
  <2>1. r.page = thr[t].page /\ thr' = [thr EXCEPT ![t] = r]
        BY <1>7 DEF again, Went
  <2> HIDE DEF r
  <2> QED
        BY Zenon, <1>3, <1>7, <2>1, <1>s DEF again
<1>8. ASSUME NEW t \in Threads, drop(t) PROVE IInv'
  <2>1. Idle.pc = "idle"
        BY DEF Idle
  <2> QED
        BY Zenon, <1>8, <2>1, <1>s, ThreadKeeps DEF drop
<1>9. ASSUME commit_write PROVE IInv'
  <2>0. MetaOK(meta) /\ meta.count \in Pages
        BY <1>9 DEF commit_write, IInv, MetaOK, Pages
  <2>c. ASSUME meta.chain # Nil PROVE Sound(ChainRead)
    <3>1. meta.chain \in Pages
          BY <2>c, <2>0 DEF MetaOK
    <3> QED
          BY <3>1, <1>s, MarkedKeeps, InsertKeeps DEF ChainRead
  <2>1. CASE meta.chain # Nil /\ ChainSeen = disk[meta.chain]
    <3>0. meta.chain \in Pages
          BY <2>1, <2>0 DEF MetaOK
    <3>1. PICK m \in (IF Cardinality(meta.ids) > 1 THEN Reusing ELSE LastFree) :
               w' = [pc |-> "written", meta |-> m, todo |-> {m.root, m.chain}]
          BY <1>9, <2>1 DEF commit_write
    <3>2. MetaOK(m) /\ m.root \in Pages /\ m.chain \in Pages
      <4>1. CASE m \in Reusing
        <5>1. PICK x \in meta.ids \X meta.ids :
                 m = Published(x[1], x[2], (meta.ids \cup {meta.chain}) \ {x[1], x[2]}, meta.count)
              BY <4>1 DEF Reusing
        <5>2. x[1] \in Pages /\ x[2] \in Pages /\ (meta.ids \cup {meta.chain}) \ {x[1], x[2]} \subseteq Pages
              BY <2>0, <3>0 DEF MetaOK
        <5> QED
              BY <5>1, <5>2, <2>0 DEF MetaOK, Published
      <4>2. CASE m \in LastFree
        <5>1. PICK x \in meta.ids : m = Published(x, meta.count, {meta.chain}, meta.count + 1)
              BY <4>2 DEF LastFree
        <5> QED
              BY <5>1, <2>0, <3>0 DEF MetaOK, Published
      <4> QED
            BY <3>1, <4>1, <4>2
    <3>3. Sound(cache')
          BY <1>9, <2>1, <2>c DEF commit_write
    <3> QED
          BY <1>9, <3>1, <3>2, <3>3 DEF commit_write, IInv
  <2>2. CASE ~(meta.chain # Nil /\ ChainSeen = disk[meta.chain])
    <3> DEFINE m == Published(meta.count, meta.chain, meta.ids, meta.count + 1)
    <3>1. w' = [pc |-> "written", meta |-> m, todo |-> {m.root}]
          BY <1>9, <2>2 DEF commit_write
    <3>2. MetaOK(m) /\ m.root \in Pages
          BY <2>0 DEF MetaOK, Published
    <3>3. Sound(cache')
          BY <1>9, <2>2, <2>c, <1>s DEF commit_write
    <3> HIDE DEF m
    <3> QED
          BY <1>9, <3>1, <3>2, <3>3 DEF commit_write, IInv
  <2> QED
        BY <2>1, <2>2
<1>10. ASSUME commit_fails PROVE IInv'
    BY <1>10 DEF commit_fails, NoWriter, IInv
<1>11. ASSUME NEW p \in Pages, commit_cache(p) PROVE IInv'
  <2>1. Sound(cache')
        BY <1>11, <1>s, InsertKeeps DEF commit_cache
  <2>2. w'.meta = w.meta /\ w'.todo \subseteq w.todo /\ w.pc # "idle"
        BY <1>11 DEF commit_cache
  <2> QED
        BY <1>11, <2>1, <2>2 DEF commit_cache, IInv, MetaOK
<1>12. ASSUME commit_publish PROVE IInv'
    BY <1>12 DEF commit_publish, IInv
<1>13. ASSUME gc PROVE IInv'
  <2> DEFINE free == (2..(meta.count - 1)) \ {meta.root}
             m == IF free = {} THEN Published(meta.root, Nil, {}, meta.count)
                  ELSE Published(meta.root, meta.count, free, meta.count + 1)
  <2>1. meta' = m /\ w' = [pc |-> "idle", meta |-> m, todo |-> {}] /\ hist' \subseteq hist /\ thr' = thr
        BY <1>13 DEF gc
  <2>2. meta.count \in Pages /\ meta.root \in Pages
        BY <1>13 DEF gc, IInv, MetaOK, Pages, Nil
  <2>3. free \subseteq Pages
        BY <2>2 DEF Pages
  <2>4. cache' = IF free = {} THEN cache ELSE insert(cache, m.chain, m.txid)
        BY <1>13 DEF gc
  <2> HIDE DEF free
  <2>5. MetaOK(m) /\ (free # {} => m.chain \in Pages)
    <3>1. CASE free = {}
          BY <3>1, <2>2 DEF MetaOK, Published, IInv
    <3>2. CASE free # {}
          BY <3>2, <2>2, <2>3 DEF MetaOK, Published, IInv
    <3> QED
          BY <3>1, <3>2
  <2> HIDE DEF m
  <2>6. Sound(cache')
        BY <2>4, <2>5, <1>s, InsertKeeps
  <2> QED
        BY <2>1, <2>5, <2>6 DEF IInv
<1>14. CASE UNCHANGED vars
    BY <1>14 DEF vars, IInv, Sound, MetaOK
<1>15. CASE Next
    BY <1>15, <1>1, <1>2, <1>4, <1>5, <1>6, <1>7, <1>8, <1>9, <1>10, <1>11, <1>12, <1>13 DEF Next
<1> QED
    BY <1>14, <1>15

(* Through every interleaving of lookups, late inserts, commits, failed    *)
(* commits and collections the map and the ring of the cache name each     *)
(* other, whatever the capacity.                                           *)
THEOREM MapAndRingAgree == Spec => []MapAndRing
<1>1. IInv => MapAndRing
    BY DEF IInv, Sound, MapAndRing
<1> QED
    BY InitIInv, NextIInv, <1>1, PTL DEF Spec

-----------------------------------------------------------------------------
(* Snapshots.  What a lookup of p may answer, where it answers at all.     *)
Right(c, p, b) == c.map[p] # Nil => c.buf[c.map[p]] = b
Buffered(c) == c.buf = [s \in Slots |-> c.buf[s]]

Retained(p) == \E h \in hist : h.page = p

(* A free list names no retained page and not the page that holds it, and  *)
(* lies within the file.                                                   *)
ListOK(m) ==
    /\ m.chain # Nil => m.chain < m.count /\ m.chain \notin m.ids /\ ~Retained(m.chain)
    /\ \A p \in m.ids : p < m.count /\ ~Retained(p)

(* The pages somebody may look up: the cache must be right about them.     *)
Known(p) ==
    \/ Retained(p) \/ p = meta.chain
    \/ w.pc # "idle" /\ p \in {w.meta.root, w.meta.chain} \ w.todo

Agrees(c) == Buffered(c) /\ \A p \in Pages : Known(p) => Right(c, p, disk[p])

(* Retained pages hold what their commit wrote.                            *)
HistoryOK == \A h \in hist : h.page < meta.count /\ disk[h.page] = h.txid

(* The commit under way: its pages are in the file and no retained page is *)
(* among them.                                                             *)
BatchOK ==
    LET m == w.meta IN
    /\ ListOK(m) /\ meta.count <= m.count
    /\ m.root < m.count /\ m.root # m.chain /\ m.root \notin m.ids /\ ~Retained(m.root)
    /\ disk[m.root] = m.txid
    /\ \A p \in w.todo : p \in {m.root, m.chain} /\ disk[p] = m.txid

(* A thread that holds a snapshot reads a retained page, and what it read  *)
(* so far is right.                                                        *)
ReaderOK(r) ==
    r.pc # "idle" =>
        /\ r.what = "snapshot" /\ \E h \in hist : h.page = r.page /\ h.txid = r.want
        /\ r.pc \in {"loaded", "read"} => r.buf = r.want

Reads ==
    /\ disk = [p \in Pages |-> disk[p]]
    /\ ListOK(meta) /\ HistoryOK /\ Agrees(cache)
    /\ w.pc # "idle" => BatchOK
    /\ \A t \in Threads : ReaderOK(thr[t])

(* insert() answers for its page and changes the answer for no other.      *)
LEMMA InsertIsRight ==
    ASSUME NEW c, Sound(c), Buffered(c), NEW p \in Pages, NEW b
    PROVE  /\ Buffered(insert(c, p, b)) /\ Right(insert(c, p, b), p, b)
           /\ \A q \in Pages : \A d : q # p /\ Right(c, q, d) => Right(insert(c, p, b), q, d)
<1> USE CacheAssumption
<1> DEFINE n == insert(c, p, b)
<1>p. Nil = 0 /\ \A q \in Pages : c.map[q] # Nil => c.map[q] \in Slots /\ c.map[q] <= c.used /\ c.id[c.map[q]] = q
    BY DEF Sound, Slots, Nil
<1>1. CASE c.map[p] # Nil
  <2>1. n.map = c.map /\ n.buf = [c.buf EXCEPT ![c.map[p]] = b]
        BY <1>1 DEF insert, replace
  <2>2. \A q \in Pages : q # p /\ c.map[q] # Nil => c.map[q] # c.map[p]
        BY <1>p, <1>1
  <2> HIDE DEF n
  <2>3. Buffered(n)
        BY <2>1 DEF Buffered
  <2>4. Right(n, p, b)
        BY <2>1, <1>1, <1>p DEF Buffered, Right
  <2>5. \A q \in Pages : \A d : q # p /\ Right(c, q, d) => Right(n, q, d)
        BY <2>1, <2>2, <1>p DEF Buffered, Right
  <2> QED
        BY <2>3, <2>4, <2>5 DEF n
<1>2. CASE c.map[p] = Nil /\ c.used < CAPACITY
  <2> DEFINE s == c.used + 1
  <2>1. n.map = [c.map EXCEPT ![p] = s] /\ n.buf = [c.buf EXCEPT ![s] = b]
        BY <1>2 DEF insert, fill
  <2>2. s \in Slots /\ \A q \in Pages : c.map[q] # Nil => c.map[q] # s
        BY <1>2, <1>p DEF Sound, Slots
  <2> HIDE DEF n, s
  <2>3. Buffered(n)
        BY <2>1 DEF Buffered
  <2>4. Right(n, p, b)
        BY <2>1, <2>2 DEF Buffered, Right, Sound
  <2>5. \A q \in Pages : \A d : q # p /\ Right(c, q, d) => Right(n, q, d)
        BY <2>1, <2>2, <1>p DEF Buffered, Right, Sound
  <2> QED
        BY <2>3, <2>4, <2>5 DEF n
<1>3. CASE c.map[p] = Nil /\ ~(c.used < CAPACITY)
  <2> DEFINE v == Victim(c)
  <2>1. /\ n.map = [q \in Pages |-> IF q = p THEN v ELSE IF q = c.id[v] THEN Nil ELSE c.map[q]]
        /\ n.buf = [c.buf EXCEPT ![v] = b]
        BY <1>3 DEF insert, evict
  <2>2. v \in Slots
        BY VictimIsSlot
  <2> HIDE DEF n, v
  <2>3. Buffered(n)
        BY <2>1 DEF Buffered
  <2>4. Right(n, p, b)
        BY <2>1, <2>2 DEF Buffered, Right
  <2>5. \A q \in Pages : \A d : q # p /\ Right(c, q, d) => Right(n, q, d)
        BY <2>1, <2>2, <1>p DEF Buffered, Right
  <2> QED
        BY <2>3, <2>4, <2>5 DEF n
<1> QED
    BY <1>1, <1>2, <1>3

LEMMA MarkedIsRight ==
    ASSUME NEW c, NEW p, Buffered(c)
    PROVE  /\ Buffered(Marked(c, p))
           /\ \A q, d : Right(c, q, d) => Right(Marked(c, p), q, d)
BY DEF Marked, Right, Buffered

LEMMA InsertAgrees ==
    ASSUME Sound(cache), Agrees(cache), NEW p \in Pages, NEW b, Known(p) => b = disk[p]
    PROVE  Agrees(insert(cache, p, b))
<1>1. Buffered(cache)
    BY DEF Agrees
<1> QED
    BY <1>1, InsertIsRight DEF Agrees

LEMMA MarkedAgrees ==
    ASSUME Agrees(cache), NEW p PROVE Agrees(Marked(cache, p))
BY MarkedIsRight DEF Agrees

LEMMA InitReads == Init => Reads
<1> SUFFICES ASSUME Init PROVE Reads
    OBVIOUS
<1>1. Buffered(EmptyCache) /\ \A p \in Pages : EmptyCache.map[p] = Nil
    BY DEF EmptyCache, Buffered
<1>2. Agrees(cache)
    BY <1>1 DEF Init, Agrees, Right
<1>3. ListOK(meta) /\ HistoryOK
    BY DEF Init, ListOK, HistoryOK, Nil
<1>4. w.pc = "idle" /\ disk = [p \in Pages |-> disk[p]]
    BY DEF Init, NoWriter
<1>5. \A t \in Threads : thr[t].pc = "idle"
    BY DEF Init, Idle
<1> QED
    BY <1>2, <1>3, <1>4, <1>5 DEF Reads, ReaderOK

(* A step of one thread.                                                   *)
LEMMA ThreadReads ==
    ASSUME IInv, Reads, NEW t \in Threads, NEW r, thr' = [thr EXCEPT ![t] = r], ReaderOK(r),
           Agrees(cache'), UNCHANGED <<disk, meta, hist, w>>
    PROVE  Reads'
<1>1. Agrees(cache)'
    BY DEF Agrees, Known, Retained
<1>2. ListOK(meta)' /\ HistoryOK' /\ (w.pc # "idle" => BatchOK)'
    BY DEF Reads, ListOK, HistoryOK, BatchOK, Retained
<1>3. \A u \in Threads : ReaderOK(thr[u])'
  <2>1. \A u \in Threads : thr'[u] = IF u = t THEN r ELSE thr[u]
        BY DEF IInv
  <2> QED
        BY <2>1 DEF Reads, ReaderOK
<1> QED
    BY <1>1, <1>2, <1>3 DEF Reads

LEMMA NextReads == Counting = {} /\ IInv /\ Reads /\ [Next]_vars => Reads'
<1> SUFFICES ASSUME Counting = {}, IInv, Reads, [Next]_vars PROVE Reads'
    OBVIOUS
<1> USE CacheAssumption
<1>s. Sound(cache) /\ Agrees(cache)
    BY DEF IInv, Reads
<1>r. ASSUME NEW t \in Threads, thr[t].pc # "idle"
      PROVE  /\ thr[t].page \in Pages /\ Known(thr[t].page) /\ disk[thr[t].page] = thr[t].want
             /\ Right(cache, thr[t].page, thr[t].want)
             /\ \A pc, buf : (pc \in {"loaded", "read"} => buf = thr[t].want)
                               => ReaderOK(Went(thr[t], pc, buf))
  <2>1. thr[t].what = "snapshot" /\ thr[t].page \in Pages
        BY <1>r DEF Reads, ReaderOK, IInv
  <2>2. PICK h \in hist : h.page = thr[t].page /\ h.txid = thr[t].want
        BY <1>r DEF Reads, ReaderOK
  <2>3. Known(thr[t].page) /\ disk[thr[t].page] = thr[t].want
        BY <2>2 DEF Known, Retained, Reads, HistoryOK
  <2> QED
        BY <2>1, <2>2, <2>3, <1>s DEF Agrees, ReaderOK, Went
<1>1. ASSUME NEW t \in Threads, snapshot(t) PROVE Reads'
  <2>1. PICK h \in hist : thr' = [thr EXCEPT ![t] = [pc |-> "held", what |-> "snapshot", page |-> h.page,
                                    want |-> h.txid, buf |-> 0]]
        BY Zenon, <1>1 DEF snapshot
  <2> DEFINE r == [pc |-> "held", what |-> "snapshot", page |-> h.page, want |-> h.txid, buf |-> 0]
  <2>2. ReaderOK(r)
        BY DEF ReaderOK
  <2> HIDE DEF r
  <2> QED
        BY Zenon, <1>1, <2>1, <2>2, <1>s, ThreadReads DEF snapshot, r
<1>2. ASSUME NEW t \in Threads, stats(t) PROVE Reads'
    BY <1>2 DEF stats
<1>4. ASSUME NEW t \in Threads, read_cache(t) PROVE Reads'
  <2>0. thr[t].pc # "idle"
        BY <1>4 DEF read_cache
  <2>1. CASE Hit(cache, thr[t].page)
    <3>1. cache.buf[cache.map[thr[t].page]] = thr[t].want
          BY <1>r, <2>0, <2>1 DEF Hit, Right
    <3>2. ReaderOK(Went(thr[t], "read", cache.buf[cache.map[thr[t].page]]))
          BY <1>r, <2>0, <3>1
    <3>3. Agrees(cache')
          BY <1>4, <2>1, <1>s, MarkedAgrees DEF read_cache
    <3> QED
          BY <1>4, <2>1, <3>2, <3>3, ThreadReads DEF read_cache
  <2>2. CASE ~Hit(cache, thr[t].page)
    <3>1. ReaderOK(Went(thr[t], "missed", 0))
          BY Zenon, <1>r, <2>0
    <3> QED
          BY <1>4, <2>2, <3>1, <1>s, ThreadReads DEF read_cache
  <2> QED
        BY <2>1, <2>2
<1>5. ASSUME NEW t \in Threads, read_disk(t) PROVE Reads'
  <2>1. ReaderOK(Went(thr[t], "loaded", disk[thr[t].page]))
        BY Zenon, <1>5, <1>r DEF read_disk
  <2> QED
        BY Zenon, <1>5, <2>1, <1>s, ThreadReads DEF read_disk
<1>6. ASSUME NEW t \in Threads, read_insert(t) PROVE Reads'
  <2>0. thr[t].pc # "idle" /\ thr[t].buf = thr[t].want
        BY <1>6 DEF read_insert, Reads, ReaderOK
  <2>1. ReaderOK(Went(thr[t], "read", thr[t].buf))
        BY <1>r, <2>0
  <2>2. Agrees(cache')
        BY <1>6, <1>r, <2>0, <1>s, InsertAgrees DEF read_insert
  <2> QED
        BY Zenon, <1>6, <2>1, <2>2, ThreadReads DEF read_insert
<1>7. ASSUME NEW t \in Threads, again(t) PROVE Reads'
  <2>1. ReaderOK(Went(thr[t], "held", 0))
        BY Zenon, <1>7, <1>r DEF again
  <2> QED
        BY Zenon, <1>7, <2>1, <1>s, ThreadReads DEF again
<1>8. ASSUME NEW t \in Threads, drop(t) PROVE Reads'
  <2>1. ReaderOK(Idle)
        BY DEF ReaderOK, Idle
  <2> QED
        BY Zenon, <1>8, <2>1, <1>s, ThreadReads DEF drop
<1>9. ASSUME commit_write PROVE Reads'
  <2>0. /\ MetaOK(meta) /\ ListOK(meta) /\ HistoryOK /\ meta.count \in Pages /\ w.pc = "idle"
        /\ disk = [p \in Pages |-> disk[p]] /\ hist' = hist /\ meta' = meta /\ thr' = thr
        BY <1>9 DEF commit_write, IInv, MetaOK, Pages, Reads
  <2>c. ASSUME meta.chain # Nil PROVE Agrees(ChainRead)
    <3>1. meta.chain \in Pages
          BY <2>c, <2>0 DEF MetaOK
    <3> QED
          BY <3>1, <1>s, MarkedAgrees, InsertAgrees DEF ChainRead
  <2>1. CASE meta.chain # Nil /\ ChainSeen = disk[meta.chain]
    <3>0. meta.chain \in Pages /\ meta.chain < meta.count /\ meta.chain \notin meta.ids
          BY <2>1, <2>0 DEF MetaOK, ListOK
    <3>1. PICK m \in (IF Cardinality(meta.ids) > 1 THEN Reusing ELSE LastFree) :
               /\ w' = [pc |-> "written", meta |-> m, todo |-> {m.root, m.chain}]
               /\ disk' = [p \in Pages |-> IF p \in {m.root, m.chain} THEN m.txid ELSE disk[p]]
          BY <1>9, <2>1 DEF commit_write
    <3>2. /\ m.root \in meta.ids /\ m.chain \in meta.ids \cup {meta.count} /\ m.root # m.chain
          /\ m.ids \subseteq (meta.ids \cup {meta.chain}) \ {m.root, m.chain}
          /\ m.count \in Nat /\ meta.count <= m.count /\ m.chain < m.count
      <4>1. CASE m \in Reusing
        <5>1. PICK x \in meta.ids \X meta.ids : x[1] # x[2] /\
                 m = Published(x[1], x[2], (meta.ids \cup {meta.chain}) \ {x[1], x[2]}, meta.count)
              BY <4>1 DEF Reusing
        <5>2. x[1] \in meta.ids /\ x[2] \in meta.ids /\ x[2] < meta.count
              BY <2>0 DEF ListOK
        <5> QED
              BY <5>1, <5>2, <2>0 DEF MetaOK, Published
      <4>2. CASE m \in LastFree
        <5>1. PICK x \in meta.ids : m = Published(x, meta.count, {meta.chain}, meta.count + 1)
              BY <4>2 DEF LastFree
        <5>2. x < meta.count /\ x \in Nat
              BY <2>0 DEF ListOK, MetaOK, Pages
        <5>3. /\ m.root = x /\ m.chain = meta.count /\ m.ids = {meta.chain}
              /\ m.count = meta.count + 1
              BY <5>1 DEF Published
        <5> QED
              BY <5>2, <5>3, <2>0, <3>0 DEF MetaOK, Pages
      <4> QED
            BY <3>1, <4>1, <4>2
    <3>3. /\ m.root \in Pages /\ m.chain \in Pages /\ m.root < m.count
          /\ \A p \in m.ids : p < m.count
          BY SMTT(40), <3>2, <3>0, <2>0 DEF MetaOK, ListOK, Pages
    <3>4. /\ ~Retained(m.root) /\ ~Retained(m.chain) /\ \A p \in m.ids : ~Retained(p)
          BY <3>2, <2>0, <2>1 DEF ListOK, HistoryOK, Retained, MetaOK
    <3>5. disk'[m.root] = m.txid /\ disk'[m.chain] = m.txid
          BY <3>1, <3>3
    <3>6. \A p \in Pages : p \notin {m.root, m.chain} => disk'[p] = disk[p]
          BY <3>1
    <3>7. (w.pc # "idle" => BatchOK)'
          BY <3>1, <3>2, <3>3, <3>4, <3>5, <2>0 DEF BatchOK, ListOK, Retained
    <3>8. ListOK(meta)' /\ HistoryOK' /\ (disk = [p \in Pages |-> disk[p]])'
      <4>1. \A h \in hist : h.page \in Pages /\ h.page \notin {m.root, m.chain}
            BY <3>4 DEF Retained, IInv
      <4> QED
            BY <4>1, <3>1, <3>6, <2>0 DEF ListOK, HistoryOK, Retained
    <3>9. Agrees(cache)'
      <4>1. cache' = ChainRead /\ Agrees(ChainRead)
            BY <1>9, <2>1, <2>c DEF commit_write
      <4>2. \A p \in Pages : Known(p)' => Known(p) /\ p \notin {m.root, m.chain}
            BY <3>1, <3>2, <3>4, <3>0, <2>0 DEF Known, Retained, MetaOK, Pages
      <4> QED
            BY <4>1, <4>2, <3>6 DEF Agrees
    <3> QED
          BY <3>7, <3>8, <3>9, <2>0 DEF Reads, ReaderOK
  <2>2. CASE ~(meta.chain # Nil /\ ChainSeen = disk[meta.chain])
    <3> DEFINE m == Published(meta.count, meta.chain, meta.ids, meta.count + 1)
    <3>1. /\ w' = [pc |-> "written", meta |-> m, todo |-> {m.root}]
          /\ disk' = [disk EXCEPT ![m.root] = m.txid]
          BY <1>9, <2>2 DEF commit_write
    <3>2. m.root = meta.count /\ m.chain = meta.chain /\ m.ids = meta.ids /\ m.count = meta.count + 1
          BY DEF Published
    <3> HIDE DEF m
    <3>3. /\ m.root < m.count /\ m.root # m.chain /\ m.root \notin m.ids /\ meta.count <= m.count
          /\ \A p \in m.ids : p < m.count
          /\ m.chain # Nil => m.chain < m.count
          BY <3>2, <2>0 DEF MetaOK, ListOK, Pages, Nil
    <3>4. ~Retained(m.root)
          BY <3>2, <2>0 DEF HistoryOK, Retained, Pages
    <3>5. disk'[m.root] = m.txid /\ \A p \in Pages : p # m.root => disk'[p] = disk[p]
          BY <3>1, <3>2, <2>0
    <3>7. (w.pc # "idle" => BatchOK)'
      <4>1. ListOK(w.meta)'
            BY <3>1, <3>2, <3>3, <2>0 DEF ListOK, Retained
      <4> QED
            BY <4>1, <3>1, <3>3, <3>4, <3>5, <2>0 DEF BatchOK, Retained
    <3>8. ListOK(meta)' /\ HistoryOK' /\ (disk = [p \in Pages |-> disk[p]])'
      <4>1. \A h \in hist : h.page \in Pages /\ h.page # m.root
            BY <3>4 DEF Retained, IInv
      <4>2. ListOK(meta)' /\ HistoryOK'
            BY <4>1, <3>5, <2>0 DEF ListOK, HistoryOK, Retained
      <4> QED
            BY <4>2, <3>1, <2>0
    <3>9. Agrees(cache)'
      <4>1. Agrees(cache')
            BY <1>9, <2>2, <2>c, <1>s DEF commit_write
      <4>2. \A p \in Pages : Known(p)' => Known(p) /\ p # m.root
            BY <3>1, <3>2, <3>3, <3>4, <2>0 DEF Known, Retained
      <4> QED
            BY <4>1, <4>2, <3>5 DEF Agrees
    <3> QED
          BY <3>7, <3>8, <3>9, <2>0 DEF Reads, ReaderOK
  <2> QED
        BY <2>1, <2>2
<1>10. ASSUME commit_fails PROVE Reads'
  <2>1. /\ w'.pc = "idle" /\ cache' = cache /\ disk' = disk /\ meta' = meta
        /\ hist' = hist /\ thr' = thr
        BY <1>10 DEF commit_fails, NoWriter
  <2>2. Agrees(cache)'
        BY <2>1, <1>s DEF Agrees, Known, Retained
  <2> QED
        BY <2>1, <2>2 DEF Reads, ListOK, HistoryOK, Retained, ReaderOK
<1>11. ASSUME NEW p \in Pages, commit_cache(p) PROVE Reads'
  <2>1. /\ w'.pc # "idle" /\ w.pc # "idle" /\ w'.meta = w.meta /\ w'.todo = w.todo \ {p} /\ p \in w.todo
        /\ cache' = insert(cache, p, w.meta.txid) /\ UNCHANGED <<disk, meta, hist, thr>>
        BY <1>11 DEF commit_cache
  <2>2. disk[p] = w.meta.txid
        BY <2>1 DEF Reads, BatchOK
  <2>3. Agrees(cache')
        BY <2>1, <2>2, <1>s, InsertAgrees
  <2>4. Right(cache', p, disk[p])
        BY <2>1, <2>2, <1>s, InsertIsRight DEF Agrees
  <2>5. \A q \in Pages : Known(q)' => Known(q) \/ q = p
        BY <2>1 DEF Known, Retained
  <2>6. Agrees(cache)'
        BY <2>1, <2>3, <2>4, <2>5 DEF Agrees
  <2>7. BatchOK'
        BY <2>1 DEF Reads, BatchOK, ListOK, Retained
  <2> QED
        BY <2>1, <2>6, <2>7 DEF Reads, ListOK, HistoryOK, Retained, ReaderOK
<1>12. ASSUME commit_publish PROVE Reads'
  <2> DEFINE new == [txid |-> w.meta.txid, page |-> w.meta.root]
  <2>1. /\ w.pc # "idle" /\ w.todo = {} /\ meta' = w.meta /\ hist' = hist \cup {new} /\ w'.pc = "idle"
        /\ UNCHANGED <<cache, disk, thr>>
        BY <1>12 DEF commit_publish
  <2>2. new.page = w.meta.root /\ new.txid = w.meta.txid
        OBVIOUS
  <2> HIDE DEF new
  <2>3. BatchOK /\ MetaOK(meta) /\ MetaOK(w.meta)
        BY <2>1 DEF Reads, IInv
  <2>4. \A p : Retained(p)' <=> Retained(p) \/ p = w.meta.root
        BY <2>1, <2>2 DEF Retained
  <2>5. ListOK(meta)'
        BY <2>1, <2>3, <2>4 DEF BatchOK, ListOK
  <2>6. HistoryOK'
    <3>1. \A h \in hist : h.page < w.meta.count
          BY <2>3 DEF Reads, HistoryOK, BatchOK, MetaOK, IInv, Pages
    <3> QED
          BY <3>1, <2>1, <2>2, <2>3 DEF HistoryOK, BatchOK, Reads
  <2>7. Agrees(cache)'
    <3>1. \A p \in Pages : Known(p)' => Known(p)
          BY <2>1, <2>4 DEF Known
    <3> QED
          BY <3>1, <2>1, <1>s DEF Agrees
  <2>8. \A t \in Threads : ReaderOK(thr[t])'
        BY <2>1 DEF Reads, ReaderOK
  <2> QED
        BY <2>1, <2>5, <2>6, <2>7, <2>8 DEF Reads
<1>13. ASSUME gc PROVE Reads'
  <2> DEFINE free == (2..(meta.count - 1)) \ {meta.root}
             m == IF free = {} THEN Published(meta.root, Nil, {}, meta.count)
                  ELSE Published(meta.root, meta.count, free, meta.count + 1)
  <2>1. /\ meta' = m /\ w'.pc = "idle" /\ hist' = {h \in hist : h.page = meta.root} /\ thr' = thr
        /\ disk' = IF free = {} THEN disk ELSE [disk EXCEPT ![m.chain] = m.txid]
        /\ cache' = IF free = {} THEN cache ELSE insert(cache, m.chain, m.txid)
        /\ \A t \in Threads : thr[t].pc = "idle"
        BY <1>13 DEF gc
  <2>2. meta.count \in Pages /\ meta.root \in Pages /\ disk = [p \in Pages |-> disk[p]] /\ HistoryOK
        BY SMTT(40), <1>13 DEF gc, IInv, MetaOK, Pages, Nil, Reads
  <2>3. \A p : Retained(p)' <=> Retained(p) /\ p = meta.root
        BY <2>1 DEF Retained
  <2>4. \A t \in Threads : ReaderOK(thr[t])'
        BY <2>1 DEF ReaderOK
  <2>5. \A p \in free : p < meta.count /\ p # meta.root /\ p \in Pages
        BY <2>2 DEF Pages
  <2> HIDE DEF free
  <2>6. CASE free = {}
    <3>1. meta'.chain = Nil /\ meta'.ids = {} /\ meta'.count = meta.count /\ cache' = cache /\ disk' = disk
          BY <2>1, <2>6 DEF Published
    <3>2. ListOK(meta)' /\ HistoryOK'
          BY <3>1, <2>1, <2>2 DEF ListOK, HistoryOK
    <3>3. \A p \in Pages : Known(p)' => Known(p)
          BY <3>1, <2>1, <2>3 DEF Known, Nil, Pages
    <3>4. Agrees(cache)'
          BY <3>1, <3>3, <1>s DEF Agrees
    <3> QED
          BY <3>1, <3>2, <3>4, <2>1, <2>2, <2>4 DEF Reads
  <2>7. CASE free # {}
    <3>1. m.chain = meta.count /\ m.ids = free /\ m.count = meta.count + 1
          BY <2>7 DEF Published
    <3> HIDE DEF m
    <3>2. /\ disk' = [disk EXCEPT ![m.chain] = m.txid] /\ cache' = insert(cache, m.chain, m.txid)
          BY <2>1, <2>7
    <3>3. disk'[m.chain] = m.txid /\ \A p \in Pages : p # m.chain => disk'[p] = disk[p]
          BY <3>1, <3>2, <2>2
    <3>4. ~Retained(m.chain)
          BY <3>1, <2>2 DEF HistoryOK, Retained, Pages
    <3>5. ListOK(meta)'
      <4>1. m.chain < m.count /\ m.chain \notin m.ids /\ \A p \in m.ids : p < m.count /\ p # meta.root
            BY <3>1, <2>2, <2>5 DEF Pages
      <4> QED
            BY <4>1, <3>4, <2>1, <2>3 DEF ListOK
    <3>6. HistoryOK'
      <4>1. \A h \in hist : h.page \in Pages /\ h.page # m.chain /\ h.page < m.count
            BY <3>1, <3>4, <2>2 DEF Retained, IInv, HistoryOK, Pages
      <4> QED
            BY <4>1, <3>3, <2>1, <2>2 DEF HistoryOK
    <3>7. Agrees(cache)'
      <4>0. m.chain \in Pages /\ Buffered(cache)
            BY <3>1, <2>2, <1>s DEF Agrees
      <4>1. Buffered(cache') /\ Right(cache', m.chain, m.txid)
            BY <4>0, <3>2, <1>s, InsertIsRight
      <4>2. ASSUME NEW p \in Pages, Known(p)', p # m.chain PROVE Right(cache', p, disk'[p])
        <5>1. Retained(p)
              BY <4>2, <2>1, <2>3 DEF Known
        <5>2. Right(cache, p, disk[p])
              BY <5>1, <1>s DEF Agrees, Known
        <5> QED
              BY <5>2, <4>0, <4>2, <3>2, <3>3, <1>s, InsertIsRight
      <4> QED
            BY <4>1, <4>2, <3>3 DEF Agrees
    <3> QED
          BY <3>2, <3>5, <3>6, <3>7, <2>1, <2>2, <2>4 DEF Reads
  <2> QED
        BY SMTT(40), <2>6, <2>7
<1>14. CASE UNCHANGED vars
  <2>1. UNCHANGED <<cache, disk, meta, hist, thr, w>>
        BY <1>14 DEF vars
  <2>2. Agrees(cache)'
        BY <2>1, <1>s DEF Agrees, Known, Retained
  <2> QED
        BY <2>1, <2>2 DEF Reads, ListOK, HistoryOK, BatchOK, Retained, ReaderOK
<1>15. CASE Next
    BY <1>15, <1>1, <1>2, <1>4, <1>5, <1>6, <1>7, <1>8, <1>9, <1>10, <1>11, <1>12, <1>13 DEF Next
<1> QED
    BY <1>14, <1>15

(* However lookups, late inserts, commits, failed commits and collections  *)
(* interleave, and whatever the capacity evicts, a snapshot reads the      *)
(* bytes its commit wrote, as long as no thread calls stats()              *)
(* (Pager::read_page, Cache::insert, WriteBatch::commit, Db::gc).          *)
THEOREM SnapshotsReadTheirCommit == Spec => []UncountedReads
<1> DEFINE RInv == Counting = {} => Reads
<1>1. Init => RInv
    BY InitReads
<1>2. IInv /\ RInv /\ [Next]_vars => RInv'
    BY NextReads
<1>3. RInv => UncountedReads
    BY DEF Reads, ReaderOK, UncountedReads, SnapshotReads
<1> QED
    BY InitIInv, NextIInv, <1>1, <1>2, <1>3, PTL DEF Spec
=============================================================================
