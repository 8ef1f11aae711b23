--------------------------- MODULE HandlesProofs ----------------------------
(***************************************************************************)
(* Proofs about several processes with one file, for any number of         *)
(* processes, pages and commits: with one writer at a time, by the lock or *)
(* by luck, acknowledged commits stay and snapshots keep their pages.      *)
(***************************************************************************)
EXTENDS Handles, FiniteSetTheorems, WellFoundedInduction, TLAPS

HandleType == [pc : {"none", "claim_new", "claim", "create", "create1", "create2", "recover",
                     "open", "guard", "write", "meta", "sync"},
               locked : BOOLEAN, meta : MetaType, batch : MetaType, page : Nat, stamp : Nat,
               snap : [page : Nat, stamp : Nat] \cup {Absent}]

(* The index of a slot tells the parity of the metas it takes.             *)
SlotOK(m, i) == m \in {Absent, Garbled, Empty} \/ (m \in MetaType /\ m.txid > 0 /\ m.txid % 2 = i)
SlotTypes(s) == s \in [{0, 1} -> MetaType \cup {Absent, Garbled}]
SlotsOK(s) == SlotTypes(s) /\ \A i \in {0, 1} : SlotOK(s[i], i)

HandlesTypeOK ==
    /\ setup \in [locking : BOOLEAN, collecting : BOOLEAN, commits : Nat]
    /\ SlotTypes(slot) /\ SlotTypes(durable)
    /\ pages \in [FilePages -> Nat] /\ h \in [Procs -> HandleType]
    /\ stamps \in Nat /\ acked \subseteq Nat /\ crossed \in BOOLEAN

(* Who holds the lock, and who has to.                                     *)
Holding == {"create", "create1", "create2", "guard", "write", "meta", "sync"}
Locked ==
    /\ \A p \in Procs : h[p].locked => lock = p
    /\ setup.locking =>
         \A p \in Procs : h[p].pc \in Holding => h[p].locked \/ (p \in Scribes /\ h[p].pc # "create")
    /\ setup.locking /\ Scribes = {} => ~crossed

(* The newest meta, and a meta a newer one has been written over.          *)
Newest(s, m) == m \in {s[0], s[1]} /\ IsMeta(m) /\ \A i \in {0, 1} : IsMeta(s[i]) => s[i].txid <= m.txid
Stale(m) == IsMeta(slot[(m.txid + 1) % 2]) /\ slot[(m.txid + 1) % 2].txid > m.txid

HandleOK(r) ==
    /\ r.pc \in {"open", "guard"} => Newest(slot, r.meta) \/ Stale(r.meta)
    /\ r.pc \in {"guard", "write", "meta", "sync"} =>
          r.batch.txid = r.meta.txid + 1 /\ r.meta.line \subseteq r.batch.line /\ r.stamp \in r.batch.line
    /\ r.pc \in {"write", "meta"} => Newest(slot, r.meta)
    /\ r.pc = "meta" => durable = slot
    /\ r.pc = "sync" => slot[r.batch.txid % 2] = r.batch /\ Newest(slot, r.batch)
    /\ r.pc = "create1" => slot[0] = Empty /\ slot[1] = Absent /\ acked = {}
    /\ r.pc = "create2" => slot[0] = Empty /\ slot[1] = Empty /\ acked = {}

(* One slot holds every acknowledged commit, on the medium too, and the    *)
(* other is older or holds them as well.                                   *)
Holds(m) == acked \ {0} \subseteq m.line
BackedBy(i) ==
    /\ slot[i] = durable[i] /\ IsMeta(slot[i]) /\ slot[i].txid % 2 = i /\ Holds(slot[i])
    /\ \A s \in {slot, durable} : IsMeta(s[1 - i]) => s[1 - i].txid < slot[i].txid \/ Holds(s[1 - i])
Backed == acked # {} => \E i \in {0, 1} : BackedBy(i)

Alone == \A p, q \in Procs : h[p].pc \in UnderWay /\ h[q].pc \in UnderWay => p = q

(* The stamps of retained commits are among those a meta was built upon,   *)
(* and those were given out.                                               *)
Stamped(m, n) == m.line \subseteq 0..n /\ \A c \in m.kept : c.stamp \in m.line
AllStamped ==
    /\ \A s \in {slot, durable} : \A i \in {0, 1} : IsMeta(s[i]) => Stamped(s[i], stamps)
    /\ \A p \in Procs : Stamped(h[p].meta, stamps) /\ Stamped(h[p].batch, stamps)

Apart ==
    ~crossed => /\ SlotsOK(slot) /\ SlotsOK(durable) /\ Alone /\ Backed
                /\ \A p \in Procs : HandleOK(h[p])

HandlesInv == HandlesTypeOK /\ Locked /\ AllStamped /\ Apart

-----------------------------------------------------------------------------
(* Pages: a meta whose retained commits are where it says, a number of     *)
(* pages some meta in the file covers.                                     *)
Intact(m) ==
    /\ m.free = {} /\ 2 <= m.next
    /\ \A c \in m.kept : c.page \in FilePages /\ c.page < m.next /\ pages[c.page] = c.stamp
Covered(n) == \E i \in {0, 1} : IsMeta(slot[i]) /\ n <= slot[i].next

PagesOK(r) ==
    /\ r.snap # Absent =>
          r.snap.page \in FilePages /\ Covered(r.snap.page + 1) /\ pages[r.snap.page] = r.snap.stamp
    /\ r.pc \in {"open", "guard", "write", "meta", "sync"} => Intact(r.meta) /\ Covered(r.meta.next)
    /\ r.pc \in {"guard", "write", "meta", "sync"} =>
          /\ r.page = r.meta.next /\ r.page \in FilePages
          /\ r.batch.free = {} /\ r.batch.next = r.page + 1
          /\ r.batch.kept = r.meta.kept \cup {[page |-> r.page, stamp |-> r.stamp]}
    /\ r.pc \in {"meta", "sync"} => pages[r.page] = r.stamp

(* Of two metas a crash may leave side by side the newer one has as many   *)
(* pages.                                                                  *)
Ordered(s, u) ==
    \A i \in {0, 1} :
        IsMeta(s[i]) /\ IsMeta(u[1 - i]) /\ s[i].txid <= u[1 - i].txid => s[i].next <= u[1 - i].next
Grows == \A s, u \in {slot, durable} : Ordered(s, u)

PagesInv ==
    ~crossed /\ ~setup.collecting =>
        /\ Grows /\ \A s \in {slot, durable} : \A i \in {0, 1} : IsMeta(s[i]) => Intact(s[i])
        /\ \A p \in Procs : PagesOK(h[p])

-----------------------------------------------------------------------------
(* Arithmetic, and the newest meta of two slots.                           *)

LEMMA Parity ==
    ASSUME NEW n \in Nat
    PROVE  n % 2 \in {0, 1} /\ (n + 1) % 2 = 1 - (n % 2)
OBVIOUS

LEMMA LeastNumber ==
    ASSUME NEW T, T \subseteq Nat, T # {}
    PROVE  \E x \in T : \A y \in T : x <= y
<1>1. PICK x \in T : \A y \in T : ~(<<y, x>> \in OpToRel(<, Nat))
    BY Zenon, WFMin, NatLessThanWellFounded
<1>2. \A y \in T : ~(y < x)
    BY Zenon, <1>1 DEF OpToRel
<1> QED
    BY <1>2

(* gc keeps the newest of the retained commits: there is one.              *)
LEMMA HeadExists ==
    ASSUME NEW n \in Nat, NEW m \in MetaType, Stamped(m, n), m.kept # {}
    PROVE  \E c \in m.kept : \A d \in m.kept : d.stamp <= c.stamp
<1> DEFINE T == {n - c.stamp : c \in m.kept}
<1>1. \A c \in m.kept : c.stamp \in 0..n
    BY DEF Stamped
<1>2. T \subseteq Nat /\ T # {}
    BY <1>1
<1>3. PICK x \in T : \A y \in T : x <= y
    BY Zenon, <1>2, LeastNumber
<1>4. PICK c \in m.kept : x = n - c.stamp
    BY <1>3
<1>5. \A d \in m.kept : n - c.stamp <= n - d.stamp
    BY <1>3, <1>4
<1> QED
    BY <1>1, <1>4, <1>5

LEMMA EmptyType == Empty \in MetaType /\ IsMeta(Empty) /\ Empty.txid = 0 /\ Empty.line = {} /\ Empty.kept = {}
<1>1. Empty \in MetaType
    BY DEF Empty, MetaType
<1> QED
    BY SMTT(40), <1>1, HandlesAssumption DEF Empty, IsMeta

LEMMA MetaIsMeta == \A m \in MetaType : IsMeta(m)
BY HandlesAssumption DEF IsMeta

(* A slot that decodes holds a meta, of the right parity.                  *)
LEMMA SlotMeta ==
    ASSUME NEW s, SlotTypes(s), NEW i \in {0, 1}, IsMeta(s[i])
    PROVE  /\ s[i] \in MetaType
           /\ SlotsOK(s) => s[i] = Empty \/ (s[i].txid > 0 /\ s[i].txid % 2 = i)
BY EmptyType DEF SlotTypes, SlotsOK, SlotOK, IsMeta

LEMMA NewestIsUnique ==
    ASSUME NEW s, SlotsOK(s), NEW m, NEW n, Newest(s, m), Newest(s, n)
    PROVE  m = n
<1>1. PICK i \in {0, 1}, j \in {0, 1} : m = s[i] /\ n = s[j]
    BY DEF Newest
<1>2. IsMeta(s[i]) /\ IsMeta(s[j])
    BY <1>1 DEF Newest
<1>3. s[i] \in MetaType /\ s[j] \in MetaType
    BY <1>2, SlotMeta DEF SlotsOK
<1>4. s[i].txid = s[j].txid
    BY <1>1, <1>2, <1>3 DEF Newest, MetaType
<1>5. (s[i] = Empty \/ (s[i].txid > 0 /\ s[i].txid % 2 = i)) /\ (s[j] = Empty \/ (s[j].txid > 0 /\ s[j].txid % 2 = j))
    BY <1>2, SlotMeta DEF SlotsOK
<1> QED
    BY <1>1, <1>4, <1>5, EmptyType

LEMMA FoundIsNewest ==
    ASSUME NEW s, SlotTypes(s)
    PROVE  /\ SlotsOK(s) => \A m : Newest(s, m) => FoundIn(s) = m
           /\ FoundIn(s) # Absent => Newest(s, FoundIn(s))
           /\ FoundIn(s) = Absent => ~IsMeta(s[0]) /\ ~IsMeta(s[1])
<1> DEFINE ms == {m \in {s[0], s[1]} : IsMeta(m)}
<1>1. ms = {} => FoundIn(s) = Absent
    BY DEF FoundIn
<1>2. ms # {} => FoundIn(s) = CHOOSE m \in ms : \A n \in ms : n.txid <= m.txid
    BY DEF FoundIn
<1>3. ASSUME ms # {} PROVE \E m \in ms : \A n \in ms : n.txid <= m.txid
  <2>1. \A i \in {0, 1} : IsMeta(s[i]) => s[i].txid \in Nat
        BY SlotMeta DEF MetaType
  <2>2. CASE IsMeta(s[0]) /\ IsMeta(s[1])
        BY <2>1, <2>2
  <2>3. CASE ~(IsMeta(s[0]) /\ IsMeta(s[1]))
        BY <1>3, <2>1, <2>3
  <2> QED
        BY <2>2, <2>3
<1>4. ASSUME ms # {} PROVE Newest(s, FoundIn(s)) /\ FoundIn(s) # Absent
  <2>1. FoundIn(s) \in ms /\ \A n \in ms : n.txid <= FoundIn(s).txid
        BY <1>2, <1>3, <1>4
  <2> QED
        BY <2>1 DEF Newest, IsMeta
<1>5. ASSUME SlotsOK(s), NEW m, Newest(s, m) PROVE FoundIn(s) = m
  <2>1. ms # {}
        BY <1>5 DEF Newest
  <2> QED
        BY <2>1, <1>4, <1>5, NewestIsUnique
<1> QED
    BY <1>1, <1>4, <1>5

-----------------------------------------------------------------------------
(* The invariant.                                                          *)

LEMMA ShutType ==
    /\ Shut \in HandleType /\ Shut.pc = "none" /\ ~Shut.locked /\ Shut.snap = Absent
    /\ HandleOK(Shut) /\ \A n \in Nat : Stamped(Shut.meta, n) /\ Stamped(Shut.batch, n)
<1>1. /\ Shut \in HandleType /\ Shut.pc = "none" /\ ~Shut.locked /\ Shut.snap = Absent
      /\ Shut.meta = Empty /\ Shut.batch = Empty
    BY EmptyType DEF Shut, HandleType
<1>2. HandleOK(Shut)
    BY <1>1 DEF HandleOK
<1> QED
    BY <1>1, <1>2, EmptyType DEF Stamped

LEMMA HandlesInitInv == HandlesInit => HandlesInv
<1> SUFFICES ASSUME HandlesInit PROVE HandlesInv
    OBVIOUS
<1> USE HandlesAssumption
<1>1. \A p \in Procs : h[p] = Shut
    BY DEF HandlesInit
<1>2. slot = [i \in {0, 1} |-> Absent] /\ durable = slot /\ acked = {} /\ ~crossed
    BY DEF HandlesInit
<1>3. SlotsOK(slot) /\ SlotsOK(durable) /\ SlotTypes(slot) /\ SlotTypes(durable)
    BY <1>2 DEF SlotsOK, SlotOK, SlotTypes
<1>4. HandlesTypeOK
    BY ZenonT(60), <1>2, <1>3, ShutType DEF HandlesInit, HandlesTypeOK
<1>5. Locked
    BY <1>1, <1>2, ShutType DEF Locked, Holding
<1>6. AllStamped
    BY <1>1, <1>2, ShutType DEF AllStamped, HandlesInit, IsMeta
<1>7. Apart
    BY <1>1, <1>2, <1>3, ShutType DEF Apart, Alone, Backed, UnderWay
<1> QED
    BY <1>4, <1>5, <1>6, <1>7 DEF HandlesInv

(* A step of one process that writes nothing to the file.                  *)
LEMMA OneHandle ==
    ASSUME HandlesInv, NEW p \in Procs, NEW r \in HandleType, h' = [h EXCEPT ![p] = r],
           UNCHANGED <<setup, slot, durable, pages, acked>>,
           stamps' \in Nat, stamps <= stamps', crossed' \in BOOLEAN, crossed => crossed',
           r.locked => lock' = p, \A q \in Procs \ {p} : h[q].locked => lock' = q,
           setup.locking /\ r.pc \in Holding => r.locked \/ (p \in Scribes /\ r.pc # "create"),
           setup.locking /\ Scribes = {} => ~crossed',
           Stamped(r.meta, stamps'), Stamped(r.batch, stamps'),
           ~crossed' => /\ HandleOK(r)
                        /\ r.pc \in UnderWay => \A q \in Procs \ {p} : h[q].pc \notin UnderWay
    PROVE  HandlesInv'
<1>h. \A q \in Procs : h'[q] = IF q = p THEN r ELSE h[q]
    BY DEF HandlesInv, HandlesTypeOK
<1>1. HandlesTypeOK'
    BY DEF HandlesInv, HandlesTypeOK
<1>2. Locked'
    BY <1>h DEF HandlesInv, Locked
<1>3. AllStamped'
  <2>1. \A m : Stamped(m, stamps) => Stamped(m, stamps')
        BY DEF Stamped, HandlesInv, HandlesTypeOK
  <2> QED
        BY <1>h, <2>1 DEF HandlesInv, AllStamped
<1>4. Apart'
  <2> SUFFICES ASSUME ~crossed'
               PROVE  (SlotsOK(slot) /\ SlotsOK(durable) /\ Alone /\ Backed /\ \A q \in Procs : HandleOK(h[q]))'
        BY DEF Apart
  <2>1. SlotsOK(slot) /\ SlotsOK(durable) /\ Alone /\ Backed /\ \A q \in Procs : HandleOK(h[q])
        BY DEF HandlesInv, Apart
  <2>2. Alone'
        BY <1>h, <2>1 DEF Alone
  <2>3. Backed'
        BY SMTT(40), <2>1 DEF Backed, BackedBy, Holds
  <2>4. \A q \in Procs : HandleOK(h[q])'
        BY <1>h, <2>1 DEF HandleOK, Newest, Stale
  <2> QED
        BY <2>1, <2>2, <2>3, <2>4
<1> QED
    BY <1>1, <1>2, <1>3, <1>4 DEF HandlesInv

(* The handle is given up.                                                 *)
LEMMA ShutKeeps ==
    ASSUME HandlesInv, NEW p \in Procs, h' = [h EXCEPT ![p] = Shut],
           lock' = lock \/ lock' = IF lock = p THEN Absent ELSE lock,
           UNCHANGED <<setup, slot, durable, pages, acked, stamps, crossed>>
    PROVE  HandlesInv'
<1>1. \A q \in Procs \ {p} : h[q].locked => lock' = q
    BY DEF HandlesInv, Locked
<1>2. stamps \in Nat /\ crossed \in BOOLEAN /\ (setup.locking /\ Scribes = {} => ~crossed)
    BY DEF HandlesInv, HandlesTypeOK, Locked
<1>3. Shut.pc \notin Holding /\ Shut.pc \notin UnderWay
    BY ShutType DEF Holding, UnderWay
<1>4. Stamped(Shut.meta, stamps') /\ Stamped(Shut.batch, stamps') /\ stamps' \in Nat /\ stamps <= stamps'
    BY <1>2, ShutType
<1>5. crossed' \in BOOLEAN /\ (crossed => crossed') /\ (setup.locking /\ Scribes = {} => ~crossed')
    BY <1>2
<1>6. Shut \in HandleType /\ ~Shut.locked /\ HandleOK(Shut)
    BY ShutType
<1> QED
    BY Zenon, <1>1, <1>3, <1>4, <1>5, <1>6, OneHandle

(* A step within the process that keeps what it holds of the lock.         *)
LEMMA QuietStep ==
    ASSUME HandlesInv, NEW p \in Procs, NEW r \in HandleType, h' = [h EXCEPT ![p] = r],
           UNCHANGED <<setup, slot, durable, pages, acked, lock, stamps, crossed>>,
           r.locked = h[p].locked, r.pc \notin UnderWay,
           setup.locking /\ r.pc \in Holding => r.locked \/ (p \in Scribes /\ r.pc # "create"),
           Stamped(r.meta, stamps), Stamped(r.batch, stamps),
           ~crossed => HandleOK(r)
    PROVE  HandlesInv'
<1>1. /\ r.locked => lock' = p
      /\ \A q \in Procs \ {p} : h[q].locked => lock' = q
    BY DEF HandlesInv, Locked
<1>2. crossed' \in BOOLEAN /\ (crossed => crossed') /\ (setup.locking /\ Scribes = {} => ~crossed')
    BY DEF HandlesInv, Locked, HandlesTypeOK
<1>3. stamps' \in Nat /\ stamps <= stamps' /\ Stamped(r.meta, stamps') /\ Stamped(r.batch, stamps')
    BY DEF HandlesInv, HandlesTypeOK
<1> QED
    BY Zenon, <1>1, <1>2, <1>3, OneHandle

LEMMA HandleFacts ==
    ASSUME HandlesInv, NEW p \in Procs
    PROVE  /\ h[p] \in HandleType /\ Stamped(h[p].meta, stamps) /\ Stamped(h[p].batch, stamps)
           /\ ~crossed => HandleOK(h[p])
           /\ SlotTypes(slot) /\ SlotTypes(durable) /\ h \in [Procs -> HandleType] /\ stamps \in Nat
BY DEF HandlesInv, HandlesTypeOK, AllStamped, Apart

(* Opening and closing.                                                    *)
LEMMA OpenKeeps ==
    ASSUME HandlesInv, NEW p \in Procs,
           create_file(p) \/ open_file(p) \/ open_file_unlocked(p)
    PROVE  HandlesInv'
<1>1. PICK pc \in {"claim_new", "claim", "recover"} :
         h' = [h EXCEPT ![p].pc = pc] /\ UNCHANGED <<setup, slot, durable, pages, acked, lock, stamps, crossed>>
    BY DEF create_file, open_file, open_file_unlocked, Go, fileVars
<1> DEFINE r == [h[p] EXCEPT !.pc = pc]
<1>2. h' = [h EXCEPT ![p] = r]
    BY <1>1, HandleFacts
<1>3. /\ r \in HandleType /\ r.locked = h[p].locked /\ r.pc = pc
      /\ r.meta = h[p].meta /\ r.batch = h[p].batch
    BY HandleFacts DEF HandleType
<1> HIDE DEF r
<1>4. HandleOK(r) /\ r.pc \notin UnderWay /\ r.pc \notin Holding
    BY <1>3 DEF HandleOK, UnderWay, Holding
<1> QED
    BY Zenon, <1>1, <1>2, <1>3, <1>4, HandleFacts, QuietStep

LEMMA ClaimKeeps ==
    ASSUME HandlesInv, NEW p \in Procs, claim(p) PROVE HandlesInv'
<1>1. CASE setup.locking /\ lock # Absent
    BY <1>1, ShutKeeps DEF claim
<1>2. CASE ~(setup.locking /\ lock # Absent)
  <2> DEFINE pc == IF h[p].pc = "claim" THEN "recover" ELSE "create"
             r == [h[p] EXCEPT !.locked = setup.locking, !.pc = pc]
  <2>1. /\ h' = [h EXCEPT ![p] = r]
        /\ lock' = IF setup.locking THEN p ELSE lock
        /\ UNCHANGED <<setup, slot, durable, pages, acked, stamps, crossed>>
        BY Zenon, <1>2, HandleFacts DEF claim
  <2>2. setup.locking \in BOOLEAN /\ crossed \in BOOLEAN
        BY DEF HandlesInv, HandlesTypeOK
  <2>3. /\ r \in HandleType /\ r.locked = setup.locking /\ r.pc \in {"recover", "create"}
        /\ r.meta = h[p].meta /\ r.batch = h[p].batch
        BY Zenon, <2>2, HandleFacts DEF HandleType
  <2> HIDE DEF r
  <2>4. HandleOK(r) /\ r.pc \notin UnderWay
        BY <2>3 DEF HandleOK, UnderWay
  <2>5. \A q \in Procs : h[q].locked => lock' = q
        BY <1>2, <2>1, HandlesAssumption DEF HandlesInv, Locked
  <2>6. (r.locked => lock' = p) /\ \A q \in Procs \ {p} : h[q].locked => lock' = q
        BY <2>1, <2>3, <2>5
  <2>7. /\ stamps' \in Nat /\ stamps <= stamps' /\ Stamped(r.meta, stamps') /\ Stamped(r.batch, stamps')
        /\ crossed' \in BOOLEAN /\ (crossed => crossed') /\ (setup.locking /\ Scribes = {} => ~crossed')
        BY <2>1, <2>2, <2>3, HandleFacts DEF HandlesInv, Locked
  <2>8. setup.locking /\ r.pc \in Holding => r.locked \/ (p \in Scribes /\ r.pc # "create")
        BY <2>3
  <2>9. h' = [h EXCEPT ![p] = r] /\ UNCHANGED <<setup, slot, durable, pages, acked>>
        BY <2>1
  <2> QED
        BY Zenon, <2>3, <2>4, <2>6, <2>7, <2>8, <2>9, OneHandle
<1> QED
    BY <1>1, <1>2

LEMMA RecoverKeeps ==
    ASSUME HandlesInv, NEW p \in Procs, recover(p) PROVE HandlesInv'
<1>1. CASE FoundIn(slot) = Absent
    BY <1>1, ShutKeeps DEF recover
<1>2. CASE FoundIn(slot) # Absent
  <2> DEFINE r == [h[p] EXCEPT !.pc = "open", !.meta = FoundIn(slot)]
  <2>1. /\ h' = [h EXCEPT ![p] = r]
        /\ UNCHANGED <<setup, slot, durable, pages, acked, lock, stamps, crossed>>
        BY Zenon, <1>2, HandleFacts DEF recover
  <2>2. Newest(slot, FoundIn(slot))
        BY <1>2, HandleFacts, FoundIsNewest
  <2>3. PICK i \in {0, 1} : FoundIn(slot) = slot[i] /\ IsMeta(slot[i])
        BY <2>2 DEF Newest
  <2>4. FoundIn(slot) \in MetaType /\ Stamped(FoundIn(slot), stamps)
        BY <2>3, HandleFacts, SlotMeta DEF HandlesInv, AllStamped
  <2>5. /\ r \in HandleType /\ r.locked = h[p].locked /\ r.pc = "open"
        /\ r.meta = FoundIn(slot) /\ r.batch = h[p].batch
        BY Zenon, <2>4, HandleFacts DEF HandleType
  <2> HIDE DEF r
  <2>6. HandleOK(r) /\ r.pc \notin UnderWay /\ r.pc \notin Holding
        BY <2>2, <2>5 DEF HandleOK, UnderWay, Holding
  <2> QED
        BY Zenon, <2>1, <2>4, <2>5, <2>6, HandleFacts, QuietStep
<1> QED
    BY <1>1, <1>2

(* Snapshots.                                                              *)
LEMMA PinKeeps ==
    ASSUME HandlesInv, NEW p \in Procs, pin(p) \/ forget(p) PROVE HandlesInv'
<1>1. PICK c \in h[p].meta.kept \cup {Absent} :
         /\ h[p].pc = "open" /\ h' = [h EXCEPT ![p].snap = c]
         /\ UNCHANGED <<setup, slot, durable, pages, acked, lock, stamps, crossed>>
    BY DEF pin, forget, fileVars
<1> DEFINE r == [h[p] EXCEPT !.snap = c]
<1>2. h' = [h EXCEPT ![p] = r]
    BY <1>1, HandleFacts
<1>3. /\ r \in HandleType /\ r.locked = h[p].locked /\ r.pc = h[p].pc
      /\ r.meta = h[p].meta /\ r.batch = h[p].batch /\ r.stamp = h[p].stamp
    BY HandleFacts DEF HandleType, MetaType
<1> HIDE DEF r
<1>4. (~crossed => HandleOK(r)) /\ r.pc \notin UnderWay /\ r.pc \notin Holding
    BY <1>1, <1>3, HandleFacts DEF HandleOK, UnderWay, Holding
<1> QED
    BY Zenon, <1>1, <1>2, <1>3, <1>4, HandleFacts, QuietStep

-----------------------------------------------------------------------------
(* Writing.                                                                *)

LEMMA BeginKeeps ==
    ASSUME HandlesInv, NEW p \in Procs, begin(p) PROVE HandlesInv'
<1> DEFINE base == h[p].meta
           b(page) == [txid |-> base.txid + 1,
                       next |-> IF page = base.next THEN page + 1 ELSE base.next,
                       free |-> base.free \ {page},
                       kept |-> base.kept \cup {[page |-> page, stamp |-> stamps + 1]},
                       line |-> base.line \cup {stamps + 1}]
<1>1. PICK page \in FilePages :
         h' = [h EXCEPT ![p].pc = "guard", ![p].page = page, ![p].stamp = stamps + 1, ![p].batch = b(page)]
    BY Zenon DEF begin
<1>2. /\ h[p].pc = "open" /\ (h[p].locked \/ ~setup.locking \/ p \in Scribes)
      /\ stamps' = stamps + 1
      /\ UNCHANGED <<setup, slot, durable, pages, lock, acked, crossed>>
    BY DEF begin, MayWrite, fileVars
<1>3. page \in Nat /\ base \in MetaType /\ stamps \in Nat
    BY HandleFacts, HandlesAssumption DEF FilePages, HandleType
<1>4. /\ b(page) \in MetaType /\ b(page).txid = base.txid + 1 /\ b(page).line = base.line \cup {stamps + 1}
      /\ b(page).kept = base.kept \cup {[page |-> page, stamp |-> stamps + 1]}
    BY <1>3 DEF MetaType
<1> HIDE DEF b
<1> DEFINE r == [h[p] EXCEPT !.pc = "guard", !.page = page, !.stamp = stamps + 1, !.batch = b(page)]
<1>5. h' = [h EXCEPT ![p] = r]
    BY Zenon, <1>1, HandleFacts
<1>6. /\ r \in HandleType /\ r.locked = h[p].locked /\ r.pc = "guard"
      /\ r.meta = base /\ r.batch = b(page) /\ r.stamp = stamps + 1
  <2>1. h[p] \in HandleType
        BY HandleFacts
  <2>2. stamps + 1 \in Nat /\ b(page) \in MetaType
        BY <1>3, <1>4
  <2> QED
        BY Zenon, <1>3, <2>1, <2>2 DEF HandleType
<1> HIDE DEF r
<1>7. Stamped(r.meta, stamps') /\ Stamped(r.batch, stamps')
  <2>1. Stamped(base, stamps)
        BY HandleFacts
  <2>2. \A c \in b(page).kept : c \in base.kept \/ c.stamp = stamps + 1
        BY <1>4
  <2> QED
        BY <1>2, <1>3, <1>4, <1>6, <2>1, <2>2 DEF Stamped
<1>8. ~crossed' => HandleOK(r)
    BY <1>2, <1>4, <1>6, HandleFacts DEF HandleOK
<1>9. /\ r.locked => lock' = p
      /\ \A q \in Procs \ {p} : h[q].locked => lock' = q
    BY <1>2, <1>6 DEF HandlesInv, Locked
<1>10. /\ crossed' \in BOOLEAN /\ (crossed => crossed') /\ (setup.locking /\ Scribes = {} => ~crossed')
       /\ stamps' \in Nat /\ stamps <= stamps'
    BY <1>2, <1>3 DEF HandlesInv, Locked, HandlesTypeOK
<1>11. /\ setup.locking /\ r.pc \in Holding => r.locked \/ (p \in Scribes /\ r.pc # "create")
       /\ r.pc \notin UnderWay
    BY <1>2, <1>6 DEF UnderWay
<1>12. UNCHANGED <<setup, slot, durable, pages, acked>>
    BY <1>2
<1> QED
    BY Zenon, <1>5, <1>6, <1>7, <1>8, <1>9, <1>10, <1>11, <1>12, OneHandle

LEMMA CollectKeeps ==
    ASSUME HandlesInv, NEW p \in Procs, collect(p) PROVE HandlesInv'
<1> DEFINE base == h[p].meta
           head == CHOOSE c \in base.kept : \A d \in base.kept : d.stamp <= c.stamp
           b == [txid |-> base.txid + 1, next |-> base.next,
                 free |-> (2 .. (base.next - 1)) \ {head.page}, kept |-> {head}, line |-> base.line]
<1>1. h' = [h EXCEPT ![p].pc = "guard", ![p].page = 0, ![p].stamp = head.stamp, ![p].batch = b]
    BY Zenon DEF collect
<1>2. /\ h[p].pc = "open" /\ (h[p].locked \/ ~setup.locking \/ p \in Scribes)
      /\ Cardinality(base.kept) > 1
      /\ UNCHANGED <<setup, slot, durable, pages, lock, acked, crossed, stamps>>
    BY Zenon DEF collect, MayWrite, fileVars
<1>3. base \in MetaType /\ stamps \in Nat /\ Stamped(base, stamps)
    BY HandleFacts DEF HandleType
<1>4. base.kept # {}
    BY <1>2, FS_EmptySet
<1>5. head \in base.kept
    BY <1>3, <1>4, HeadExists
<1> HIDE DEF head
<1>6. head \in [page : Nat, stamp : Nat] /\ head.stamp \in base.line
    BY <1>3, <1>5 DEF MetaType, Stamped
<1>7. b \in MetaType /\ b.txid = base.txid + 1 /\ b.line = base.line /\ b.kept = {head}
  <2>2. (2 .. (base.next - 1)) \ {head.page} \subseteq Nat /\ {head} \subseteq [page : Nat, stamp : Nat]
        BY <1>3, <1>6 DEF MetaType
  <2>3. base.txid + 1 \in Nat /\ base.next \in Nat /\ base.line \subseteq Nat
        BY <1>3 DEF MetaType
  <2> QED
        BY <2>2, <2>3 DEF MetaType
<1> HIDE DEF b
<1> DEFINE r == [h[p] EXCEPT !.pc = "guard", !.page = 0, !.stamp = head.stamp, !.batch = b]
<1>8. h' = [h EXCEPT ![p] = r]
    BY Zenon, <1>1, HandleFacts
<1>9. /\ r \in HandleType /\ r.locked = h[p].locked /\ r.pc = "guard"
      /\ r.meta = base /\ r.batch = b /\ r.stamp = head.stamp
    BY ZenonT(60), <1>3, <1>6, <1>7, HandleFacts DEF HandleType
<1> HIDE DEF r
<1>10. Stamped(r.meta, stamps) /\ Stamped(r.batch, stamps)
    BY <1>3, <1>6, <1>7, <1>9 DEF Stamped
<1>11. ~crossed => HandleOK(r)
    BY <1>2, <1>6, <1>7, <1>9, HandleFacts DEF HandleOK
<1>12. /\ setup.locking /\ r.pc \in Holding => r.locked \/ (p \in Scribes /\ r.pc # "create")
       /\ r.pc \notin UnderWay
    BY <1>2, <1>9 DEF UnderWay
<1> QED
    BY ZenonT(60), <1>2, <1>8, <1>9, <1>10, <1>11, <1>12, QuietStep

(* The guard lets a handle through only if its meta is the newest.         *)
LEMMA GuardKeeps ==
    ASSUME HandlesInv, NEW p \in Procs, commit_guard(p) PROVE HandlesInv'
<1> DEFINE i == h[p].batch.txid % 2
<1>0. /\ h[p].pc = "guard" /\ UNCHANGED <<setup, slot, durable, pages, lock, acked, stamps>>
    BY DEF commit_guard, fileVars
<1>l. setup.locking => h[p].locked \/ p \in Scribes
    BY <1>0 DEF HandlesInv, Locked, Holding
<1>1. CASE txid_in_slot(i) > h[p].meta.txid
  <2> DEFINE r == [h[p] EXCEPT !.pc = "open"]
  <2>1. h' = [h EXCEPT ![p] = r] /\ crossed' = crossed
        BY <1>1, HandleFacts DEF commit_guard, Go
  <2>2. /\ r \in HandleType /\ r.locked = h[p].locked /\ r.pc = "open"
        /\ r.meta = h[p].meta /\ r.batch = h[p].batch /\ r.stamp = h[p].stamp
        BY HandleFacts DEF HandleType
  <2> HIDE DEF r
  <2>3. (~crossed => HandleOK(r)) /\ r.pc \notin UnderWay /\ r.pc \notin Holding
        BY <1>0, <2>2, HandleFacts DEF HandleOK, UnderWay, Holding
  <2> QED
        BY Zenon, <1>0, <2>1, <2>2, <2>3, HandleFacts, QuietStep
<1>2. CASE ~(txid_in_slot(i) > h[p].meta.txid)
  <2> DEFINE r == [h[p] EXCEPT !.pc = "write"]
  <2>1. /\ h' = [h EXCEPT ![p] = r]
        /\ crossed' = (crossed \/ \E q \in Procs \ {p} : h[q].pc \in UnderWay)
        BY <1>2, HandleFacts DEF commit_guard, Go
  <2>2. /\ r \in HandleType /\ r.locked = h[p].locked /\ r.pc = "write"
        /\ r.meta = h[p].meta /\ r.batch = h[p].batch /\ r.stamp = h[p].stamp
        BY HandleFacts DEF HandleType
  <2> HIDE DEF r
  <2>3. ASSUME ~crossed' PROVE HandleOK(r) /\ \A q \in Procs \ {p} : h[q].pc \notin UnderWay
    <3>1. HandleOK(h[p])
          BY Zenon, <2>1, <2>3, HandleFacts
    <3>2. ~Stale(h[p].meta)
      <4>1. h[p].batch.txid = h[p].meta.txid + 1
            BY <1>0, <3>1 DEF HandleOK
      <4> QED
            BY <4>1, <1>2 DEF Stale, txid_in_slot
    <3>3. Newest(slot, h[p].meta)
          BY <1>0, <3>1, <3>2 DEF HandleOK
    <3> QED
          BY Zenon, <1>0, <2>1, <2>2, <2>3, <3>1, <3>3 DEF HandleOK
  <2>4. setup.locking /\ Scribes = {} => ~crossed'
        BY Zenon, <1>l, <2>1 DEF HandlesInv, Locked, UnderWay, Holding
  <2>5. /\ r.locked => lock' = p
        /\ \A q \in Procs \ {p} : h[q].locked => lock' = q
        BY <1>0, <2>2 DEF HandlesInv, Locked
  <2>6. crossed' \in BOOLEAN /\ (crossed => crossed')
        BY Zenon, <2>1
  <2>9. stamps' \in Nat /\ stamps <= stamps' /\ Stamped(r.meta, stamps') /\ Stamped(r.batch, stamps')
        BY <1>0, <2>2, HandleFacts
  <2>7. setup.locking /\ r.pc \in Holding => r.locked \/ (p \in Scribes /\ r.pc # "create")
        BY <1>l, <2>2
  <2>8. UNCHANGED <<setup, slot, durable, pages, acked>>
        BY <1>0
  <2> QED
        BY Zenon, <2>1, <2>2, <2>3, <2>4, <2>5, <2>6, <2>7, <2>8, <2>9, OneHandle
<1> QED
    BY <1>1, <1>2

(* A step of one process that writes to the file or syncs it.              *)
LEMMA FileStep ==
    ASSUME HandlesInv, NEW p \in Procs, NEW r \in HandleType, h' = [h EXCEPT ![p] = r],
           UNCHANGED <<setup, lock, stamps, crossed>>, pages' \in [FilePages -> Nat], acked' \subseteq Nat,
           r.locked = h[p].locked, h[p].pc \in Holding, r.pc # "create",
           SlotTypes(slot'), SlotTypes(durable'),
           \A s \in {slot', durable'} : \A i \in {0, 1} : IsMeta(s[i]) => Stamped(s[i], stamps),
           Stamped(r.meta, stamps), Stamped(r.batch, stamps),
           ~crossed => (SlotsOK(slot) /\ SlotsOK(durable) /\ Alone /\ Backed /\ \A q \in Procs : HandleOK(h[q]))'
    PROVE  HandlesInv'
<1>h. \A q \in Procs : h'[q] = IF q = p THEN r ELSE h[q]
    BY DEF HandlesInv, HandlesTypeOK
<1>1. HandlesTypeOK'
    BY DEF HandlesInv, HandlesTypeOK
<1>2. Locked'
    BY SMTT(40), <1>h DEF HandlesInv, Locked
<1>3. AllStamped'
    BY <1>h DEF HandlesInv, AllStamped
<1>4. Apart'
    BY DEF Apart
<1> QED
    BY <1>1, <1>2, <1>3, <1>4 DEF HandlesInv

(* Who may be at work while both slots are blank, and beside a writer.     *)
LEMMA ApartFacts ==
    ASSUME HandlesInv, ~crossed
    PROVE  SlotsOK(slot) /\ SlotsOK(durable) /\ Alone /\ Backed /\ \A q \in Procs : HandleOK(h[q])
BY DEF HandlesInv, Apart

LEMMA BlankMeansUnused ==
    ASSUME HandlesInv, ~crossed, slot[0] = Absent, slot[1] = Absent
    PROVE  /\ acked = {}
           /\ \A q \in Procs : h[q].pc \in {"none", "claim_new", "claim", "create", "recover"}
<1>1. \A i \in {0, 1} : ~IsMeta(slot[i])
    BY DEF IsMeta
<1>2. acked = {}
    BY <1>1, ApartFacts DEF Backed, BackedBy
<1>3. ASSUME NEW q \in Procs PROVE h[q].pc \in {"none", "claim_new", "claim", "create", "recover"}
  <2>1. h[q] \in HandleType /\ HandleOK(h[q])
        BY ApartFacts, HandleFacts
  <2>2. \A m : ~Newest(slot, m)
        BY <1>1 DEF Newest
  <2>3. ~Stale(h[q].meta)
    <3>1. (h[q].meta.txid + 1) % 2 \in {0, 1}
          BY <2>1, Parity DEF HandleType, MetaType
    <3> QED
          BY <3>1, <1>1 DEF Stale
  <2>4. Empty # Absent
        BY EmptyType DEF IsMeta
  <2> QED
        BY <2>1, <2>2, <2>3, <2>4 DEF HandleOK, HandleType
<1> QED
    BY <1>2, <1>3

LEMMA CreateSlot0Keeps ==
    ASSUME HandlesInv, NEW p \in Procs, create_slot0(p) PROVE HandlesInv'
<1>1. CASE ~(slot[0] = Absent /\ slot[1] = Absent)
    BY <1>1, ShutKeeps DEF create_slot0
<1>2. CASE slot[0] = Absent /\ slot[1] = Absent
  <2> DEFINE r == [h[p] EXCEPT !.pc = "create1"]
  <2>1. /\ h[p].pc = "create" /\ h' = [h EXCEPT ![p] = r] /\ slot' = [slot EXCEPT ![0] = Empty]
        /\ UNCHANGED <<setup, durable, pages, acked, lock, stamps, crossed>>
        BY <1>2, HandleFacts DEF create_slot0, Go
  <2>2. /\ r \in HandleType /\ r.locked = h[p].locked /\ r.pc = "create1"
        /\ r.meta = h[p].meta /\ r.batch = h[p].batch
        BY HandleFacts DEF HandleType
  <2> HIDE DEF r
  <2>3. slot'[0] = Empty /\ slot'[1] = Absent /\ SlotTypes(slot') /\ SlotTypes(durable')
        BY <2>1, <1>2, HandleFacts, EmptyType DEF SlotTypes
  <2>4. \A s \in {slot', durable'} : \A i \in {0, 1} : IsMeta(s[i]) => Stamped(s[i], stamps)
        BY ZenonT(60), <2>1, <2>3, HandleFacts, EmptyType DEF HandlesInv, AllStamped, Stamped, IsMeta
  <2>5. ASSUME ~crossed
        PROVE  (SlotsOK(slot) /\ SlotsOK(durable) /\ Alone /\ Backed /\ \A q \in Procs : HandleOK(h[q]))'
    <3>1. \A q \in Procs : h'[q] = IF q = p THEN r ELSE h[q]
          BY <2>1, HandleFacts
    <3>2. acked' = {} /\ \A q \in Procs : q # p => h'[q].pc \in {"none", "claim_new", "claim", "create", "recover"}
          BY <1>2, <2>1, <2>5, <3>1, BlankMeansUnused
    <3>3. SlotsOK(slot)' /\ SlotsOK(durable)'
          BY <2>1, <2>3, <2>5, ApartFacts DEF SlotsOK, SlotOK
    <3>4. Alone' /\ Backed'
          BY <3>2 DEF Alone, Backed, UnderWay
    <3>5. \A q \in Procs : HandleOK(h[q])'
          BY <2>2, <2>3, <3>1, <3>2 DEF HandleOK
    <3> QED
          BY <3>3, <3>4, <3>5
  <2>6. h[p].pc \in Holding /\ pages' \in [FilePages -> Nat] /\ acked' \subseteq Nat
        BY <2>1 DEF Holding, HandlesInv, HandlesTypeOK
  <2>7. Stamped(r.meta, stamps) /\ Stamped(r.batch, stamps)
        BY <2>2, HandleFacts
  <2> QED
        BY Zenon, <2>1, <2>2, <2>3, <2>4, <2>5, <2>6, <2>7, FileStep
<1> QED
    BY <1>1, <1>2

LEMMA CreateSlot1Keeps ==
    ASSUME HandlesInv, NEW p \in Procs, create_slot1(p) PROVE HandlesInv'
<1> DEFINE r == [h[p] EXCEPT !.pc = "create2"]
<1>1. /\ h[p].pc = "create1" /\ h' = [h EXCEPT ![p] = r] /\ slot' = [slot EXCEPT ![1] = Empty]
      /\ UNCHANGED <<setup, durable, pages, acked, lock, stamps, crossed>>
    BY HandleFacts DEF create_slot1, Go
<1>2. /\ r \in HandleType /\ r.locked = h[p].locked /\ r.pc = "create2"
      /\ r.meta = h[p].meta /\ r.batch = h[p].batch
    BY HandleFacts DEF HandleType
<1> HIDE DEF r
<1>3. slot'[0] = slot[0] /\ slot'[1] = Empty /\ SlotTypes(slot') /\ SlotTypes(durable')
    BY <1>1, HandleFacts, EmptyType DEF SlotTypes
<1>4. \A s \in {slot', durable'} : \A i \in {0, 1} : IsMeta(s[i]) => Stamped(s[i], stamps)
  <2>1. Stamped(Empty, stamps)
        BY HandleFacts, EmptyType DEF Stamped
  <2> QED
        BY Zenon, <1>1, <1>3, <2>1 DEF HandlesInv, AllStamped
<1>5. ASSUME ~crossed
      PROVE  (SlotsOK(slot) /\ SlotsOK(durable) /\ Alone /\ Backed /\ \A q \in Procs : HandleOK(h[q]))'
  <2>1. \A q \in Procs : h'[q] = IF q = p THEN r ELSE h[q]
        BY <1>1, HandleFacts
  <2>2. slot[0] = Empty /\ slot[1] = Absent /\ acked = {}
        BY <1>1, <1>5, ApartFacts DEF HandleOK
  <2>3. \A q \in Procs : q # p => h[q].pc \notin UnderWay
        BY <1>1, <1>5, ApartFacts DEF Alone, UnderWay
  <2>4. SlotsOK(slot)' /\ SlotsOK(durable)'
        BY <1>1, <1>3, <1>5, <2>2, ApartFacts DEF SlotsOK, SlotOK
  <2>5. Alone' /\ Backed'
        BY <1>1, <2>1, <2>2, <2>3 DEF Alone, Backed
  <2>6. ASSUME NEW q \in Procs PROVE HandleOK(h[q])'
    <3>1. CASE q = p
          BY SMTT(40), <1>1, <1>2, <1>3, <2>1, <2>2, <3>1 DEF HandleOK
    <3>2. CASE q # p
      <4>1. h'[q] = h[q] /\ HandleOK(h[q]) /\ h[q].pc \notin UnderWay /\ h[q] \in HandleType
            BY <1>5, <2>1, <2>3, <3>2, ApartFacts, HandleFacts
      <4>2. Newest(slot, h[q].meta) => Newest(slot', h[q].meta)
        <5>1. Newest(slot, h[q].meta) => h[q].meta = Empty
              BY <2>2 DEF Newest, IsMeta
        <5> QED
              BY <5>1, <1>3, <2>2, EmptyType DEF Newest
      <4>3. ~Stale(h[q].meta)
        <5>1. (h[q].meta.txid + 1) % 2 \in {0, 1} /\ h[q].meta.txid \in Nat
              BY <4>1, Parity DEF HandleType, MetaType
        <5> QED
              BY <5>1, <2>2, EmptyType DEF Stale, IsMeta
      <4> QED
            BY <4>1, <4>2, <4>3 DEF HandleOK, UnderWay
    <3> QED
          BY <3>1, <3>2
  <2> QED
        BY <2>4, <2>5, <2>6
<1>6. h[p].pc \in Holding /\ pages' \in [FilePages -> Nat] /\ acked' \subseteq Nat
    BY <1>1 DEF Holding, HandlesInv, HandlesTypeOK
<1>7. Stamped(r.meta, stamps) /\ Stamped(r.batch, stamps)
    BY SMTT(40), <1>2, HandleFacts
<1> QED
    BY Zenon, <1>1, <1>2, <1>3, <1>4, <1>5, <1>6, <1>7, FileStep

LEMMA CreateSyncKeeps ==
    ASSUME HandlesInv, NEW p \in Procs, create_sync(p) PROVE HandlesInv'
<1> DEFINE r == [h[p] EXCEPT !.pc = "open", !.meta = Empty]
<1>1. /\ h[p].pc = "create2" /\ h' = [h EXCEPT ![p] = r] /\ durable' = slot /\ acked' = acked \cup {0}
      /\ UNCHANGED <<setup, slot, pages, lock, stamps, crossed>>
    BY Zenon, HandleFacts DEF create_sync
<1>2. /\ r \in HandleType /\ r.locked = h[p].locked /\ r.pc = "open"
      /\ r.meta = Empty /\ r.batch = h[p].batch
    BY Zenon, HandleFacts, EmptyType DEF HandleType
<1> HIDE DEF r
<1>3. SlotTypes(slot') /\ SlotTypes(durable')
    BY <1>1, HandleFacts
<1>4. \A s \in {slot', durable'} : \A i \in {0, 1} : IsMeta(s[i]) => Stamped(s[i], stamps)
    BY <1>1 DEF HandlesInv, AllStamped
<1>5. ASSUME ~crossed
      PROVE  (SlotsOK(slot) /\ SlotsOK(durable) /\ Alone /\ Backed /\ \A q \in Procs : HandleOK(h[q]))'
  <2>1. \A q \in Procs : h'[q] = IF q = p THEN r ELSE h[q]
        BY <1>1, HandleFacts
  <2>2. slot[0] = Empty /\ slot[1] = Empty /\ acked = {}
        BY <1>1, <1>5, ApartFacts DEF HandleOK
  <2>3. \A q \in Procs : q # p => h[q].pc \notin UnderWay
        BY <1>1, <1>5, ApartFacts DEF Alone, UnderWay
  <2>4. SlotsOK(slot)' /\ SlotsOK(durable)'
        BY <1>1, <1>5, ApartFacts
  <2>5. Alone'
        BY <1>2, <2>1, <2>3 DEF Alone, UnderWay
  <2>6. BackedBy(0)'
        BY <1>1, <2>2, EmptyType DEF BackedBy, Holds
  <2>7. Newest(slot', Empty)
        BY SMTT(40), <1>1, <2>2, EmptyType DEF Newest
  <2>8. \A q \in Procs : HandleOK(h[q])'
        BY <1>1, <1>2, <1>5, <2>1, <2>3, <2>7, ApartFacts DEF HandleOK, UnderWay, Newest, Stale
  <2> QED
        BY <2>4, <2>5, <2>6, <2>8 DEF Backed
<1>6. h[p].pc \in Holding /\ pages' \in [FilePages -> Nat] /\ acked' \subseteq Nat
    BY SMTT(40), <1>1 DEF Holding, HandlesInv, HandlesTypeOK
<1>7. Stamped(r.meta, stamps) /\ Stamped(r.batch, stamps)
    BY SMTT(40), <1>2, HandleFacts, EmptyType DEF Stamped
<1> QED
    BY Zenon, <1>1, <1>2, <1>3, <1>4, <1>5, <1>6, <1>7, FileStep

(* The sync of the pages: what the file shows is now on the medium.        *)
LEMMA CommitPagesKeeps ==
    ASSUME HandlesInv, NEW p \in Procs, commit_pages(p) PROVE HandlesInv'
<1> DEFINE r == [h[p] EXCEPT !.pc = "meta"]
<1>1. /\ h[p].pc = "write" /\ h' = [h EXCEPT ![p] = r] /\ durable' = slot
      /\ pages' = IF h[p].page = 0 THEN pages ELSE [pages EXCEPT ![h[p].page] = h[p].stamp]
      /\ UNCHANGED <<setup, slot, acked, lock, stamps, crossed>>
    BY HandleFacts DEF commit_pages, Go
<1>2. /\ r \in HandleType /\ r.locked = h[p].locked /\ r.pc = "meta"
      /\ r.meta = h[p].meta /\ r.batch = h[p].batch /\ r.stamp = h[p].stamp
    BY HandleFacts DEF HandleType
<1> HIDE DEF r
<1>3. SlotTypes(slot') /\ SlotTypes(durable')
    BY <1>1, HandleFacts
<1>4. \A s \in {slot', durable'} : \A i \in {0, 1} : IsMeta(s[i]) => Stamped(s[i], stamps)
    BY <1>1 DEF HandlesInv, AllStamped
<1>5. ASSUME ~crossed
      PROVE  (SlotsOK(slot) /\ SlotsOK(durable) /\ Alone /\ Backed /\ \A q \in Procs : HandleOK(h[q]))'
  <2>1. \A q \in Procs : h'[q] = IF q = p THEN r ELSE h[q]
        BY <1>1, HandleFacts
  <2>2. \A q \in Procs : q # p => h[q].pc \notin UnderWay
        BY <1>1, <1>5, ApartFacts DEF Alone, UnderWay
  <2>3. SlotsOK(slot)' /\ SlotsOK(durable)'
        BY <1>1, <1>5, ApartFacts
  <2>4. Alone'
        BY <1>2, <2>1, <2>2 DEF Alone
  <2>5. Backed'
        BY SMTT(40), <1>1, <1>5, ApartFacts DEF Backed, BackedBy, Holds
  <2>6. \A q \in Procs : HandleOK(h[q])'
        BY <1>1, <1>2, <1>5, <2>1, <2>2, ApartFacts DEF HandleOK, UnderWay, Newest, Stale
  <2> QED
        BY <2>3, <2>4, <2>5, <2>6
<1>6. h[p].pc \in Holding /\ acked' \subseteq Nat
    BY <1>1 DEF Holding, HandlesInv, HandlesTypeOK
<1>7. pages' \in [FilePages -> Nat]
  <2>1. h[p].stamp \in Nat /\ pages \in [FilePages -> Nat]
        BY HandleFacts DEF HandleType, HandlesInv, HandlesTypeOK
  <2> QED
        BY Zenon, <1>1, <2>1
<1>8. Stamped(r.meta, stamps) /\ Stamped(r.batch, stamps)
    BY <1>2, HandleFacts
<1> QED
    BY Zenon, <1>1, <1>2, <1>3, <1>4, <1>5, <1>6, <1>7, <1>8, FileStep

(* The new meta is written over the older slot.                            *)
LEMMA CommitMetaKeeps ==
    ASSUME HandlesInv, NEW p \in Procs, commit_meta(p) PROVE HandlesInv'
<1> DEFINE r == [h[p] EXCEPT !.pc = "sync"]
           b == h[p].batch
           i == b.txid % 2
           m == h[p].meta
<1>1. /\ h[p].pc = "meta" /\ h' = [h EXCEPT ![p] = r] /\ slot' = [slot EXCEPT ![i] = b]
      /\ UNCHANGED <<setup, durable, pages, acked, lock, stamps, crossed>>
    BY HandleFacts DEF commit_meta, Go
<1>2. /\ r \in HandleType /\ r.locked = h[p].locked /\ r.pc = "sync"
      /\ r.meta = m /\ r.batch = b /\ r.stamp = h[p].stamp
    BY HandleFacts DEF HandleType
<1> HIDE DEF r
<1>3. b \in MetaType /\ m \in MetaType /\ i \in {0, 1} /\ IsMeta(b)
    BY SMTT(40), HandleFacts, Parity, MetaIsMeta DEF HandleType, MetaType
<1>4. /\ slot'[i] = b /\ slot'[1 - i] = slot[1 - i] /\ \A j \in {0, 1} : j = i \/ j = 1 - i
      /\ 1 - i \in {0, 1} /\ i # 1 - i
    BY SMTT(40), <1>1, <1>3, HandleFacts DEF SlotTypes
<1>5. SlotTypes(slot') /\ SlotTypes(durable')
    BY SMTT(40), <1>1, <1>3, HandleFacts DEF SlotTypes
<1>6. \A s \in {slot', durable'} : \A j \in {0, 1} : IsMeta(s[j]) => Stamped(s[j], stamps)
  <2>1. Stamped(b, stamps)
        BY HandleFacts
  <2> QED
        BY Zenon, <1>1, <1>4, <2>1 DEF HandlesInv, AllStamped
<1>7. ASSUME ~crossed
      PROVE  (SlotsOK(slot) /\ SlotsOK(durable) /\ Alone /\ Backed /\ \A q \in Procs : HandleOK(h[q]))'
  <2>1. \A q \in Procs : h'[q] = IF q = p THEN r ELSE h[q]
        BY <1>1, HandleFacts
  <2>2. \A q \in Procs : q # p => h[q].pc \notin UnderWay
        BY SMTT(40), <1>1, <1>7, ApartFacts DEF Alone, UnderWay
  <2>3. /\ Newest(slot, m) /\ durable = slot /\ b.txid = m.txid + 1 /\ m.line \subseteq b.line
        /\ h[p].stamp \in b.line /\ SlotsOK(slot)
        BY SMTT(40), <1>1, <1>7, ApartFacts DEF HandleOK
  <2>4. m.txid \in Nat /\ b.txid > 0 /\ 1 - i = m.txid % 2 /\ i = (m.txid + 1) % 2
        BY <1>3, <2>3, Parity DEF MetaType
  <2>o. \A j \in {0, 1} : IsMeta(slot[j]) => slot[j].txid \in Nat /\ slot[j].txid <= m.txid
        BY SMTT(40), <2>3, SlotMeta DEF Newest, MetaType, SlotsOK
  <2>5. SlotsOK(slot)' /\ SlotsOK(durable)'
    <3>1. SlotOK(b, i)
          BY <1>3, <2>4 DEF SlotOK
    <3> QED
          BY Zenon, <3>1, <1>1, <1>4, <1>5, <2>3 DEF SlotsOK
  <2>6. Alone'
        BY SMTT(40), <1>2, <2>1, <2>2 DEF Alone
  <2>7. Newest(slot', b)
        BY SMTT(40), <1>3, <1>4, <2>3, <2>4, <2>o DEF Newest
  <2>8. Backed'
    <3>0. PICK o \in {0, 1} : o = 1 - i
          BY <1>4
    <3> SUFFICES ASSUME acked # {} PROVE BackedBy(o)'
          BY <1>1 DEF Backed
    <3>1. PICK j \in {0, 1} : BackedBy(j)
          BY <1>7, ApartFacts DEF Backed
    <3>2. slot[1 - i] = m /\ Holds(m)
      <4>1. PICK k \in {0, 1} : m = slot[k] /\ IsMeta(slot[k])
            BY <2>3 DEF Newest
      <4>2. slot[k] = Empty \/ (slot[k].txid > 0 /\ slot[k].txid % 2 = k)
            BY <4>1, <2>3, SlotMeta DEF SlotsOK
      <4>3. IsMeta(slot[j]) /\ slot[j].txid % 2 = j /\ Holds(slot[j]) /\ slot[j].txid \in Nat
            BY <3>1, <2>o DEF BackedBy
      <4>4. CASE k = j
            BY <4>1, <4>3, <4>4, <2>4
      <4>5. CASE k = 1 - j
        <5>1. slot[k].txid < slot[j].txid \/ Holds(slot[k])
              BY <3>1, <4>1, <4>5 DEF BackedBy
        <5>2. slot[j].txid <= slot[k].txid /\ slot[k].txid \in Nat
              BY <4>1, <4>3, <2>o
        <5>3. Holds(slot[k])
              BY <5>1, <5>2, <4>3
        <5>4. CASE slot[k] = Empty
          <6>1. slot[j].txid = 0
                BY SMTT(40), <5>2, <5>4, <4>3, EmptyType
          <6>2. slot[j] = Empty
                BY <6>1, <4>3, <2>3, SlotMeta DEF SlotsOK
          <6> QED
                BY <6>2, <5>4, <5>3, <4>1, <4>3, <2>4, EmptyType
        <5>5. CASE slot[k].txid % 2 = k
              BY SMTT(40), <5>5, <5>3, <4>1, <2>4
        <5> QED
              BY <5>4, <5>5, <4>2
      <4> QED
            BY <4>4, <4>5
    <3>3. slot'[o] = m /\ durable'[o] = m /\ IsMeta(m) /\ m.txid % 2 = o
          BY SMTT(40), <3>0, <3>2, <1>1, <1>4, <2>3, <2>4 DEF Newest
    <3>4. 1 - o = i /\ slot'[1 - o] = b /\ durable'[1 - o] = slot[i]
          BY SMTT(60), <3>0, <1>1, <1>3, <1>4, <2>3
    <3>5. IsMeta(slot[i]) => slot[i].txid < m.txid \/ slot[i] = m
      <4>1. IsMeta(slot[i]) => slot[i].txid <= m.txid /\ slot[i].txid \in Nat
            BY SMTT(40), <1>3, <2>o
      <4>2. IsMeta(slot[i]) /\ slot[i].txid = m.txid => Newest(slot, slot[i])
            BY SMTT(40), <2>3, <1>3 DEF Newest
      <4> QED
            BY SMTT(60), <4>1, <4>2, <2>3, <2>4, NewestIsUnique
    <3>6. acked' \ {0} \subseteq m.line /\ acked' \ {0} \subseteq b.line
      <4>1. acked' = acked /\ acked \ {0} \subseteq m.line
            BY SMTT(40), <1>1, <3>2 DEF Holds
      <4> QED
            BY <4>1, <2>3
    <3> HIDE DEF i, b, m
    <3> QED
          BY <3>3, <3>4, <3>5, <3>6 DEF BackedBy, Holds
  <2>9. ASSUME NEW q \in Procs PROVE HandleOK(h[q])'
    <3>1. CASE q = p
          BY SMTT(40), <1>2, <1>4, <2>1, <2>3, <2>7, <3>1 DEF HandleOK
    <3>2. CASE q # p
      <4>1. h'[q] = h[q] /\ HandleOK(h[q]) /\ h[q].pc \notin UnderWay /\ h[q] \in HandleType
            BY SMTT(40), <1>7, <2>1, <2>2, <3>2, ApartFacts, HandleFacts
      <4>2. Newest(slot, h[q].meta) => Stale(h[q].meta)'
        <5>1. Newest(slot, h[q].meta) => h[q].meta = m
              BY SMTT(40), <2>3, NewestIsUnique
        <5> QED
              BY SMTT(60), <5>1, <4>1, <1>3, <1>4, <2>3, <2>4 DEF Stale
      <4>3. Stale(h[q].meta) => Stale(h[q].meta)'
        <5> DEFINE k == (h[q].meta.txid + 1) % 2
        <5>0. h[q].meta.txid \in Nat
              BY <4>1 DEF HandleType, MetaType
        <5>1. k \in {0, 1}
              BY SMTT(40), <5>0, Parity
        <5> HIDE DEF k
        <5>2. CASE k = i
          <6>1. Stale(h[q].meta) => h[q].meta.txid < b.txid
            <7>1. Stale(h[q].meta) => IsMeta(slot[i]) /\ slot[i].txid > h[q].meta.txid
                  BY SMTT(40), <5>2 DEF Stale, k
            <7>2. IsMeta(slot[i]) => slot[i].txid \in Nat /\ slot[i].txid <= m.txid
                  BY SMTT(40), <1>3, <2>o
            <7> QED
                  BY SMTT(40), <5>0, <7>1, <7>2, <2>3, <2>4
          <6>2. slot'[(h'[q].meta.txid + 1) % 2] = b /\ h'[q].meta.txid = h[q].meta.txid
                BY SMTT(40), <5>2, <4>1, <1>4 DEF k
          <6> HIDE DEF b
          <6> QED
                BY SMTT(40), <5>0, <6>1, <6>2, <1>3 DEF Stale, MetaType
        <5>3. CASE k = 1 - i
              BY <5>3, <4>1, <1>4 DEF Stale, k
        <5> QED
              BY <5>1, <5>2, <5>3, <1>4
      <4> QED
            BY SMTT(40), <4>1, <4>2, <4>3 DEF HandleOK, UnderWay
    <3> QED
          BY <3>1, <3>2
  <2> QED
        BY <2>5, <2>6, <2>8, <2>9
<1>8. h[p].pc \in Holding /\ acked' \subseteq Nat /\ pages' \in [FilePages -> Nat]
    BY SMTT(40), <1>1 DEF Holding, HandlesInv, HandlesTypeOK
<1>9. Stamped(r.meta, stamps) /\ Stamped(r.batch, stamps)
    BY SMTT(40), <1>2, HandleFacts
<1> QED
    BY Zenon, <1>1, <1>2, <1>5, <1>6, <1>7, <1>8, <1>9, FileStep

(* The second sync acknowledges the commit.                                *)
LEMMA CommitSyncKeeps ==
    ASSUME HandlesInv, NEW p \in Procs, commit_sync(p) PROVE HandlesInv'
<1> DEFINE b == h[p].batch
           r == [h[p] EXCEPT !.pc = "open", !.meta = b]
<1>1. /\ h[p].pc = "sync" /\ h' = [h EXCEPT ![p] = r] /\ durable' = slot
      /\ acked' = acked \cup {h[p].stamp}
      /\ UNCHANGED <<setup, slot, pages, lock, stamps, crossed>>
    BY Zenon, HandleFacts DEF commit_sync
<1>2. /\ r \in HandleType /\ r.locked = h[p].locked /\ r.pc = "open"
      /\ r.meta = b /\ r.batch = b /\ h[p].stamp \in Nat /\ b \in MetaType
    BY Zenon, HandleFacts DEF HandleType
<1> HIDE DEF r
<1>3. SlotTypes(slot') /\ SlotTypes(durable')
    BY <1>1, HandleFacts
<1>4. \A s \in {slot', durable'} : \A i \in {0, 1} : IsMeta(s[i]) => Stamped(s[i], stamps)
    BY <1>1 DEF HandlesInv, AllStamped
<1>5. ASSUME ~crossed
      PROVE  (SlotsOK(slot) /\ SlotsOK(durable) /\ Alone /\ Backed /\ \A q \in Procs : HandleOK(h[q]))'
  <2>1. \A q \in Procs : h'[q] = IF q = p THEN r ELSE h[q]
        BY <1>1, HandleFacts
  <2>2. \A q \in Procs : q # p => h[q].pc \notin UnderWay
        BY <1>1, <1>5, ApartFacts DEF Alone, UnderWay
  <2>3. SlotsOK(slot)' /\ SlotsOK(durable)'
        BY <1>1, <1>5, ApartFacts
  <2>4. Alone'
        BY SMTT(40), <1>2, <2>1, <2>2 DEF Alone, UnderWay
  <2>5. slot[b.txid % 2] = b /\ Newest(slot, b) /\ h[p].stamp \in b.line
        BY SMTT(40), <1>1, <1>5, ApartFacts DEF HandleOK
  <2>6. PICK i \in {0, 1} : i = b.txid % 2 /\ slot[i] = b
        BY SMTT(40), <1>2, <2>5, Parity DEF MetaType
  <2>7. \A j \in {0, 1} : IsMeta(slot[j]) => slot[j].txid \in Nat /\ slot[j].txid <= b.txid
        BY <2>5, HandleFacts, SlotMeta DEF Newest, MetaType
  <2>8. acked \ {0} \subseteq b.line
    <3>1. CASE acked = {}
          BY <3>1
    <3>2. CASE acked # {}
      <4>1. PICK j \in {0, 1} : BackedBy(j)
            BY SMTT(40), <1>5, <3>2, ApartFacts DEF Backed
      <4>2. CASE j = i
            BY Zenon, <4>1, <4>2, <2>6 DEF BackedBy, Holds
      <4>3. CASE j # i
        <5>1. i = 1 - j /\ IsMeta(slot[i]) /\ IsMeta(slot[j])
              BY <4>1, <4>3, <2>5, <2>6 DEF Newest, BackedBy
        <5>2. ~(slot[i].txid < slot[j].txid)
              BY SMTT(40), <5>1, <2>6, <2>7
        <5> QED
              BY SMTT(40), <4>1, <5>1, <5>2, <2>6 DEF BackedBy, Holds
      <4> QED
            BY <4>2, <4>3
    <3> QED
          BY <3>1, <3>2
  <2>9. BackedBy(i)'
    <3>1. slot'[i] = b /\ durable'[i] = b /\ IsMeta(b) /\ b.txid % 2 = i
          BY <1>1, <2>5, <2>6 DEF Newest
    <3>2. acked' \ {0} \subseteq b.line
          BY SMTT(40), <1>1, <2>5, <2>8
    <3>3. IsMeta(slot[1 - i]) => slot[1 - i].txid < b.txid \/ slot[1 - i] = b
      <4>1. 1 - i \in {0, 1} /\ b.txid \in Nat
            BY SMTT(40), <1>2 DEF MetaType
      <4>2. IsMeta(slot[1 - i]) /\ slot[1 - i].txid = b.txid => Newest(slot, slot[1 - i])
            BY <2>5, <4>1 DEF Newest
      <4> QED
            BY <4>1, <4>2, <2>5, <2>7, <1>5, ApartFacts, NewestIsUnique
    <3> HIDE DEF b
    <3> QED
          BY SMTT(40), <1>1, <3>1, <3>2, <3>3 DEF BackedBy, Holds
  <2>10. ASSUME NEW q \in Procs PROVE HandleOK(h[q])'
    <3>1. CASE q = p
          BY SMTT(40), <1>1, <1>2, <2>1, <2>5, <3>1 DEF HandleOK, Newest
    <3>2. CASE q # p
      <4>1. h'[q] = h[q] /\ HandleOK(h[q]) /\ h[q].pc \notin UnderWay
            BY <1>5, <2>1, <2>2, <3>2, ApartFacts
      <4> QED
            BY Zenon, <1>1, <4>1 DEF HandleOK, UnderWay, Newest, Stale
    <3> QED
          BY SMTT(40), <3>1, <3>2
  <2> QED
        BY <2>3, <2>4, <2>9, <2>10 DEF Backed
<1>6. h[p].pc \in Holding /\ pages' \in [FilePages -> Nat] /\ acked' \subseteq Nat
    BY Zenon, <1>1, <1>2 DEF Holding, HandlesInv, HandlesTypeOK
<1>7. Stamped(r.meta, stamps) /\ Stamped(r.batch, stamps)
    BY <1>2, HandleFacts
<1> QED
    BY Zenon, <1>1, <1>2, <1>3, <1>4, <1>5, <1>6, <1>7, FileStep

(* After a crash a slot is as it was, as it was on the medium, or torn.    *)
LEMMA CrashKeeps == ASSUME HandlesInv, crash PROVE HandlesInv'
<1>1. /\ durable' = slot' /\ h' = [p \in Procs |-> Shut] /\ lock' = Absent
      /\ UNCHANGED <<setup, pages, stamps, acked, crossed>>
    BY DEF crash
<1>2. SlotTypes(slot) /\ SlotTypes(durable) /\ stamps \in Nat
    BY DEF HandlesInv, HandlesTypeOK
<1>3. /\ slot' = [i \in {0, 1} |-> slot'[i]]
      /\ \A i \in {0, 1} : slot'[i] \in {slot[i], durable[i], Garbled} /\ (slot[i] = durable[i] => slot'[i] = slot[i])
    BY DEF crash
<1>4. SlotTypes(slot')
  <2>1. \A i \in {0, 1} : slot'[i] \in MetaType \cup {Absent, Garbled}
        BY <1>2, <1>3 DEF SlotTypes
  <2> QED
        BY <1>3, <2>1 DEF SlotTypes
<1>5. \A p \in Procs : h'[p] = Shut
    BY <1>1
<1>6. HandlesTypeOK'
  <2>1. h' \in [Procs -> HandleType]
        BY <1>1, ShutType
  <2> QED
        BY <1>1, <1>4, <2>1 DEF HandlesInv, HandlesTypeOK
<1>7. Locked'
    BY <1>1, <1>5, ShutType DEF HandlesInv, Locked, Holding
<1>8. AllStamped'
    BY <1>1, <1>2, <1>3, <1>5, ShutType DEF HandlesInv, AllStamped, IsMeta
<1>9. Apart'
  <2> SUFFICES ASSUME ~crossed
               PROVE  (SlotsOK(slot) /\ SlotsOK(durable) /\ Alone /\ Backed /\ \A q \in Procs : HandleOK(h[q]))'
        BY <1>1 DEF Apart
  <2>1. SlotsOK(slot') /\ SlotsOK(durable')
        BY <1>1, <1>3, <1>4, ApartFacts DEF SlotsOK, SlotOK
  <2>2. Alone'
        BY <1>5, ShutType DEF Alone, UnderWay
  <2>3. Backed'
    <3> SUFFICES ASSUME acked # {} PROVE Backed'
          BY <1>1 DEF Backed
    <3>1. PICK i \in {0, 1} : BackedBy(i)
          BY ApartFacts DEF Backed
    <3>2. slot'[i] = slot[i] /\ durable'[i] = slot[i]
          BY <1>1, <1>3, <3>1 DEF BackedBy
    <3>3. 1 - i \in {0, 1}
          OBVIOUS
    <3>4. slot'[1 - i] \in {slot[1 - i], durable[1 - i], Garbled} /\ durable'[1 - i] = slot'[1 - i]
          BY <1>1, <1>3, <3>3
    <3>5. IsMeta(slot'[1 - i]) => slot'[1 - i] \in {slot[1 - i], durable[1 - i]}
          BY <3>4 DEF IsMeta
    <3>6. BackedBy(i)'
          BY SMTT(40), <1>1, <3>1, <3>2, <3>4, <3>5 DEF BackedBy, Holds
    <3> QED
          BY <3>6 DEF Backed
  <2>4. \A q \in Procs : HandleOK(h[q])'
        BY <1>5, ShutType DEF HandleOK
  <2> QED
        BY <2>1, <2>2, <2>3, <2>4
<1> QED
    BY <1>6, <1>7, <1>8, <1>9 DEF HandlesInv

(* Every step of the files and their handles keeps the invariant.          *)
LEMMA HandlesNextInv == HandlesInv /\ [HandlesNext]_handleVars => HandlesInv'
<1> SUFFICES ASSUME HandlesInv, [HandlesNext]_handleVars PROVE HandlesInv'
    OBVIOUS
<1>1. ASSUME NEW p \in Procs, create_file(p) \/ open_file(p) \/ open_file_unlocked(p) PROVE HandlesInv'
    BY <1>1, OpenKeeps
<1>2. ASSUME NEW p \in Procs, claim(p) PROVE HandlesInv'
    BY <1>2, ClaimKeeps
<1>3. ASSUME NEW p \in Procs, create_slot0(p) \/ create_slot1(p) \/ create_sync(p) PROVE HandlesInv'
    BY <1>3, CreateSlot0Keeps, CreateSlot1Keeps, CreateSyncKeeps
<1>4. ASSUME NEW p \in Procs, recover(p) \/ pin(p) \/ forget(p) PROVE HandlesInv'
    BY <1>4, RecoverKeeps, PinKeeps
<1>5. ASSUME NEW p \in Procs, close(p) PROVE HandlesInv'
    BY Zenon, <1>5, ShutKeeps DEF close
<1>6. ASSUME NEW p \in Procs, begin(p) \/ collect(p) \/ commit_guard(p) PROVE HandlesInv'
    BY <1>6, BeginKeeps, CollectKeeps, GuardKeeps
<1>7. ASSUME NEW p \in Procs, commit_pages(p) \/ commit_meta(p) \/ commit_sync(p) PROVE HandlesInv'
    BY <1>7, CommitPagesKeeps, CommitMetaKeeps, CommitSyncKeeps
<1>8. ASSUME crash PROVE HandlesInv'
    BY <1>8, CrashKeeps
<1>9. ASSUME UNCHANGED handleVars PROVE HandlesInv'
    BY ZenonT(60), <1>9 DEF handleVars, HandlesInv, HandlesTypeOK, Locked, AllStamped, Apart, Alone, Backed, BackedBy, Holds,
                HandleOK, Newest, Stale
<1> QED
    BY <1>1, <1>2, <1>3, <1>4, <1>5, <1>6, <1>7, <1>8, <1>9 DEF HandlesNext

LEMMA HandlesInductive == HandlesSpec => []HandlesInv
BY HandlesInitInv, HandlesNextInv, PTL DEF HandlesSpec

(* A creation or a commit that was acknowledged stays readable and in the  *)
(* line of the newest meta, in the file and on the medium, whoever opens,  *)
(* closes, crashes or commits, as long as the lock or luck keeps writers   *)
(* apart: commit() syncs the pages before the meta and overwrites only the *)
(* older slot, create() syncs both before there is a handle.               *)
THEOREM AcknowledgedCommitsStay == HandlesSpec => []AcknowledgedStays
<1>1. HandlesInv => AcknowledgedStays
  <2> SUFFICES ASSUME HandlesInv, acked # {}, KeptApart, NEW s \in {slot, durable}
               PROVE  FoundIn(s) # Absent /\ acked \ {0} \subseteq FoundIn(s).line
        BY DEF AcknowledgedStays
  <2>1. ~crossed
        BY DEF KeptApart, HandlesInv, Locked
  <2>2. PICK i \in {0, 1} : BackedBy(i)
        BY <2>1, ApartFacts DEF Backed
  <2>3. s[i] = slot[i] /\ IsMeta(s[i]) /\ SlotsOK(s) /\ SlotTypes(s)
        BY <2>1, <2>2, ApartFacts DEF BackedBy, SlotsOK
  <2>4. FoundIn(s) # Absent
        BY <2>3, FoundIsNewest
  <2>5. Newest(s, FoundIn(s))
        BY <2>3, <2>4, FoundIsNewest
  <2>6. PICK j \in {0, 1} : FoundIn(s) = s[j] /\ IsMeta(s[j]) /\ s[i].txid <= s[j].txid
        BY <2>3, <2>5 DEF Newest
  <2>7. s[i].txid \in Nat /\ s[j].txid \in Nat
        BY <2>3, <2>6, SlotMeta DEF MetaType
  <2>8. CASE j = i
        BY SMTT(40), <2>2, <2>3, <2>4, <2>6, <2>8 DEF BackedBy, Holds
  <2>9. CASE j = 1 - i
        BY <2>2, <2>3, <2>4, <2>6, <2>7, <2>9 DEF BackedBy, Holds
  <2> QED
        BY <2>8, <2>9
<1> QED
    BY <1>1, HandlesInductive, PTL

(* Where the file system supports the lock and nobody writes without it,   *)
(* no commit ever begins while another one, or the creation, is under way: *)
(* FileStorage::claim() is enough to keep writers apart.                   *)
THEOREM TheLockKeepsWritersApart == HandlesSpec => [](setup.locking /\ Scribes = {} => ~crossed /\ Alone)
<1>1. HandlesInv => (setup.locking /\ Scribes = {} => ~crossed /\ Alone)
    BY DEF HandlesInv, Locked, Apart
<1> QED
    BY <1>1, HandlesInductive, PTL

-----------------------------------------------------------------------------
(* The pages under the commits that are kept.                              *)

LEMMA PagesFacts ==
    ASSUME PagesInv, ~crossed, ~setup.collecting
    PROVE  /\ Grows /\ \A s \in {slot, durable} : \A i \in {0, 1} : IsMeta(s[i]) => Intact(s[i])
           /\ \A p \in Procs : PagesOK(h[p])
BY DEF PagesInv

(* A step of one process that leaves slots and pages alone.                *)
LEMMA PagesQuiet ==
    ASSUME HandlesInv, PagesInv, UNCHANGED <<setup, slot, durable, pages>>, crossed => crossed',
           NEW p \in Procs, NEW r, h' = [h EXCEPT ![p] = r],
           ~crossed /\ ~setup.collecting => PagesOK(r)
    PROVE  PagesInv'
<1> SUFFICES ASSUME ~crossed, ~setup.collecting
             PROVE  (Grows /\ (\A s \in {slot, durable} : \A i \in {0, 1} : IsMeta(s[i]) => Intact(s[i]))
                     /\ \A q \in Procs : PagesOK(h[q]))'
    BY DEF PagesInv
<1>1. Grows'
    BY PagesFacts DEF Grows
<1>2. (\A s \in {slot, durable} : \A i \in {0, 1} : IsMeta(s[i]) => Intact(s[i]))'
    BY PagesFacts DEF Intact
<1>3. \A q \in Procs : h'[q] = IF q = p THEN r ELSE h[q]
    BY SMTT(40), HandleFacts
<1>4. \A q \in Procs : PagesOK(h[q])'
    BY SMTT(40), <1>3, PagesFacts DEF PagesOK, Intact, Covered
<1> QED
    BY <1>1, <1>2, <1>4

LEMMA ShutPages == PagesOK(Shut)
BY Zenon, ShutType DEF PagesOK

LEMMA OpeningKeepsPages ==
    ASSUME HandlesInv, PagesInv, NEW p \in Procs,
           create_file(p) \/ open_file(p) \/ open_file_unlocked(p) \/ claim(p) \/ close(p)
    PROVE  PagesInv'
<1>1. CASE h' = [h EXCEPT ![p] = Shut] /\ UNCHANGED <<setup, slot, durable, pages, crossed>>
    BY Zenon, <1>1, ShutPages, PagesQuiet
<1>2. CASE create_file(p) \/ open_file(p) \/ open_file_unlocked(p) \/ (claim(p) /\ h' # [h EXCEPT ![p] = Shut])
  <2>1. PICK pc \in {"claim_new", "claim", "recover", "create"}, l \in {h[p].locked, setup.locking} :
           /\ h' = [h EXCEPT ![p] = [h[p] EXCEPT !.locked = l, !.pc = pc]]
           /\ UNCHANGED <<setup, slot, durable, pages, crossed>>
    <3>1. h[p] \in HandleType /\ h \in [Procs -> HandleType]
          BY HandleFacts
    <3>2. CASE create_file(p) \/ open_file(p) \/ open_file_unlocked(p)
      <4>1. PICK pc \in {"claim_new", "claim", "recover", "create"} :
               h' = [h EXCEPT ![p].pc = pc] /\ UNCHANGED <<setup, slot, durable, pages, crossed>>
            BY <3>2 DEF create_file, open_file, open_file_unlocked, Go, fileVars
      <4>2. [h[p] EXCEPT !.locked = h[p].locked, !.pc = pc] = [h[p] EXCEPT !.pc = pc]
            BY Zenon, <3>1 DEF HandleType
      <4>3. h' = [h EXCEPT ![p] = [h[p] EXCEPT !.pc = pc]]
            BY <3>1, <4>1
      <4> QED
            BY Zenon, <4>1, <4>2, <4>3
    <3>3. CASE claim(p) /\ h' # [h EXCEPT ![p] = Shut]
      <4> DEFINE pc == IF h[p].pc = "claim" THEN "recover" ELSE "create"
      <4>1. h' = [h EXCEPT ![p] = [h[p] EXCEPT !.locked = setup.locking, !.pc = pc]]
            BY Zenon, <3>1, <3>3 DEF claim
      <4>2. UNCHANGED <<setup, slot, durable, pages, crossed>>
            BY <3>3 DEF claim
      <4> QED
            BY Zenon, <4>1, <4>2
    <3> QED
          BY <1>2, <3>2, <3>3
  <2> DEFINE r == [h[p] EXCEPT !.locked = l, !.pc = pc]
  <2>2. r.snap = h[p].snap /\ r.pc = pc
        BY HandleFacts DEF HandleType
  <2>3. h' = [h EXCEPT ![p] = r]
        BY SMTT(40), <2>1
  <2> HIDE DEF r
  <2>4. ~crossed /\ ~setup.collecting => PagesOK(r)
        BY <2>2, PagesFacts DEF PagesOK
  <2> QED
        BY Zenon, <2>1, <2>3, <2>4, PagesQuiet
<1>3. claim(p) \/ close(p) => UNCHANGED <<setup, slot, durable, pages, crossed>>
    BY DEF claim, close
<1>4. close(p) => h' = [h EXCEPT ![p] = Shut]
    BY DEF close
<1> QED
    BY <1>1, <1>2, <1>3, <1>4

LEMMA RecoverKeepsPages ==
    ASSUME HandlesInv, PagesInv, NEW p \in Procs, recover(p) PROVE PagesInv'
<1>1. CASE FoundIn(slot) = Absent
    BY <1>1, ShutPages, PagesQuiet DEF recover
<1>2. CASE FoundIn(slot) # Absent
  <2> DEFINE r == [h[p] EXCEPT !.pc = "open", !.meta = FoundIn(slot)]
  <2>1. h' = [h EXCEPT ![p] = r] /\ UNCHANGED <<setup, slot, durable, pages, crossed>>
        BY Zenon, <1>2, HandleFacts DEF recover
  <2>2. r.snap = h[p].snap /\ r.pc = "open" /\ r.meta = FoundIn(slot)
        BY SMTT(40), HandleFacts DEF HandleType
  <2> HIDE DEF r
  <2>3. Newest(slot, FoundIn(slot))
        BY <1>2, HandleFacts, FoundIsNewest
  <2>4. PICK i \in {0, 1} : FoundIn(slot) = slot[i] /\ IsMeta(slot[i])
        BY <2>3 DEF Newest
  <2>5. slot[i].next \in Nat
        BY SMTT(40), <2>4, HandleFacts, SlotMeta DEF MetaType
  <2>6. ~crossed /\ ~setup.collecting => PagesOK(r)
        BY <2>2, <2>4, <2>5, PagesFacts DEF PagesOK, Covered
  <2> QED
        BY Zenon, <2>1, <2>6, PagesQuiet
<1> QED
    BY <1>1, <1>2

LEMMA PinKeepsPages ==
    ASSUME HandlesInv, PagesInv, NEW p \in Procs, pin(p) \/ forget(p) PROVE PagesInv'
<1>1. PICK c \in h[p].meta.kept \cup {Absent} :
         /\ h[p].pc = "open" /\ h' = [h EXCEPT ![p].snap = c]
         /\ UNCHANGED <<setup, slot, durable, pages, crossed>>
    BY DEF pin, forget, fileVars
<1> DEFINE r == [h[p] EXCEPT !.snap = c]
<1>2. h' = [h EXCEPT ![p] = r]
    BY <1>1, HandleFacts
<1>3. r.snap = c /\ r.pc = "open" /\ r.meta = h[p].meta /\ h[p].meta \in MetaType
    BY SMTT(40), <1>1, HandleFacts DEF HandleType
<1> HIDE DEF r
<1>4. ASSUME ~crossed, ~setup.collecting PROVE PagesOK(r)
  <2>1. Intact(h[p].meta) /\ Covered(h[p].meta.next)
        BY SMTT(40), <1>1, <1>4, PagesFacts DEF PagesOK
  <2>2. ASSUME c # Absent PROVE c.page \in FilePages /\ Covered(c.page + 1) /\ pages[c.page] = c.stamp
    <3>1. c.page \in FilePages /\ c.page < h[p].meta.next /\ pages[c.page] = c.stamp
          BY <1>1, <2>1, <2>2 DEF Intact
    <3>2. c.page + 1 <= h[p].meta.next /\ c.page \in Nat /\ h[p].meta.next \in Nat
          BY <1>3, <3>1, HandlesAssumption DEF FilePages, MetaType
    <3>3. PICK i \in {0, 1} : IsMeta(slot[i]) /\ h[p].meta.next <= slot[i].next
          BY <2>1 DEF Covered
    <3>4. slot[i].next \in Nat
          BY <3>3, HandleFacts, SlotMeta DEF MetaType
    <3> QED
          BY <3>1, <3>2, <3>3, <3>4 DEF Covered
  <2> QED
        BY <1>3, <2>1, <2>2 DEF PagesOK
<1> QED
    BY Zenon, <1>1, <1>2, <1>4, PagesQuiet

(* Without gc there are no free pages: a batch writes behind the others.   *)
LEMMA BeginKeepsPages ==
    ASSUME HandlesInv, PagesInv, NEW p \in Procs, begin(p) PROVE PagesInv'
<1> DEFINE base == h[p].meta
           b(page) == [txid |-> base.txid + 1,
                       next |-> IF page = base.next THEN page + 1 ELSE base.next,
                       free |-> base.free \ {page},
                       kept |-> base.kept \cup {[page |-> page, stamp |-> stamps + 1]},
                       line |-> base.line \cup {stamps + 1}]
<1>1. PICK page \in Allocatable(base) \cap FilePages :
         h' = [h EXCEPT ![p].pc = "guard", ![p].page = page, ![p].stamp = stamps + 1, ![p].batch = b(page)]
    BY Zenon DEF begin
<1>2. h[p].pc = "open" /\ UNCHANGED <<setup, slot, durable, pages, crossed>>
    BY SMTT(40) DEF begin, MayWrite, fileVars
<1>3. /\ b(page).next = (IF page = base.next THEN page + 1 ELSE base.next)
      /\ b(page).free = base.free \ {page}
      /\ b(page).kept = base.kept \cup {[page |-> page, stamp |-> stamps + 1]}
    OBVIOUS
<1> HIDE DEF b
<1> DEFINE r == [h[p] EXCEPT !.pc = "guard", !.page = page, !.stamp = stamps + 1, !.batch = b(page)]
<1>4. h' = [h EXCEPT ![p] = r]
    BY Zenon, <1>1, HandleFacts
<1>5. /\ r.pc = "guard" /\ r.page = page /\ r.stamp = stamps + 1 /\ r.batch = b(page)
      /\ r.meta = base /\ r.snap = h[p].snap
    BY SMTT(40), HandleFacts DEF HandleType
<1> HIDE DEF r
<1>6. ASSUME ~crossed, ~setup.collecting PROVE PagesOK(r)
  <2>1. PagesOK(h[p])
        BY SMTT(40), <1>6, PagesFacts
  <2>2. Intact(base) /\ Covered(base.next)
        BY SMTT(40), <1>2, <2>1 DEF PagesOK
  <2>3. base.free = {} /\ page = base.next /\ page \in FilePages
        BY SMTT(40), <2>2 DEF Intact, Allocatable
  <2> QED
        BY <1>3, <1>5, <2>1, <2>2, <2>3 DEF PagesOK
<1> QED
    BY Zenon, <1>2, <1>4, <1>6, PagesQuiet

LEMMA CollectKeepsPages ==
    ASSUME HandlesInv, PagesInv, NEW p \in Procs, collect(p) PROVE PagesInv'
BY Zenon DEF collect, PagesInv, fileVars

LEMMA GuardKeepsPages ==
    ASSUME HandlesInv, PagesInv, NEW p \in Procs, commit_guard(p) PROVE PagesInv'
<1>1. PICK pc \in {"open", "write"} : h' = [h EXCEPT ![p].pc = pc]
    BY DEF commit_guard, Go
<1>2. h[p].pc = "guard" /\ UNCHANGED <<setup, slot, durable, pages>> /\ (crossed => crossed')
    BY Zenon DEF commit_guard, fileVars
<1> DEFINE r == [h[p] EXCEPT !.pc = pc]
<1>3. h' = [h EXCEPT ![p] = r]
    BY <1>1, HandleFacts
<1>4. /\ r.pc = pc /\ r.page = h[p].page /\ r.stamp = h[p].stamp /\ r.batch = h[p].batch
      /\ r.meta = h[p].meta /\ r.snap = h[p].snap
    BY SMTT(40), HandleFacts DEF HandleType
<1> HIDE DEF r
<1>5. ~crossed /\ ~setup.collecting => PagesOK(r)
    BY <1>2, <1>4, PagesFacts DEF PagesOK
<1> QED
    BY Zenon, <1>2, <1>3, <1>5, PagesQuiet

(* A step that writes slots or pages.                                      *)
LEMMA EmptyIsIntact == Intact(Empty) /\ Empty.next = 2
<1>1. Empty.free = {} /\ Empty.next = 2 /\ Empty.kept = {}
    BY DEF Empty
<1> QED
    BY <1>1 DEF Intact

(* A blank slot is filled: no meta on either side has more pages and is    *)
(* older.                                                                  *)
LEMMA FillingGrows ==
    ASSUME HandlesInv, PagesInv, ~crossed, ~setup.collecting, UNCHANGED <<durable, pages>>,
           NEW i \in {0, 1}, slot' = [slot EXCEPT ![i] = Empty], ~IsMeta(slot[i])
    PROVE  /\ Grows' /\ \A n : Covered(n) => Covered(n)'
           /\ (\A s \in {slot, durable} : \A j \in {0, 1} : IsMeta(s[j]) => Intact(s[j]))'
<1>1. SlotsOK(slot) /\ SlotsOK(durable) /\ SlotTypes(slot) /\ SlotTypes(durable)
    BY ApartFacts, HandleFacts DEF SlotsOK
<1>2. slot'[i] = Empty /\ \A j \in {0, 1} : j # i => slot'[j] = slot[j]
    BY <1>1 DEF SlotTypes
<1>3. \A n : Covered(n) => Covered(n)'
    BY <1>2 DEF Covered
<1>4. (\A s \in {slot, durable} : \A j \in {0, 1} : IsMeta(s[j]) => Intact(s[j]))'
    BY ZenonT(60), <1>2, PagesFacts, EmptyIsIntact DEF Intact
<1>5. ASSUME NEW u \in {slot, durable}, NEW j \in {0, 1}, IsMeta(u[j])
      PROVE  /\ u[j].txid \in Nat /\ u[j].next \in Nat /\ 2 <= u[j].next
             /\ u[j].txid = 0 => u[j] = Empty
  <2>1. u[j] \in MetaType /\ (u[j] = Empty \/ u[j].txid > 0)
        BY <1>1, <1>5, SlotMeta
  <2>2. Intact(u[j])
        BY <1>5, PagesFacts
  <2> QED
        BY <2>1, <2>2 DEF MetaType, Intact
<1>6. Grows'
  <2> SUFFICES ASSUME NEW s \in {slot', durable'}, NEW u \in {slot', durable'} PROVE Ordered(s, u)
        BY Zenon DEF Grows
  <2> SUFFICES ASSUME NEW j \in {0, 1}, IsMeta(s[j]), IsMeta(u[1 - j]), s[j].txid <= u[1 - j].txid
               PROVE  s[j].next <= u[1 - j].next
        BY DEF Ordered
  <2>0. 1 - j \in {0, 1} /\ j # 1 - j
        OBVIOUS
  <2>1. CASE s = slot' /\ j = i
    <3>1. s[j] = Empty /\ (u[1 - j] = slot[1 - j] \/ u[1 - j] = durable[1 - j])
          BY Zenon, <1>2, <2>0, <2>1
    <3>2. 2 <= u[1 - j].next
          BY <3>1, <1>5, <2>0
    <3> QED
          BY <3>1, <3>2, EmptyIsIntact
  <2>2. CASE u = slot' /\ 1 - j = i
    <3>1. u[1 - j] = Empty /\ (s[j] = slot[j] \/ s[j] = durable[j])
          BY Zenon, <1>2, <2>0, <2>2
    <3>2. s[j].txid = 0
          BY <3>1, <1>5, EmptyType
    <3>3. s[j] = Empty
          BY <3>1, <3>2, <1>5
    <3> QED
          BY <3>1, <3>3, EmptyIsIntact
  <2>3. CASE ~(s = slot' /\ j = i) /\ ~(u = slot' /\ 1 - j = i)
    <3>1. (s[j] = slot[j] \/ s[j] = durable[j]) /\ (u[1 - j] = slot[1 - j] \/ u[1 - j] = durable[1 - j])
          BY Zenon, <1>2, <2>0, <2>3
    <3> QED
          BY <3>1, PagesFacts DEF Grows, Ordered
  <2> QED
        BY <2>1, <2>2, <2>3
<1> QED
    BY <1>3, <1>4, <1>6

LEMMA CreatingKeepsPages ==
    ASSUME HandlesInv, PagesInv, NEW p \in Procs, create_slot0(p) \/ create_slot1(p) PROVE PagesInv'
<1>1. CASE create_slot0(p) /\ ~(slot[0] = Absent /\ slot[1] = Absent)
    BY <1>1, ShutPages, PagesQuiet DEF create_slot0
<1>2. CASE create_slot1(p) \/ (slot[0] = Absent /\ slot[1] = Absent)
  <2> SUFFICES ASSUME ~crossed', ~setup'.collecting
               PROVE  (Grows /\ (\A s \in {slot, durable} : \A i \in {0, 1} : IsMeta(s[i]) => Intact(s[i]))
                       /\ \A q \in Procs : PagesOK(h[q]))'
        BY DEF PagesInv
  <2>0. ~crossed /\ ~setup.collecting /\ UNCHANGED <<durable, pages, setup, crossed>>
        BY DEF create_slot0, create_slot1
  <2>1. PICK i \in {0, 1}, pc \in {"create1", "create2"} :
           slot' = [slot EXCEPT ![i] = Empty] /\ slot[i] = Absent /\ h' = [h EXCEPT ![p].pc = pc]
    <3>1. create_slot1(p) => slot[1] = Absent
          BY Zenon, <2>0, ApartFacts DEF create_slot1, HandleOK
    <3>2. create_slot0(p) /\ slot[0] = Absent /\ slot[1] = Absent
             => slot' = [slot EXCEPT ![0] = Empty] /\ h' = [h EXCEPT ![p].pc = "create1"]
          BY DEF create_slot0, Go
    <3>3. create_slot1(p) => slot' = [slot EXCEPT ![1] = Empty] /\ h' = [h EXCEPT ![p].pc = "create2"]
          BY DEF create_slot1, Go
    <3> QED
          BY SMTT(40), <1>2, <3>1, <3>2, <3>3
  <2>2. /\ Grows' /\ (\A n : Covered(n) => Covered(n)')
        /\ (\A s \in {slot, durable} : \A j \in {0, 1} : IsMeta(s[j]) => Intact(s[j]))'
        BY Zenon, <2>0, <2>1, FillingGrows DEF IsMeta
  <2>3. \A q \in Procs : q # p => h'[q] = h[q]
        BY <2>1, HandleFacts
  <2>4. h'[p].pc \in {"create1", "create2"} /\ h'[p].snap = h[p].snap
        BY <2>1, HandleFacts DEF HandleType
  <2>5. \A q \in Procs : PagesOK(h[q])
        BY <2>0, PagesFacts
  <2>6. ASSUME NEW q \in Procs PROVE PagesOK(h[q])'
    <3>1. CASE q # p
          BY SMTT(40), <2>0, <2>2, <2>3, <2>5, <3>1 DEF PagesOK, Intact
    <3>2. CASE q = p
          BY SMTT(40), <2>0, <2>2, <2>4, <2>5, <3>2 DEF PagesOK, Intact
    <3> QED
          BY SMTT(40), <3>1, <3>2
  <2> QED
        BY <2>2, <2>6
<1> QED
    BY <1>1, <1>2

LEMMA CreateSyncKeepsPages ==
    ASSUME HandlesInv, PagesInv, NEW p \in Procs, create_sync(p) PROVE PagesInv'
<1> SUFFICES ASSUME ~crossed', ~setup'.collecting
             PROVE  (Grows /\ (\A s \in {slot, durable} : \A i \in {0, 1} : IsMeta(s[i]) => Intact(s[i]))
                     /\ \A q \in Procs : PagesOK(h[q]))'
    BY DEF PagesInv
<1>0. /\ ~crossed /\ ~setup.collecting /\ UNCHANGED <<slot, pages, setup, crossed>> /\ durable' = slot
      /\ h[p].pc = "create2" /\ h' = [h EXCEPT ![p].pc = "open", ![p].meta = Empty]
    BY DEF create_sync
<1>1. Grows'
    BY <1>0, PagesFacts DEF Grows
<1>2. (\A s \in {slot, durable} : \A i \in {0, 1} : IsMeta(s[i]) => Intact(s[i]))'
    BY <1>0, PagesFacts DEF Intact
<1>3. \A q \in Procs : q # p => h'[q] = h[q]
    BY <1>0, HandleFacts
<1>4. h'[p].pc = "open" /\ h'[p].meta = Empty /\ h'[p].snap = h[p].snap
    BY <1>0, HandleFacts DEF HandleType
<1>5. slot[0] = Empty
    BY <1>0, ApartFacts DEF HandleOK
<1>6. Covered(Empty.next)
    BY <1>5, EmptyType, EmptyIsIntact DEF Covered
<1>7. \A q \in Procs : PagesOK(h[q])
    BY <1>0, PagesFacts
<1>8. \A q \in Procs : PagesOK(h[q])'
  <2>1. \A q \in Procs : q # p => PagesOK(h[q])'
        BY ZenonT(60), <1>0, <1>3, <1>7 DEF PagesOK, Intact, Covered
  <2>2. Intact(Empty)' /\ Covered(Empty.next)'
        BY <1>0, <1>6, EmptyIsIntact DEF Intact, Covered
  <2>3. PagesOK(h[p])'
    <3>1. h[p].snap # Absent =>
             h[p].snap.page \in FilePages /\ Covered(h[p].snap.page + 1) /\ pages[h[p].snap.page] = h[p].snap.stamp
          BY <1>7 DEF PagesOK
    <3> QED
          BY Zenon, <1>0, <1>4, <2>2, <3>1 DEF PagesOK, Covered, Intact
  <2> QED
        BY <2>1, <2>3
<1> QED
    BY SMTT(40), <1>1, <1>2, <1>8

(* Every meta in the file has at most the pages of the newest.             *)
LEMMA NewestIsLargest ==
    ASSUME HandlesInv, PagesInv, ~crossed, ~setup.collecting, NEW m, Newest(slot, m)
    PROVE  /\ m.next \in Nat /\ m.txid \in Nat
           /\ \A i \in {0, 1} : IsMeta(slot[i]) =>
                slot[i].next \in Nat /\ slot[i].txid \in Nat /\ slot[i].next <= m.next /\ slot[i].txid <= m.txid
           /\ \A n \in Nat : Covered(n) => n <= m.next
<1>0. SlotTypes(slot)
    BY ApartFacts DEF SlotsOK
<1>1. PICK k \in {0, 1} : m = slot[k] /\ IsMeta(slot[k])
    BY SMTT(40) DEF Newest
<1>2. \A i \in {0, 1} : IsMeta(slot[i]) => slot[i].next \in Nat /\ slot[i].txid \in Nat /\ slot[i].txid <= m.txid
    BY <1>0, SlotMeta DEF MetaType, Newest
<1>3. \A i \in {0, 1} : i = k \/ (k = 1 - i)
    OBVIOUS
<1>4. Ordered(slot, slot)
    BY PagesFacts DEF Grows
<1>5. \A i \in {0, 1} : IsMeta(slot[i]) => slot[i].next <= m.next
    BY <1>1, <1>2, <1>3, <1>4 DEF Ordered
<1> QED
    BY <1>1, <1>2, <1>5 DEF Covered

(* The page goes behind every page that a meta, a handle or a snapshot     *)
(* relies on.                                                              *)
LEMMA CommitPagesKeepsPages ==
    ASSUME HandlesInv, PagesInv, NEW p \in Procs, commit_pages(p) PROVE PagesInv'
<1> SUFFICES ASSUME ~crossed', ~setup'.collecting
             PROVE  (Grows /\ (\A s \in {slot, durable} : \A i \in {0, 1} : IsMeta(s[i]) => Intact(s[i]))
                     /\ \A q \in Procs : PagesOK(h[q]))'
    BY DEF PagesInv
<1>0. /\ ~crossed /\ ~setup.collecting /\ UNCHANGED <<slot, setup, crossed>> /\ durable' = slot
      /\ h[p].pc = "write" /\ h' = [h EXCEPT ![p].pc = "meta"]
      /\ pages' = IF h[p].page = 0 THEN pages ELSE [pages EXCEPT ![h[p].page] = h[p].stamp]
    BY DEF commit_pages, Go
<1>1. Newest(slot, h[p].meta) /\ PagesOK(h[p])
    BY <1>0, ApartFacts, PagesFacts DEF HandleOK
<1>2. PICK g \in FilePages : g = h[p].page /\ g = h[p].meta.next
    BY <1>0, <1>1 DEF PagesOK
<1>3. g \in Nat /\ g # 0 /\ pages \in [FilePages -> Nat]
    BY <1>2, HandlesAssumption DEF FilePages, HandlesInv, HandlesTypeOK
<1>4. pages'[g] = h[p].stamp /\ \A x \in FilePages : x < g => pages'[x] = pages[x]
    BY <1>0, <1>2, <1>3
<1>5. /\ \A i \in {0, 1} : IsMeta(slot[i]) => slot[i].next \in Nat /\ slot[i].next <= g
      /\ \A n \in Nat : Covered(n) => n <= g
    BY <1>0, <1>1, <1>2, NewestIsLargest
<1>6. \A m : m.next \in Nat /\ m.next <= g /\ Intact(m) => Intact(m)'
  <2> SUFFICES ASSUME NEW m, m.next \in Nat, m.next <= g, Intact(m), NEW c \in m.kept
               PROVE  pages'[c.page] = c.stamp
        BY DEF Intact
  <2>1. c.page \in FilePages /\ c.page < m.next /\ pages[c.page] = c.stamp
        BY DEF Intact
  <2>2. c.page < g
        BY <1>3, <2>1, HandlesAssumption DEF FilePages
  <2> QED
        BY <1>4, <2>1, <2>2
<1>7. Grows'
    BY <1>0, PagesFacts DEF Grows
<1>8. (\A s \in {slot, durable} : \A i \in {0, 1} : IsMeta(s[i]) => Intact(s[i]))'
    BY SMTT(40), <1>0, <1>5, <1>6, PagesFacts
<1>9. ASSUME NEW q \in Procs PROVE PagesOK(h[q])'
  <2>1. PagesOK(h[q]) /\ h[q] \in HandleType
        BY <1>0, PagesFacts, HandleFacts
  <2>2. /\ h'[q].snap = h[q].snap /\ h'[q].meta = h[q].meta /\ h'[q].batch = h[q].batch
        /\ h'[q].page = h[q].page /\ h'[q].stamp = h[q].stamp
        /\ h'[q].pc = IF q = p THEN "meta" ELSE h[q].pc
        BY <1>0, HandleFacts DEF HandleType
  <2>3. q # p => h[q].pc \notin UnderWay
        BY <1>0, ApartFacts DEF Alone, UnderWay
  <2>4. \A n : Covered(n) => Covered(n)'
        BY <1>0 DEF Covered
  <2>5. ASSUME h[q].snap # Absent
        PROVE  h[q].snap.page \in FilePages /\ Covered(h[q].snap.page + 1) /\ pages'[h[q].snap.page] = h[q].snap.stamp
    <3>1. /\ h[q].snap.page \in FilePages /\ Covered(h[q].snap.page + 1)
          /\ pages[h[q].snap.page] = h[q].snap.stamp
          BY <2>1, <2>5 DEF PagesOK
    <3>2. h[q].snap.page \in Nat /\ h[q].snap.page + 1 \in Nat
          BY <3>1, HandlesAssumption DEF FilePages
    <3>3. h[q].snap.page < g
          BY SMTT(40), <1>3, <1>5, <3>1, <3>2
    <3> QED
          BY SMTT(40), <1>4, <3>1, <3>3
  <2>6. ASSUME h[q].pc \in {"open", "guard", "write", "meta", "sync"}
        PROVE  Intact(h[q].meta)' /\ Covered(h[q].meta.next)
    <3>1. Intact(h[q].meta) /\ Covered(h[q].meta.next)
          BY SMTT(40), <2>1, <2>6 DEF PagesOK
    <3>2. h[q].meta.next \in Nat
          BY <2>1 DEF HandleType, MetaType
    <3>3. h[q].meta.next <= g
          BY <1>5, <3>1, <3>2
    <3> QED
          BY SMTT(40), <1>4, <1>6, <2>2, <3>1, <3>2, <3>3 DEF Intact
  <2>7. q = p => h'[q].pc = "meta" /\ pages'[h'[q].page] = h'[q].stamp
        BY Zenon, <1>2, <1>4, <2>2
  <2>8. q # p => h'[q].pc \notin {"write", "meta", "sync"}
        BY <2>2, <2>3 DEF UnderWay
  <2>9. h'[q].pc \in {"guard", "write", "meta", "sync"} => h[q].pc \in {"guard", "write", "meta", "sync"}
        BY <1>0, <2>2
  <2> QED
        BY <1>0, <2>1, <2>2, <2>4, <2>5, <2>6, <2>7, <2>8, <2>9 DEF PagesOK
<1> QED
    BY <1>7, <1>8, <1>9

(* The new meta names more pages than any other.                           *)
LEMMA CommitMetaKeepsPages ==
    ASSUME HandlesInv, PagesInv, NEW p \in Procs, commit_meta(p) PROVE PagesInv'
<1> SUFFICES ASSUME ~crossed', ~setup'.collecting
             PROVE  (Grows /\ (\A s \in {slot, durable} : \A i \in {0, 1} : IsMeta(s[i]) => Intact(s[i]))
                     /\ \A q \in Procs : PagesOK(h[q]))'
    BY DEF PagesInv
<1>0. /\ ~crossed /\ ~setup.collecting /\ UNCHANGED <<durable, pages, setup, crossed>>
      /\ h[p].pc = "meta" /\ h' = [h EXCEPT ![p].pc = "sync"]
      /\ slot' = [slot EXCEPT ![h[p].batch.txid % 2] = h[p].batch]
    BY DEF commit_meta, Go
<1>1. /\ Newest(slot, h[p].meta) /\ durable = slot /\ h[p].batch.txid = h[p].meta.txid + 1
      /\ PagesOK(h[p])
    BY <1>0, ApartFacts, PagesFacts DEF HandleOK
<1>2. PICK b \in MetaType : b = h[p].batch
    BY HandleFacts DEF HandleType
<1>3. PICK i \in {0, 1} : i = b.txid % 2
    BY Parity DEF MetaType
<1>4. slot'[i] = b /\ IsMeta(b) /\ \A j \in {0, 1} : j # i => slot'[j] = slot[j]
    BY <1>0, <1>2, <1>3, MetaIsMeta, HandleFacts DEF SlotTypes
<1>5. /\ b.next \in Nat /\ b.txid \in Nat
      /\ \A j \in {0, 1} : IsMeta(slot[j]) =>
            slot[j].next \in Nat /\ slot[j].txid \in Nat /\ slot[j].next <= b.next /\ slot[j].txid < b.txid
  <2>1. b.next = h[p].meta.next + 1
        BY SMTT(40), <1>0, <1>1, <1>2 DEF PagesOK
  <2> QED
        BY <1>0, <1>1, <1>2, <2>1, NewestIsLargest DEF MetaType
<1>6. Intact(b)
  <2>1. /\ Intact(h[p].meta) /\ h[p].page = h[p].meta.next /\ h[p].page \in FilePages
        /\ b.free = {} /\ b.next = h[p].page + 1 /\ pages[h[p].page] = h[p].stamp
        /\ b.kept = h[p].meta.kept \cup {[page |-> h[p].page, stamp |-> h[p].stamp]}
        BY SMTT(40), <1>0, <1>1, <1>2 DEF PagesOK
  <2>2. h[p].page \in Nat /\ 2 <= h[p].page
        BY SMTT(40), <2>1, HandlesAssumption DEF FilePages
  <2>3. ASSUME NEW c \in b.kept PROVE c.page \in FilePages /\ c.page < b.next /\ pages[c.page] = c.stamp
    <3>1. CASE c \in h[p].meta.kept
      <4>1. c.page \in FilePages /\ c.page < h[p].page /\ pages[c.page] = c.stamp
            BY SMTT(40), <2>1, <3>1 DEF Intact
      <4> QED
            BY SMTT(40), <2>1, <2>2, <4>1, HandlesAssumption DEF FilePages
    <3>2. CASE c = [page |-> h[p].page, stamp |-> h[p].stamp]
          BY SMTT(40), <2>1, <2>2, <3>2
    <3> QED
          BY SMTT(40), <2>1, <3>1, <3>2
  <2> QED
        BY <2>1, <2>2, <2>3 DEF Intact
<1>7. Grows'
  <2> SUFFICES ASSUME NEW s \in {slot', durable'}, NEW u \in {slot', durable'} PROVE Ordered(s, u)
        BY DEF Grows
  <2> SUFFICES ASSUME NEW j \in {0, 1}, IsMeta(s[j]), IsMeta(u[1 - j]), s[j].txid <= u[1 - j].txid
               PROVE  s[j].next <= u[1 - j].next
        BY DEF Ordered
  <2>0. 1 - j \in {0, 1} /\ j # 1 - j
        OBVIOUS
  <2>1. CASE s = slot' /\ j = i
    <3>1. s[j] = b /\ u[1 - j] = slot[1 - j]
          BY Zenon, <1>0, <1>1, <1>4, <2>0, <2>1
    <3>2. IsMeta(slot[1 - j]) /\ b.txid <= slot[1 - j].txid
          BY <3>1
    <3> QED
          BY SMTT(40), <3>2, <1>5, <2>0
  <2>2. CASE u = slot' /\ 1 - j = i
        BY Zenon, <1>0, <1>1, <1>4, <1>5, <2>0, <2>2
  <2>3. CASE ~(s = slot' /\ j = i) /\ ~(u = slot' /\ 1 - j = i)
    <3>1. s[j] = slot[j] /\ u[1 - j] = slot[1 - j]
          BY Zenon, <1>0, <1>1, <1>4, <2>0, <2>3
    <3> QED
          BY <3>1, <1>0, PagesFacts DEF Grows, Ordered
  <2> QED
        BY <2>1, <2>2, <2>3
<1>8. (\A s \in {slot, durable} : \A j \in {0, 1} : IsMeta(s[j]) => Intact(s[j]))'
    BY ZenonT(60), <1>0, <1>4, <1>6, PagesFacts DEF Intact
<1>9. ASSUME NEW q \in Procs PROVE PagesOK(h[q])'
  <2>1. PagesOK(h[q])
        BY <1>0, PagesFacts
  <2>2. /\ h'[q].snap = h[q].snap /\ h'[q].meta = h[q].meta /\ h'[q].batch = h[q].batch
        /\ h'[q].page = h[q].page /\ h'[q].stamp = h[q].stamp
        /\ h'[q].pc = IF q = p THEN "sync" ELSE h[q].pc
        BY <1>0, HandleFacts DEF HandleType
  <2>3. \A n \in Nat : Covered(n) => Covered(n)'
    <3> SUFFICES ASSUME NEW n \in Nat, NEW j \in {0, 1}, IsMeta(slot[j]), n <= slot[j].next
                 PROVE  Covered(n)'
          BY DEF Covered
    <3>1. CASE j = i
      <4>1. n <= b.next
            BY <1>5, <3>1
      <4> QED
            BY <1>4, <4>1 DEF Covered
    <3>2. CASE j # i
          BY SMTT(40), <1>4, <3>2 DEF Covered
    <3> QED
          BY <3>1, <3>2
  <2>4. h[q].snap # Absent => h[q].snap.page + 1 \in Nat
        BY <2>1, HandlesAssumption DEF PagesOK, FilePages
  <2>5. h[q].meta.next \in Nat
        BY HandleFacts DEF HandleType, MetaType
  <2> QED
        BY <1>0, <2>1, <2>2, <2>3, <2>4, <2>5 DEF PagesOK, Intact
<1> QED
    BY <1>7, <1>8, <1>9

LEMMA CommitSyncKeepsPages ==
    ASSUME HandlesInv, PagesInv, NEW p \in Procs, commit_sync(p) PROVE PagesInv'
<1> SUFFICES ASSUME ~crossed', ~setup'.collecting
             PROVE  (Grows /\ (\A s \in {slot, durable} : \A i \in {0, 1} : IsMeta(s[i]) => Intact(s[i]))
                     /\ \A q \in Procs : PagesOK(h[q]))'
    BY DEF PagesInv
<1>0. /\ ~crossed /\ ~setup.collecting /\ UNCHANGED <<slot, pages, setup, crossed>> /\ durable' = slot
      /\ h[p].pc = "sync" /\ h' = [h EXCEPT ![p].pc = "open", ![p].meta = h[p].batch]
    BY DEF commit_sync
<1>1. Newest(slot, h[p].batch)
    BY SMTT(40), <1>0, ApartFacts DEF HandleOK
<1>2. PICK i \in {0, 1} : slot[i] = h[p].batch /\ IsMeta(slot[i])
    BY <1>1 DEF Newest
<1>3. Intact(h[p].batch) /\ Covered(h[p].batch.next)
  <2>1. h[p].batch.next \in Nat
        BY HandleFacts DEF HandleType, MetaType
  <2> QED
        BY <1>0, <1>2, <2>1, PagesFacts DEF Covered
<1>4. Grows'
    BY <1>0, PagesFacts DEF Grows
<1>5. (\A s \in {slot, durable} : \A j \in {0, 1} : IsMeta(s[j]) => Intact(s[j]))'
    BY <1>0, PagesFacts DEF Intact
<1>6. ASSUME NEW q \in Procs PROVE PagesOK(h[q])'
  <2>1. PagesOK(h[q])
        BY SMTT(40), <1>0, PagesFacts
  <2>2. CASE q # p
    <3>1. h'[q] = h[q]
          BY <1>0, <2>2, HandleFacts
    <3> QED
          BY Zenon, <1>0, <2>1, <3>1 DEF PagesOK, Intact, Covered
  <2>3. CASE q = p
    <3>1. h'[q].snap = h[q].snap /\ h'[q].meta = h[q].batch /\ h'[q].pc = "open"
          BY <1>0, <2>3, HandleFacts DEF HandleType
    <3>2. Intact(h[q].meta)' /\ Covered(h[q].meta.next)'
          BY Zenon, <1>0, <1>3, <2>3, <3>1 DEF Intact, Covered
    <3> QED
          BY Zenon, <1>0, <2>1, <3>1, <3>2 DEF PagesOK, Covered
  <2> QED
        BY <2>2, <2>3
<1> QED
    BY <1>4, <1>5, <1>6

LEMMA CrashKeepsPages == ASSUME HandlesInv, PagesInv, crash PROVE PagesInv'
<1> SUFFICES ASSUME ~crossed', ~setup'.collecting
             PROVE  (Grows /\ (\A s \in {slot, durable} : \A i \in {0, 1} : IsMeta(s[i]) => Intact(s[i]))
                     /\ \A q \in Procs : PagesOK(h[q]))'
    BY DEF PagesInv
<1>1. /\ durable' = slot' /\ ~crossed /\ ~setup.collecting /\ UNCHANGED pages
      /\ \A q \in Procs : h'[q] = Shut
    BY DEF crash
<1>2. \A i \in {0, 1} : slot'[i] \in {slot[i], durable[i], Garbled}
    BY DEF crash
<1>3. \A i \in {0, 1} : IsMeta(slot'[i]) => slot'[i] = slot[i] \/ slot'[i] = durable[i]
    BY SMTT(40), <1>2 DEF IsMeta
<1>4. Ordered(slot', slot')
  <2> SUFFICES ASSUME NEW j \in {0, 1}, IsMeta(slot'[j]), IsMeta(slot'[1 - j]), slot'[j].txid <= slot'[1 - j].txid
               PROVE  slot'[j].next <= slot'[1 - j].next
        BY DEF Ordered
  <2>1. 1 - j \in {0, 1}
        OBVIOUS
  <2>2. PICK s \in {slot, durable}, u \in {slot, durable} : slot'[j] = s[j] /\ slot'[1 - j] = u[1 - j]
        BY <1>3, <2>1
  <2> QED
        BY <1>1, <2>2, PagesFacts DEF Grows, Ordered
<1>5. (\A s \in {slot, durable} : \A i \in {0, 1} : IsMeta(s[i]) => Intact(s[i]))'
    BY SMTT(40), <1>1, <1>3, PagesFacts DEF Intact
<1>6. \A q \in Procs : PagesOK(h[q])'
    BY <1>1, ShutType DEF PagesOK
<1> QED
    BY <1>1, <1>4, <1>5, <1>6 DEF Grows

LEMMA PagesNextInv == HandlesInv /\ PagesInv /\ [HandlesNext]_handleVars => PagesInv'
<1> SUFFICES ASSUME HandlesInv, PagesInv, [HandlesNext]_handleVars PROVE PagesInv'
    OBVIOUS
<1>1. ASSUME NEW p \in Procs, create_file(p) \/ open_file(p) \/ open_file_unlocked(p) \/ claim(p) \/ close(p)
      PROVE  PagesInv'
    BY <1>1, OpeningKeepsPages
<1>2. ASSUME NEW p \in Procs, create_slot0(p) \/ create_slot1(p) \/ create_sync(p) PROVE PagesInv'
    BY <1>2, CreatingKeepsPages, CreateSyncKeepsPages
<1>3. ASSUME NEW p \in Procs, recover(p) \/ pin(p) \/ forget(p) PROVE PagesInv'
    BY <1>3, RecoverKeepsPages, PinKeepsPages
<1>4. ASSUME NEW p \in Procs, begin(p) \/ collect(p) \/ commit_guard(p) PROVE PagesInv'
    BY <1>4, BeginKeepsPages, CollectKeepsPages, GuardKeepsPages
<1>5. ASSUME NEW p \in Procs, commit_pages(p) \/ commit_meta(p) \/ commit_sync(p) PROVE PagesInv'
    BY <1>5, CommitPagesKeepsPages, CommitMetaKeepsPages, CommitSyncKeepsPages
<1>6. ASSUME crash PROVE PagesInv'
    BY SMTT(40), <1>6, CrashKeepsPages
<1>7. ASSUME UNCHANGED handleVars PROVE PagesInv'
    BY ZenonT(60), <1>7 DEF handleVars, PagesInv, PagesOK, Intact, Covered, Grows
<1> QED
    BY <1>1, <1>2, <1>3, <1>4, <1>5, <1>6, <1>7 DEF HandlesNext

(* As long as nobody collects and writers are kept apart, the page under   *)
(* an open snapshot holds the bytes of the commit that was pinned, in      *)
(* every process, locked or not: commit() writes new pages only, behind    *)
(* those of every meta in the file.                                        *)
THEOREM SnapshotsKeepTheirPages == HandlesSpec => []SnapshotsStay
<1>1. HandlesInit => PagesInv
  <2> SUFFICES ASSUME HandlesInit PROVE PagesInv
        OBVIOUS
  <2>1. \A s \in {slot, durable} : \A i \in {0, 1} : ~IsMeta(s[i])
        BY DEF HandlesInit, IsMeta
  <2>2. \A p \in Procs : PagesOK(h[p])
        BY ShutPages DEF HandlesInit
  <2>3. \A s, u \in {slot, durable} : Ordered(s, u)
        BY SMTT(40), <2>1 DEF Ordered
  <2> QED
        BY <2>1, <2>2, <2>3 DEF PagesInv, Grows
<1>2. HandlesInv /\ PagesInv => SnapshotsStay
    BY Zenon DEF HandlesInv, Locked, PagesInv, PagesOK, SnapshotsStay, KeptApart
<1> QED
    BY <1>1, <1>2, HandlesInductive, PagesNextInv, PTL DEF HandlesSpec
=============================================================================
