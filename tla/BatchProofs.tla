---------------------------- MODULE BatchProofs ----------------------------
(***************************************************************************)
(* Proofs about Batch for any set of pages, any sound free list chain      *)
(* (ChainIsSound), any contents and any size of the node cache.            *)
(***************************************************************************)
EXTENDS Batch, FiniteSetTheorems, TLAPS

IInv == TypeOK /\ UndoCovers /\ KeptNodesAgree

(* What record() does to the savepoint: the page is covered afterwards,    *)
(* every other page is as it was.                                          *)
LEMMA RecordCovers ==
    ASSUME TypeOK, UndoCovers, NEW p \in Pages
    PROVE  LET s == record(p) IN
           /\ s.on = save.on
           /\ s.scal = save.scal
           /\ s.undo \in [Pages -> {<<>>} \cup {<<v>> : v \in Values \cup {Nothing}}]
           /\ s.on => /\ s.undo[p] # <<>> /\ s.undo[p][1] = mark.dirty[p]
                      /\ \A q \in Pages : q # p => s.undo[q] = save.undo[q]
<1>1. CASE save.on /\ save.undo[p] = <<>>
  <2>1. record(p) = [on |-> TRUE, scal |-> save.scal, undo |-> [save.undo EXCEPT ![p] = <<dirty[p]>>]]
        BY <1>1 DEF record
  <2>2. dirty[p] \in Values \cup {Nothing}
        BY DEF TypeOK
  <2>3. mark.dirty[p] = dirty[p]
        BY <1>1 DEF UndoCovers
  <2> DEFINE U == {<<>>} \cup {<<v>> : v \in Values \cup {Nothing}}
  <2>4. <<dirty[p]>> \in U
        BY <2>2
  <2>5. save.undo \in [Pages -> U]
        BY DEF TypeOK
  <2> HIDE DEF U
  <2>6. [save.undo EXCEPT ![p] = <<dirty[p]>>] \in [Pages -> U]
        BY <2>4, <2>5
  <2>7. <<dirty[p]>> # <<>> /\ <<dirty[p]>>[1] = dirty[p]
        OBVIOUS
  <2> QED
        BY <2>1, <2>3, <2>5, <2>6, <2>7, <1>1 DEF U
<1>2. CASE ~(save.on /\ save.undo[p] = <<>>)
  <2>1. record(p) = save
        BY <1>2 DEF record
  <2> QED
        BY <2>1, <1>2 DEF TypeOK, UndoCovers
<1> QED
    BY <1>1, <1>2

(* A step that records page p, writes only p and forgets or replaces only  *)
(* p's node keeps the invariant.                                           *)
Touches(p) ==
    /\ save' = record(p)
    /\ mark' = mark
    /\ dirty' \in [Pages -> Values \cup {Nothing}]
    /\ nodes' \in [Pages -> Values \cup {Nothing}]
    /\ \A q \in Pages : q # p => dirty'[q] = dirty[q]
    /\ \A q \in Pages : nodes'[q] # Nothing => dirty'[q] = nodes'[q]

LEMMA TouchKeeps ==
    ASSUME IInv, NEW p \in Pages, Touches(p)
    PROVE  IInv'
<1>1. /\ save'.on = save.on
      /\ save'.scal = save.scal
      /\ save'.undo \in [Pages -> {<<>>} \cup {<<v>> : v \in Values \cup {Nothing}}]
      /\ save'.on => /\ save'.undo[p] # <<>> /\ save'.undo[p][1] = mark.dirty[p]
                     /\ \A q \in Pages : q # p => save'.undo[q] = save.undo[q]
    BY RecordCovers DEF IInv, Touches
<1>2. TypeOK'
    BY <1>1 DEF IInv, TypeOK, Touches
<1>3. UndoCovers'
    BY <1>1 DEF IInv, UndoCovers, Touches
<1>4. KeptNodesAgree'
    BY DEF Touches, KeptNodesAgree
<1> QED
    BY <1>2, <1>3, <1>4 DEF IInv

LEMMA InitIInv == Init => IInv
<1> SUFFICES ASSUME Init PROVE IInv
    OBVIOUS
<1>1. NoEntries \in [Pages -> Values \cup {Nothing}]
    BY DEF NoEntries
<1>2. NoSavepoint.on = FALSE /\ NoSavepoint.undo \in [Pages -> {<<>>} \cup {<<v>> : v \in Values \cup {Nothing}}]
    BY DEF NoSavepoint
<1>3. TypeOK
    BY Zenon, <1>1, <1>2 DEF Init, TypeOK, Unmarked
<1>4. UndoCovers /\ KeptNodesAgree
    BY <1>2 DEF Init, UndoCovers, KeptNodesAgree, NoEntries
<1> QED
    BY <1>3, <1>4 DEF IInv

(* Every operation of the batch keeps the invariant.                       *)
LEMMA NextIInv == IInv /\ [Next]_vars => IInv'
<1> SUFFICES ASSUME IInv, [Next]_vars PROVE IInv'
    OBVIOUS
<1> USE NothingIsNoValue
<1>t. /\ dirty \in [Pages -> Values \cup {Nothing}]
      /\ nodes \in [Pages -> Values \cup {Nothing}]
      /\ \A q \in Pages : nodes[q] # Nothing => dirty[q] = nodes[q]
    BY DEF IInv, TypeOK, KeptNodesAgree
<1>s. NoSavepoint.on = FALSE /\ NoSavepoint.undo \in [Pages -> {<<>>} \cup {<<v>> : v \in Values \cup {Nothing}}]
    BY DEF NoSavepoint
<1>e. NoEntries \in [Pages -> Values \cup {Nothing}] /\ \A q \in Pages : NoEntries[q] = Nothing
    BY DEF NoEntries
<1>m. Unmarked.dirty \in [Pages -> Values \cup {Nothing}]
    BY <1>e DEF Unmarked
<1>1. ASSUME allocate PROVE IInv'
  <2> DEFINE q == take_page_id.page
  <2>1. q \in Pages
        BY <1>1 DEF allocate
  <2>2. /\ save' = record(q) /\ mark' = mark
        /\ dirty' = [dirty EXCEPT ![q] = Fresh]
        /\ nodes' = [nodes EXCEPT ![q] = Nothing]
        BY <1>1 DEF allocate
  <2> HIDE DEF q
  <2>3. Fresh \in Values
        BY DEF Values
  <2>4. Touches(q)
        BY <2>1, <2>2, <2>3, <1>t DEF Touches
  <2> QED
        BY <2>1, <2>4, TouchKeeps
<1>2. ASSUME NEW p \in Pages, NEW c \in Contents, page_mut(p, c) PROVE IInv'
  <2>1. c \in Values
        BY DEF Values
  <2>2. Touches(p)
        BY <1>2, <2>1, <1>t DEF Touches, page_mut
  <2> QED
        BY <2>2, TouchKeeps
<1>3. ASSUME NEW p \in Pages, NEW c \in Contents, write_node(p, c) PROVE IInv'
  <2>1. c \in Values
        BY DEF Values
  <2> DEFINE ns == [nodes EXCEPT ![p] = Nothing]
  <2>2. nodes' = [ns EXCEPT ![p] = c] \/ nodes' = [NoEntries EXCEPT ![p] = c]
        BY Zenon, <1>3 DEF write_node, Keep
  <2>3. /\ dirty' = [dirty EXCEPT ![p] = c] /\ save' = record(p) /\ mark' = mark
        BY <1>3 DEF write_node
  <2>4. Touches(p)
    <3>1. CASE nodes' = [ns EXCEPT ![p] = c]
          BY <3>1, <2>1, <2>3, <1>t DEF Touches
    <3>2. CASE nodes' = [NoEntries EXCEPT ![p] = c]
          BY <3>2, <2>1, <2>3, <1>t, <1>e DEF Touches
    <3> QED
          BY <2>2, <3>1, <3>2
  <2> QED
        BY <2>4, TouchKeeps
<1>4. ASSUME NEW p \in Pages, NEW c \in Contents, kept_and_page_mut(p, c) PROVE IInv'
  <2>1. c \in Values
        BY DEF Values
  <2>2. Touches(p)
        BY <1>4, <2>1, <1>t DEF Touches, kept_and_page_mut
  <2> QED
        BY <2>2, TouchKeeps
<1>5. ASSUME NEW p \in Pages, take_node(p) PROVE IInv'
  <2>1. UNCHANGED <<dirty, save, mark>> /\ nodes' = [nodes EXCEPT ![p] = Nothing]
        BY <1>5 DEF take_node
  <2>2. TypeOK' /\ KeptNodesAgree'
        BY <2>1, <1>t DEF IInv, TypeOK, KeptNodesAgree
  <2>3. UndoCovers'
        BY <2>1 DEF IInv, UndoCovers
  <2> QED
        BY <2>2, <2>3 DEF IInv
<1>6. ASSUME UNCHANGED <<dirty, nodes, save, mark>> PROVE IInv'
    BY <1>6 DEF IInv, TypeOK, UndoCovers, KeptNodesAgree
<1>7. ASSUME savepoint PROVE IInv'
  <2>1. /\ save'.on = TRUE /\ save'.scal = scal /\ save'.undo = [p \in Pages |-> <<>>]
        /\ mark'.scal = scal /\ mark'.dirty = dirty
        /\ UNCHANGED <<dirty, nodes>>
        BY <1>7 DEF savepoint
  <2>2. TypeOK'
        BY Zenon, <2>1, <1>t DEF TypeOK
  <2>3. UndoCovers' /\ KeptNodesAgree'
        BY <2>1, <1>t DEF UndoCovers, KeptNodesAgree
  <2> QED
        BY <2>2, <2>3 DEF IInv
<1>8. ASSUME save' = NoSavepoint, mark' = Unmarked, UNCHANGED <<dirty, nodes>> PROVE IInv'
    BY Zenon, <1>8, <1>s, <1>t, <1>m DEF IInv, TypeOK, UndoCovers, KeptNodesAgree
<1>9. ASSUME rollback_savepoint PROVE IInv'
  <2>1. /\ save' = NoSavepoint /\ mark' = Unmarked /\ save.on
        /\ nodes' = [p \in Pages |-> IF Undone(p) THEN Nothing ELSE nodes[p]]
        /\ dirty' = [p \in Pages |-> IF Undone(p) THEN save.undo[p][1] ELSE dirty[p]]
        BY <1>9 DEF rollback_savepoint
  <2>2. \A p \in Pages : Undone(p) => save.undo[p][1] = mark.dirty[p]
        BY <2>1 DEF IInv, UndoCovers, Undone
  <2>3. mark.dirty \in [Pages -> Values \cup {Nothing}]
        BY DEF IInv, TypeOK
  <2>4. dirty' \in [Pages -> Values \cup {Nothing}] /\ nodes' \in [Pages -> Values \cup {Nothing}]
        BY <2>1, <2>2, <2>3, <1>t
  <2>5. TypeOK' /\ UndoCovers'
        BY Zenon, <2>1, <2>4, <1>s, <1>m DEF TypeOK, UndoCovers
  <2>6. KeptNodesAgree'
        BY <2>1, <1>t DEF KeptNodesAgree
  <2> QED
        BY <2>5, <2>6 DEF IInv
<1>10. ASSUME end PROVE IInv'
    BY Zenon, <1>10, <1>s, <1>e, <1>m DEF end, IInv, TypeOK, UndoCovers, KeptNodesAgree
<1>11. CASE UNCHANGED vars
    BY <1>11, <1>6 DEF vars
<1>12. CASE Next
  <2>1. CASE allocate
        BY <2>1, <1>1
  <2>2. CASE \E p \in Pages, c \in Contents : page_mut(p, c) \/ write_node(p, c) \/ kept_and_page_mut(p, c)
        BY <2>2, <1>2, <1>3, <1>4
  <2>3. CASE \E p \in Pages : take_node(p) \/ set_root(p)
        BY <2>3, <1>5, <1>6 DEF set_root
  <2>4. CASE \E ids \in {Pages, {}} : set_freelist(ids)
        BY <2>4, <1>6 DEF set_freelist
  <2>5. CASE savepoint
        BY <2>5, <1>7
  <2>6. CASE release_savepoint
        BY <2>6, <1>8 DEF release_savepoint
  <2>7. CASE rollback_savepoint
        BY <2>7, <1>9
  <2>8. CASE suspend
        BY <2>8, <1>8 DEF suspend
  <2>9. CASE resume
        BY <2>9, <1>6 DEF resume
  <2>10. CASE end
        BY <2>10, <1>10
  <2> QED
        BY <1>12, <2>1, <2>2, <2>3, <2>4, <2>5, <2>6, <2>7, <2>8, <2>9, <2>10 DEF Next
<1> QED
    BY <1>11, <1>12

(* In every batch, whatever its statements do, a kept node is what its     *)
(* page's bytes decode to: the tree never routes a key by a node that the  *)
(* page does not hold.                                                     *)
THEOREM NodesAreTrue == Spec => []KeptNodesAgree
<1>1. IInv => KeptNodesAgree
    BY DEF IInv
<1> QED
    BY InitIInv, NextIInv, <1>1, PTL DEF Spec

(* A rollback brings back what the savepoint marked.                       *)
LEMMA RollbackStep ==
    ASSUME IInv, rollback_savepoint
    PROVE  scal' = mark.scal /\ dirty' = mark.dirty
<1>1. save.on /\ scal' = save.scal
      /\ dirty' = [p \in Pages |-> IF Undone(p) THEN save.undo[p][1] ELSE dirty[p]]
    BY DEF rollback_savepoint
<1>2. scal' = mark.scal
    BY <1>1 DEF IInv, UndoCovers
<1>3. \A p \in Pages : dirty'[p] = mark.dirty[p]
    BY <1>1 DEF IInv, UndoCovers, Undone
<1>4. dirty' = mark.dirty
    BY <1>1, <1>3 DEF IInv, TypeOK
<1> QED
    BY <1>2, <1>4

(* In every batch a rollback restores exactly the pages and the fields the *)
(* savepoint found.                                                        *)
THEOREM RollbackRestores == Spec => RollbackIsExact
<1> DEFINE Exact == rollback_savepoint => scal' = mark.scal /\ dirty' = mark.dirty
<1>1. IInv /\ [Next]_vars => [Exact]_vars
    BY RollbackStep DEF Exact
<1> QED
    BY InitIInv, NextIInv, <1>1, PTL DEF Spec, RollbackIsExact, Exact

-----------------------------------------------------------------------------
(* Where the pages of a batch are.                                         *)

ScalType == [next : Nat, root : Pages \cup {0}, pool : Seq(Nat), cursor : 1..Len(Chain) + 1,
             deferred : Seq(Nat), touched : BOOLEAN, allow : BOOLEAN,
             override : {Nothing, Pages, {}}]

(* Page p is listed by one of the chain pages before the n-th.             *)
ListedBefore(p, n) ==
    \E k \in DOMAIN Chain : k < n /\ \E i \in DOMAIN Chain[k].ids : Chain[k].ids[i] = p

(* Everything in the pool, and every old page that was written, was listed *)
(* by a chain page already read, and what waits for the commit is such a   *)
(* chain page; a written page is not in the pool.                          *)
Placed(s, d) ==
    /\ s \in ScalType /\ FirstNew <= s.next
    /\ \A i \in DOMAIN s.pool : ListedBefore(s.pool[i], s.cursor)
    /\ \A i, j \in DOMAIN s.pool : s.pool[i] = s.pool[j] => i = j
    /\ \A i \in DOMAIN s.deferred : \E k \in DOMAIN Chain : s.deferred[i] = Chain[k].page
    /\ \A p \in Pages : d[p] # Nothing =>
         /\ \A i \in DOMAIN s.pool : s.pool[i] # p
         /\ (FirstNew <= p /\ p < s.next) \/ ListedBefore(p, s.cursor)

(* It holds of the batch and of what a rollback would bring back.          *)
PlacedInv == Placed(scal, dirty) /\ (save.on => Placed(mark.scal, mark.dirty))

(* Fewer entries, or changes of other fields, leave the pages placed.      *)
LEMMA PlacedSame ==
    ASSUME NEW s, NEW d, NEW u, NEW e, Placed(s, d), u \in ScalType,
           u.next = s.next, u.pool = s.pool, u.cursor = s.cursor, u.deferred = s.deferred,
           \A p \in Pages : e[p] # Nothing => d[p] # Nothing
    PROVE  Placed(u, e)
BY DEF Placed

LEMMA ChainEntry ==
    ASSUME NEW k \in DOMAIN Chain
    PROVE  /\ Chain[k].page \in Nat /\ Chain[k].page < FirstNew
           /\ Chain[k].ids \in Seq(Nat)
           /\ \A i \in DOMAIN Chain[k].ids : Chain[k].ids[i] \in Nat /\ Chain[k].ids[i] < FirstNew
<1> DEFINE D == 0..FirstNew - 1
           E == [page : D, ids : Seq(D), whole : BOOLEAN]
<1>1. Chain \in Seq(E)
    BY ChainIsSound
<1>2. \A n \in D : n \in Nat /\ n < FirstNew
    BY ChainIsSound
<1> HIDE DEF D, E
<1>3. Chain[k] \in E
    BY <1>1
<1>4. Chain[k].page \in D /\ Chain[k].ids \in Seq(D)
    BY <1>3 DEF E
<1>5. \A i \in DOMAIN Chain[k].ids : Chain[k].ids[i] \in Nat /\ Chain[k].ids[i] < FirstNew
    BY <1>2, <1>4
<1>6. Chain[k].page \in Nat /\ Chain[k].page < FirstNew
    BY <1>2, <1>4
<1>7. Chain[k].ids \in Seq(Nat)
    BY <1>2, <1>4
<1> QED
    BY <1>5, <1>6, <1>7

LEMMA BegunPlaced == Placed(Begun, NoEntries)
<1>1. Begun \in ScalType
    BY ChainIsSound DEF Begun, ScalType
<1>2. Begun.next = FirstNew /\ Begun.pool = <<>> /\ Begun.deferred = <<>>
    BY DEF Begun
<1>3. \A p \in Pages : NoEntries[p] = Nothing
    BY DEF NoEntries
<1> QED
    BY <1>1, <1>2, <1>3, ChainIsSound DEF Placed

(* Reading on in the chain: the ids of the page read were listed by no     *)
(* page before it, so none of them was written.                            *)
LEMMA RefilledPlaced ==
    ASSUME Placed(scal, dirty)
    PROVE  Placed(Refilled, dirty) /\ Refilled.allow = scal.allow
<1> DEFINE n == scal.cursor
<1>t. scal \in ScalType /\ FirstNew <= scal.next
    BY DEF Placed
<1>c. n \in 1..Len(Chain) + 1 /\ Len(Chain) \in Nat /\ DOMAIN Chain = 1..Len(Chain)
    BY <1>t, ChainIsSound DEF ScalType
<1>1. CASE ~(scal.allow /\ scal.pool = <<>> /\ scal.cursor <= Len(Chain))
    BY <1>1 DEF Refilled
<1>2. CASE scal.allow /\ scal.pool = <<>> /\ scal.cursor <= Len(Chain) /\ ~Chain[n].whole
  <2> DEFINE u == [scal EXCEPT !.cursor = Len(Chain) + 1]
  <2>1. Refilled = u
        BY <1>2 DEF Refilled
  <2>2. u \in ScalType /\ u.next = scal.next /\ u.pool = <<>> /\ u.deferred = scal.deferred
        /\ u.cursor = Len(Chain) + 1 /\ u.allow = scal.allow
    <3>1. Len(Chain) + 1 \in 1..Len(Chain) + 1
          BY <1>c
    <3> QED
          BY Zenon, <3>1, <1>t, <1>2 DEF ScalType
  <2> HIDE DEF u
  <2>3. ASSUME NEW p, ListedBefore(p, n) PROVE ListedBefore(p, Len(Chain) + 1)
        BY <2>3, <1>c DEF ListedBefore
  <2> QED
        BY <2>1, <2>2, <2>3, <1>t DEF Placed
<1>3. CASE scal.allow /\ scal.pool = <<>> /\ scal.cursor <= Len(Chain) /\ Chain[n].whole
  <2> DEFINE c == Chain[n]
             u == [scal EXCEPT !.pool = c.ids, !.deferred = Append(@, c.page),
                               !.cursor = @ + 1, !.touched = TRUE]
  <2>1. Refilled = u
        BY <1>3 DEF Refilled
  <2>2. n \in DOMAIN Chain /\ c.page \in Nat /\ c.ids \in Seq(Nat)
    <3>1. n \in DOMAIN Chain
          BY <1>3, <1>c
    <3> QED
          BY <3>1, ChainEntry
  <2>3. /\ u \in ScalType /\ u.next = scal.next /\ u.pool = c.ids
        /\ u.deferred = Append(scal.deferred, c.page)
        /\ u.cursor = n + 1 /\ u.allow = scal.allow
    <3>1. n + 1 \in 1..Len(Chain) + 1
          BY <1>3, <1>c
    <3>2. scal.deferred \in Seq(Nat)
          BY <1>t DEF ScalType
    <3>3. Append(scal.deferred, c.page) \in Seq(Nat)
          BY <3>2, <2>2
    <3> HIDE DEF c
    <3> QED
          BY Zenon, <3>1, <3>3, <2>2, <1>t DEF ScalType
  <2> HIDE DEF u, c
  <2>4. \A i \in DOMAIN u.pool : ListedBefore(u.pool[i], u.cursor)
    <3>1. n < u.cursor
          BY <2>3, <1>c
    <3>2. DOMAIN u.pool = DOMAIN Chain[n].ids /\ \A i \in DOMAIN u.pool : u.pool[i] = Chain[n].ids[i]
          BY <2>3 DEF c
    <3> HIDE DEF n
    <3> QED
          BY <3>1, <3>2, <2>2 DEF ListedBefore
  <2>5. \A i, j \in DOMAIN u.pool : u.pool[i] = u.pool[j] => i = j
        BY <2>2, <2>3, ChainIsSound DEF c
  <2>6. ASSUME NEW i \in DOMAIN u.deferred
        PROVE  \E k \in DOMAIN Chain : u.deferred[i] = Chain[k].page
    <3>1. scal.deferred \in Seq(Nat)
          BY <1>t DEF ScalType
    <3>2. CASE i = Len(scal.deferred) + 1
          BY <3>1, <3>2, <2>2, <2>3 DEF c
    <3>3. CASE i # Len(scal.deferred) + 1
      <4>1. i \in DOMAIN scal.deferred /\ u.deferred[i] = scal.deferred[i]
            BY <3>1, <3>3, <2>2, <2>3
      <4> QED
            BY <4>1 DEF Placed
    <3> QED
          BY <3>2, <3>3
  <2>7. ASSUME NEW p \in Pages, dirty[p] # Nothing
        PROVE  /\ \A i \in DOMAIN u.pool : u.pool[i] # p
               /\ (FirstNew <= p /\ p < u.next) \/ ListedBefore(p, u.cursor)
    <3>1. (FirstNew <= p /\ p < scal.next) \/ ListedBefore(p, n)
          BY <2>7 DEF Placed
    <3>2. ListedBefore(p, n) => ListedBefore(p, u.cursor)
          BY <2>3, <1>c DEF ListedBefore
    <3>3. ASSUME NEW i \in DOMAIN u.pool PROVE u.pool[i] # p
      <4>1. p \in Nat /\ FirstNew \in Nat /\ c.ids[i] \in Nat /\ c.ids[i] < FirstNew
            BY <2>2, <2>3, ChainEntry, ChainIsSound DEF c
      <4>2. ListedBefore(p, n) => c.ids[i] # p
        <5> SUFFICES ASSUME NEW k \in DOMAIN Chain, k < n, NEW j \in DOMAIN Chain[k].ids,
                            Chain[k].ids[j] = p, c.ids[i] = p
                     PROVE  FALSE
              BY DEF ListedBefore
        <5>1. i \in DOMAIN Chain[n].ids /\ Chain[n].ids[i] = Chain[k].ids[j]
              BY <2>3 DEF c
        <5>2. k = n
              BY Zenon, <5>1, <2>2, ChainIsSound
        <5> QED
              BY <5>2, <1>c
      <4> QED
            BY <3>1, <4>1, <4>2, <2>3
    <3> QED
          BY <3>1, <3>2, <3>3, <2>3
  <2> QED
        BY <2>1, <2>3, <2>4, <2>5, <2>6, <2>7, <1>t DEF Placed
<1> QED
    BY <1>1, <1>2, <1>3

(* The page that is handed out was written by nobody, and is in no other   *)
(* place afterwards.                                                       *)
LEMMA TakenIsPlaced ==
    ASSUME TypeOK, Placed(scal, dirty), NEW q \in Pages, q = take_page_id.page
    PROVE  Placed(take_page_id.scal, [dirty EXCEPT ![q] = Fresh])
<1> DEFINE r == Refilled
           e == [dirty EXCEPT ![q] = Fresh]
<1>1. Placed(r, dirty)
    BY RefilledPlaced
<1>t. r \in ScalType /\ FirstNew <= r.next /\ FirstNew \in Nat /\ q \in Nat
    BY <1>1, ChainIsSound DEF Placed
<1>e. \A p \in Pages : p # q => e[p] = dirty[p]
    BY DEF TypeOK
<1>l. \A p : ListedBefore(p, r.cursor) => p < FirstNew /\ p \in Nat
    BY ChainEntry DEF ListedBefore
<1>2. CASE scal.allow /\ r.pool # <<>>
  <2> DEFINE l == Len(r.pool)
             u == [r EXCEPT !.pool = SubSeq(@, 1, Len(@) - 1)]
  <2>1. take_page_id.scal = u /\ q = r.pool[l]
        BY <1>2 DEF take_page_id
  <2>2. r.pool \in Seq(Nat) /\ l \in Nat /\ l >= 1 /\ l \in DOMAIN r.pool
        BY <1>t, <1>2 DEF ScalType
  <2>3. SubSeq(r.pool, 1, l - 1) \in Seq(Nat) /\ DOMAIN SubSeq(r.pool, 1, l - 1) = 1..l - 1
        /\ \A i \in 1..l - 1 : SubSeq(r.pool, 1, l - 1)[i] = r.pool[i] /\ i \in DOMAIN r.pool /\ i # l
        BY SMTT(40), <2>2
  <2>4. /\ u \in ScalType /\ u.next = r.next /\ u.pool = SubSeq(r.pool, 1, l - 1)
        /\ u.cursor = r.cursor /\ u.deferred = r.deferred
        BY Zenon, <2>3, <1>t DEF ScalType
  <2> HIDE DEF u
  <2>5. \A i \in DOMAIN u.pool : u.pool[i] = r.pool[i] /\ i \in DOMAIN r.pool /\ i # l
        BY <2>3, <2>4
  <2>6. \A i \in DOMAIN r.pool : i # l => r.pool[i] # q
        BY <1>1, <2>1, <2>2 DEF Placed
  <2>7. ListedBefore(q, r.cursor)
        BY <1>1, <2>1, <2>2 DEF Placed
  <2>8. ASSUME NEW p \in Pages, e[p] # Nothing
        PROVE  /\ \A i \in DOMAIN u.pool : u.pool[i] # p
               /\ (FirstNew <= p /\ p < u.next) \/ ListedBefore(p, u.cursor)
    <3>1. CASE p = q
          BY <3>1, <2>4, <2>5, <2>6, <2>7
    <3>2. CASE p # q
      <4>1. dirty[p] # Nothing
            BY <3>2, <2>8, <1>e
      <4> QED
            BY <4>1, <1>1, <2>4, <2>5 DEF Placed
    <3> QED
          BY <3>1, <3>2
  <2>9. /\ \A i \in DOMAIN u.pool : ListedBefore(u.pool[i], u.cursor)
        /\ \A i, j \in DOMAIN u.pool : u.pool[i] = u.pool[j] => i = j
        /\ \A i \in DOMAIN u.deferred : \E k \in DOMAIN Chain : u.deferred[i] = Chain[k].page
        BY <1>1, <2>4, <2>5 DEF Placed
  <2> HIDE DEF e
  <2> QED
        BY <2>1, <2>4, <2>8, <2>9, <1>t DEF Placed, e
<1>3. CASE ~(scal.allow /\ r.pool # <<>>)
  <2> DEFINE u == [r EXCEPT !.next = @ + 1]
  <2>1. take_page_id.scal = u /\ q = r.next
        BY <1>3 DEF take_page_id
  <2>2. /\ u \in ScalType /\ u.next = r.next + 1 /\ u.pool = r.pool
        /\ u.cursor = r.cursor /\ u.deferred = r.deferred /\ r.next \in Nat
    <3>1. r.next \in Nat /\ r.next + 1 \in Nat
          BY <1>t DEF ScalType
    <3> HIDE DEF r
    <3> QED
          BY <3>1, <1>t DEF ScalType
  <2> HIDE DEF u
  <2>3. ASSUME NEW p \in Pages, e[p] # Nothing
        PROVE  /\ \A i \in DOMAIN u.pool : u.pool[i] # p
               /\ (FirstNew <= p /\ p < u.next) \/ ListedBefore(p, u.cursor)
    <3>1. CASE p = q
      <4>1. \A i \in DOMAIN r.pool : r.pool[i] < FirstNew /\ r.pool[i] \in Nat
            BY <1>1, <1>l DEF Placed
      <4> QED
            BY <3>1, <4>1, <2>1, <2>2, <1>t
    <3>2. CASE p # q
      <4>1. dirty[p] # Nothing
            BY <3>2, <2>3, <1>e
      <4>2. p \in Nat
            BY ChainIsSound
      <4> QED
            BY <4>1, <4>2, <1>1, <1>t, <2>2 DEF Placed
    <3> QED
          BY <3>1, <3>2
  <2>4. /\ \A i \in DOMAIN u.pool : ListedBefore(u.pool[i], u.cursor)
        /\ \A i, j \in DOMAIN u.pool : u.pool[i] = u.pool[j] => i = j
        /\ \A i \in DOMAIN u.deferred : \E k \in DOMAIN Chain : u.deferred[i] = Chain[k].page
        BY <1>1, <2>2 DEF Placed
  <2>5. FirstNew <= u.next
        BY <1>t, <2>2
  <2> HIDE DEF e
  <2> QED
        BY <2>1, <2>2, <2>3, <2>4, <2>5 DEF Placed, e
<1> QED
    BY <1>2, <1>3

(* Under a savepoint the pages are placed and the marked ones too.         *)
LEMMA NextPlaced == IInv /\ PlacedInv /\ [Next]_vars => PlacedInv'
<1> SUFFICES ASSUME IInv, PlacedInv, [Next]_vars PROVE PlacedInv'
    OBVIOUS
<1> USE NothingIsNoValue
<1>t. dirty \in [Pages -> Values \cup {Nothing}] /\ Placed(scal, dirty) /\ scal \in ScalType
    BY DEF IInv, TypeOK, PlacedInv, Placed
<1>s. NoSavepoint.on = FALSE
    BY DEF NoSavepoint
<1>r. ASSUME NEW p \in Pages, save' = record(p), mark' = mark, Placed(scal', dirty') PROVE PlacedInv'
    BY <1>r, RecordCovers DEF IInv, PlacedInv
<1>1. ASSUME allocate PROVE PlacedInv'
  <2>1. PICK q \in Pages : q = take_page_id.page
        BY <1>1 DEF allocate
  <2>2. /\ save' = record(q) /\ mark' = mark /\ scal' = take_page_id.scal
        /\ dirty' = [dirty EXCEPT ![q] = Fresh]
        BY <1>1, <2>1 DEF allocate
  <2>3. Placed(scal', dirty')
        BY Zenon, <2>1, <2>2, <1>t, TakenIsPlaced DEF IInv
  <2> QED
        BY Zenon, <2>2, <2>3, <1>r
<1>2. ASSUME NEW p \in Pages, NEW c \in Contents,
             page_mut(p, c) \/ write_node(p, c) \/ kept_and_page_mut(p, c)
      PROVE  PlacedInv'
  <2>1. save' = record(p) /\ mark' = mark /\ scal' = scal
        /\ (dirty' = dirty \/ (dirty[p] # Nothing /\ dirty' = [dirty EXCEPT ![p] = c]))
        BY <1>2 DEF page_mut, write_node, kept_and_page_mut
  <2>2. \A q \in Pages : dirty'[q] # Nothing => dirty[q] # Nothing
        BY <2>1, <1>t
  <2>3. Placed(scal, dirty')
        BY <2>2, <1>t, PlacedSame
  <2> QED
        BY <2>1, <2>3, <1>r
<1>3. ASSUME UNCHANGED <<scal, dirty, save, mark>> PROVE PlacedInv'
    BY <1>3 DEF PlacedInv
<1>4. ASSUME NEW p \in Pages, set_root(p) PROVE PlacedInv'
  <2>1. scal' = [scal EXCEPT !.root = p] /\ UNCHANGED <<dirty, save, mark>>
        BY <1>4 DEF set_root
  <2>2. /\ scal' \in ScalType /\ scal'.next = scal.next /\ scal'.pool = scal.pool
        /\ scal'.cursor = scal.cursor /\ scal'.deferred = scal.deferred
        BY Zenon, <2>1, <1>t DEF ScalType
  <2>3. Placed(scal', dirty)
        BY <2>2, <1>t, PlacedSame
  <2> QED
        BY <2>1, <2>3 DEF PlacedInv
<1>5. ASSUME NEW ids \in {Pages, {}}, set_freelist(ids) PROVE PlacedInv'
  <2>1. scal' = [scal EXCEPT !.override = ids, !.touched = TRUE] /\ UNCHANGED <<dirty, save, mark>>
        BY <1>5 DEF set_freelist
  <2>2. /\ scal' \in ScalType /\ scal'.next = scal.next /\ scal'.pool = scal.pool
        /\ scal'.cursor = scal.cursor /\ scal'.deferred = scal.deferred
        BY Zenon, <2>1, <1>t DEF ScalType
  <2>3. Placed(scal', dirty)
        BY <2>2, <1>t, PlacedSame
  <2> QED
        BY <2>1, <2>3 DEF PlacedInv
<1>6. ASSUME savepoint PROVE PlacedInv'
  <2>1. mark'.scal = scal /\ mark'.dirty = dirty /\ UNCHANGED <<scal, dirty>>
        BY <1>6 DEF savepoint
  <2> QED
        BY <2>1, <1>t DEF PlacedInv
<1>7. ASSUME save' = NoSavepoint, UNCHANGED <<scal, dirty>> PROVE PlacedInv'
    BY <1>7, <1>s, <1>t DEF PlacedInv
<1>8. ASSUME rollback_savepoint PROVE PlacedInv'
  <2>1. save.on /\ save' = NoSavepoint /\ scal' = mark.scal /\ dirty' = mark.dirty
        BY <1>8, RollbackStep DEF rollback_savepoint
  <2> QED
        BY <2>1, <1>s DEF PlacedInv
<1>9. ASSUME end PROVE PlacedInv'
    BY <1>9, <1>s, BegunPlaced DEF end, PlacedInv
<1>10. CASE UNCHANGED vars
    BY <1>10, <1>3 DEF vars
<1>11. CASE Next
  <2>1. CASE \E p \in Pages, c \in Contents : page_mut(p, c) \/ write_node(p, c) \/ kept_and_page_mut(p, c)
        BY <2>1, <1>2
  <2>2. CASE \E p \in Pages : take_node(p) \/ set_root(p)
        BY <2>2, <1>3, <1>4 DEF take_node
  <2>3. CASE \E ids \in {Pages, {}} : set_freelist(ids)
        BY <2>3, <1>5
  <2>4. CASE release_savepoint \/ suspend
        BY <2>4, <1>7 DEF release_savepoint, suspend
  <2>5. CASE resume
        BY <2>5, <1>3 DEF resume
  <2> QED
        BY <1>11, <1>1, <1>6, <1>8, <1>9, <2>1, <2>2, <2>3, <2>4, <2>5 DEF Next
<1> QED
    BY <1>10, <1>11

(* The number of different elements of a sequence without repetition.      *)
LEMMA DistinctElements ==
    ASSUME NEW s \in Seq(Nat), \A i, j \in DOMAIN s : s[i] = s[j] => i = j
    PROVE  Cardinality({s[i] : i \in DOMAIN s}) = Len(s)
<1> DEFINE T == {s[i] : i \in DOMAIN s}
           f == [i \in 1..Len(s) |-> s[i]]
<1>1. DOMAIN s = 1..Len(s) /\ Len(s) \in Nat
    OBVIOUS
<1>2. f \in Bijection(1..Len(s), T)
    BY <1>1 DEF Bijection, Injection, Surjection, IsInjective
<1>3. ExistsBijection(1..Len(s), T)
    BY <1>2 DEF ExistsBijection
<1>4. IsFiniteSet(1..Len(s)) /\ Cardinality(1..Len(s)) = Len(s)
    BY <1>1, FS_Interval
<1> QED
    BY <1>3, <1>4, FS_Bijection

(* In every batch, for every sound free list, no page is in two places: a  *)
(* page that take_page_id() hands out was neither written before nor is it *)
(* handed out again, through statements that are rolled back, savepoints   *)
(* and suspension.                                                         *)
THEOREM NoPageIsSharedOut == Spec => []PagesAreHandedOutOnce
<1>1. Init => PlacedInv
    BY BegunPlaced DEF Init, PlacedInv, NoSavepoint
<1>2. PlacedInv => PagesAreHandedOutOnce
  <2> SUFFICES ASSUME PlacedInv PROVE PagesAreHandedOutOnce
        OBVIOUS
  <2> DEFINE pooled == {scal.pool[i] : i \in DOMAIN scal.pool}
             waiting == {scal.deferred[i] : i \in DOMAIN scal.deferred}
             written == {p \in Pages : dirty[p] # Nothing}
  <2>t. scal \in ScalType /\ FirstNew <= scal.next /\ FirstNew \in Nat /\ scal.next \in Nat
        BY ChainIsSound DEF PlacedInv, Placed, ScalType
  <2>1. Cardinality(pooled) = Len(scal.pool)
    <3>1. scal.pool \in Seq(Nat)
          BY <2>t DEF ScalType
    <3>2. \A i, j \in DOMAIN scal.pool : scal.pool[i] = scal.pool[j] => i = j
          BY DEF PlacedInv, Placed
    <3> QED
          BY <3>1, <3>2, DistinctElements
  <2>l. \A p : ListedBefore(p, scal.cursor) => p \notin waiting /\ p \in Nat /\ p < FirstNew
    <3> SUFFICES ASSUME NEW k \in DOMAIN Chain, NEW i \in DOMAIN Chain[k].ids
                 PROVE  Chain[k].ids[i] \notin waiting
          BY ChainEntry DEF ListedBefore
    <3> SUFFICES ASSUME NEW j \in DOMAIN scal.deferred, Chain[k].ids[i] = scal.deferred[j] PROVE FALSE
          OBVIOUS
    <3>1. PICK m \in DOMAIN Chain : scal.deferred[j] = Chain[m].page
          BY DEF PlacedInv, Placed
    <3> QED
          BY <3>1, ChainIsSound
  <2>2. pooled \cap waiting = {}
        BY <2>l DEF PlacedInv, Placed
  <2>3. pooled \cap written = {}
        BY DEF PlacedInv, Placed
  <2>4. ASSUME NEW p \in written PROVE p \notin waiting /\ p < scal.next
    <3>1. CASE ListedBefore(p, scal.cursor)
          BY <3>1, <2>l, <2>t
    <3>2. CASE FirstNew <= p /\ p < scal.next
      <4>1. \A i \in DOMAIN scal.deferred : scal.deferred[i] \in Nat /\ scal.deferred[i] < FirstNew
            BY ChainEntry DEF PlacedInv, Placed
      <4>2. p \in Nat
            BY Zenon, ChainIsSound
      <4> QED
            BY <3>2, <4>1, <4>2, <2>t
    <3> QED
          BY <3>1, <3>2 DEF PlacedInv, Placed
  <2> HIDE DEF pooled, waiting, written
  <2>5. /\ Cardinality(pooled) = Len(scal.pool)
        /\ pooled \cap (waiting \cup written) = {} /\ waiting \cap written = {}
        /\ \A p \in written : p < scal.next
        BY <2>1, <2>2, <2>3, <2>4
  <2> QED
        BY <2>5 DEF PagesAreHandedOutOnce, pooled, waiting, written
<1> QED
    BY <1>1, <1>2, InitIInv, NextIInv, NextPlaced, PTL DEF Spec
=============================================================================
