------------------------------- MODULE BTree -------------------------------
(***************************************************************************)
(* The copy-on-write B-tree (btree.rs, node.rs): lookups, insertion with   *)
(* splits, unique insertion, deletion with merges, range scans, and which  *)
(* nodes a batch owns.                                                     *)
(*                                                                         *)
(* A tree is a nested value.  A branch has kids and the separators between *)
(* them: kids[1] is first_child, and seps[i], kids[i+1] is entries[i-1].   *)
(* The own flag of a node says that its page was allocated by the open     *)
(* batch: such a page is rewritten in place, any other is copied.  A key   *)
(* is a number with a length, a value is its length; sizes are counted the *)
(* way the encoder counts them, because splits, merges and overflow chains *)
(* depend on nothing else.                                                 *)
(***************************************************************************)
EXTENDS Naturals, Sequences, SequencesExt, FiniteSets, FiniteSetsExt

CONSTANTS
    PageSize,   \* bytes of a page
    HeaderLen,  \* PAGE_HEADER_LEN
    KeyOver,    \* length and flag of a cell: 3
    ValOver,    \* length of an inline value: 4
    PtrLen,     \* a page id, or the length of an overflow chain: 8
    KeyLen,     \* the lengths of the keys 1, 2, ..., up to max_key_len
    ValLens     \* lengths of the values that are stored

Keys == DOMAIN KeyLen
max_key_len == PageSize \div 8
inline_max == PageSize \div 4

VARIABLES
    root,    \* the working root of the batch; NIL when the tree is empty
    map,     \* what a sorted map would hold: the length under each key
    failed   \* why the last call failed: "no", "corrupted", "overrun"; a
             \* behaviour ends with the first call that fails

vars == <<root, map, failed>>

NIL == [own |-> FALSE, leaf |-> TRUE, ents |-> <<>>]
Leaf(ents) == [own |-> TRUE, leaf |-> TRUE, ents |-> ents]
Branch(kids, seps) == [own |-> TRUE, leaf |-> FALSE, kids |-> kids, seps |-> seps]
Entry(key, val) == [key |-> key, val |-> val]
-----------------------------------------------------------------------------
(* Sizes.                                                                  *)

leaf_cell_size(e) ==
    KeyOver + KeyLen[e.key] + (IF e.val > inline_max THEN 2 * PtrLen ELSE ValOver + e.val)

branch_cell_size(key) == KeyOver + KeyLen[key] + PtrLen

\* Bytes of the cells from first to last.
Cells(ents) == FoldLeft(LAMBDA sum, e : sum + leaf_cell_size(e), 0, ents)

encoded_size(n) ==
    HeaderLen + (IF n.leaf THEN Cells(n.ents)
                 ELSE PtrLen + FoldLeft(LAMBDA sum, k : sum + branch_cell_size(k), 0, n.seps))
-----------------------------------------------------------------------------
(* Lookups.                                                                *)

\* branch_rank and partition_point: how many separators are not above `key`.
branch_rank(seps, key) == Cardinality({i \in DOMAIN seps : seps[i] <= key})

\* branch_child: the child that covers `key`.
branch_child(n, key) == n.kids[branch_rank(n.seps, key) + 1]

\* find_in_leaf.
find_in_leaf(ents, key) == {ents[i].val : i \in {j \in DOMAIN ents : ents[j].key = key}}

RECURSIVE get(_, _)
get(n, key) == IF n.leaf THEN find_in_leaf(n.ents, key) ELSE get(branch_child(n, key), key)
-----------------------------------------------------------------------------
(* Scans: the branches on the path with the next child of each, and the    *)
(* cells left on the current leaf.                                         *)

\* descend to the leaf with the first key >= start; 0 stands for no bound.
RECURSIVE descend(_, _, _)
descend(n, start, stack) ==
    IF n.leaf THEN [stack |-> stack, left |-> SelectSeq(n.ents, LAMBDA e : e.key >= start)]
    ELSE LET idx == IF start = 0 THEN 0 ELSE branch_rank(n.seps, start)
         IN  descend(n.kids[idx + 1], start, Append(stack, [node |-> n, next |-> idx + 1]))

\* next_ref until it ends: cells of the leaf, then advance_leaf.
RECURSIVE Drain(_, _)
Drain(scan, end) ==
    IF scan.left # <<>>
    THEN IF end # 0 /\ Head(scan.left).key >= end THEN <<>>
         ELSE <<Head(scan.left)>> \o Drain([scan EXCEPT !.left = Tail(@)], end)
    ELSE IF scan.stack = <<>> THEN <<>>
    ELSE LET top == Last(scan.stack)
         IN  IF top.next > Len(top.node.seps) THEN Drain([scan EXCEPT !.stack = Front(@)], end)
             ELSE Drain(descend(top.node.kids[top.next + 1], 0,
                                Append(Front(scan.stack), [top EXCEPT !.next = @ + 1])), end)

Scan(n, start, end) == IF n = NIL THEN <<>> ELSE Drain(descend(n, start, <<>>), end)
-----------------------------------------------------------------------------
(* Insertion.                                                              *)

Done(n) == [kind |-> "done", node |-> n]
Split(left, sep, right) == [kind |-> "split", left |-> left, sep |-> sep, right |-> right]
Duplicate == [kind |-> "duplicate"]

\* Mutant: the separator is the last key of the left half.
finish_leaf_low(ents) ==
    IF encoded_size(Leaf(ents)) <= PageSize THEN Done(Leaf(ents))
    ELSE LET at == Len(ents) \div 2
         IN  Split(Leaf(SubSeq(ents, 1, at)), ents[at].key, Leaf(SubSeq(ents, at + 1, Len(ents))))

\* finish_leaf: "split by encoded size so wildly different value sizes still
\* balance".
finish_leaf(ents) ==
    IF encoded_size(Leaf(ents)) <= PageSize THEN Done(Leaf(ents))
    ELSE LET half == Cells(ents) \div 2
             full == {i \in DOMAIN ents : Cells(SubSeq(ents, 1, i)) >= half}
             at   == Min({Min(full), Len(ents) - 1})
         IN  Split(Leaf(SubSeq(ents, 1, at)), ents[at + 1].key,
                   Leaf(SubSeq(ents, at + 1, Len(ents))))

\* finish_branch splits by the number of entries; the middle separator
\* moves up.
finish_branch(kids, seps) ==
    IF encoded_size(Branch(kids, seps)) <= PageSize THEN Done(Branch(kids, seps))
    ELSE LET mid == Min({Max({Len(seps) \div 2, 1}), Len(seps) - 2})
         IN  Split(Branch(SubSeq(kids, 1, mid + 1), SubSeq(seps, 1, mid)), seps[mid + 1],
                   Branch(SubSeq(kids, mid + 2, Len(kids)), SubSeq(seps, mid + 2, Len(seps))))

\* The entries of a leaf with `key` replaced or put where it belongs.
WithEntry(ents, key, val) ==
    LET below == SelectSeq(ents, LAMBDA e : e.key < key)
        above == SelectSeq(ents, LAMBDA e : e.key > key)
    IN  below \o <<Entry(key, val)>> \o above

\* A rewritten node keeps its page id exactly when the batch owns the page.
SamePage(n) == n.own

RECURSIVE insert_rec(_, _, _, _)
insert_rec(n, key, val, unique) ==
    IF n.leaf
    THEN IF unique /\ find_in_leaf(n.ents, key) # {} THEN Duplicate
         ELSE finish_leaf(WithEntry(n.ents, key, val))
    ELSE LET i      == branch_rank(n.seps, key) + 1
             result == insert_rec(n.kids[i], key, val, unique)
         IN  IF result.kind = "duplicate" THEN Duplicate
             ELSE IF result.kind = "done"
             THEN LET kids == [n.kids EXCEPT ![i] = result.node]
                  IN  IF SamePage(n.kids[i]) THEN Done([n EXCEPT !.kids = kids])
                      ELSE Done(Branch(kids, n.seps))
             ELSE finish_branch(InsertAt([n.kids EXCEPT ![i] = result.left], i + 1, result.right),
                                InsertAt(n.seps, i, result.sep))

\* The root after an insertion: a split makes a new one.
NewRoot(result) ==
    IF result.kind = "done" THEN result.node
    ELSE Branch(<<result.left, result.right>>, <<result.sep>>)
-----------------------------------------------------------------------------
(* Deletion.  Pages are rewritten on the way up, so a call that fails at   *)
(* one level has already changed the pages below it.  A result therefore   *)
(* also says what the old page of the node reads as now, and where on the  *)
(* paths from there the page of the new node is: in `at`, as the numbers   *)
(* of the children to follow, or nowhere when its page is fresh.           *)

NotFound == [kind |-> "notfound"]
Updated(n, page, at) == [kind |-> "updated", node |-> n, page |-> page, at |-> at]
Emptied == [kind |-> "emptied"]
Corrupted(page) == [kind |-> "corrupted", page |-> page]

\* write_node over the page of n, which reads as `page`.
write_node(n, new, page) ==
    IF SamePage(n) THEN Updated(new, new, {<<>>}) ELSE Updated(new, page, {})

\* The page that `path` leads to from n reads as `new`.
RECURSIVE Overwritten(_, _, _)
Overwritten(n, path, new) ==
    IF path = <<>> THEN new
    ELSE [n EXCEPT !.kids[Head(path)] = Overwritten(@, Tail(path), new)]

MergedBranches(l, r, sep) == Branch(l.kids \o r.kids, l.seps \o <<sep>> \o r.seps)

\* merge_underfull_child on the child at i: the right neighbour is preferred,
\* the last child merges leftward, and the pair must leave headroom.  `into`
\* is the child that the pair is written over.
merge_underfull_child(kids, seps, i) ==
    LET untouched == [ok |-> TRUE, kids |-> kids, seps |-> seps, into |-> {}]
    IN  IF seps = <<>> \/ encoded_size(kids[i]) >= PageSize \div 4 THEN untouched
        ELSE LET li     == IF i <= Len(seps) THEN i ELSE i - 1
                 l      == kids[li]
                 r      == kids[li + 1]
                 merged == IF l.leaf THEN Leaf(l.ents \o r.ents) ELSE MergedBranches(l, r, seps[li])
             IN  IF l.leaf # r.leaf THEN [ok |-> FALSE]
                 ELSE IF encoded_size(merged) > (PageSize * 7) \div 8 THEN untouched
                 ELSE [ok |-> TRUE, kids |-> [RemoveAt(kids, li + 1) EXCEPT ![li] = merged],
                       seps |-> RemoveAt(seps, li), into |-> {li}]

\* Mutant: the parent of a node that was deleted from is not copied.
CollapsedInPlace(n, kids, seps, page, at) ==
    IF seps = <<>> THEN Updated(kids[1], page, at)
    ELSE Updated([Branch(kids, seps) EXCEPT !.own = FALSE], page, {})

\* A branch left with one child collapses into it, and its own page is left
\* as it reads; any other is written.
Collapsed(n, kids, seps, page, at) ==
    IF seps = <<>> THEN Updated(kids[1], page, at) ELSE write_node(n, Branch(kids, seps), page)

RECURSIVE delete_rec(_, _)
delete_rec(n, key) ==
    IF n.leaf
    THEN LET rest == SelectSeq(n.ents, LAMBDA e : e.key # key)
         IN  IF rest = n.ents THEN NotFound ELSE IF rest = <<>> THEN Emptied
             ELSE write_node(n, Leaf(rest), n)
    ELSE LET i      == branch_rank(n.seps, key) + 1
             result == delete_rec(n.kids[i], key)
             page   == [n EXCEPT !.kids[i] = result.page]
         IN  CASE result.kind = "notfound" -> NotFound
               [] result.kind = "corrupted" -> Corrupted(page)
               [] result.kind = "emptied" ->
                     Collapsed(n, RemoveAt(n.kids, i), RemoveAt(n.seps, Max({i - 1, 1})), n,
                               {<<IF i = 1 THEN 2 ELSE 1>>})
               [] OTHER ->
                     LET kids  == [n.kids EXCEPT ![i] = result.node]
                         m     == merge_underfull_child(kids, n.seps, i)
                         places(li) == IF ~SamePage(kids[li]) THEN {}
                                       ELSE IF li = i THEN {<<i>> \o path : path \in result.at}
                                       ELSE {<<li>>}
                         at    == UNION {places(li) : li \in m.into}
                         after == IF at = {} THEN page
                                  ELSE Overwritten(page, CHOOSE path \in at : TRUE,
                                                   m.kids[CHOOSE li \in m.into : TRUE])
                     IN  IF m.ok THEN Collapsed(n, m.kids, m.seps, after, at) ELSE Corrupted(page)
-----------------------------------------------------------------------------
(* The calls of a batch, one batch after the other.                        *)

Init == root = NIL /\ map = <<>> /\ failed = "no"

\* Every node that would be written fits its page.
RECURSIVE Fits(_)
Fits(n) == encoded_size(n) <= PageSize /\ (n.leaf \/ \A i \in DOMAIN n.kids : Fits(n.kids[i]))

\* encode_into panics when a node overruns its page, and the batch is lost.
\* `put` says what a map would hold.
Written(new, put) ==
    /\ root' = IF Fits(new) THEN new ELSE root
    /\ map' = IF Fits(new) THEN put ELSE map
    /\ failed' = IF Fits(new) THEN "no" ELSE "overrun"

Stored(key, val) == [k \in DOMAIN map \cup {key} |-> IF k = key THEN val ELSE map[k]]

\* put of a legal key into the tree n.
put(n, key, val) ==
    IF n = NIL THEN Leaf(<<Entry(key, val)>>) ELSE NewRoot(insert_rec(n, key, val, FALSE))

Put(key, val) == failed = "no" /\ Written(put(root, key, val), Stored(key, val))

\* put_unique: a long value is looked up first, because its overflow pages
\* are written before the descent.
PutUnique(key, val) ==
    /\ failed = "no"
    /\ LET result == IF root = NIL THEN Done(put(root, key, val))
                     ELSE IF val <= inline_max THEN insert_rec(root, key, val, TRUE)
                     ELSE IF get(root, key) # {} THEN Duplicate
                     ELSE Done(put(root, key, val))
       IN  Written(IF result.kind = "duplicate" THEN root ELSE NewRoot(result),
                   IF key \in DOMAIN map THEN map ELSE Stored(key, val))

\* remove from the tree n.  After an error the root is the old page, as it
\* reads by then.
remove(n, key) ==
    LET result == IF n = NIL THEN NotFound ELSE delete_rec(n, key)
    IN  [ok |-> result.kind # "corrupted",
         root |-> CASE result.kind = "updated" -> result.node
                    [] result.kind = "emptied" -> NIL
                    [] result.kind = "corrupted" -> result.page
                    [] OTHER -> n]

Delete(key) ==
    /\ failed = "no"
    /\ LET result == remove(root, key)
       IN  /\ root' = result.root
           /\ map' = IF result.ok THEN [k \in DOMAIN map \ {key} |-> map[k]] ELSE map
           /\ failed' = IF result.ok THEN "no" ELSE "corrupted"

RECURSIVE Frozen(_)
Frozen(n) == IF n.leaf THEN [n EXCEPT !.own = FALSE]
             ELSE [n EXCEPT !.own = FALSE, !.kids = [i \in DOMAIN @ |-> Frozen(@[i])]]

\* The batch commits and the next one begins: it owns nothing yet.
Commit ==
    /\ failed = "no"
    /\ root' = Frozen(root) /\ root' # root
    /\ UNCHANGED <<map, failed>>

Next ==
    \/ \E key \in Keys, val \in ValLens : Put(key, val)
    \/ \E key \in Keys, val \in ValLens : PutUnique(key, val)
    \/ \E key \in Keys : Delete(key)
    \/ Commit

Spec == Init /\ [][Next]_vars
-----------------------------------------------------------------------------
(* Properties.                                                             *)

RECURSIVE Nodes(_)
Nodes(n) == IF n.leaf THEN {n} ELSE {n} \cup UNION {Nodes(n.kids[i]) : i \in DOMAIN n.kids}

\* What a map yields for a range: its keys once each, in order.
InOrder(start, end) ==
    LET want == {k \in DOMAIN map : k >= start /\ (end = 0 \/ k < end)}
    IN  [i \in 1..Cardinality(want) |->
           LET k == CHOOSE x \in want : Cardinality({y \in want : y <= x}) = i
           IN  Entry(k, map[k])]

\* As long as no call has failed, a lookup finds what was put last and
\* nothing that was removed, and a scan yields the keys of its range once
\* each, in order, with their values (btree.rs: get, put, put_unique, remove,
\* RangeScan).  That no call fails is not part of it: see DeletesSucceed.
ActsLikeAMap ==
    failed = "no" =>
        /\ \A k \in Keys : get(root, k) = IF k \in DOMAIN map THEN {map[k]} ELSE {}
        /\ \A start \in {0} \cup Keys, end \in {0} \cup Keys :
              Scan(root, start, end) = InOrder(start, end)

\* A page of an earlier commit leads only to pages of earlier commits: no
\* committed root ever reaches a page that a later batch rewrites in place.
CommittedTreesAreFrozen ==
    \A n \in Nodes(root) : ~n.own /\ ~n.leaf => \A i \in DOMAIN n.kids : ~n.kids[i].own

\* "The caller has already checked Node::encoded_size against the page"
\* (node.rs:105): every node that is written fits into a page.
NodesFit == failed # "overrun"

\* "the B-tree must behave exactly like `std::collections::BTreeMap` under
\* arbitrary operation sequences" (tests/btree_model.rs:1-2): no deletion from
\* a tree that only saw legal calls fails (btree.rs: merge_underfull_child).
DeletesSucceed == failed # "corrupted"
============================================================================
