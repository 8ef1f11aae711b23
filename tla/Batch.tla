------------------------------- MODULE Batch -------------------------------
(***************************************************************************)
(* A write batch from the inside (WriteBatch of pager.rs): pages taken     *)
(* from the free list or the end of the file, the pages written so far,    *)
(* the decoded nodes kept beside them, the savepoint a statement runs      *)
(* under, and suspension between statements.                               *)
(*                                                                         *)
(* A page's bytes are a content; decoding yields the same content, so a    *)
(* kept node is right when it equals its page.  dirty and nodes are total  *)
(* functions with Nothing where the map has no entry.  scal holds the      *)
(* twelve fields a savepoint copies by value, the roots as one.            *)
(* Committing is the subject of Pager; here a batch just ends.             *)
(***************************************************************************)
EXTENDS Naturals, Sequences, FiniteSets

CONSTANTS Pages,           \* page ids, numbers
          FirstNew,        \* page_count of the base
          Chain,           \* the free list: a sequence of [page, ids, whole]
          Contents,        \* what the bytes of a page can be
          Fresh,           \* the content of a page just allocated
          Nothing,         \* no entry
          NODE_CACHE_PAGES \* kept nodes before the cache is emptied

VARIABLES scal,      \* [next, root, pool, cursor, deferred, touched, allow, override]
          dirty,     \* page -> content or Nothing
          nodes,     \* page -> content or Nothing
          save,      \* the savepoint: [on, scal, undo]
          mark,      \* what scal and dirty were when it was taken
          phase      \* "open" or "suspended"

vars == <<scal, dirty, nodes, save, mark, phase>>

Values == Contents \cup {Fresh}

ASSUME NothingIsNoValue == Nothing \notin Values

(* The free list of a committed meta page: every id lies inside the file   *)
(* and is listed once, and no page of the chain is listed (FreeListsSound  *)
(* of Pager; freelist.rs: "a page id listed in the free list is referenced *)
(* by nothing at all, including the free list itself").                    *)
ASSUME ChainIsSound ==
    /\ FirstNew \in Nat /\ Pages \subseteq Nat
    /\ Chain \in Seq([page : 0..FirstNew - 1, ids : Seq(0..FirstNew - 1), whole : BOOLEAN])
    /\ \A k, l \in DOMAIN Chain : \A j \in DOMAIN Chain[l].ids :
         /\ Chain[k].page # Chain[l].ids[j]
         /\ \A i \in DOMAIN Chain[k].ids : Chain[k].ids[i] = Chain[l].ids[j] => k = l /\ i = j

NoEntries == [p \in Pages |-> Nothing]

(* begin(): cursor is the position of the next unread page of the chain.   *)
Begun == [next |-> FirstNew, root |-> 0, pool |-> <<>>, cursor |-> 1, deferred |-> <<>>,
          touched |-> FALSE, allow |-> TRUE, override |-> Nothing]

Unmarked == [scal |-> Begun, dirty |-> NoEntries]
NoSavepoint == [on |-> FALSE, scal |-> Begun, undo |-> [p \in Pages |-> <<>>]]

Init ==
    /\ scal = Begun /\ dirty = NoEntries /\ nodes = NoEntries
    /\ save = NoSavepoint /\ mark = Unmarked /\ phase = "open"

-----------------------------------------------------------------------------
(* The undo log: what a page held before the statement touched it first.   *)
(* An undo entry is <<content>> or <<Nothing>>; <<>> where there is none.  *)

record(p) ==
    IF save.on /\ save.undo[p] = <<>>
    THEN [on |-> TRUE, scal |-> save.scal, undo |-> [save.undo EXCEPT ![p] = <<dirty[p]>>]]
    ELSE save

(* take_page_id(): the pool, refilled from the next chain page, then the   *)
(* end of the file.  A chain page that cannot be read ends the chain.      *)
Refilled ==
    IF scal.allow /\ scal.pool = <<>> /\ scal.cursor <= Len(Chain)
    THEN IF ~Chain[scal.cursor].whole THEN [scal EXCEPT !.cursor = Len(Chain) + 1]
    ELSE [scal EXCEPT !.pool = Chain[scal.cursor].ids,
                      !.deferred = Append(@, Chain[scal.cursor].page),
                      !.cursor = @ + 1, !.touched = TRUE]
    ELSE scal

(* Mutant: the page stays in the pool it was taken from. *)
take_page_id_twice ==
    IF scal.allow /\ Refilled.pool # <<>>
    THEN [page |-> Refilled.pool[Len(Refilled.pool)], scal |-> Refilled]
    ELSE [page |-> Refilled.next, scal |-> [Refilled EXCEPT !.next = @ + 1]]

take_page_id ==
    IF scal.allow /\ Refilled.pool # <<>>
    THEN [page |-> Refilled.pool[Len(Refilled.pool)],
          scal |-> [Refilled EXCEPT !.pool = SubSeq(@, 1, Len(@) - 1)]]
    ELSE [page |-> Refilled.next, scal |-> [Refilled EXCEPT !.next = @ + 1]]

allocate ==
    LET t == take_page_id IN
    /\ phase = "open" /\ t.page \in Pages
    /\ save' = record(t.page)
    /\ scal' = t.scal
    /\ dirty' = [dirty EXCEPT ![t.page] = Fresh]
    /\ nodes' = [nodes EXCEPT ![t.page] = Nothing]
    /\ UNCHANGED <<mark, phase>>

(* page_mut() by a writer that is not the tree: overflow, free list,       *)
(* commit records.  The page is recorded even when it is refused.          *)
page_mut(p, c) ==
    /\ phase = "open"
    /\ save' = record(p)
    /\ nodes' = [nodes EXCEPT ![p] = Nothing]
    /\ dirty' = IF dirty[p] = Nothing THEN dirty ELSE [dirty EXCEPT ![p] = c]
    /\ UNCHANGED <<scal, mark, phase>>

(* keep_node_sized(): the cache is emptied when it is full.                *)
Keep(ns, p, c) ==
    LET full == Cardinality({q \in Pages : ns[q] # Nothing}) >= NODE_CACHE_PAGES /\ ns[p] = Nothing
    IN  [(IF full THEN NoEntries ELSE ns) EXCEPT ![p] = c]

(* write_node() of the tree: page_mut and keep_node_sized of one page.     *)
write_node(p, c) ==
    /\ phase = "open" /\ dirty[p] # Nothing
    /\ save' = record(p)
    /\ dirty' = [dirty EXCEPT ![p] = c]
    /\ nodes' = Keep([nodes EXCEPT ![p] = Nothing], p, c)
    /\ UNCHANGED <<scal, mark, phase>>

(* Mutant: the insert in place is not recorded for the savepoint. *)
kept_and_page_mut_unrecorded(p, c) ==
    /\ phase = "open" /\ nodes[p] # Nothing /\ dirty[p] # Nothing
    /\ dirty' = [dirty EXCEPT ![p] = c]
    /\ nodes' = [nodes EXCEPT ![p] = c]
    /\ UNCHANGED <<scal, save, mark, phase>>

(* kept_and_page_mut(): an insert into the page and its node at once.      *)
kept_and_page_mut(p, c) ==
    /\ phase = "open" /\ nodes[p] # Nothing /\ dirty[p] # Nothing
    /\ save' = record(p)
    /\ dirty' = [dirty EXCEPT ![p] = c]
    /\ nodes' = [nodes EXCEPT ![p] = c]
    /\ UNCHANGED <<scal, mark, phase>>

(* take_node_sized(): handed over and forgotten.                           *)
take_node(p) ==
    /\ phase = "open" /\ nodes[p] # Nothing
    /\ nodes' = [nodes EXCEPT ![p] = Nothing]
    /\ UNCHANGED <<scal, dirty, save, mark, phase>>

set_root(p) ==
    /\ phase = "open" /\ dirty[p] # Nothing
    /\ scal' = [scal EXCEPT !.root = p]
    /\ UNCHANGED <<dirty, nodes, save, mark, phase>>

set_freelist(ids) ==
    /\ phase = "open"
    /\ scal' = [scal EXCEPT !.override = ids, !.touched = TRUE]
    /\ UNCHANGED <<dirty, nodes, save, mark, phase>>

-----------------------------------------------------------------------------
(* Statements.                                                             *)

savepoint ==
    /\ phase = "open"
    /\ save' = [on |-> TRUE, scal |-> scal, undo |-> [p \in Pages |-> <<>>]]
    /\ mark' = [scal |-> scal, dirty |-> dirty]
    /\ UNCHANGED <<scal, dirty, nodes, phase>>

release_savepoint ==
    /\ phase = "open" /\ save.on
    /\ save' = NoSavepoint /\ mark' = Unmarked
    /\ UNCHANGED <<scal, dirty, nodes, phase>>

Undone(p) == save.undo[p] # <<>>

(* Mutant: the nodes of undone pages are kept. *)
rollback_keeps_nodes ==
    /\ phase = "open" /\ save.on
    /\ dirty' = [p \in Pages |-> IF Undone(p) THEN save.undo[p][1] ELSE dirty[p]]
    /\ scal' = save.scal
    /\ save' = NoSavepoint /\ mark' = Unmarked
    /\ UNCHANGED <<nodes, phase>>

rollback_savepoint ==
    /\ phase = "open" /\ save.on
    /\ nodes' = [p \in Pages |-> IF Undone(p) THEN Nothing ELSE nodes[p]]
    /\ dirty' = [p \in Pages |-> IF Undone(p) THEN save.undo[p][1] ELSE dirty[p]]
    /\ scal' = save.scal
    /\ save' = NoSavepoint /\ mark' = Unmarked
    /\ UNCHANGED phase

(* suspend() and resume(): the pages and the nodes go along, a savepoint   *)
(* does not.  A resume that is refused ends the batch.                     *)
suspend ==
    /\ phase = "open"
    /\ phase' = "suspended" /\ save' = NoSavepoint /\ mark' = Unmarked
    /\ UNCHANGED <<scal, dirty, nodes>>

resume ==
    /\ phase = "suspended"
    /\ phase' = "open"
    /\ UNCHANGED <<scal, dirty, nodes, save, mark>>

end ==
    /\ scal' = Begun /\ dirty' = NoEntries /\ nodes' = NoEntries
    /\ save' = NoSavepoint /\ mark' = Unmarked /\ phase' = "open"

Next ==
    \/ allocate
    \/ \E p \in Pages, c \in Contents : page_mut(p, c) \/ write_node(p, c) \/ kept_and_page_mut(p, c)
    \/ \E p \in Pages : take_node(p) \/ set_root(p)
    \/ \E ids \in {Pages, {}} : set_freelist(ids)
    \/ savepoint \/ release_savepoint \/ rollback_savepoint \/ suspend \/ resume \/ end

Spec == Init /\ [][Next]_vars

-----------------------------------------------------------------------------
(* Properties.                                                             *)

TypeOK ==
    /\ dirty \in [Pages -> Values \cup {Nothing}]
    /\ nodes \in [Pages -> Values \cup {Nothing}]
    /\ save.on \in BOOLEAN
    /\ save.undo \in [Pages -> {<<>>} \cup {<<v>> : v \in Values \cup {Nothing}}]
    /\ mark.dirty \in [Pages -> Values \cup {Nothing}]

(* What the undo log is for: under a savepoint every page is as the        *)
(* savepoint found it, or its pre-image is in the log.                     *)
UndoCovers ==
    save.on =>
        /\ save.scal = mark.scal
        /\ \A p \in Pages :
             mark.dirty[p] = IF save.undo[p] = <<>> THEN dirty[p] ELSE save.undo[p][1]

(* A kept node is the node its page's bytes decode to, through writes of   *)
(* the tree and past it, rollbacks, reuse of page ids, suspension and the  *)
(* emptying of the cache.                                                  *)
KeptNodesAgree ==
    \A p \in Pages : nodes[p] # Nothing => dirty[p] = nodes[p]

(* Rolling a statement back leaves the batch exactly as the savepoint      *)
(* found it: every page, those it allocated and those it rewrote, the      *)
(* roots, the free pages it took and the chain it read.                    *)
RollbackIsExact ==
    [][rollback_savepoint => scal' = mark.scal /\ dirty' = mark.dirty]_vars

(* A page is in one place only: written by this batch, ready for reuse, or *)
(* a chain page that waits for the commit; and no page is ready twice.     *)
PagesAreHandedOutOnce ==
    LET pooled == {scal.pool[i] : i \in DOMAIN scal.pool}
        waiting == {scal.deferred[i] : i \in DOMAIN scal.deferred}
        written == {p \in Pages : dirty[p] # Nothing}
    IN  /\ Cardinality(pooled) = Len(scal.pool)
        /\ pooled \cap (waiting \cup written) = {} /\ waiting \cap written = {}
        /\ \A p \in written : p < scal.next

=============================================================================
