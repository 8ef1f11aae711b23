------------------------------ MODULE RefsTree ------------------------------
(***************************************************************************)
(* The refs tree under garbage collection (db.rs, refs.rs): History takes  *)
(* the refs for a map; here they are a B-tree of pages.  Every branch      *)
(* operation is a batch of its own.  gc does not mark the pages of the     *)
(* refs tree: it counts on rewriting them, because it puts every branch    *)
(* again, and it frees every page that is neither marked nor written.      *)
(*                                                                         *)
(* Keys are the branches in the order of their names, then ("head").       *)
(***************************************************************************)
EXTENDS BTree

CONSTANTS
    MainKey,   \* the key of the branch "main"
    NameLen    \* bytes of a branch name

VARIABLES
    current,   \* the current branch
    dangling   \* pages of the refs tree that are on the free list

refsVars == <<vars, current, dangling>>

RefLen == 24                    \* an encoded BranchRef
HeadKey == Max(Keys)            \* ("head") sorts after ("branch", name)
Branches == Keys \ {HeadKey}

\* materialize_refs, in a batch that owns nothing yet.
materialize_refs ==
    IF root = NIL THEN put(put(NIL, MainKey, RefLen), HeadKey, NameLen) ELSE Frozen(root)

\* The names branches() lists.
Existing == IF root = NIL THEN {MainKey} ELSE {k \in Branches : get(root, k) # {}}

RefsInit == Init /\ current = MainKey /\ dangling = {}

\* create_branch, and a commit on a branch, which moves its pointer once
\* there is a refs tree.
PutBranch(name) ==
    /\ root # NIL \/ name # MainKey
    /\ root' = put(materialize_refs, name, RefLen)
    /\ UNCHANGED <<map, failed, current, dangling>>

SwitchBranch(name) ==
    /\ name \in Existing
    /\ root' = put(materialize_refs, HeadKey, NameLen)
    /\ current' = name
    /\ UNCHANGED <<map, failed, dangling>>

DropBranch(name) ==
    /\ name \in Existing /\ name # current
    /\ LET result == remove(materialize_refs, name)
       IN  root' = IF result.ok THEN result.root ELSE root
    /\ UNCHANGED <<map, failed, current, dangling>>

\* gc writes every branch again.
RECURSIVE PutAll(_, _)
PutAll(n, names) ==
    IF names = {} THEN n
    ELSE LET first == Min(names) IN PutAll(put(n, first, RefLen), names \ {first})

\* Mutant: only the current branch gets a new floor.
RewriteCurrent == put(materialize_refs, current, RefLen)

Rewrite == PutAll(materialize_refs, Existing)

\* The sweep: what the batch does not own was allocated before and is free.
Gc ==
    /\ root' = Rewrite
    /\ dangling' = {n \in Nodes(root') : ~n.own}
    /\ UNCHANGED <<map, failed, current>>

RefsNext ==
    \/ \E name \in Branches : PutBranch(name) \/ SwitchBranch(name) \/ DropBranch(name)
    \/ Gc

RefsSpec == RefsInit /\ [][RefsNext]_refsVars
-----------------------------------------------------------------------------
\* "a page id listed in the free list is referenced by nothing at all"
\* (freelist.rs:12-13): a collection leaves no page of the refs tree free.
RefsSurviveCollection == dangling = {}
=============================================================================
