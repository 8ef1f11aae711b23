------------------------------ MODULE History ------------------------------
(***************************************************************************)
(* The history layer (db.rs, refs.rs, commit.rs): commit records that      *)
(* point at their parents, branches that point at records, retention       *)
(* floors, write transactions, snapshots and garbage collection.           *)
(*                                                                         *)
(* Several threads share one Db.  A call is cut where the code reads       *)
(* committed state before it takes the writer lock; what happens under the *)
(* lock, up to and including the commit of the batch, is one step, because *)
(* the pager makes a commit atomic (AtomicStore).  gc takes &mut self: it  *)
(* runs alone, though suspended transactions may exist.                    *)
(*                                                                         *)
(* What is abstracted.  A page is named by the txid that wrote it, and a   *)
(* page that was reclaimed is no longer in recs or data: whoever reads it  *)
(* gets something else.  The contents of a data tree are the set of        *)
(* commits whose writes are in it.                                         *)
(***************************************************************************)
EXTENDS Naturals, FiniteSets, FiniteSetsExt, TLC

CONSTANTS
    Threads,     \* threads that share the Db
    Writers,     \* those of them that do more than read
    Names,       \* branch names in their sort order, a sequence
    Times,       \* what the wall clock may say at a commit
    Retains,     \* arguments of gc
    MaxTxid      \* bound: commits of any kind

Main == "main"   \* DEFAULT_BRANCH
NameSet == {Names[i] : i \in DOMAIN Names}

ASSUME HistoryAssumption ==
    /\ Main \in NameSet /\ MaxTxid \in Nat
    /\ Times \subseteq Nat \ {0} /\ Retains \subseteq Nat \ {0}

VARIABLES
    meta,     \* the committed meta: txid, data_root, commit_page, refs
    recs,     \* commit records that have not been reclaimed, by page
    data,     \* contents of the data trees that have not been reclaimed
    current,  \* Db.current
    thr,      \* what each thread is doing
    parked,   \* the suspended transaction, if there is one
    past      \* every commit ever made, with its ancestors and contents

vars == <<meta, recs, data, current, thr, parked, past>>

NIL == 0
NoRefs == [head |-> Main, br |-> <<>>]
Ref(id, page, floor) == [head_id |-> id, head_page |-> page, floor_id |-> floor]
EmptyRef == Ref(0, NIL, 0)
Idle == [pc |-> "idle"]
Nothing == [id |-> 0, root |-> NIL]

\* The refs tree exists.
Materialized == meta.refs.br # <<>>

implicit_ref == Ref(meta.txid, meta.commit_page, 0)

\* Db::branches.
branches == IF Materialized THEN meta.refs.br ELSE [n \in {Main} |-> implicit_ref]

Init ==
    /\ meta = [txid |-> 0, data_root |-> NIL, commit_page |-> NIL, refs |-> NoRefs]
    /\ recs = <<>> /\ data = <<>>
    /\ current = Main
    /\ thr = [t \in Threads |-> Idle] /\ parked = Idle
    /\ past = <<>>
-----------------------------------------------------------------------------
(* Walks along parent edges.                                               *)

\* The record pages a walk from `head` visits, down to the floor.
Visited(head, floor) ==
    LET walk[p \in 0..MaxTxid] ==
          IF p = NIL THEN {}
          ELSE IF p \notin DOMAIN recs THEN {p}
          ELSE IF recs[p].commit_id <= floor THEN {p}
          ELSE {p} \cup walk[recs[p].parent_page]
    IN  walk[head]

\* find and the loop of find_commit: a record with this id, on the way.
Finds(ref, id) == id \in Visited(ref.head_page, Max({ref.floor_id, id}))

\* find_commit: the first branch by name that has it.
find_commit(id) ==
    LET hits == {i \in DOMAIN Names :
                    /\ Names[i] \in DOMAIN branches
                    /\ branches[Names[i]].head_id # 0
                    /\ Finds(branches[Names[i]], id)}
    IN  IF hits = {} THEN {} ELSE {branches[Names[Min(hits)]]}

\* is_ancestor.
is_ancestor(id, ref) == id = 0 \/ Finds(ref, id)

\* find_at_time: the newest record that is old enough.
find_at_time(ref, ts) ==
    LET old == {p \in Visited(ref.head_page, ref.floor_id) : recs[p].ts <= ts}
    IN  IF old = {} THEN {} ELSE {Max(old)}
-----------------------------------------------------------------------------
(* The writer lock.                                                        *)

LockFree == \A t \in Threads : thr[t].pc # "tx"

\* The tree the branch operations write into: materialize_refs seeds it.
Refs == IF Materialized THEN meta.refs
        ELSE [head |-> current, br |-> branches]

\* A batch that only changes refs.
CommitRefs(refs) ==
    /\ meta.txid < MaxTxid
    /\ meta' = [meta EXCEPT !.txid = @ + 1, !.refs = refs]
    /\ UNCHANGED <<recs, data, past>>

Become(t, state) == thr' = [thr EXCEPT ![t] = state]

\* The call returns an error, or has nothing to do; nothing was committed.
Returns(t) == Become(t, Idle) /\ UNCHANGED <<meta, recs, data, current, parked, past>>

WithBranch(refs, name, ref) == [refs EXCEPT !.br = (name :> ref) @@ @]
-----------------------------------------------------------------------------
(* branch_head(current), the first thing several calls do.  It reads the   *)
(* committed meta for the refs root, and when there is none it reads the   *)
(* committed meta again for the implicit branch.                           *)

Start(t, call) ==
    /\ thr[t].pc = "idle"
    /\ Become(t, call @@ [pc |-> "head", branch |-> current])
    /\ UNCHANGED <<meta, recs, data, current, parked, past>>

\* create_branch without a commit id, merge_ff, and snapshot, which reads the
\* meta once before.
CreateBranchHere(t) ==
    t \in Writers /\ \E name \in NameSet : Start(t, [op |-> "create", name |-> name])

Merge(t) ==
    t \in Writers /\ \E from \in NameSet \ {current} : Start(t, [op |-> "merge", name |-> from])

Snapshot(t) == Start(t, [op |-> "snap", meta |-> meta])

BranchHead(t) ==
    /\ thr[t].pc = "head"
    /\ \/ /\ Materialized /\ thr[t].branch \in DOMAIN meta.refs.br
          /\ Become(t, [thr[t] EXCEPT !.pc = "have"] @@ [ref |-> meta.refs.br[thr[t].branch]])
          /\ UNCHANGED <<meta, recs, data, current, parked, past>>
       \/ /\ IF Materialized THEN thr[t].branch \notin DOMAIN meta.refs.br /\ thr[t].op = "snap"
                             ELSE thr[t].branch = Main \/ thr[t].op = "snap"
          /\ Become(t, [thr[t] EXCEPT !.pc = "implicit"])
          /\ UNCHANGED <<meta, recs, data, current, parked, past>>
       \/ /\ IF Materialized THEN thr[t].branch \notin DOMAIN meta.refs.br ELSE thr[t].branch # Main
          /\ thr[t].op # "snap"
          /\ Returns(t)

ImplicitHead(t) ==
    /\ thr[t].pc = "implicit"
    /\ Become(t, [thr[t] EXCEPT !.pc = "have"] @@ [ref |-> implicit_ref])
    /\ UNCHANGED <<meta, recs, data, current, parked, past>>
-----------------------------------------------------------------------------
(* Branches.                                                               *)

\* create_branch at a commit, or at the empty state.
CreateBranchAt(t) ==
    /\ thr[t].pc = "idle" /\ t \in Writers
    /\ \E name \in NameSet :
       \/ Become(t, [pc |-> "have", op |-> "create", name |-> name, ref |-> EmptyRef])
       \/ \E id \in DOMAIN recs : \E b \in find_commit(id) :
             Become(t, [pc |-> "have", op |-> "create", name |-> name,
                        ref |-> Ref(id, id, b.floor_id)])
    /\ UNCHANGED <<meta, recs, data, current, parked, past>>

\* The rest of create_branch, under the lock.
CreateBranchCommit(t) ==
    /\ thr[t].pc = "have" /\ thr[t].op = "create" /\ LockFree
    /\ \/ thr[t].name \in DOMAIN Refs.br /\ Returns(t)
       \/ /\ thr[t].name \notin DOMAIN Refs.br
          /\ CommitRefs(WithBranch(Refs, thr[t].name, thr[t].ref))
          /\ Become(t, Idle) /\ UNCHANGED <<current, parked>>

\* switch_branch up to the commit; the name cached in Db follows later.
SwitchBranch(t) ==
    /\ thr[t].pc = "idle" /\ t \in Writers /\ LockFree
    /\ \E name \in DOMAIN Refs.br :
          /\ CommitRefs([Refs EXCEPT !.head = name])
          /\ Become(t, [pc |-> "switched", name |-> name])
    /\ UNCHANGED <<current, parked>>

Switched(t) ==
    /\ thr[t].pc = "switched"
    /\ current' = thr[t].name
    /\ Become(t, Idle)
    /\ UNCHANGED <<meta, recs, data, parked, past>>

\* drop_branch: not the current one.
DropBranch(t) ==
    /\ thr[t].pc = "idle" /\ t \in Writers
    /\ \E name \in NameSet \ {current} : Become(t, [pc |-> "drop", name |-> name])
    /\ UNCHANGED <<meta, recs, data, current, parked, past>>

DropBranchCommit(t) ==
    /\ thr[t].pc = "drop" /\ LockFree
    /\ \/ thr[t].name \notin DOMAIN Refs.br /\ Returns(t)
       \/ /\ thr[t].name \in DOMAIN Refs.br
          /\ CommitRefs([Refs EXCEPT !.br = [n \in DOMAIN @ \ {thr[t].name} |-> @[n]]])
          /\ Become(t, Idle) /\ UNCHANGED <<current, parked>>

\* Mutant: whether the branches have diverged is not asked.
MergeUnchecked(t) ==
    /\ thr[t].pc = "have" /\ thr[t].op = "merge" /\ thr[t].name \in DOMAIN branches
    /\ LET ours   == thr[t].ref
           theirs == branches[thr[t].name]
       IN  /\ ours.head_id # theirs.head_id
           /\ Become(t, [pc |-> "merge", name |-> thr[t].branch,
                         ref |-> Ref(theirs.head_id, theirs.head_page,
                                     Max({ours.floor_id, theirs.floor_id}))])
           /\ UNCHANGED <<meta, recs, data, current, parked, past>>

\* merge_ff goes on, still without the lock: the other head, and whether
\* ours is an ancestor of it.
MergeTheirs(t) ==
    /\ thr[t].pc = "have" /\ thr[t].op = "merge"
    /\ LET ours   == thr[t].ref
           theirs == branches[thr[t].name]
       IN  IF /\ thr[t].name \in DOMAIN branches
              /\ ours.head_id # theirs.head_id
              /\ is_ancestor(ours.head_id, theirs)
           THEN /\ Become(t, [pc |-> "merge", name |-> thr[t].branch,
                              ref |-> Ref(theirs.head_id, theirs.head_page,
                                          Max({ours.floor_id, theirs.floor_id}))])
                /\ UNCHANGED <<meta, recs, data, current, parked, past>>
           ELSE Returns(t)

MergeCommit(t) ==
    /\ thr[t].pc = "merge" /\ LockFree
    /\ CommitRefs(WithBranch(Refs, thr[t].name, thr[t].ref))
    /\ Become(t, Idle)
    /\ UNCHANGED <<current, parked>>
-----------------------------------------------------------------------------
(* Transactions.                                                           *)

\* begin reads the branch name, and then waits for the lock.
Begin(t) ==
    /\ thr[t].pc = "idle" /\ t \in Writers
    /\ Become(t, [pc |-> "begin", branch |-> current])
    /\ UNCHANGED <<meta, recs, data, current, parked, past>>

\* The head a transaction on `branch` starts from.
HeadOf(branch) ==
    IF Materialized /\ branch \in DOMAIN meta.refs.br THEN meta.refs.br[branch] ELSE implicit_ref

\* Mutant: the roots always come from the newest meta.
RootOfNewest(head) == meta.data_root

\* "roots come from the branch head, which equals the newest meta only when
\* this branch was the last one written to".
RootOf(head) ==
    IF head.head_id = meta.txid THEN meta.data_root
    ELSE IF head.head_id = 0 THEN NIL
    ELSE IF head.head_page \in DOMAIN recs THEN recs[head.head_page].data_root
    ELSE meta.data_root

BeginLocked(t) ==
    /\ thr[t].pc = "begin" /\ LockFree
    /\ LET head == HeadOf(thr[t].branch)
       IN  Become(t, [pc |-> "tx", branch |-> thr[t].branch, base |-> meta.txid,
                      parent |-> head, root |-> RootOf(head), wrote |-> FALSE])
    /\ UNCHANGED <<meta, recs, data, current, parked, past>>

Put(t) ==
    /\ thr[t].pc = "tx" /\ ~thr[t].wrote
    /\ Become(t, [thr[t] EXCEPT !.wrote = TRUE])
    /\ UNCHANGED <<meta, recs, data, current, parked, past>>

Contents(root) == IF root \in DOMAIN data THEN data[root] ELSE {}
Ancestors(id) == IF id \in DOMAIN past THEN past[id].ancestors ELSE {}

\* "once refs exist, the branch pointer advances in the same commit".
Advance(tx, id) ==
    IF ~Materialized THEN meta.refs
    ELSE WithBranch(meta.refs, tx.branch, Ref(id, id, tx.parent.floor_id))

write_record(tx, id, root, ts) ==
    [commit_id |-> id, parent_id |-> tx.parent.head_id, parent_page |-> tx.parent.head_page,
     data_root |-> root, ts |-> ts]

\* WriteTx::commit.
Commit(t) ==
    /\ thr[t].pc = "tx" /\ meta.txid < MaxTxid
    /\ LET tx   == thr[t]
           id   == meta.txid + 1
           root == IF tx.wrote THEN id ELSE tx.root
           now  == Contents(tx.root) \cup (IF tx.wrote THEN {id} ELSE {})
       IN  /\ \E ts \in Times : recs' = (id :> write_record(tx, id, root, ts)) @@ recs
           /\ data' = IF root = NIL THEN data ELSE (root :> now) @@ data
           /\ meta' = [txid |-> id, data_root |-> root, commit_page |-> id, refs |-> Advance(tx, id)]
           /\ past' = (id :> [ancestors |-> Ancestors(tx.parent.head_page) \cup {id},
                               contents |-> now, branch |-> tx.branch]) @@ past
    /\ Become(t, Idle)
    /\ UNCHANGED <<current, parked>>

\* Dropped, or the commit failed.
RollBack(t) == thr[t].pc = "tx" /\ Returns(t)

\* suspend puts the lock down and keeps the writes.
Suspend(t) ==
    /\ thr[t].pc = "tx" /\ parked = Idle
    /\ parked' = thr[t]
    /\ Become(t, Idle)
    /\ UNCHANGED <<meta, recs, data, current, past>>

\* Resumed by any thread, unless another writer has committed.
Resume(t) ==
    /\ thr[t].pc = "idle" /\ t \in Writers /\ parked # Idle /\ LockFree
    /\ parked' = Idle
    /\ Become(t, IF parked.base = meta.txid THEN parked ELSE Idle)
    /\ UNCHANGED <<meta, recs, data, current, past>>
-----------------------------------------------------------------------------
(* Reading.                                                                *)

\* Mutant: the meta read at the start serves whenever there is a head.
SnapshotOfNewest(old, head) ==
    IF head.head_id = 0 THEN Nothing ELSE [id |-> old.txid, root |-> old.data_root]

\* The end of snapshot: the head's record, or the meta read at the start.
SnapshotOf(old, head) ==
    IF head.head_id \notin {old.txid, 0} /\ head.head_page \in DOMAIN recs
    THEN [id |-> head.head_id, root |-> recs[head.head_page].data_root]
    ELSE IF head.head_id = 0 THEN Nothing
    ELSE [id |-> old.txid, root |-> old.data_root]

SnapshotDone(t) ==
    /\ thr[t].pc = "have" /\ thr[t].op = "snap"
    /\ Returns(t)
-----------------------------------------------------------------------------
(* Garbage collection and restart.                                         *)

\* The newest `retain` records of a branch.
Kept(ref, retain) ==
    LET walk == Visited(ref.head_page, ref.floor_id)
    IN  {p \in walk : Cardinality({q \in walk : q >= p}) <= retain}

\* What the mark phase of gc reaches.
Marked(retain) == UNION {Kept(branches[n], retain) : n \in DOMAIN branches}

\* Mutant: the floors stay where they were.
FloorNot(ref, retain) == ref.floor_id

\* The floor gc leaves for a branch: the oldest record it kept.
Floor(ref, retain) ==
    LET kept == Kept(ref, retain) IN IF kept = {} THEN ref.floor_id ELSE Min(kept)

Quiet == \A t \in Threads : thr[t].pc = "idle"

Gc ==
    /\ Quiet /\ meta.txid < MaxTxid
    /\ \E retain \in Retains :
          LET marked == Marked(retain)
          IN  /\ recs' = [p \in DOMAIN recs \cap marked |-> recs[p]]
              /\ data' = [r \in {recs[p].data_root : p \in marked} \ {NIL} |-> data[r]]
              /\ meta' = [meta EXCEPT
                    !.txid = @ + 1,
                    !.refs = [Refs EXCEPT !.br =
                        [n \in DOMAIN @ |-> [@[n] EXCEPT !.floor_id = Floor(branches[n], retain)]]]]
    /\ UNCHANGED <<current, thr, parked, past>>

\* The process ends, at any moment, and the file is opened again.
Reopen ==
    /\ thr' = [t \in Threads |-> Idle]
    /\ parked' = Idle
    /\ current' = meta.refs.head
    /\ UNCHANGED <<meta, recs, data, past>>
-----------------------------------------------------------------------------
Next ==
    \/ \E t \in Threads :
          \/ CreateBranchHere(t) \/ CreateBranchAt(t) \/ CreateBranchCommit(t)
          \/ SwitchBranch(t) \/ Switched(t) \/ DropBranch(t) \/ DropBranchCommit(t)
          \/ Merge(t) \/ MergeTheirs(t) \/ MergeCommit(t)
          \/ Begin(t) \/ BeginLocked(t) \/ Put(t) \/ Commit(t) \/ RollBack(t)
          \/ Suspend(t) \/ Resume(t)
          \/ Snapshot(t) \/ BranchHead(t) \/ ImplicitHead(t) \/ SnapshotDone(t)
    \/ Gc \/ Reopen

Spec == Init /\ [][Next]_vars
-----------------------------------------------------------------------------
(* Properties.                                                             *)

\* The retained part of a branch, from the record of every commit ever made.
Window(ref) == {i \in Ancestors(ref.head_page) : i >= ref.floor_id}

\* Whoever walks a branch down to its floor meets its retained commits, and
\* only records and data trees that collection has not reclaimed.
WalkIsSafe(ref) ==
    /\ Visited(ref.head_page, ref.floor_id) = Window(ref)
    /\ \A p \in Window(ref) :
          /\ p \in DOMAIN recs
          /\ recs[p].data_root \in DOMAIN data \cup {NIL}
          /\ Contents(recs[p].data_root) = past[p].contents

\* "a walk never follows a parent edge into a record that garbage collection
\* has reclaimed" (commit.rs:93-94), on no branch, and find_commit finds a
\* commit exactly when some branch retains it, although it gives up on a
\* branch at the first older id (commit.rs, db.rs: gc, find_commit).
WalksAreSafe ==
    /\ \A n \in DOMAIN branches : WalkIsSafe(branches[n])
    /\ \A id \in DOMAIN past :
          find_commit(id) # {} <=> \E n \in DOMAIN branches : id \in Window(branches[n])

\* "A read snapshot of the current branch head" (db.rs:322): the commit id a
\* snapshot reports is a commit, and its contents are those of that commit.
SnapshotsAreCommits ==
    \A t \in Threads :
       thr[t].pc = "have" /\ thr[t].op = "snap" =>
          LET snap == SnapshotOf(thr[t].meta, thr[t].ref)
          IN  snap.id # 0 => /\ snap.id \in DOMAIN past
                             /\ Contents(snap.root) = past[snap.id].contents

\* The ancestors of `new`, in the history after the step.
PastOf(new) == IF new \in DOMAIN past' THEN past'[new].ancestors ELSE {}

\* A branch moves forward only: its old head is an ancestor of the new one,
\* so no acknowledged commit drops out of a branch that is still there.
BranchesMoveForward ==
    [][\A n \in DOMAIN branches \cap DOMAIN branches' :
         branches[n].head_page \in {NIL} \cup PastOf(branches'[n].head_page)]_vars

\* A transaction builds on the head of its own branch, whatever was last
\* written elsewhere.
TransactionsBuildOnTheirBranch ==
    [][\A i \in DOMAIN past' \ DOMAIN past :
         LET b == past'[i].branch
         IN  b \in DOMAIN branches
             /\ past'[i].contents \ {i} =
                  (IF branches[b].head_page = NIL THEN {} ELSE past[branches[b].head_page].contents)]_vars

\* "Resolves to the empty state when the branch has no commit that old and
\* its full history is retained" (db.rs:519-520).
OldTimesAreEmpty ==
    LET ref == branches[current]
    IN  current \in DOMAIN branches /\ Window(ref) = Ancestors(ref.head_page)
          => \A ts \in {0} \cup Times :
                find_at_time(ref, ts) = {} => ref.head_id = 0 \/ ref.floor_id = 0
============================================================================
