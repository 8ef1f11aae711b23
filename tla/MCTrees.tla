------------------------------ MODULE MCTrees -------------------------------
(***************************************************************************)
(* What a write batch is made of, for TLC: its pages and savepoint, the    *)
(* B-tree on small pages, and the refs tree under collection on pages of   *)
(* 512 bytes.  A behaviour is about one part; the others rest.             *)
(***************************************************************************)
EXTENDS Batch

CONSTANTS Parts,
          RefsKeys   \* lengths of the branches' keys and of ("head"), see below

VARIABLES part, root, map, failed, current, dangling

(* Pages 2..5 are of the base; 4 is a page of the free list chain that     *)
(* lists 2 and 3, the next page of the chain, 5, is damaged, and 6 is the  *)
(* page at the end of the file.                                            *)
TwoPages == <<[page |-> 4, ids |-> <<2, 3>>, whole |-> TRUE],
              [page |-> 5, ids |-> <<>>, whole |-> FALSE]>>

(* Small pages: two long values to a leaf, two separators to a branch.     *)
B == INSTANCE BTree WITH PageSize <- 32, HeaderLen <- 1, KeyOver <- 1, ValOver <- 1,
                         PtrLen <- 5, KeyLen <- [k \in 1..5 |-> 4], ValLens <- {0, 8}

(* The sizes of the real encoding; a branch name has fifty bytes.          *)
R == INSTANCE RefsTree WITH PageSize <- 512, HeaderLen <- 16, KeyOver <- 3, ValOver <- 4,
                            PtrLen <- 8, KeyLen <- RefsKeys, ValLens <- {24, 50},
                            MainKey <- 2, NameLen <- 50

(* ("branch", name) takes 8 bytes and the name with its tag and end.       *)
SixBranches == [k \in 1..7 |-> IF k = 7 THEN 6 ELSE 60]
SevenBranches == [k \in 1..8 |-> IF k = 8 THEN 6 ELSE 60]

tree == <<root, map, failed>>
refs == <<current, dangling>>
all == <<part, vars, tree, refs>>

MCInit == part \in Parts /\ Init /\ R!RefsInit

MCNext ==
    /\ UNCHANGED part
    /\ \/ part = "batch" /\ Next /\ UNCHANGED <<tree, refs>>
       \/ part = "tree" /\ B!Next /\ UNCHANGED <<vars, refs>>
       \/ part = "refs" /\ R!RefsNext /\ UNCHANGED vars

MCSpec == MCInit /\ [][MCNext]_all
-----------------------------------------------------------------------------
(* The properties of the instances, by their own names.                    *)

(* btree.rs get, put, put_unique, remove and RangeScan: see BTree.         *)
ActsLikeAMap == part = "tree" => B!ActsLikeAMap

(* btree.rs merge_underfull_child: see BTree.                              *)
DeletesSucceed == part = "tree" => B!DeletesSucceed

(* btree.rs insert_rec and delete_rec: see BTree.                          *)
CommittedTreesAreFrozen == part = "tree" => B!CommittedTreesAreFrozen

(* db.rs gc_inner: see RefsTree.                                           *)
RefsSurviveCollection == R!RefsSurviveCollection
=============================================================================
