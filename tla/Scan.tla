-------------------------------- MODULE Scan --------------------------------
(***************************************************************************)
(* Walking the b-trees of a SQLite file (quantydb-sqlite: tree.rs, page.rs, *)
(* cell.rs and the payload assembly of lib.rs).                            *)
(*                                                                         *)
(* A file has a root page and a sequence of pages.  It need not be a      *)
(* database: pointers may lead anywhere, kinds may not match, rowids may   *)
(* be out of order, overflow chains may be cut or too long.  A page keeps  *)
(* its kind, where its content starts, its cells, its right most child and *)
(* the number its first four bytes make, which is what an overflow page is *)
(* read for; a cell where it starts, its child, its rowid, the length of   *)
(* what precedes its payload, the size of the payload and its first        *)
(* overflow page.  The payload that is read is the sequence of the         *)
(* overflow pages its bytes came from; decoding it is module Record.       *)
(***************************************************************************)
EXTENDS Integers, Sequences, FiniteSets
LOCAL INSTANCE SequencesExt

LOCAL INSTANCE FiniteSetsExt

CONSTANTS
    Files,     \* sets of files to read: a root and the pages
    Usable,    \* bytes of a page the b-tree layer may use
    PageSize   \* bytes of a page

ASSUME ScanAssumption == Usable >= 480 /\ PageSize >= Usable

VARIABLES
    file,   \* the pages of the file; they do not change
    root,   \* the root page of the tree to walk
    scan    \* the iterator, a TableScan or an IndexScan

vars == <<file, root, scan>>

PageCount == Len(file)

(***************************************************************************)
(* Pages and cells                                                         *)
(***************************************************************************)
IsTable(kind) == kind \in {"InteriorTable", "LeafTable"}
IsInterior(kind) == kind \in {"InteriorTable", "InteriorIndex"}

(* Reader::read_page: the page exists.                                     *)
Readable(p) == p \in 1 .. PageCount

header_len(kind) == IF IsInterior(kind) THEN 12 ELSE 8
BodyOffset(p) == IF p = 1 THEN 100 ELSE 0

(* Where the header and the pointer array of a page end.                   *)
PointersEnd(p) == BodyOffset(p) + header_len(file[p].kind) + 2 * Len(file[p].cells)

(* Reader::btree_page and BtreePage::parse: a known kind, a pointer array, *)
(* a content area and cells inside the page and, on an interior page, a    *)
(* right most child.                                                       *)
BtreePage(p) ==
    /\ Readable(p)
    /\ file[p].kind \in {"InteriorTable", "LeafTable", "InteriorIndex", "LeafIndex"}
    /\ LET content_start == IF file[p].content = 0 THEN 65536 ELSE file[p].content
       IN  /\ PointersEnd(p) <= Usable
           /\ content_start <= Usable
           /\ file[p].cells # <<>> => content_start >= PointersEnd(p)
    /\ \A i \in DOMAIN file[p].cells : file[p].cells[i].at \in PointersEnd(p) .. Usable - 1
    /\ IsInterior(file[p].kind) => file[p].right # 0

max_local(kind) == IF kind = "LeafTable" THEN Usable - 35 ELSE ((Usable - 12) * 64) \div 255 - 23
min_local == ((Usable - 12) * 32) \div 255 - 23

(* local_len: how many bytes of a payload stay on the page.                *)
local_len(kind, total) ==
    LET k == min_local + ((total - min_local) % (Usable - 4))
    IN  IF total <= max_local(kind) THEN total
        ELSE IF k <= max_local(kind) THEN k ELSE min_local

(* payload_ref: the size is one the file could hold, the local part is on  *)
(* the page, and a spilled payload has an overflow page.                   *)
PayloadRef(kind, cell) ==
    LET local == local_len(kind, cell.total)
        left == Usable - cell.at - cell.head
    IN  /\ cell.total <= PageCount * PageSize
        /\ local <= left
        /\ local < cell.total => left - local >= 4 /\ cell.first # 0

(* Mutant: the end of the chain is not looked at.                          *)
Complete_open(chain) == chain.ok
(* A chain that brought the whole payload and ends with it.                *)
Complete(chain) == chain.ok /\ chain.next = 0

(* Reader::assemble: overflow pages until the payload is complete; a chain *)
(* that ends before, leads out of the file or goes on after is an error.   *)
Assemble(kind, cell) ==
    LET per_page == Usable - 4
        local == local_len(kind, cell.total)
        needed == (cell.total - local + per_page - 1) \div per_page
        go[i \in 0 .. needed] ==
            IF i = 0 THEN [ok |-> TRUE, next |-> cell.first, pages |-> <<>>]
            ELSE LET before == go[i - 1]
                 IN  IF before.ok /\ Readable(before.next)
                     THEN [ok |-> TRUE, next |-> file[before.next].next,
                           pages |-> Append(before.pages, before.next)]
                     ELSE [before EXCEPT !.ok = FALSE]
    IN  IF local = cell.total THEN [ok |-> TRUE, pages |-> <<>>]
        ELSE [ok |-> Complete(go[needed]), pages |-> go[needed].pages]

(* The child pointer and the varints of a cell are on the page.            *)
HeadFits(cell) == cell.at + cell.head <= Usable

(* Reader::cell: what cell::parse accepts, with its payload.               *)
Cell(p, i) ==
    LET kind == file[p].kind
        cell == file[p].cells[i]
        payload == Assemble(kind, cell)
        whole == PayloadRef(kind, cell) /\ payload.ok
    IN  [ok |-> /\ HeadFits(cell)
                /\ IsInterior(kind) => cell.child # 0
                /\ kind # "InteriorTable" => whole,
         child |-> cell.child,
         row |-> [rowid |-> cell.rowid, pages |-> IF whole THEN payload.pages ELSE <<>>]]

(***************************************************************************)
(* The walk                                                                *)
(***************************************************************************)
Top == scan.stack[Len(scan.stack)]
Retop(stack, frame) == [stack EXCEPT ![Len(stack)] = frame]
Fresh(p) == [page |-> p, next |-> 1, descended |-> FALSE]
Bumped(frame) == [frame EXCEPT !.next = @ + 1, !.descended = FALSE]
(* A page whose cells are used up leaves the stack.                        *)
Popped == [scan EXCEPT !.stack = SubSeq(@, 1, Len(@) - 1)]
Failed == [scan EXCEPT !.failed = TRUE, !.finished = TRUE]
Emit(row) == [scan EXCEPT !.stack = Retop(@, Bumped(Top)), !.out = Append(@, row),
                          !.last = <<row.rowid>>]

(* Mutant: a page may be visited again.                                    *)
Descend_again(child, frame) ==
    IF ~BtreePage(child) \/ IsTable(file[child].kind) # scan.table THEN Failed
    ELSE [scan EXCEPT !.visited = @ \cup {child},
                      !.stack = Append(Retop(@, frame), Fresh(child))]
(* descend: a page visited before, one that is none, and one of the other  *)
(* kind of tree end the walk in an error.                                  *)
Descend(child, frame) ==
    IF child \in scan.visited \/ ~BtreePage(child) \/ IsTable(file[child].kind) # scan.table
    THEN Failed
    ELSE [scan EXCEPT !.visited = @ \cup {child},
                      !.stack = Append(Retop(@, frame), Fresh(child))]

Start(p) == [table |-> IsTable(file[p].kind), visited |-> {p}, failed |-> FALSE,
             finished |-> FALSE, last |-> <<>>, out |-> <<>>,
             stack |-> <<Fresh(p)>>]
NoScan == [table |-> FALSE, visited |-> {}, failed |-> FALSE, finished |-> FALSE,
           last |-> <<>>, out |-> <<>>, stack |-> <<>>]

(* Reader::rows over the tree: the root page says which walk it is.        *)
Rows ==
    /\ scan = NoScan
    /\ scan' = IF BtreePage(root) THEN Start(root) ELSE [NoScan EXCEPT !.failed = TRUE, !.finished = TRUE]
    /\ UNCHANGED <<file, root>>

Walking == scan # NoScan /\ ~scan.finished

(* A leaf: its next cell is a row, in a table one with a rowid above the   *)
(* last, or its end.                                                       *)
LeafStep(p, frame) ==
    LET cells == Len(file[p].cells)
        cell == Cell(p, frame.next)
    IN  IF frame.next > cells THEN Popped
        ELSE IF ~cell.ok THEN Failed
        ELSE IF scan.table /\ scan.last # <<>> /\ cell.row.rowid <= scan.last[1] THEN Failed
        ELSE Emit(cell.row)

(* An interior page of a table: every child, then the right most one.      *)
TableInterior(p, frame) ==
    LET cells == Len(file[p].cells)
        cell == Cell(p, frame.next)
    IN  IF frame.next <= cells
        THEN IF cell.ok THEN Descend(cell.child, Bumped(frame)) ELSE Failed
        ELSE IF frame.next = cells + 1 THEN Descend(file[p].right, Bumped(frame))
        ELSE Popped

(* An interior page of an index: the child left of a cell, the cell, and   *)
(* after the last cell the right most child.                               *)
IndexInterior(p, frame) ==
    LET cells == Len(file[p].cells)
        cell == Cell(p, frame.next)
        down == [frame EXCEPT !.descended = TRUE]
    IN  IF frame.next <= cells
        THEN IF ~cell.ok THEN Failed
             ELSE IF frame.descended THEN Emit(cell.row) ELSE Descend(cell.child, down)
        ELSE IF frame.descended THEN Popped ELSE Descend(file[p].right, down)

(* One round of Iterator::next: the end, or a step.                        *)
Step ==
    /\ Walking
    /\ scan' =
        IF scan.stack = <<>> THEN [scan EXCEPT !.finished = TRUE]
        ELSE LET p == Top.page
             IN  IF ~IsInterior(file[p].kind) THEN LeafStep(p, Top)
                 ELSE IF scan.table THEN TableInterior(p, Top)
                 ELSE IndexInterior(p, Top)
    /\ UNCHANGED <<file, root>>

Init == (\E files \in Files : \E f \in files : file = f.pages /\ root = f.root) /\ scan = NoScan
Next == Rows \/ Step
Spec == Init /\ [][Next]_vars

(***************************************************************************)
(* What a tree is, from the format: the root's kind goes all the way down, *)
(* every page is laid out inside its usable bytes and reached once, every  *)
(* payload has as many overflow pages as it needs, and rowids ascend.      *)
(***************************************************************************)
Kinds == IF IsTable(file[root].kind) THEN {"InteriorTable", "LeafTable"}
         ELSE {"InteriorIndex", "LeafIndex"}
Header(p) == (IF p = 1 THEN 100 ELSE 0) + (IF IsInterior(file[p].kind) THEN 12 ELSE 8)
LaidOut(p) ==
    LET cells == Range(file[p].cells)
        body == Header(p) + 2 * Len(file[p].cells) .. Usable
    IN  /\ file[p].content \in 1 .. Usable
        /\ cells # {} => file[p].content \in body
        /\ \A cell \in cells : cell.at .. cell.at + cell.head - 1 \subseteq body \ {Usable}

Pages(kind, total) == IF total <= max_local(kind) THEN 0
                      ELSE (total - max_local(kind) + Usable - 5) \div (Usable - 4)
Chains(first, n) ==
    {s \in [1 .. n -> 1 .. PageCount] :
        /\ n > 0 => s[1] = first /\ file[s[n]].next = 0
        /\ \A i \in 1 .. n - 1 : file[s[i]].next = s[i + 1]}
Fits(p, cell) ==
    LET local == local_len(file[p].kind, cell.total)
    IN  cell.at + cell.head + local + (IF local < cell.total THEN 4 ELSE 0) <= Usable

None == [ok |-> FALSE, rows |-> <<>>, pages |-> <<>>]
Nothing == [None EXCEPT !.ok = TRUE]
Join(a, b) == [ok |-> a.ok /\ b.ok, rows |-> a.rows \o b.rows, pages |-> a.pages \o b.pages]
Own(p, cell) ==
    LET chains == Chains(cell.first, Pages(file[p].kind, cell.total))
    IN  IF chains = {} \/ ~Fits(p, cell) THEN None
        ELSE [Nothing EXCEPT !.rows = <<[rowid |-> cell.rowid, pages |-> CHOOSE s \in chains : TRUE]>>]

RECURSIVE Tree(_, _)
Tree(p, depth) ==
    LET cells == file[p].cells
        here == [Nothing EXCEPT !.pages = <<p>>]
        kid(i) == Tree(IF i <= Len(cells) THEN cells[i].child ELSE file[p].right, depth - 1)
        own(i) == IF ~IsTable(file[p].kind) /\ i <= Len(cells) THEN Own(p, cells[i]) ELSE Nothing
    IN  IF depth = 0 \/ ~Readable(p) THEN None
        ELSE IF file[p].kind \notin Kinds \/ ~LaidOut(p) THEN None
        ELSE FoldLeft(Join, here,
                IF IsInterior(file[p].kind)
                THEN [i \in 1 .. Len(cells) + 1 |-> Join(kid(i), own(i))]
                ELSE [i \in 1 .. Len(cells) |-> Own(p, cells[i])])

Sound(tree) ==
    /\ tree.ok /\ IsInjective(tree.pages)
    /\ IsTable(file[root].kind) =>
         \A i \in 1 .. Len(tree.rows) - 1 : tree.rows[i].rowid < tree.rows[i + 1].rowid

(***************************************************************************)
(* Properties                                                              *)
(***************************************************************************)

(* A payload spills no more than it must: what stays on the page fits      *)
(* there, and keeping any other amount of it there would not save an       *)
(* overflow page (cell.rs: local_len).                                     *)
SpillIsTight ==
    \A p \in 1 .. PageCount : \A i \in DOMAIN file[p].cells :
        LET kind == file[p].kind
            total == file[p].cells[i].total
            local == local_len(kind, total)
            over(n) == (total - n + Usable - 5) \div (Usable - 4)
        IN  kind \in {"LeafTable", "LeafIndex", "InteriorIndex"} =>
              /\ local <= max_local(kind)
              /\ local < total => local >= min_local /\ over(local) = over(max_local(kind))

(* A walk that ends without an error has handed out the rows of the tree,  *)
(* all of them, once, in order and with the payloads their chains hold;    *)
(* and it ends in an error exactly when the pages do not make a tree.      *)
(* What a cell says it keeps on its page is what SQLite keeps there        *)
(* (tree.rs: TableScan, IndexScan; lib.rs: assemble; cell.rs: local_len).  *)
ScanIsTheTree ==
    /\ SpillIsTight
    /\ scan.finished => \E tree \in {Tree(root, PageCount)} :
          IF Sound(tree) THEN ~scan.failed /\ scan.out = tree.rows ELSE scan.failed

(* The rounds a page takes from a frame on, with its children left out:    *)
(* each cell once or, between the children of an index, twice, the right   *)
(* most child and the end.                                                 *)
Left(frame) ==
    LET cells == Len(file[frame.page].cells)
        kind == file[frame.page].kind
    IN  IF kind = "InteriorIndex"
        THEN 2 * (cells + 1 - frame.next) + (IF frame.descended THEN 1 ELSE 2)
        ELSE cells + 1 - frame.next + (IF kind = "InteriorTable" THEN 2 ELSE 1)
Remaining ==
    IF scan.finished THEN 0
    ELSE 1 + MapThenSumSet(LAMBDA i : Left(scan.stack[i]), DOMAIN scan.stack)
           + MapThenSumSet(LAMBDA p : Left(Fresh(p)), (1 .. PageCount) \ scan.visited)
           + (IF scan = NoScan THEN 1 ELSE 0)

(* Every round brings the walk closer to its end, whatever the pointers of *)
(* the file make: a cycle, pages that share children, a chain that loops.  *)
(* What is left are the cells of the pages on the stack and those of the   *)
(* pages never visited, and no step adds to it (tree.rs: descend, step).   *)
EveryRoundIsProgress == [][Remaining' < Remaining /\ Remaining' >= 0]_vars

=============================================================================
