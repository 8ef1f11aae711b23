------------------------------ MODULE MCSqlite ------------------------------
(***************************************************************************)
(* Reading a SQLite database and importing it, for TLC: the write-ahead    *)
(* log, the records, the b-trees and the import.  A behaviour is about one *)
(* part; the others rest.                                                  *)
(***************************************************************************)
EXTENDS Scan

CONSTANTS Parts, Rowids, Integers_, Texts, Blobs, MaxColumns, Sources, Changes(_)

VARIABLES part,
          main, log, db, commits, txn, tail, synced, copied, full, txs, reader,
          rowid, row, encoding, bytes_, whole, out,
          source, planned, options, phase, plan, nth, nthrow, batch, target, error

(* Few pages and many transactions, and the other way round; SQLite waits  *)
(* for the reader.                                                         *)
Deep == INSTANCE Wal WITH MaxPage <- 2, MaxTx <- 3, MaxFrames <- 3, MaxSalt <- 2, Live <- FALSE
Broad == INSTANCE Wal WITH MaxPage <- 3, MaxTx <- 2, MaxFrames <- 4, MaxSalt <- 2, Live <- FALSE

(* Bytes of three bits keep the eight bytes of the widest integer within   *)
(* TLC's numbers.                                                          *)
R == INSTANCE Record WITH Bits <- 3

I == INSTANCE Import WITH BATCH <- 2, KeyLimit <- 512, TooBig <- {"big"}, at <- nth, next <- nthrow,
                          db <- target

N == INSTANCE Names
-----------------------------------------------------------------------------
(* Integers on both sides of the edges of every width; a varint has no     *)
(* more than 19 bits.                                                      *)
Ends(bits) == {-(2 ^ (bits - 1)), 2 ^ (bits - 1) - 1, -(2 ^ (bits - 1)) - 1, 2 ^ (bits - 1)}
SomeIntegers == {-1, 0, 1, 2} \cup UNION {Ends(3 * w) : w \in {1, 2, 3, 4, 6}}
SomeRowids == {-(2 ^ 18), 2 ^ 16 - 1, 2 ^ 16}
SomeTexts == {<<>>, <<"plain">>, <<"plain", "astral">>, <<"astral", "astral">>}
SomeBlobs == {<<>>, <<7>>, <<6, 4>>, [i \in 1 .. 30 |-> 5]}
-----------------------------------------------------------------------------
Far == 9  \* a page number outside every file; also what the bytes of a b-tree page make
Page(kind, cells, right) ==
    [kind |-> kind, content |-> 400, cells |-> cells, right |-> right, next |-> Far]
Overflow(next) == [Page("Overflow", <<>>, 0) EXCEPT !.next = next]
Row(id) == [at |-> 440, head |-> 2, child |-> 0, rowid |-> id, total |-> 10, first |-> 0]
Child(c) == [Row(0) EXCEPT !.head = 5, !.child = c]
Long(id, total, first) == [Row(id) EXCEPT !.at = 14, !.total = total, !.first = first]
Wide(kind, cells) == [Page(kind, cells, 0) EXCEPT !.content = 14]

Leaves(kind) == {Page(kind, c, 0) : c \in {<<>>, <<Row(1)>>, <<Row(2)>>, <<Row(1), Row(2)>>}}
Interiors(kind, to) ==
    {Page(kind, <<>>, r) : r \in to} \cup {Page(kind, <<Child(c)>>, r) : c, r \in to}

(* Trees of up to four pages, the pointers of the first three anywhere.    *)
Trees(table) ==
    LET leaf == IF table THEN "LeafTable" ELSE "LeafIndex"
        interior == IF table THEN "InteriorTable" ELSE "InteriorIndex"
        other == Page(IF table THEN "LeafIndex" ELSE "LeafTable", <<Row(1)>>, 0)
    IN  {<<a, b, c, d>> : a \in Interiors(interior, {2, 3, 4}) \cup Leaves(leaf),
                          b \in Interiors(interior, {0, 1, 3, 4, Far}) \cup Leaves(leaf) \cup {other},
                          c \in Interiors(interior, {2, 4}) \cup Leaves(leaf) \cup {Overflow(0)},
                          d \in Leaves(leaf)}

(* A root and a leaf with the header, the content area and the cells at    *)
(* the edges of where they may be.                                         *)
Edges(end) == {0, end - 1, end, 479, 480, 481}
Layouts ==
    {<<[Page(interior, <<[Child(2) EXCEPT !.at = at]>>, 3) EXCEPT !.content = content],
       [Page(leaf, <<[Row(1) EXCEPT !.at = at2], Row(2)>>, 0) EXCEPT !.content = content2],
       Page(leaf, <<>>, 0)>> :
        interior \in {"InteriorTable", "InteriorIndex"}, leaf \in {"LeafTable", "LeafIndex"},
        at \in Edges(114) \cup {475, 476, 477}, content \in Edges(114), at2 \in Edges(12) \cup {468, 469}, content2 \in Edges(12)}


(* One leaf of two long rows, and three pages for their chains.            *)
LongRows ==
    {<<Page("LeafTable", <<>>, 0), Wide(kind, <<Long(1, t, f), Long(2, u, g)>>),
       Overflow(a), Overflow(b), Overflow(c)>> :
        kind \in {"LeafTable", "LeafIndex"}, t, u \in {445, 446, 1000, 1500},
        f, g \in {0, 3, 4}, a, b, c \in {0, 3, 4, 5, Far}}

(* One row of every size up to a few pages.                                *)
Sizes ==
    {<<Page("LeafTable", <<>>, 0), Wide(kind, <<Long(1, t, 3)>>), Overflow(0)>> :
        kind \in {"LeafTable", "LeafIndex", "InteriorIndex"}, t \in 0 .. 2000}

SomeFiles ==
    LET rooted(n, files) == {[root |-> n, pages |-> f] : f \in files}
    IN  {rooted(1, Trees(TRUE)), rooted(1, Trees(FALSE)), rooted(1, Layouts),
         rooted(2, LongRows), rooted(2, Sizes)}
-----------------------------------------------------------------------------
I1 == N!Value("Integer", "1", 1)
IBig == N!Value("Integer", "big", 19)
R1 == N!Value("Real", "1", 1)
RHalf == N!Value("Real", "0.5", 3)
T1 == N!Value("Text", "1", 1)
TX == N!Value("Text", "x", 1)
B1 == N!Value("Blob", "1", 1)
TLong(n) == N!Value("Text", "long", n)

(* What a column can hold once its affinity was applied.                   *)
Held(decl, values) ==
    {v \in values :
        CASE N!AffinityOf(decl) = "Text" -> v.class \notin {"Integer", "Real"}
          [] N!AffinityOf(decl) = "Real" -> v.class # "Integer" /\ v # T1
          [] N!AffinityOf(decl) \in {"Integer", "Numeric"} -> v \notin {T1, R1}
          [] OTHER -> TRUE}

Column(name, decl, default) == [name |-> name, decl |-> decl, virtual |-> FALSE, default |-> default]
NoDefault == [form |-> "none", value |-> N!Null]
Default(form) == [form |-> form, value |-> N!Null]
Literal(v) == [form |-> "literal", value |-> v]
Object(name, columns, rows) ==
    [kind |-> "table", internal |-> FALSE, parses |-> TRUE, damaged |-> FALSE, root |-> 2,
     name |-> name, columns |-> columns,
     primary_key |-> <<>>, inline_pk_desc |-> FALSE, without_rowid |-> FALSE, indexes |-> <<>>,
     rows |-> rows]
SeqUpTo(S, n) == UNION {[1 .. k -> S] : k \in 0 .. n}
Numbered(rows) == [i \in DOMAIN rows |-> [rowid |-> i, stored |-> rows[i].stored, cells |-> rows[i].cells]]

(* One column of every declared type, with every kind of default and every *)
(* mixture of values in up to three rows, old ones included.               *)
Contents(decl, default) ==
    {[stored |-> 1, cells |-> <<v>>] : v \in Held(decl, {N!Null, I1, IBig, R1, RHalf, T1, TX, B1})}
    \cup {[stored |-> 0, cells |-> <<N!Null>>] : x \in IF default.form = "expression" THEN {} ELSE {1}}
Typed ==
    {{<<Object(<<"t">>, <<Column(<<"a">>, decl, default)>>, Numbered(rows))>> :
         rows \in SeqUpTo(Contents(decl, default), 3)} :
             decl \in {"int", "text", "", "real", "numeric"},
             default \in {NoDefault, Default("null"), Default("true"), Default("expression"),
                          Literal(I1), Literal(T1), Literal(RHalf)}}

(* The keys a table of the columns 1 and 3 can declare.                    *)
Shape(pk, without, desc) == [primary_key |-> pk, without_rowid |-> without, inline_pk_desc |-> desc]
Shapes == {Shape(<<>>, FALSE, FALSE), Shape(<<1>>, FALSE, TRUE)}
          \cup {Shape(pk, without, FALSE) : pk \in {<<1>>, <<3>>, <<3, 1>>}, without \in BOOLEAN}

(* Up to n rows, unique in the key, and not null in the key of a table     *)
(* without rowids.  The alias of a rowid is not in the cells.              *)
Fitting(decl, shape, values, n) ==
    LET alias == decl = "integer" /\ shape = Shape(<<1>>, FALSE, FALSE)
        key(r) == [i \in DOMAIN shape.primary_key |-> r.cells[shape.primary_key[i]]]
        cells == {[stored |-> 3, cells |-> <<v, N!Null, w>>] :
                    v \in IF alias THEN {N!Null} ELSE Held(decl, values), w \in values}
        keyed == {c \in cells : \A i \in DOMAIN key(c) : key(c)[i] # N!Null}
    IN  {rows \in SeqUpTo(IF shape.without_rowid THEN keyed ELSE cells, n) :
            \/ alias \/ shape.primary_key = <<>>
            \/ \A r, q \in DOMAIN rows :
                 r < q /\ rows[r] \in keyed => key(rows[r]) # key(rows[q])}

(* Two columns, between them one that may be virtual, and an index.        *)
KeyTables(values, n) ==
    {{<<[Object(<<"t">>, <<Column(<<"a">>, decl, NoDefault),
                                 [Column(<<"n">>, "", NoDefault) EXCEPT !.virtual = virtual],
                                 Column(<<"b">>, "", NoDefault)>>, Numbered(rows))
               EXCEPT !.primary_key = shape.primary_key, !.without_rowid = shape.without_rowid,
                      !.inline_pk_desc = shape.inline_pk_desc, !.indexes = indexes]>> :
                    rows \in Fitting(decl, shape, values, n)} :
             decl \in {"integer", ""}, virtual \in BOOLEAN, shape \in Shapes,
             indexes \in {<<>>, <<<<3>>>>, <<<<1, 3>>>>}}

KeyedSources == KeyTables({N!Null, I1, T1, TLong(502)}, 2)

(* Databases of two tables and what else a schema has, and one with a      *)
(* damaged tree.                                                           *)
Small(name, values) ==
    {Object(name, <<Column(<<"a">>, "", NoDefault)>>, Numbered(rows)) :
        rows \in SeqUpTo({[stored |-> 1, cells |-> <<v>>] : v \in values}, 3)}
Moved(o, page) == [o EXCEPT !.root = page]
View == [Moved(Object(<<"w">>, <<>>, <<>>), 0) EXCEPT !.kind = "view"]
Internal == [Moved(Object(<<"i">>, <<>>, <<>>), 4) EXCEPT !.internal = TRUE]
Unreadable == [Moved(Object(<<"n">>, <<>>, <<>>), 3) EXCEPT !.parses = FALSE]
Damaged(o) == [o EXCEPT !.damaged = TRUE]
Databases ==
    {<<Internal, t, View, Moved(u, 3)>> :
        t \in Small(<<"t">>, {I1, TX}), u \in Small(<<"T">> \o <<"-">>, {RHalf})}
    \cup {<<t, Unreadable>> : t \in Small(<<"t">>, {I1})}
    \cup {<<Damaged(t)>> : t \in Small(<<"t">>, {I1})}

(* What becomes of a database of two tables.  The first one gains, loses   *)
(* or changes rows, its tree is damaged, it gets a column in front, or is  *)
(* dropped and made again, empty, on another page: then its old page is    *)
(* free and holds the old rows or nothing, or belongs to the second table, *)
(* or to a new one, with or without rowids; or there is a view of its      *)
(* name.  Or the second one is gone.                                       *)
Keyed(o) == [o EXCEPT !.primary_key = <<1>>, !.without_rowid = TRUE]
Wider(o) == [o EXCEPT !.columns = <<Column(<<"z">>, "", NoDefault)>> \o @,
                      !.rows = [i \in DOMAIN @ |-> [@[i] EXCEPT !.stored = 2, !.cells = <<TX>> \o @]]]
Changed(s) ==
    IF Len(s) < 4 THEN {}
    ELSE LET i == s[1]  t == s[2]  v == s[3]  u == s[4]
             again == [Moved(t, 5) EXCEPT !.rows = <<>>]
             free == [t EXCEPT !.kind = "free"]
         IN  {<<i, q, v, u>> : q \in Small(t.name, {I1, RHalf, N!Null})}
             \cup {<<i, Damaged(t), v, u>>, <<i, Wider(t), v, u>>, <<i, t, v>>, <<i, free, v, u>>,
                   <<i, again, v, u>>, <<i, again, v, u, free>>, <<i, again, v, u, Damaged(free)>>,
                   <<i, again, v, Moved(u, 2)>>, <<i, Moved(t, 3), v, Moved(u, 2)>>,
                   <<i, [View EXCEPT !.name = t.name], v, u>>}
             \cup UNION {{<<i, again, v, u, k>>, <<i, again, v, u, Keyed(k)>>} : k \in Small(<<"k">>, {TX})}

(* Three columns with names that are, or become, alike.                    *)
SourceNames == {<<"a">>, <<"a", " ", "b">>, <<"a", "-", "b">>, <<"A", "_", "b", "_", "2">>, <<"2">>,
                <<"_", "2">>, <<"o", "r">>, <<"O", "r", "_">>, <<"R", "o", "w", "i", "d">>, <<>>}
Named ==
    LET alike(a, b, c) == N!SameName(a, b) \/ N!SameName(a, c) \/ N!SameName(b, c)
        columns == {n \in [1 .. 3 -> SourceNames] : ~alike(n[1], n[2], n[3])}
    IN  {<<[Object(t[1], [i \in 1 .. 3 |-> Column(n[i], "", NoDefault)], <<>>) EXCEPT !.primary_key = pk],
           Moved(Object(t[2], <<Column(<<"a">>, "", NoDefault)>>, <<>>), 3)>> :
            pk \in {<<>>, <<1>>}, n \in columns,
            t \in {<<<<"a", " ", "b">>, <<"a", "-", "b">>>>, <<<<"o", "r">>, <<"O", "r", "_">>>>}}

SomeSources == Typed \cup KeyedSources \cup {Databases, Named}
-----------------------------------------------------------------------------
logged == <<main, log, db, commits, txn, tail, synced, copied, full, txs, reader>>
record == <<rowid, row, encoding, bytes_, whole, out>>
imported == <<source, planned, options, phase, plan, nth, nthrow, batch, target, error>>

LogInit ==
    CASE part = "deep" -> Deep!Init
      [] part = "broad" -> Broad!Init
      [] OTHER -> /\ main = <<>> /\ log = <<>> /\ db = <<>> /\ commits = <<>> /\ txn = <<>>
                  /\ tail = 0 /\ synced = 0 /\ copied = {} /\ full = TRUE /\ txs = 0 /\ reader = <<>>
RecordInit ==
    IF part = "record" THEN R!Init
    ELSE rowid = 0 /\ row = <<>> /\ encoding = "" /\ bytes_ = <<>> /\ whole = TRUE /\ out = <<>>
ScanInit == IF part = "scan" THEN Init ELSE file = <<>> /\ root = 0 /\ scan = NoScan
ImportInit ==
    IF part = "import" THEN I!Init
    ELSE /\ source = <<>> /\ planned = <<>> /\ options = <<>> /\ phase = "" /\ plan = <<>>
         /\ nth = 0 /\ nthrow = 0 /\ batch = <<>> /\ target = <<>> /\ error = ""

MCInit == part \in Parts /\ LogInit /\ RecordInit /\ ScanInit /\ ImportInit

MCNext ==
    /\ UNCHANGED part
    /\ \/ part = "deep" /\ Deep!Next /\ UNCHANGED <<record, vars, imported>>
       \/ part = "broad" /\ Broad!Next /\ UNCHANGED <<record, vars, imported>>
       \/ part = "record" /\ R!Next /\ UNCHANGED <<logged, vars, imported>>
       \/ part = "scan" /\ Next /\ UNCHANGED <<logged, record, imported>>
       \/ part = "import" /\ I!Next /\ UNCHANGED <<logged, record, vars>>

MCSpec == MCInit /\ [][MCNext]_<<part, logged, record, vars, imported>>
-----------------------------------------------------------------------------
(* The properties of the parts, by their own names.                        *)

(* Wal::open, WalSource and Reader::open: see Wal.                         *)
ReadsAreOneCommit == part \in {"deep", "broad"} => Deep!ReadsAreOneCommit

(* cell::parse and record::decode: see Record.                             *)
DecodeInverts == part = "record" => R!DecodeInverts

(* quantydb_import::plan and execute: see Import.                          *)
ImportIsFaithful == part = "import" => I!ImportIsFaithful
=============================================================================
