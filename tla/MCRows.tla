------------------------------- MODULE MCRows -------------------------------
(***************************************************************************)
(* The way of a statement, for TLC: the text that is typed, as MCTyping    *)
(* has it, and what the statements do to the rows.  A behaviour is about   *)
(* one part; the other rests.                                              *)
(***************************************************************************)
EXTENDS Rows, TLC

CONSTANTS Parts,
          Words, Ints, Literals, Quoted, Upper, Sessions   \* see Typing

VARIABLES part, session, typed

L == INSTANCE Typing
V == INSTANCE MCTyping

AllWords == V!AllWords
QuotedNames == V!QuotedNames
UpperWords == V!UpperWords
Tidy == V!Tidy
-----------------------------------------------------------------------------
(* One table with a secondary index and an asset column, and one with a    *)
(* text index.                                                             *)

MCbm25(tf, df, docs, len, total) == (60 * tf * (docs + 1)) \div (df * (tf + len))

MCIsDescriptor(v) == \A i \in DOMAIN v : v[i] \in {1, 2}

Column(name, ty) == [name |-> name, ty |-> ty, nullable |-> ty # "int", key |-> FALSE,
                     index |-> FALSE, text |-> FALSE, def |-> <<>>]

KeyColumn == [Column("id", "int") EXCEPT !.key = TRUE]
Indexed(c) == [c EXCEPT !.index = TRUE]

(* assets: id int @key, v float @index @null, a asset @null                *)
AssetDefs == {[name |-> "t", cols |-> <<KeyColumn, Indexed(Column("v", "float")), Column("a", "asset")>>]}

Blob1 == <<1, 1>>
Blob2 == <<1, 2>>
MCBlobs == {Blob1, Blob2}

Field(n, v) == [f \in {n} |-> Lit(v)]
RowOf(id, v, a) == [f \in {"id", "v", "a"} |->
                      IF f = "id" THEN Lit(IntV(id)) ELSE IF f = "v" THEN Lit(v) ELSE Lit(a)]

Puts1 ==
    {[s |-> "put", table |-> "t", rows |-> rs] :
        rs \in {<<RowOf(1, IntV(1), BytesV(Blob1))>>,
                <<RowOf(1, Null, Null)>>,
                <<RowOf(2, IntV(1), BytesV(Blob2))>>,
                <<RowOf(2, FloatV(1), Null), RowOf(1, IntV(1), BytesV(Blob2))>>}}

SetV(f, e) == [s |-> "set", table |-> "t", filter |-> f, assigns |-> <<[column |-> "v", expr |-> e]>>]
SetA(f, b) == [s |-> "set", table |-> "t", filter |-> f, assigns |-> <<[column |-> "a", expr |-> Lit(b)]>>]
Match(q) == <<Bin(Col("b"), "match", Lit(TextV(q)))>>
Phrase(q) == <<Bin(Col("b"), "phrase", Lit(TextV(q)))>>
Eq(c, v) == <<Bin(Col(c), "=", Lit(v))>>

Sets1 == {SetV(<<>>, Bin(Lit(IntV(2)), "-", Col("v"))),
          SetV(Eq("v", IntV(1)), Lit(Null)),
          SetA(Eq("id", IntV(1)), BytesV(Blob2)),
          SetA(<<>>, BytesV(Blob1))}

Dels1 == {[s |-> "del", table |-> "t", filter |-> f] : f \in {<<>>, Eq("id", IntV(1)), Eq("v", IntV(1))}}

IndexDefs1 == {[s |-> "index", table |-> "t", column |-> "v", text |-> FALSE]}

MCMinInt == -8

Get(t, f) == [table |-> t, joins |-> <<>>, filter |-> f, order |-> <<>>, limit |-> <<>>,
              projection |-> <<>>]
And(a, b) == <<Bin(a[1], "and", b[1])>>
Or(a, b) == <<Bin(a[1], "or", b[1])>>

(* Filters over the first table: a key pinned once or twice, an index      *)
(* probed with null, an int and a float, conjuncts in both orders, and     *)
(* conditions no access can answer.                                        *)
Lt(c, v) == <<Bin(Col(c), "<", Lit(v))>>
Gets1 == {Get("t", f) : f \in
            {<<>>, Eq("id", IntV(2)), And(Eq("id", IntV(1)), Eq("id", IntV(2))),
             Eq("v", Null), Eq("v", IntV(1)), Eq("v", FloatV(1)),
             And(Eq("v", IntV(1)), Lt("id", IntV(2))), And(Lt("id", IntV(2)), Eq("v", IntV(1))),
             And(Eq("v", IntV(1)), Eq("id", IntV(1))), Or(Eq("v", IntV(1)), Eq("id", IntV(2))),
             <<Un("not", Eq("v", IntV(1))[1])>>}}
         \cup {[Get("t", Eq("v", IntV(1))) EXCEPT !.order = <<[r |-> <<"", "id">>, desc |-> TRUE]>>,
                                                 !.limit = <<1>>]}

(* docs: id int @key, b text @text @null; letters a = 1, b = 2.            *)
DocDefs == {[name |-> "d", cols |-> <<KeyColumn, [Column("b", "text") EXCEPT !.text = TRUE]>>]}
Doc(id, v) == [f \in {"id", "b"} |-> IF f = "id" THEN Lit(IntV(id)) ELSE Lit(v)]
MCTexts == {TextV(<<1, 0, 1, 2, 0, 1>>),      \* "a ab a"
            TextV(<<101, 2, 1, 2, 0, 2>>),    \* "Abab b": the first word is cut
            TextV(<<2, 0, 1>>),               \* "b a"
            TextV(<<>>), Null}
DocPuts == {[s |-> "put", table |-> "d", rows |-> <<Doc(id, v)>>] : id \in 1 .. 3, v \in MCTexts}
DocSets == {[s |-> "set", table |-> "d", filter |-> f, assigns |-> <<[column |-> "b", expr |-> e]>>] :
              f \in {Eq("id", IntV(1)), Match(<<1>>)},
              e \in {Lit(TextV(<<2, 0, 1>>)), Lit(Null)}}
DocDels == {[s |-> "del", table |-> "d", filter |-> f] : f \in {Eq("id", IntV(2)), Match(<<2, -1>>)}}
DocIndexes == {[s |-> "index", table |-> "d", column |-> "b", text |-> TRUE]}

(* a; a*; a b; ab*; b* a; phrases "a ab" and "b"; a search no word and a   *)
(* search joined by `or`, a residual, a limit.                             *)
DocFilters == {Match(<<1>>), Match(<<1, -1>>), Match(<<1, 0, 2>>), Match(<<1, 2, -1>>),
               Match(<<2, -1, 0, 101>>), Phrase(<<1, 0, 1, 2>>), Phrase(<<2>>), Match(<<-1>>),
               Or(Match(<<1, 2>>), Phrase(<<2, 0, 1>>)), Or(Match(<<2>>), Match(<<>>)),
               And(Match(<<1>>), Lt("id", IntV(3))), And(Lt("id", IntV(3)), Phrase(<<1>>)),
               <<Un("not", Match(<<1>>)[1])>>}
DocGets == {Get("d", f) : f \in DocFilters}
            \cup {[Get("d", f) EXCEPT !.limit = <<n>>] :
                     f \in {Match(<<1>>), And(Match(<<1>>), Lt("id", IntV(3)))}, n \in {1, 2}}

(* Joins: l (id int @key, x int @null) onto r (id int @key, y float @index *)
(* @null).                                                                 *)
LeftDef == [name |-> "l", cols |-> <<KeyColumn, [Column("x", "int") EXCEPT !.nullable = TRUE]>>]
RightDef == [name |-> "r", cols |-> <<KeyColumn, Indexed(Column("y", "float"))>>]
JoinDefs == {LeftDef, RightDef}
Pair(id, n, v) == [f \in {"id", n} |-> IF f = "id" THEN Lit(IntV(id)) ELSE Lit(v)]
JoinPuts == {[s |-> "put", table |-> "l", rows |-> <<Pair(id, "x", v)>>] :
                id \in 1 .. 2, v \in {IntV(1), IntV(0), Null}}
            \cup {[s |-> "put", table |-> "r", rows |-> <<Pair(id, "y", v)>>] :
                id \in 0 .. 1, v \in {FloatV(2), IntV(0), Null}}
JoinIndexes == {[s |-> "index", table |-> "r", column |-> "y", text |-> FALSE]}
On(a, b) == Bin(QCol(a[1], a[2]), "=", QCol(b[1], b[2]))
LX == <<"l", "x">>
RId == <<"r", "id">>
RY == <<"r", "y">>
Quotient == Bin(Bin(Lit(IntV(4)), "/", QCol("r", "id")), ">", Lit(IntV(1)))
Ons == {On(LX, RId), On(RId, LX), On(LX, RY), Bin(On(LX, RY), "and", On(LX, RId)),
        Bin(On(LX, RY), "and", Bin(QCol("l", "id"), "<", QCol("r", "id"))),
        Bin(Col("x"), "=", Col("y")), Bin(Col("x"), "<=", Col("y"))}
JoinGet(on, left) == [Get("l", <<>>) EXCEPT !.joins = <<[table |-> "r", on |-> on, left |-> left]>>]
Unmatched == [JoinGet(On(LX, RId), TRUE) EXCEPT !.filter = <<Bin(QCol("r", "id"), "=", Lit(Null))>>]
MCJoinGets == {JoinGet(on, left) : on \in Ons, left \in BOOLEAN} \cup {Unmatched}
MCErrorGets == {JoinGet(Bin(Quotient, "and", On(LX, RId)), FALSE)}

(* A column of type int with an index, asked for a float.                  *)
IntDefs == {[name |-> "t", cols |-> <<KeyColumn, Indexed(Column("v", "int"))>>]}
IntPuts == {[s |-> "put", table |-> "t", rows |-> <<Pair(id, "v", IntV(v))>>] : id \in 1 .. 2, v \in 1 .. 2}
FloatGets == {Get("t", Eq("v", FloatV(4)))}

(* A search for nothing on a column without a text index.                  *)
StarGets == {Get("d", Match(<<-1>>))}

(* Queries over the first table without assets.                            *)
PlainPuts == {[s |-> "put", table |-> "t", rows |-> <<RowOf(id, v, Null)>>] :
                id \in 1 .. 3, v \in {IntV(1), FloatV(1), Null}}
PlainSets == {SetV(<<>>, Bin(Lit(IntV(2)), "-", Col("v"))), SetV(Eq("v", IntV(1)), Lit(Null))}

-----------------------------------------------------------------------------

App(defs, puts, sets, dels, indexes, gets) ==
    [defs |-> defs, puts |-> puts, sets |-> sets, dels |-> dels, indexes |-> indexes,
     gets |-> gets, blobs |-> {}, maxSeq |-> 6, begins |-> FALSE]

(* Nothing; assets in and outside transactions; queries by key, index and  *)
(* scan; full text; joins.                                                 *)
MCApps ==
       "rest" :> App({}, {}, {}, {}, {}, {})
    @@ "assets" :> [App(AssetDefs, Puts1, Sets1, Dels1, IndexDefs1, {}) EXCEPT
                      !.blobs = MCBlobs, !.maxSeq = 5, !.begins = TRUE]
    @@ "query" :> App(AssetDefs, PlainPuts, PlainSets, Dels1, IndexDefs1, Gets1)
    @@ "text"  :> App(DocDefs, DocPuts, DocSets, DocDels, DocIndexes, DocGets)
    @@ "join"  :> [App(JoinDefs, JoinPuts, {}, {}, JoinIndexes, MCJoinGets) EXCEPT !.maxSeq = 5]
-----------------------------------------------------------------------------

MCInit ==
    /\ part \in Parts
    /\ Init /\ (part = "typing") = (app = "rest")
    /\ IF part = "typing" THEN L!Init ELSE session = "" /\ typed = <<>>

MCNext ==
    /\ UNCHANGED part
    /\ \/ part = "rows" /\ Next /\ UNCHANGED <<session, typed>>
       \/ part = "typing" /\ L!Next /\ UNCHANGED vars

MCSpec == MCInit /\ [][MCNext]_<<part, session, typed, vars>>
-----------------------------------------------------------------------------
(* The properties of the statements that are typed, by their own names.    *)

(* pretty.rs statement; parser.rs parse: see Typing.                       *)
RoundTrip == part = "typing" => L!RoundTrip

(* parser.rs or_expr to unary_expr, and their SQL forms: see Typing.       *)
LaddersAgree == part = "typing" => L!LaddersAgree
=============================================================================
