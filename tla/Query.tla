------------------------------- MODULE Query --------------------------------
(***************************************************************************)
(* The read side of quantydb-exec (exec.rs): fetching the rows of an       *)
(* access plan, ranked text search, `get` and joins.                       *)
(*                                                                         *)
(* A view is what a statement reads: the catalog and the data tree of one  *)
(* commit or one open transaction.                                         *)
(*   tables  : name -> table                                               *)
(*   rows    : <<table id, primary key>> -> values                         *)
(*   entries : set of <<index id, value, primary key>>                     *)
(*   posts   : <<text index id, term, primary key>> -> [len, at]           *)
(*   corpus  : text index id -> [docs, total]                              *)
(* A primary key is the sequence of its column values.                     *)
(*                                                                         *)
(* A get is [table, joins, filter, order, limit, projection]: joins a      *)
(* sequence of [table, on, left]; filter, limit and projection optional    *)
(* (<<>> or <<x>>); order <<>> or <<[r, desc]>>.  An answer is             *)
(* [ok, rows, walked], rows a sequence; walked is the number of rows a     *)
(* full scan read, -1 for any other access.                                *)
(***************************************************************************)
EXTENDS Plan
LOCAL INSTANCE SequencesExt
LOCAL INSTANCE FiniteSetsExt
LOCAL INSTANCE Functions
LOCAL INSTANCE TLC

CONSTANT bm25(_, _, _, _, _)    \* tf, document frequency, docs, length, total length

Rows(rs) == [ok |-> TRUE, rows |-> rs, walked |-> -1]
RowsErr == [ok |-> FALSE, rows |-> <<>>, walked |-> -1]

(* Order of two primary keys in the tree.                                  *)
PkLess(a, b) ==
    \E i \in DOMAIN a : (\A j \in 1 .. i - 1 : a[j] = b[j]) /\ sort_cmp(a[i], b[i]) < 0

InKeyOrder(pks) == SetToSortSeq(pks, PkLess)

row_pk(table, values) == Picked(values, key_positions(table))

(* The rows of primary keys in a given order, and of a set in key order.   *)
InOrder(view, table, pks) == [i \in DOMAIN pks |-> view.rows[<<table.id, pks[i]>>]]
RowsAt(view, table, pks) == InOrder(view, table, InKeyOrder(pks))

PksOf(view, table) == {k[2] : k \in {r \in DOMAIN view.rows : r[1] = table.id}}

-----------------------------------------------------------------------------
(* Text search.                                                            *)

(* Is a term of the index in the range one query term reads.               *)
InRange(term, from, after) ==
    LexCmp(from, term) <= 0 /\ (after = <<>> \/ LexCmp(term, after) < 0)
InTermRange(q, term) ==
    IF q.prefix THEN InRange(term, q.term, term_successor(q.term)) ELSE term = q.term

(* The documents one query term finds, those of several words merged.      *)
MergedPost(posts) == [len |-> (CHOOSE p \in posts : TRUE).len, at |-> UNION {p.at : p \in posts}]
PostingsAt(view, keys) ==
    [pk \in {k[3] : k \in keys} |-> MergedPost({view.posts[k] : k \in {j \in keys : j[3] = pk}})]
PostingList(view, index_id, q) ==
    PostingsAt(view, {k \in DOMAIN view.posts : k[1] = index_id /\ InTermRange(q, k[2])})

(* The documents that answer one group; list maps a term to its documents. *)
Hits(list, group, pk) ==
    phrase_hits([i \in DOMAIN group.terms |-> list[group.terms[i]][pk].at])
Answered(list, group) ==
    {pk \in DOMAIN list[group.terms[1]] :
        /\ \A t \in ToSet(group.terms) : pk \in DOMAIN list[t]
        /\ group.phrase => Hits(list, group, pk) > 0}

Corpus(view, index_id) ==
    IF index_id \in DOMAIN view.corpus THEN view.corpus[index_id] ELSE [docs |-> 0, total |-> 0]

(* A phrase alone is scored as one word, anything else word by word.       *)
Score(list, groups, found, c, pk) ==
    IF Len(groups) = 1 /\ groups[1].phrase
    THEN bm25(Hits(list, groups[1], pk), found, c.docs, list[groups[1].terms[1]][pk].len, c.total)
    ELSE MapThenSumSet(LAMBDA t : bm25(Cardinality(list[t][pk].at), Cardinality(DOMAIN list[t]),
                                       c.docs, list[t][pk].len, c.total),
                       {t \in DOMAIN list : pk \in DOMAIN list[t]})

(* The best `limit` documents when there are more.                         *)
Ahead(a, b, pkA, pkB) == a.score > b.score \/ (a.score = b.score /\ PkLess(pkA, pkB))
BestOnes(candidates, limit) ==
    IF limit = <<>> THEN candidates
    ELSE IF Len(candidates) <= limit[1] THEN candidates
    ELSE SubSeq(SortSeq(candidates, LAMBDA a, b : Ahead(a, b, a.pk, b.pk)), 1, limit[1])

(* The documents of a search with their scores: [pk, score] in key order,  *)
(* or the best `limit` of them when there are more.                        *)
WithScores(list, groups, c, order) ==
    [i \in DOMAIN order |-> [pk |-> order[i], score |-> Score(list, groups, Len(order), c, order[i])]]
ScoredIn(list, groups, c, limit) ==
    BestOnes(WithScores(list, groups, c,
                        InKeyOrder(UNION {Answered(list, groups[g]) : g \in DOMAIN groups})),
             limit)
Scored(view, index_id, groups, limit) ==
    ScoredIn([t \in UNION {ToSet(groups[g].terms) : g \in DOMAIN groups} |->
                 PostingList(view, index_id, t)],
             groups, Corpus(view, index_id), limit)

(* text_match(): the scored documents whose rows are there.                *)
WithRows(view, table, present) ==
    [i \in DOMAIN present |->
        [score |-> present[i].score, values |-> view.rows[<<table.id, present[i].pk>>]]]
text_match(view, table, index_id, groups, limit) ==
    WithRows(view, table, SelectSeq(Scored(view, index_id, groups, limit),
                                    LAMBDA c : <<table.id, c.pk>> \in DOMAIN view.rows))

-----------------------------------------------------------------------------
(* Fetching.                                                               *)

(* fetch_rows_inner(): what the access path produces, in its order.  An    *)
(* index entry without its row is an error.                                *)
ValuesOf(found) == [i \in DOMAIN found |-> found[i].values]
FetchKeys(view, table, pks) ==
    IF \E pk \in pks : <<table.id, pk>> \notin DOMAIN view.rows THEN RowsErr
    ELSE Rows(RowsAt(view, table, pks))
Scanned(view, table) == Rows(RowsAt(view, table, PksOf(view, table)))
Probed(view, table, index_id, value) ==
    FetchKeys(view, table, {e[3] : e \in {x \in view.entries : x[1] = index_id /\ x[2] = value}})
Keyed(view, table, pk) ==
    Rows(IF <<table.id, pk>> \in DOMAIN view.rows THEN <<view.rows[<<table.id, pk>>]>> ELSE <<>>)
fetch_rows_inner(view, table, access) ==
    CASE access.k = "key" -> Keyed(view, table, access.key_values)
      [] access.k = "text" ->
           Rows(ValuesOf(text_match(view, table, access.index_id, access.groups, <<>>)))
      [] access.k = "index" -> Probed(view, table, access.index_id, access.value)
      [] OTHER -> Scanned(view, table)

(* The rows a condition accepts; an error in one is an error of the whole. *)
Kept(rs, verdict) ==
    IF \E i \in DOMAIN rs : ~verdict[i].ok THEN RowsErr
    ELSE Rows(Picked(rs, SelectSeq([i \in DOMAIN rs |-> i], LAMBDA i : verdict[i].v = True)))
Filtered(tables, cond, rs) ==
    Kept(rs, [i \in DOMAIN rs |-> as_condition(eval(cond, ScopeOf(tables, rs[i])))])

apply_residual(table, residual, out) ==
    IF ~out.ok \/ residual = <<>> THEN out ELSE Filtered(<<table>>, residual[1], out.rows)

fetch_rows(view, table, plan) ==
    apply_residual(table, plan.residual, fetch_rows_inner(view, table, plan.access))

-----------------------------------------------------------------------------
(* The tail of every read: order, limit, projection.                       *)

Stably(c, i, j) == c < 0 \/ (c = 0 /\ i < j)
Ordered(rs, pos, desc) ==
    Picked(rs, SortSeq([i \in DOMAIN rs |-> i],
                       LAMBDA i, j : Stably(sort_cmp(rs[IF desc THEN j ELSE i][pos],
                                                     rs[IF desc THEN i ELSE j][pos]), i, j)))
Sorted(tables, order, rs) ==
    IF order = <<>> THEN rs ELSE Ordered(rs, Position(tables, order[1].r), order[1].desc)
Capped(limit, rs) ==
    IF limit = <<>> THEN rs
    ELSE SubSeq(rs, 1, IF Len(rs) < limit[1] THEN Len(rs) ELSE limit[1])
Projected(tables, cols, rs) ==
    IF cols = <<>> THEN rs
    ELSE [i \in DOMAIN rs |-> [p \in DOMAIN cols[1] |-> rs[i][Position(tables, cols[1][p])]]]
Finished(tables, get, rs, walked) ==
    IF \/ get.order # <<>> /\ ~Resolved(tables, get.order[1].r)
       \/ get.projection # <<>> /\ \E r \in ToSet(get.projection[1]) : ~Resolved(tables, r)
    THEN RowsErr
    ELSE [ok |-> TRUE, walked |-> walked,
          rows |-> Projected(tables, get.projection, Capped(get.limit, Sorted(tables, get.order, rs)))]

(* A ranked search: the residual runs after the scores, and the limit is   *)
(* pushed into the access only when there is no residual.                  *)
InRank(table, found) ==
    ValuesOf(SortSeq(found, LAMBDA a, b : Ahead(a, b, row_pk(table, a.values), row_pk(table, b.values))))
RankKept(table, kept) == IF kept.ok THEN Rows(InRank(table, kept.rows)) ELSE RowsErr
RankFound(table, residual, found) ==
    RankKept(table, Kept(found, [i \in DOMAIN found |->
                IF residual = <<>> THEN Ok(True)
                ELSE as_condition(eval(residual[1], ScopeOf(<<table>>, found[i].values)))]))
Ranked(view, table, plan, limit) ==
    RankFound(table, plan.residual,
              text_match(view, table, plan.access.index_id, plan.access.groups,
                         IF plan.residual = <<>> THEN limit ELSE <<>>))

(* One join step.  The strategy only picks the candidates; the whole `on`  *)
(* condition runs on each of them.                                         *)
Candidates(view, right, strategy, probe) ==
    CASE strategy.k = "loop" -> Scanned(view, right)
      [] strategy.k = "key" ->
           IF probe = Null THEN Rows(<<>>)
           ELSE Keyed(view, right, <<coerce(probe, right.cols[key_positions(right)[1]].ty, FALSE).v>>)
      [] OTHER -> Probed(view, right, strategy.index_id,
                         coerce(probe, right.cols[strategy.column].ty, TRUE).v)

Matches(l, cs, tables, on) ==
    IF ~cs.ok THEN RowsErr ELSE Filtered(tables, on, [i \in DOMAIN cs.rows |-> l \o cs.rows[i]])
ProbeValue(lefts, l, strategy) ==
    IF strategy.k = "loop" THEN Null ELSE ScopeOf(lefts, l)[strategy.left]
Stitched(left_rows, right, join, matched) ==
    IF \E i \in DOMAIN left_rows : ~matched[i].ok THEN RowsErr
    ELSE Rows(FlattenSeq([i \in DOMAIN left_rows |->
                IF join.left /\ matched[i].rows = <<>>
                THEN <<left_rows[i] \o [c \in DOMAIN right.cols |-> Null]>>
                ELSE matched[i].rows]))
join_step(view, left_rows, lefts, right, join, strategy) ==
    Stitched(left_rows, right, join,
             [i \in DOMAIN left_rows |->
                 Matches(left_rows[i],
                         Candidates(view, right, strategy, ProbeValue(lefts, left_rows[i], strategy)),
                         Append(lefts, right), join.on)])

TablesOf(view, get) ==
    <<view.tables[get.table]>>
        \o [i \in DOMAIN get.joins |-> view.tables[get.joins[i].table]]

(* bind_join_get(): every table exists and appears once, every reference   *)
(* resolves.                                                               *)
NamesIn(get) == <<get.table>> \o [i \in DOMAIN get.joins |-> get.joins[i].table]
BoundTo(tables, get) ==
    /\ \A i \in DOMAIN get.joins : validate_within(SubSeq(tables, 1, i + 1), get.joins[i].on)
    /\ get.filter = <<>> \/ validate_within(tables, get.filter[1])
Bindable(view, get) ==
    /\ ToSet(NamesIn(get)) \subseteq DOMAIN view.tables
    /\ IsInjective(NamesIn(get))
    /\ BoundTo(TablesOf(view, get), get)

(* A join under given strategies, one per step.                            *)
JoinOne(view, acc, get, tables, strategies, i) ==
    IF ~acc.ok THEN acc
    ELSE join_step(view, acc.rows, SubSeq(tables, 1, i), tables[i + 1], get.joins[i], strategies[i])
FinishedIf(tables, get, out, walked) ==
    IF out.ok THEN Finished(tables, get, out.rows, walked) ELSE RowsErr
Remaining(tables, filter, out) ==
    IF ~out.ok \/ filter = <<>> THEN out ELSE Filtered(tables, filter[1], out.rows)
JoinedBy(view, get, tables, strategies) ==
    FinishedIf(tables, get,
               Remaining(tables, get.filter,
                         FoldLeft(LAMBDA acc, i : JoinOne(view, acc, get, tables, strategies, i),
                                  Scanned(view, tables[1]), [i \in DOMAIN get.joins |-> i])),
               -1)

Strategies(tables, joins) ==
    [i \in DOMAIN joins |-> plan_join(SubSeq(tables, 1, i), tables[i + 1], joins[i].on)]
run_join_get(view, get) ==
    IF ~Bindable(view, get) THEN RowsErr
    ELSE JoinedBy(view, get, TablesOf(view, get), Strategies(TablesOf(view, get), get.joins))

RunPlan(view, get, table, plan) ==
    FinishedIf(<<table>>, get,
               IF ~plan.ok THEN RowsErr
               ELSE IF plan.access.k = "text" /\ get.order = <<>>
               THEN Ranked(view, table, plan, get.limit)
               ELSE fetch_rows(view, table, plan),
               IF plan.ok /\ plan.access.k = "seq" THEN Cardinality(PksOf(view, table)) ELSE -1)
PlanAndRun(view, get, table) == RunPlan(view, get, table, plan_access(table, get.filter))
run_get(view, get) ==
    IF get.joins # <<>> THEN run_join_get(view, get)
    ELSE IF ~Bindable(view, get) THEN RowsErr
    ELSE PlanAndRun(view, get, view.tables[get.table])

=============================================================================
