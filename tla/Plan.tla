-------------------------------- MODULE Plan --------------------------------
(***************************************************************************)
(* The planner of quantydb-exec (plan.rs): which access path answers a     *)
(* filter, what is left of the filter, which index a scan missed, and how  *)
(* a join step finds its right rows.  Column resolution (exec.rs) is here  *)
(* too, because planning and execution share it.                           *)
(*                                                                         *)
(* A table is [name, id, cols]; a column [name, ty, nullable, key,         *)
(* index_id, text_id, def] with 0 for "no index" and <<>> for "no          *)
(* default".  An optional expression is <<>> or <<e>>.                     *)
(***************************************************************************)
EXTENDS Values, FiniteSets
LOCAL INSTANCE SequencesExt
LOCAL INSTANCE FiniteSetsExt

None == [some |-> FALSE]

MinOr0(S) == IF S = {} THEN 0 ELSE Min(S)

(* The elements of a sequence at these places.                             *)
Picked(s, places) == [i \in DOMAIN places |-> s[places[i]]]

(* 0 when the table has no such column.                                    *)
column_position(table, name) ==
    MinOr0({i \in DOMAIN table.cols : table.cols[i].name = name})

key_positions(table) ==
    SelectSeq([i \in DOMAIN table.cols |-> i], LAMBDA i : table.cols[i].key)

-----------------------------------------------------------------------------
(* Resolving references: against the tables of a statement in from-clause  *)
(* order, whose columns follow each other in the combined row.             *)

Offset(tables, i) == MapThenSumSet(LAMBDA j : Len(tables[j].cols), 1 .. i - 1)

(* The positions in the combined row a reference could mean.  Anything but *)
(* exactly one is an error of the statement.                               *)
resolve_within(tables, r) ==
    UNION {{Offset(tables, i) + p :
              p \in {q \in DOMAIN tables[i].cols : tables[i].cols[q].name = r[2]}} :
           i \in {j \in DOMAIN tables : r[1] \in {"", tables[j].name}}}

Resolved(tables, r) == Cardinality(resolve_within(tables, r)) = 1

Position(tables, r) == CHOOSE p \in resolve_within(tables, r) : TRUE

RECURSIVE RefsOf(_)
RefsOf(e) ==
    CASE e.k = "lit" -> {}
      [] e.k = "col" -> {e.r}
      [] e.k = "un" -> RefsOf(e.e)
      [] OTHER -> RefsOf(e.l) \cup RefsOf(e.r)

validate_within(tables, e) == \A r \in RefsOf(e) : Resolved(tables, r)

(* The values of every reference that resolves, for a combined row.        *)
ScopeOf(tables, values) ==
    LET names == {tables[i].name : i \in DOMAIN tables}
        cols == UNION {{tables[i].cols[p].name : p \in DOMAIN tables[i].cols} : i \in DOMAIN tables}
    IN  [r \in {q \in ({""} \cup names) \X cols : Resolved(tables, q)} |-> values[Position(tables, r)]]

-----------------------------------------------------------------------------
(* Access paths.                                                           *)

RECURSIVE conjuncts(_)
conjuncts(e) ==
    IF e.k = "bin" /\ e.op = "and" THEN conjuncts(e.l) \o conjuncts(e.r) ELSE <<e>>

(* column = literal, either side.                                          *)
as_column_eq_literal(e) ==
    IF e.k # "bin" THEN None
    ELSE IF e.op # "=" THEN None
    ELSE IF e.l.k = "col" /\ e.r.k = "lit" THEN [some |-> TRUE, r |-> e.l.r, v |-> e.r.v]
    ELSE IF e.l.k = "lit" /\ e.r.k = "col" THEN [some |-> TRUE, r |-> e.r.r, v |-> e.l.v]
    ELSE None

as_column_match_literal(e) ==
    IF e.k # "bin" THEN None
    ELSE IF e.op \notin {"match", "phrase"} \/ e.l.k # "col" \/ e.r.k # "lit" THEN None
    ELSE IF e.r.v.t # "text" THEN None
    ELSE [some |-> TRUE, r |-> e.l.r, qs |-> <<[q |-> e.r.v.v, phrase |-> e.op = "phrase"]>>]

(* One search, or several on one column joined by `or`.                    *)
BothSearches(l, r) ==
    IF ~l.some \/ ~r.some THEN None
    ELSE IF l.r # r.r THEN None
    ELSE [l EXCEPT !.qs = @ \o r.qs]
RECURSIVE as_text_search(_)
as_text_search(e) ==
    IF e.k = "bin" /\ e.op = "or" THEN BothSearches(as_text_search(e.l), as_text_search(e.r))
    ELSE as_column_match_literal(e)

(* 0 for a reference that is not a column of this table.                   *)
position_for_plan(table, r) ==
    IF r[1] \in {"", table.name} THEN column_position(table, r[2]) ELSE 0

(* The indexes a scan would have used, in the order met.                   *)
missed_indexes(table, filter) ==
    IF filter = <<>> THEN {}
    ELSE LET parts == ToSet(conjuncts(filter[1]))
             eqs == {as_column_eq_literal(p) : p \in parts} \ {None}
             searches == {as_text_search(p) : p \in parts} \ {None}
             plain == {position_for_plan(table, c.r) : c \in eqs} \ {0}
             texts == {position_for_plan(table, c.r) : c \in searches} \ {0}
         IN  {<<p, FALSE>> : p \in {q \in plain : table.cols[q].index_id = 0}}
             \cup {<<p, TRUE>> : p \in {q \in texts : table.cols[q].text_id = 0}}

rebuild_conjunction(parts) ==
    IF parts = <<>> THEN <<>>
    ELSE <<FoldLeft(LAMBDA acc, e : Bin(acc, "and", e), Head(parts), Tail(parts))>>

(* The parts whose index is not in consumed.                               *)
Left(parts, consumed) ==
    rebuild_conjunction(Picked(parts, SelectSeq([i \in DOMAIN parts |-> i], LAMBDA i : i \notin consumed)))

SeqScan == [k |-> "seq"]

AccessPlan(access, residual) == [ok |-> TRUE, access |-> access, residual |-> residual]
PlanErr == [ok |-> FALSE]

(* The terms of one search.  A phrase keeps them as written; a match holds *)
(* a set of words, whose order does not matter.                            *)
Exact(ws) == [i \in DOMAIN ws |-> [term |-> ws[i], prefix |-> FALSE]]
TextGroup(q) ==
    [phrase |-> q.phrase,
     terms |-> IF q.phrase THEN Exact(tokenize(q.q)) ELSE query_terms(q.q)]

(* What a part says about one column of the table: position 0 for none.    *)
Compares(table, c) ==
    IF c.some THEN [pos |-> position_for_plan(table, c.r), v |-> c.v] ELSE [pos |-> 0, v |-> Null]
Searches(table, c) ==
    IF c.some THEN [pos |-> position_for_plan(table, c.r), qs |-> c.qs] ELSE [pos |-> 0, qs |-> <<>>]

(* 1. The first equality that pins each key column.                        *)
Pins(eqs, column) == {i \in DOMAIN eqs : eqs[i].pos = column /\ eqs[i].v # Null}
KeyAccess(parts, pin, key) ==
    IF \A s \in DOMAIN key : key[s].ok
    THEN AccessPlan([k |-> "key", key_values |-> [s \in DOMAIN key |-> key[s].v]], Left(parts, ToSet(pin)))
    ELSE PlanErr
KeyPlan(table, parts, eqs, keys, pin) ==
    KeyAccess(parts, pin, [s \in DOMAIN keys |-> coerce(eqs[pin[s]].v, table.cols[keys[s]].ty, FALSE)])

(* 2. The first equality on an indexed column.                             *)
OnIndex(table, eqs) ==
    {i \in DOMAIN eqs : IF eqs[i].pos = 0 THEN FALSE ELSE table.cols[eqs[i].pos].index_id # 0}
IndexAccess(index_id, residual, probe) ==
    IF probe.ok THEN AccessPlan([k |-> "index", index_id |-> index_id, value |-> probe.v], residual)
    ELSE PlanErr
IndexPlan(table, parts, eqs, i) ==
    IndexAccess(table.cols[eqs[i].pos].index_id, Left(parts, {i}),
                coerce(eqs[i].v, table.cols[eqs[i].pos].ty, TRUE))

(* 3. The first search on a text-indexed column, unless a search before or *)
(* in it is a phrase with a star or has no words.                          *)
OnTextIndex(table, ss) ==
    {i \in DOMAIN ss : IF ss[i].pos = 0 THEN FALSE ELSE table.cols[ss[i].pos].text_id # 0}
Starred(search) == \E q \in ToSet(search.qs) : q.phrase /\ has_prefix(q.q)
Groups(search) == [j \in DOMAIN search.qs |-> TextGroup(search.qs[j])]
Usable(ss, candidates) ==
    {i \in candidates : /\ \A j \in candidates : j <= i => ~Starred(ss[j])
                        /\ \A g \in ToSet(Groups(ss[i])) : g.terms # <<>>}
TextPlan(table, parts, ss, i) ==
    AccessPlan([k |-> "text", index_id |-> table.cols[ss[i].pos].text_id, groups |-> Groups(ss[i])],
               Left(parts, {i}))

FirstOf(table, filter, parts, keys, eqs, ss, indexed, usable) ==
    IF \A s \in DOMAIN keys : Pins(eqs, keys[s]) # {}
    THEN KeyPlan(table, parts, eqs, keys, [s \in DOMAIN keys |-> Min(Pins(eqs, keys[s]))])
    ELSE IF indexed # {} THEN IndexPlan(table, parts, eqs, Min(indexed))
    ELSE IF usable # {} THEN TextPlan(table, parts, ss, Min(usable))
    ELSE AccessPlan(SeqScan, filter)
PlanOf(table, filter, parts, eqs, ss) ==
    FirstOf(table, filter, parts, key_positions(table), eqs, ss,
            OnIndex(table, eqs), Usable(ss, OnTextIndex(table, ss)))
PlanFor(table, filter, parts) ==
    PlanOf(table, filter, parts,
           [i \in DOMAIN parts |-> Compares(table, as_column_eq_literal(parts[i]))],
           [i \in DOMAIN parts |-> Searches(table, as_text_search(parts[i]))])
plan_access(table, filter) ==
    IF filter = <<>> THEN AccessPlan(SeqScan, <<>>)
    ELSE PlanFor(table, filter, conjuncts(filter[1]))

-----------------------------------------------------------------------------
(* Joins.                                                                  *)

probe_compatible(left, right) == left = right \/ (left = "int" /\ right = "float")

(* 0 when the reference means some other table.                            *)
resolves_to(r, table, others) ==
    IF r[1] # "" THEN IF r[1] = table.name THEN column_position(table, r[2]) ELSE 0
    ELSE IF \E o \in ToSet(others) : column_position(o, r[2]) # 0 THEN 0
    ELSE column_position(table, r[2])

(* What one `on` conjunct offers when right_ref is looked up and left_ref  *)
(* supplies the value.                                                     *)
Owned(owner, right, rp, left_ref) ==
    IF ~probe_compatible(owner.cols[resolves_to(left_ref, owner, <<right>>)].ty, right.cols[rp].ty)
    THEN None
    ELSE IF key_positions(right) = <<rp>> THEN [some |-> TRUE, k |-> "key", left |-> left_ref]
    ELSE IF right.cols[rp].index_id # 0
         THEN [some |-> TRUE, k |-> "index", left |-> left_ref, column |-> rp,
               index_id |-> right.cols[rp].index_id]
         ELSE None
ProbeOf(left, right, rp, owner, left_ref) ==
    IF rp = 0 \/ owner = 0 THEN None ELSE Owned(left[owner], right, rp, left_ref)
Probe(left, right, right_ref, left_ref) ==
    ProbeOf(left, right, resolves_to(right_ref, right, left),
            MinOr0({i \in DOMAIN left : resolves_to(left_ref, left[i], <<right>>) # 0}), left_ref)

NestedLoop == [some |-> TRUE, k |-> "loop"]

IsColumns(e, ops) ==
    IF e.k = "bin" THEN e.op \in ops /\ e.l.k = "col" /\ e.r.k = "col" ELSE FALSE
Offers(left, right, parts) ==
    SelectSeq(FlattenSeq([i \in DOMAIN parts |-> <<Probe(left, right, parts[i].l.r, parts[i].r.r),
                                                   Probe(left, right, parts[i].r.r, parts[i].l.r)>>]),
              LAMBDA o : o.some)

(* The first key probe any conjunct offers, else the first index probe,    *)
(* else the nested loop.                                                   *)
Best(offers, keyed) ==
    IF keyed # <<>> THEN Head(keyed) ELSE IF offers # <<>> THEN Head(offers) ELSE NestedLoop
BestOf(offers) == Best(offers, SelectSeq(offers, LAMBDA o : o.k = "key"))

(* Mutant: any comparison of two columns is taken for an equality.         *)
plan_join_any(left, right, on) ==
    BestOf(Offers(left, right, SelectSeq(conjuncts(on), LAMBDA p : IsColumns(p, {"=", "<="}))))

plan_join(left, right, on) ==
    BestOf(Offers(left, right, SelectSeq(conjuncts(on), LAMBDA p : IsColumns(p, {"="}))))

=============================================================================
