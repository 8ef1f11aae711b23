-------------------------------- MODULE Rows --------------------------------
(***************************************************************************)
(* The write side of quantydb-exec (exec.rs, catalog.rs, verify.rs) with   *)
(* the blob store of quantydb-core (db.rs, blob.rs): statements over the   *)
(* catalog, the rows, the secondary and text indexes and the chunk         *)
(* counts, run in autocommit mode or inside the explicit transactions of   *)
(* several connections that share one session.                             *)
(*                                                                         *)
(* A database is a view (module Query) with the id counter and the chunk   *)
(* store:                                                                  *)
(*   seq   : the next object id; tables and indexes draw from it           *)
(*   bytes : the chunks whose bytes are stored                             *)
(*   refs  : chunk -> how many names of it the rows hold                   *)
(* A chunk is its hash, a blob descriptor the sequence of its chunks.      *)
(*                                                                         *)
(* A statement is a pure step over an accumulator [ok, db, mutated]: the   *)
(* tree writes it made before it failed are in db, and it is for the       *)
(* transaction around it to throw them away.                               *)
(***************************************************************************)
EXTENDS Query
LOCAL INSTANCE SequencesExt
LOCAL INSTANCE FiniteSetsExt
LOCAL INSTANCE Functions

CONSTANTS Conns,            \* connections, each with its own `begin`
          Apps,             \* what the clients may do, by application: see below
          ChunksPerCommit   \* CHUNKS_PER_COMMIT

VARIABLES app,              \* the application that runs
          head,             \* the database of the branch head
          txn,              \* connection -> its open transaction
          held              \* descriptors clients got from write_blob

vars == <<app, head, txn, held>>

Defs == Apps[app].defs      \* table definitions that may be created
Puts == Apps[app].puts      \* put statements: [s, table, rows]
Sets == Apps[app].sets      \* set statements: [s, table, filter, assigns]
Dels == Apps[app].dels      \* del statements: [s, table, filter]
IndexDefs == Apps[app].indexes  \* index statements: [s, table, column, text]
Blobs == Apps[app].blobs    \* contents a client may upload: sequences of chunks
Gets == Apps[app].gets      \* queries the properties ask of every database
MaxSeq == Apps[app].maxSeq  \* bound: object ids are below this

Empty == [k \in {} |-> 0]

EmptyDb == [seq |-> 1, tables |-> Empty, rows |-> Empty, entries |-> {}, posts |-> Empty,
            corpus |-> Empty, bytes |-> {}, refs |-> Empty]

Acc(db) == [ok |-> TRUE, db |-> db, mutated |-> FALSE]
Failed(acc) == [acc EXCEPT !.ok = FALSE]
Wrote(acc, db) == [acc EXCEPT !.db = db, !.mutated = TRUE]

Without(f, keys) == Restrict(f, DOMAIN f \ keys)
With(f, k, v) == [x \in DOMAIN f \cup {k} |-> IF x = k THEN v ELSE f[x]]

-----------------------------------------------------------------------------
(* The chunk store.                                                        *)

(* Move a chunk's count by one.  It goes away when the last name does;     *)
(* a chunk that is not there, or a count below zero, fails the statement.  *)
SetRefs(acc, hash, next, delta) ==
    IF next < 0 THEN Failed(acc)
    ELSE IF next = 0 /\ delta < 0
         THEN [acc EXCEPT !.db.refs = Without(@, {hash}), !.db.bytes = @ \ {hash}]
         ELSE [acc EXCEPT !.db.refs[hash] = next]
change_refs(acc, hash, delta) ==
    IF ~acc.ok THEN acc
    ELSE IF hash \notin DOMAIN acc.db.refs THEN Failed(acc)
    ELSE SetRefs(acc, hash, acc.db.refs[hash] + delta, delta)

(* One name per chunk of a descriptor, repeats included.                   *)
move_asset_refs(acc, value, delta) ==
    IF value = Null THEN acc
    ELSE FoldLeft(LAMBDA a, hash : change_refs(a, hash, delta), acc, value.v)

(* Mutant: a chunk that is there already starts over.                      *)
put_chunk_again(db, hash) == [db EXCEPT !.bytes = @ \cup {hash}, !.refs = With(@, hash, 0)]

(* Store a chunk unless it is there; its count starts at zero.             *)
put_chunk(db, hash) ==
    IF hash \in db.bytes THEN db
    ELSE [db EXCEPT !.bytes = @ \cup {hash}, !.refs = With(@, hash, 0)]

Swept(acc, doomed) ==
    IF doomed = {} THEN acc
    ELSE Wrote(acc, [acc.db EXCEPT !.refs = Without(@, doomed), !.bytes = @ \ doomed])
sweep_chunks(acc, reachable) == Swept(acc, DOMAIN acc.db.refs \ reachable)

-----------------------------------------------------------------------------
(* Index maintenance.                                                      *)

(* How many documents a text index has and how long they are in total; the *)
(* counters go away with the last document.                                *)
SubOr0(a, b) == IF a > b THEN a - b ELSE 0
Counted(c, len, adding) ==
    IF adding THEN [docs |-> c.docs + 1, total |-> c.total + len]
    ELSE [docs |-> SubOr0(c.docs, 1), total |-> SubOr0(c.total, len)]
SetCorpus(db, id, c) ==
    [db EXCEPT !.corpus = IF c.docs = 0 THEN Without(@, {id}) ELSE With(@, id, c)]
move_corpus(db, id, len, adding) == SetCorpus(db, id, Counted(Corpus(db, id), len, adding))

(* Add or remove the postings of one row for one text-indexed column.      *)
PutPosts(posts, id, pk, ps, len) ==
    [k \in DOMAIN posts \cup {<<id, t, pk>> : t \in DOMAIN ps} |->
        IF k[1] = id /\ k[3] = pk /\ k[2] \in DOMAIN ps THEN [len |-> len, at |-> ps[k[2]]] ELSE posts[k]]
MovePosts(posts, id, pk, ps, len, adding) ==
    IF adding THEN PutPosts(posts, id, pk, ps, len)
    ELSE Without(posts, {<<id, t, pk>> : t \in DOMAIN ps})
MoveDocument(db, id, pk, text, len, adding) ==
    move_corpus([db EXCEPT !.posts = MovePosts(@, id, pk, postings(text), len, adding)], id, len, adding)
move_postings(db, id, pk, value, adding) ==
    IF value.t # "text" THEN db
    ELSE MoveDocument(db, id, pk, value.v, length(value.v), adding)

index_put(db, id, value, pk) == [db EXCEPT !.entries = @ \cup {<<id, value, pk>>}]
index_delete(db, id, value, pk) == [db EXCEPT !.entries = @ \ {<<id, value, pk>>}]

(* Everything stored under one object id: rows or entries of any kind.     *)
WithoutId(f, id) == Without(f, {k \in DOMAIN f : k[1] = id})
WroteIfNew(acc, db) == IF ~acc.ok \/ db = acc.db THEN acc ELSE Wrote(acc, db)
delete_range(acc, id) ==
    WroteIfNew(acc, [acc.db EXCEPT !.rows = WithoutId(@, id), !.posts = WithoutId(@, id),
                                   !.entries = {e \in @ : e[1] # id}, !.corpus = Without(@, {id})])

-----------------------------------------------------------------------------
(* Definitions.                                                            *)

store_table(acc, table) == Wrote(acc, [acc.db EXCEPT !.tables = With(@, table.name, table)])

alloc_id(acc) == Wrote(acc, [acc.db EXCEPT !.seq = @ + 1])

(* from_ast(): is this definition a table.                                 *)
from_ast(def) ==
    /\ \A i, j \in DOMAIN def.cols : def.cols[i].name = def.cols[j].name => i = j
    /\ \A i \in DOMAIN def.cols :
         LET c == def.cols[i] IN
         /\ ~(c.key /\ c.nullable)
         /\ c.def = <<>> \/ coerce(c.def[1], c.ty, c.nullable).ok
    /\ \E i \in DOMAIN def.cols : def.cols[i].key

(* How many ids the indexes of the first n columns take.                   *)
asks(def, n) == Cardinality({i \in 1 .. n : def.cols[i].index})
                    + Cardinality({i \in 1 .. n : def.cols[i].text})

(* Ids are drawn in column order, a column's index before its text index.  *)
ColumnOf(c, id) ==
    [name |-> c.name, ty |-> c.ty, nullable |-> c.nullable, key |-> c.key,
     index_id |-> IF c.index THEN id ELSE 0,
     text_id |-> IF c.text THEN id + (IF c.index THEN 1 ELSE 0) ELSE 0,
     def |-> IF c.def = <<>> THEN <<>> ELSE <<coerce(c.def[1], c.ty, c.nullable).v>>]
create_table(acc, def) ==
    IF \/ def.name \in DOMAIN acc.db.tables
       \/ ~from_ast(def)
       \/ \E i \in DOMAIN def.cols : def.cols[i].text /\ def.cols[i].ty # "text"
    THEN Failed(acc)
    ELSE store_table(Wrote(acc, [acc.db EXCEPT !.seq = @ + 1 + asks(def, Len(def.cols))]),
                     [name |-> def.name, id |-> acc.db.seq,
                      cols |-> [i \in DOMAIN def.cols |->
                                  ColumnOf(def.cols[i], acc.db.seq + 1 + asks(def, i - 1))]])

AssetColumns(table) == {i \in DOMAIN table.cols : table.cols[i].ty = "asset"}

AllRows(db, table) == RowsAt(db, table, PksOf(db, table))

(* Every asset a table's rows name, given back row by row.                 *)
ReleaseRow(acc, values, places) ==
    FoldLeft(LAMBDA a, p : move_asset_refs(a, values[p], -1), acc, places)
ReleaseAssets(acc, table) ==
    FoldLeft(LAMBDA a, values : ReleaseRow(a, values, SelectSeq([i \in DOMAIN table.cols |-> i],
                                                                LAMBDA i : i \in AssetColumns(table))),
             acc, AllRows(acc.db, table))

IdsOf(table) ==
    <<table.id>> \o FlattenSeq([i \in DOMAIN table.cols |->
                                   <<table.cols[i].index_id, table.cols[i].text_id>>])
WithoutTable(acc, name) ==
    IF ~acc.ok THEN acc ELSE Wrote(acc, [acc.db EXCEPT !.tables = Without(@, {name})])
DropTableOf(acc, table) ==
    WithoutTable(FoldLeft(delete_range, ReleaseAssets(acc, table), IdsOf(table)), table.name)
drop_table(acc, name) ==
    IF name \notin DOMAIN acc.db.tables THEN Failed(acc) ELSE DropTableOf(acc, acc.db.tables[name])

(* 0 when the column has no such index.                                    *)
IndexOf(col, text) == IF text THEN col.text_id ELSE col.index_id

WithIndex(table, pos, text, id) ==
    IF text THEN [table EXCEPT !.cols[pos].text_id = id]
            ELSE [table EXCEPT !.cols[pos].index_id = id]

DropIndexOf(acc, table, pos, text) ==
    IF pos = 0 THEN Failed(acc)
    ELSE IF IndexOf(table.cols[pos], text) = 0 THEN Failed(acc)
    ELSE store_table(delete_range(acc, IndexOf(table.cols[pos], text)), WithIndex(table, pos, text, 0))
drop_index(acc, name, column, text) ==
    IF name \notin DOMAIN acc.db.tables THEN Failed(acc)
    ELSE DropIndexOf(acc, acc.db.tables[name], column_position(acc.db.tables[name], column), text)

Backfill(db, id, pk, value, text) ==
    IF text THEN move_postings(db, id, pk, value, TRUE) ELSE index_put(db, id, value, pk)
Backfilled(acc, table, pos, text, id) ==
    [acc EXCEPT !.db = FoldLeft(LAMBDA db, values :
                                  Backfill(db, id, row_pk(table, values), values[pos], text),
                                @, AllRows(@, table))]
CreateIndexOf(acc, table, pos, text) ==
    IF pos = 0 THEN Failed(acc)
    ELSE IF IndexOf(table.cols[pos], text) # 0 \/ (text /\ table.cols[pos].ty # "text")
         THEN Failed(acc)
    ELSE store_table(Backfilled(alloc_id(acc), table, pos, text, acc.db.seq),
                     WithIndex(table, pos, text, acc.db.seq))
create_index(acc, name, column, text) ==
    IF name \notin DOMAIN acc.db.tables THEN Failed(acc)
    ELSE CreateIndexOf(acc, acc.db.tables[name], column_position(acc.db.tables[name], column), text)

(* Drop every chunk no row of the current head names.                      *)
NamedChunks(db) ==
    UNION {UNION {UNION {ToSet(db.rows[k][p].v) : p \in AssetColumns(db.tables[t])} :
                    k \in {r \in DOMAIN db.rows : r[1] = db.tables[t].id}} :
             t \in DOMAIN db.tables}

gc_blobs(acc) == sweep_chunks(acc, NamedChunks(acc.db))

-----------------------------------------------------------------------------
(* Rows.                                                                   *)

(* build_row(): a row from the fields of a put (column -> expression), or  *)
(* an error for an unknown column, a value that does not fit, or a hole.   *)
Coerced(c, res) == IF res.ok THEN coerce(res.v, c.ty, c.nullable) ELSE Err
ValueFor(c, fields) ==
    IF c.name \in DOMAIN fields THEN Coerced(c, eval(fields[c.name], Empty))
    ELSE IF c.def # <<>> THEN Ok(c.def[1])
    ELSE IF c.nullable THEN Ok(Null) ELSE Err
AllOf(built) ==
    IF \E i \in DOMAIN built : ~built[i].ok THEN RowsErr ELSE Rows([i \in DOMAIN built |-> built[i].v])
build_row(table, fields) ==
    IF \E f \in DOMAIN fields : column_position(table, f) = 0 THEN RowsErr
    ELSE AllOf([i \in DOMAIN table.cols |-> ValueFor(table.cols[i], fields)])

(* What one value of a row adds to the stores beside the row, or takes     *)
(* from them, a statement that has failed moving nothing more.             *)
MoveAsset(acc, c, value, delta) == IF c.ty = "asset" THEN move_asset_refs(acc, value, delta) ELSE acc
MoveText(acc, c, pk, value, adding) ==
    IF acc.ok /\ c.text_id # 0
    THEN [acc EXCEPT !.db = move_postings(@, c.text_id, pk, value, adding)] ELSE acc
PutEntry(acc, c, pk, value) ==
    IF acc.ok /\ c.index_id # 0 THEN [acc EXCEPT !.db = index_put(@, c.index_id, value, pk)] ELSE acc
DelEntry(acc, c, pk, value) ==
    IF acc.ok /\ c.index_id # 0 THEN [acc EXCEPT !.db = index_delete(@, c.index_id, value, pk)] ELSE acc

(* Every column of a row in turn, and the statement has then written.      *)
EachColumn(acc, table, Step(_, _)) == FoldLeft(Step, acc, [i \in DOMAIN table.cols |-> i])
Mutated(acc) == [acc EXCEPT !.mutated = @ \/ acc.ok]

IndexColumn(acc, c, pk, value) ==
    PutEntry(MoveText(MoveAsset(acc, c, value, 1), c, pk, value, TRUE), c, pk, value)
PutUnique(acc, table, pk, values) ==
    IF <<table.id, pk>> \in DOMAIN acc.db.rows THEN Failed(acc)
    ELSE Mutated(EachColumn([acc EXCEPT !.db.rows = With(@, <<table.id, pk>>, values)], table,
                            LAMBDA a, i : IndexColumn(a, table.cols[i], pk, values[i])))
PutBuilt(acc, table, row) ==
    IF ~row.ok THEN Failed(acc) ELSE PutUnique(acc, table, row_pk(table, row.rows), row.rows)
PutRow(acc, table, fields) ==
    IF ~acc.ok THEN acc ELSE PutBuilt(acc, table, build_row(table, fields))

put(acc, name, rows) ==
    IF name \notin DOMAIN acc.db.tables THEN Failed(acc)
    ELSE FoldLeft(LAMBDA a, fields : PutRow(a, acc.db.tables[name], fields), acc, rows)

(* Mutant: the entry of the old value stays behind when the new one is null. *)
ReplaceEntryNotNull(acc, c, pk, old, new) ==
    IF old # new /\ new # Null THEN PutEntry(DelEntry(acc, c, pk, old), c, pk, new) ELSE acc

(* The entry moves unless the value is the same and of the same type.      *)
ReplaceEntry(acc, c, pk, old, new) ==
    IF values_equal(old, new) # Ok(True) \/ old.t # new.t
    THEN PutEntry(DelEntry(acc, c, pk, old), c, pk, new) ELSE acc

ReplaceText(acc, c, pk, old, new) ==
    IF old = new THEN acc ELSE MoveText(MoveText(acc, c, pk, old, FALSE), c, pk, new, TRUE)
ReplaceAsset(acc, c, old, new) ==
    IF old = new THEN acc ELSE MoveAsset(MoveAsset(acc, c, new, 1), c, old, -1)

(* The entries of one column of a row that changes from old to new.        *)
ReindexColumn(acc, c, pk, old, new) ==
    ReplaceEntry(ReplaceAsset(ReplaceText(acc, c, pk, old, new), c, old, new), c, pk, old, new)

(* Every assignment sees the row as it was.                                *)
AssignTo(acc, pos, res) ==
    IF ~acc.ok \/ ~res.ok THEN RowsErr ELSE Rows([acc.rows EXCEPT ![pos] = res.v])
AssignOne(acc, table, scope, pos, expr) ==
    AssignTo(acc, pos, Coerced(table.cols[pos], eval(expr, scope)))
Assigned(table, old, assigns, scope) ==
    FoldLeft(LAMBDA acc, a : AssignOne(acc, table, scope, column_position(table, a.column), a.expr),
             Rows(old), assigns)

WriteRow(acc, table, pk, old, new) ==
    IF ~new.ok THEN Failed(acc)
    ELSE Mutated(EachColumn([acc EXCEPT !.db.rows[<<table.id, pk>>] = new.rows], table,
                            LAMBDA a, i : ReindexColumn(a, table.cols[i], pk, old[i], new.rows[i])))
SetRow(acc, table, old, assigns) ==
    IF ~acc.ok THEN acc
    ELSE WriteRow(acc, table, row_pk(table, old), old,
                  Assigned(table, old, assigns, ScopeOf(<<table>>, old)))

(* The rows a set or del touches are all read before the first is written. *)
FetchBy(db, table, plan) == IF ~plan.ok THEN RowsErr ELSE fetch_rows(db, table, plan)
Matching(db, table, filter) == FetchBy(db, table, plan_access(table, filter))

Settable(table, a) ==
    /\ column_position(table, a.column) # 0
    /\ ~table.cols[column_position(table, a.column)].key
    /\ validate_within(<<table>>, a.expr)

FilterValid(table, filter) == filter = <<>> \/ validate_within(<<table>>, filter[1])

SetRows(acc, table, matches, assigns) ==
    IF ~matches.ok THEN Failed(acc)
    ELSE FoldLeft(LAMBDA a, old : SetRow(a, table, old, assigns), acc, matches.rows)
SetIn(acc, table, filter, assigns) ==
    IF ~FilterValid(table, filter) \/ \E a \in ToSet(assigns) : ~Settable(table, a) THEN Failed(acc)
    ELSE SetRows(acc, table, Matching(acc.db, table, filter), assigns)
set(acc, name, filter, assigns) ==
    IF name \notin DOMAIN acc.db.tables THEN Failed(acc)
    ELSE SetIn(acc, acc.db.tables[name], filter, assigns)

UnindexColumn(acc, c, pk, value) ==
    DelEntry(MoveText(MoveAsset(acc, c, value, -1), c, pk, value, FALSE), c, pk, value)
DelRow(acc, table, pk, values) ==
    IF ~acc.ok THEN acc
    ELSE Mutated(EachColumn([acc EXCEPT !.db.rows = Without(@, {<<table.id, pk>>})], table,
                            LAMBDA a, i : UnindexColumn(a, table.cols[i], pk, values[i])))

DelRows(acc, table, matches) ==
    IF ~matches.ok THEN Failed(acc)
    ELSE FoldLeft(LAMBDA a, values : DelRow(a, table, row_pk(table, values), values), acc, matches.rows)
DelIn(acc, table, filter) ==
    IF ~FilterValid(table, filter) THEN Failed(acc)
    ELSE DelRows(acc, table, Matching(acc.db, table, filter))
del(acc, name, filter) ==
    IF name \notin DOMAIN acc.db.tables THEN Failed(acc) ELSE DelIn(acc, acc.db.tables[name], filter)

-----------------------------------------------------------------------------
(* The checks the code has for itself.                                     *)

(* verify_indexes(): the entries every index of a table should hold,       *)
(* rebuilt from the rows.                                                  *)
ColumnsWhere(db, P(_)) ==
    UNION {{<<t, i>> : i \in {j \in DOMAIN db.tables[t].cols : P(db.tables[t].cols[j])}} :
             t \in DOMAIN db.tables}

KeysOf(db, t) == {k \in DOMAIN db.rows : k[1] = db.tables[t].id}

ExpectedEntries(db) ==
    UNION {{<<db.tables[ti[1]].cols[ti[2]].index_id, db.rows[k][ti[2]], k[2]>> : k \in KeysOf(db, ti[1])} :
           ti \in ColumnsWhere(db, LAMBDA c : c.index_id # 0)}

ExpectedPosts(db) ==
    UNION {UNION {LET text == db.rows[k][ti[2]] IN
                  IF text.t # "text" THEN {}
                  ELSE {<<<<db.tables[ti[1]].cols[ti[2]].text_id, t, k[2]>>,
                          [len |-> length(text.v), at |-> postings(text.v)[t]]>> :
                          t \in terms_of(text.v)} :
                  k \in KeysOf(db, ti[1])} :
           ti \in ColumnsWhere(db, LAMBDA c : c.text_id # 0)}

ExpectedCorpus(db) ==
    {<<id, [docs |-> Cardinality(docs), total |-> MapThenSumSet(LAMBDA d : length(d[2].v), docs)]>> :
        <<id, docs>> \in
        {<<db.tables[ti[1]].cols[ti[2]].text_id,
           {<<k[2], db.rows[k][ti[2]]>> : k \in {r \in KeysOf(db, ti[1]) : db.rows[r][ti[2]].t = "text"}}>> :
         ti \in ColumnsWhere(db, LAMBDA c : c.text_id # 0)}}

Pairs(f) == {<<k, f[k]>> : k \in DOMAIN f}

(* Entries stored under the ids of the indexes the catalog lists.          *)
ListedIds(db, Id(_)) ==
    {Id(db.tables[ti[1]].cols[ti[2]]) : ti \in ColumnsWhere(db, LAMBDA c : Id(c) # 0)}

(* What every listed index holds is what its rows call for.                *)
verify_indexes(db) ==
    LET plain == ListedIds(db, LAMBDA c : c.index_id)
        texts == ListedIds(db, LAMBDA c : c.text_id)
    IN  /\ {e \in db.entries : e[1] \in plain} = ExpectedEntries(db)
        /\ {p \in Pairs(db.posts) : p[1][1] \in texts} = ExpectedPosts(db)
        /\ {p \in Pairs(db.corpus) : p[1] \in texts} = {p \in ExpectedCorpus(db) : p[2].docs > 0}

(* Chunks with bytes and no count, or a count and no bytes.                *)
check_blobs(db) == (DOMAIN db.refs \cup db.bytes) \ (DOMAIN db.refs \cap db.bytes)

-----------------------------------------------------------------------------
(* Statements and transactions.                                            *)

statement(acc, stmt) ==
    CASE stmt.s = "put" -> put(acc, stmt.table, stmt.rows)
      [] stmt.s = "set" -> set(acc, stmt.table, stmt.filter, stmt.assigns)
      [] stmt.s = "del" -> del(acc, stmt.table, stmt.filter)
      [] stmt.s = "table" -> create_table(acc, stmt.def)
      [] stmt.s = "drop table" -> drop_table(acc, stmt.table)
      [] stmt.s = "index" -> create_index(acc, stmt.table, stmt.column, stmt.text)
      [] stmt.s = "drop index" -> drop_index(acc, stmt.table, stmt.column, stmt.text)
      [] OTHER -> gc_blobs(acc)

NoTxn == [open |-> FALSE]

(* A commit moves the head; a transaction begun before it can no longer be *)
(* resumed.                                                                *)
Landed(db) ==
    /\ head' = db
    /\ txn' = [c \in Conns |-> IF txn[c].open THEN [txn[c] EXCEPT !.stale = TRUE] ELSE txn[c]]

(* One statement outside a transaction: it commits, unless it failed or    *)
(* wrote nothing.                                                          *)
run_parsed(c, res) ==
    /\ ~txn[c].open
    /\ IF res.ok /\ res.mutated THEN Landed(res.db) ELSE UNCHANGED <<head, txn>>
    /\ UNCHANGED held

(* One statement on the open transaction.  A transaction that cannot be    *)
(* resumed is gone; a statement that fails is undone.                      *)
in_open_txn(c, res) ==
    /\ txn[c].open
    /\ txn' = [txn EXCEPT ![c] =
                 IF txn[c].stale THEN NoTxn
                 ELSE IF ~res.ok THEN @
                 ELSE [@ EXCEPT !.db = res.db, !.mutated = @ \/ res.mutated]]
    /\ UNCHANGED <<head, held>>

DbOf(c) == IF txn[c].open THEN txn[c].db ELSE head

Execute(c, stmt) ==
    \E res \in {statement(Acc(DbOf(c)), stmt)} : run_parsed(c, res) \/ in_open_txn(c, res)

Begin(c) ==
    /\ ~txn[c].open
    /\ Apps[app].begins    \* bound: some applications stay in autocommit mode
    /\ txn' = [txn EXCEPT ![c] = [open |-> TRUE, stale |-> FALSE, mutated |-> FALSE, db |-> head]]
    /\ UNCHANGED <<head, held>>

(* The transaction is over however the commit goes: one that wrote nothing *)
(* commits nothing, one that is stale is refused.                          *)
Commit(c) ==
    /\ txn[c].open
    /\ IF txn[c].mutated /\ ~txn[c].stale
       THEN /\ head' = txn[c].db
            /\ txn' = [d \in Conns |-> IF d = c THEN NoTxn
                                       ELSE IF txn[d].open THEN [txn[d] EXCEPT !.stale = TRUE]
                                       ELSE txn[d]]
       ELSE /\ txn' = [txn EXCEPT ![c] = NoTxn]
            /\ UNCHANGED head
    /\ UNCHANGED held

Rollback(c) ==
    /\ txn[c].open
    /\ txn' = [txn EXCEPT ![c] = NoTxn]
    /\ UNCHANGED <<head, held>>

(* write_blob(): the chunks land in commits of ChunksPerCommit, the last   *)
(* one shorter.  The source may fail after n chunks, or the process die:   *)
(* the commits made so far stay and no descriptor is handed out.           *)
Store(db, landed) == IF landed = <<>> THEN UNCHANGED <<head, txn>> ELSE Landed(FoldLeft(put_chunk, db, landed))
WriteBlob(blob, n) ==
    /\ Store(head, SubSeq(blob, 1, IF n = Len(blob) THEN n ELSE n - (n % ChunksPerCommit)))
    /\ held' = IF n = Len(blob) THEN held \cup {blob} ELSE held

Init ==
    /\ app \in DOMAIN Apps
    /\ head = EmptyDb
    /\ txn = [c \in Conns |-> NoTxn]
    /\ held = {}

(* A put may name a blob only by a descriptor a client was given.          *)
Names(row) == UNION {IF row[f].k = "lit" THEN IF row[f].v.t = "bytes" THEN {row[f].v.v} ELSE {}
                     ELSE {} : f \in DOMAIN row}
Authored(stmt) == \A i \in DOMAIN stmt.rows : Names(stmt.rows[i]) \subseteq held
AuthoredSet(stmt) == \A i \in DOMAIN stmt.assigns :
                        Names([expr |-> stmt.assigns[i].expr]) \subseteq held

TableNames == {d.name : d \in Defs}

(* Bound: enough ids below MaxSeq for a definition.                        *)
Room(c, n) == DbOf(c).seq + n <= MaxSeq

Put(c) == \E st \in Puts : Authored(st) /\ Execute(c, st)
Set(c) == \E st \in Sets : AuthoredSet(st) /\ Execute(c, st)
Del(c) == \E st \in Dels : Execute(c, st)
CreateTable(c) == \E d \in Defs : /\ Room(c, 1 + asks(d, Len(d.cols)))
                                  /\ Execute(c, [s |-> "table", def |-> d])
DropTable(c) == \E n \in TableNames : Execute(c, [s |-> "drop table", table |-> n])
CreateIndex(c) == \E st \in IndexDefs : Room(c, 1) /\ Execute(c, [st EXCEPT !.s = "index"])
DropIndex(c) == \E st \in IndexDefs : Execute(c, [st EXCEPT !.s = "drop index"])
GcBlobs(c) == Execute(c, [s |-> "gc blobs"])

Statements ==
    \E c \in Conns : \/ Put(c) \/ Set(c) \/ Del(c)
                     \/ CreateTable(c) \/ DropTable(c) \/ CreateIndex(c) \/ DropIndex(c)

Transactions == \E c \in Conns : Begin(c) \/ Commit(c) \/ Rollback(c)

Uploads ==
    \/ \E c \in Conns : GcBlobs(c)
    \/ \E b \in Blobs : \E n \in 0 .. Len(b) : WriteBlob(b, n)

Next == (Statements \/ Transactions \/ Uploads) /\ UNCHANGED app

Spec == Init /\ [][Next]_vars

-----------------------------------------------------------------------------
(* Properties.                                                             *)

(* The head and every open transaction: each must be a database on its     *)
(* own, because each can be read and each can become the head.             *)
Databases == {head} \cup {txn[c].db : c \in {d \in Conns : txn[d].open}}

(* Every secondary index holds exactly one entry per row, every text index *)
(* exactly the postings, lengths and corpus counters of its rows, and no   *)
(* entry or row outlives its table or index - whatever sequence of puts,   *)
(* sets, dels, failed statements and index changes came before.  The       *)
(* entries are maintained one by one in exec.rs put, set, del,             *)
(* move_postings and move_corpus; verify.rs looks only at the indexes the  *)
(* catalog still lists, so what outlives them is stated apart.             *)
IndexesMatchRows ==
    \A db \in Databases :
        /\ verify_indexes(db)
        /\ {e[1] : e \in db.entries} \subseteq ListedIds(db, LAMBDA c : c.index_id)
        /\ {k[1] : k \in DOMAIN db.posts} \cup DOMAIN db.corpus \subseteq ListedIds(db, LAMBDA c : c.text_id)
        /\ {k[1] : k \in DOMAIN db.rows} \subseteq {db.tables[t].id : t \in DOMAIN db.tables}

NamesOf(db, hash) ==
    LET at(k, p) == Cardinality({i \in DOMAIN db.rows[k][p].v : db.rows[k][p].v[i] = hash})
        ofTable(t) == MapThenSumSet(LAMBDA k : MapThenSumSet(LAMBDA p : at(k, p),
                                                             AssetColumns(db.tables[t])),
                                    KeysOf(db, t))
    IN  MapThenSumSet(ofTable, DOMAIN db.tables)

(* A chunk's count is the number of times the rows name it, repeats        *)
(* included; every chunk a row names is stored, and no chunk has bytes     *)
(* without a count or a count without bytes (blob.rs: `broken` is "always  *)
(* zero on a database this code wrote").  Counts move by ones in           *)
(* move_asset_refs while rows come, change and go, uploads die half way    *)
(* and sweeps run between an upload and the row that names it.             *)
BlobCountsAreExact ==
    \A db \in Databases :
        /\ check_blobs(db) = {}
        /\ NamedChunks(db) \subseteq db.bytes
        /\ \A h \in DOMAIN db.refs : db.refs[h] = NamesOf(db, h)

(* What a get says, read off its words: every row of the table in key      *)
(* order, the whole filter evaluated on each.                              *)
Answer(table, get, kept) == IF ~kept.ok THEN RowsErr ELSE Finished(<<table>>, get, kept.rows, -1)
BruteForce(db, table, get) ==
    IF ~Bindable(db, get) THEN RowsErr
    ELSE Answer(table, get, apply_residual(table, get.filter, Rows(AllRows(db, table))))

SingleGets == {g \in Gets : g.joins = <<>>}
JoinGets == Gets \ SingleGets
SmallerOf(a, b) == IF a < b THEN a ELSE b
Unlimited(get) == [get EXCEPT !.limit = <<>>]
Askable(db, get) == get.table \in DOMAIN db.tables

(* Whatever access the planner picks - key, index, text index or scan -    *)
(* and whichever conjuncts it lets the access answer, a get whose filter   *)
(* can be evaluated on every row returns exactly the rows that pass it, in *)
(* key order unless a search ranked them.                                  *)
AnswersTheFilter(db, g) ==
    \A brute \in {BruteForce(db, db.tables[g.table], Unlimited(g))}, got \in {run_get(db, Unlimited(g))} :
        brute.ok =>
            /\ got.ok
            /\ Len(got.rows) = Len(brute.rows)
            /\ ToSet(got.rows) = ToSet(brute.rows)
            /\ \/ g.order = <<>> /\ plan_access(db.tables[g.table], g.filter).access.k = "text"
               \/ got.rows = brute.rows

(* A limit takes the first rows of the answer without it.  A ranked search *)
(* pushes the limit into the index walk and reads only those rows: the     *)
(* residual, the ranking and the pushed limit must agree on which rows     *)
(* come first.                                                             *)
TakesThePrefix(db, g) ==
    g.limit # <<>> =>
        \A all \in {run_get(db, Unlimited(g))} :
            all.ok => run_get(db, g).rows = SubSeq(all.rows, 1, SmallerOf(Len(all.rows), g.limit[1]))

LoopJoin(db, get) ==
    IF ~Bindable(db, get) THEN RowsErr
    ELSE JoinedBy(db, get, TablesOf(db, get), [i \in DOMAIN get.joins |-> NestedLoop])

(* A join returns what the nested loop returns, row for row, whichever     *)
(* probe plan_join picked, wherever the nested loop answers at all: a      *)
(* probed key or index entry may skip a right row only if `on` would have  *)
(* refused it, null keys and int against float included.                   *)
JoinsLikeTheLoop(db, g) ==
    \A loop \in {LoopJoin(db, g)} : loop.ok => run_join_get(db, g) = loop

(* The plan of a get is a matter of speed: docs/QQL.md says of reading     *)
(* each row that it "is slower and gives the same answer".  The filter is  *)
(* answered as by reading every row, a limit takes a prefix and a join is  *)
(* the nested loop, over indexes built by any history of writes (plan.rs:  *)
(* plan_access, plan_join; exec.rs: fetch_rows_inner, text_match,          *)
(* run_get_counted, join_step).                                            *)
PlansAreInvisible ==
    /\ \A g \in SingleGets : Askable(head, g) => AnswersTheFilter(head, g) /\ TakesThePrefix(head, g)
    /\ \A g \in JoinGets : JoinsLikeTheLoop(head, g)

(* docs/SQL.md: the join strategy "is a speed choice only and never        *)
(* changes the result" - the error a nested loop meets included.           *)
StrategyNeverChangesTheResult ==
    LET db == head IN \A g \in JoinGets : run_join_get(db, g) = LoopJoin(db, g)

(* What a scan reports as a missed index "is exactly what the planner      *)
(* would have used had it been there" (plan.rs missed_indexes).            *)
SuggestionsWouldBeUsed ==
    LET db == head IN \A g \in SingleGets :
        Askable(db, g) =>
            LET table == db.tables[g.table] IN
            run_get(db, g).walked >= 0 =>
                \A m \in missed_indexes(table, g.filter) :
                    LET plan == plan_access(WithIndex(table, m[1], m[2], db.seq), g.filter) IN
                    IF plan.ok THEN plan.access.k = (IF m[2] THEN "text" ELSE "index") ELSE FALSE

=============================================================================
