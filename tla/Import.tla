------------------------------- MODULE Import -------------------------------
(***************************************************************************)
(* Importing a SQLite database (quantydb-import: plan.rs, run.rs,          *)
(* default.rs; quantydb-sqlite: survey.rs, affinity.rs; the import command *)
(* of quantydb-cli).                                                       *)
(*                                                                         *)
(* The first pass reads the source and makes a plan, the second one        *)
(* creates the tables and writes the rows in batches, each one             *)
(* transaction.  The source belongs to another program, which may change   *)
(* it between the passes: it may write rows, alter, drop and create tables *)
(* and move them to other pages.                                           *)
(*                                                                         *)
(* The source is a sequence of schema objects.  A table has the root page  *)
(* of its tree, its declaration and its rows; `damaged` says that a walk   *)
(* of the tree ends in an error.  An object of the kind "free" is not in   *)
(* the schema: it is a tree that a dropped table left on a page nobody has *)
(* used since.                                                             *)
(*                                                                         *)
(* A value is its storage class, a token for what it says and a length:    *)
(* the integer 1, the text '1' and the blob x'31' have the same token, and *)
(* rendering one as another keeps it.  A row of the source is what SQLite  *)
(* shows for it; how SQLite stores it is Record, which the importer has to *)
(* undo.                                                                   *)
(***************************************************************************)
EXTENDS Names
LOCAL INSTANCE SequencesExt
LOCAL INSTANCE FiniteSetsExt

CONSTANTS
    Sources,      \* sets of databases to import, which are sequences of schema objects
    Changes(_),   \* what a source may have become by the second pass
    BATCH,        \* rows in one put statement
    KeyLimit,     \* max_key_len of the target's page size
    TooBig        \* tokens of integers beyond 2^53

VARIABLES
    source,    \* the SQLite database
    planned,   \* the database as it was when it was planned
    options,   \* strict, dry_run, and whether the target exists already
    phase,     \* where the command is, in the end how it ended
    plan,      \* the ImportPlan
    at,        \* the table of the plan that is being written
    next,      \* the next row of it
    batch,     \* rows not flushed yet
    db,        \* the target: one record per table made
    error      \* why the second pass failed

vars == <<source, planned, options, phase, plan, at, next, batch, db, error>>

Missing == Value("Missing", "", 0)
Virtual == Value("Virtual", "", 0)
Rowid(n) == Value("Integer", <<"1", "2", "3", "4">>[n], 1)

(***************************************************************************)
(* SQLite, the writer of the file                                          *)
(***************************************************************************)
Real(v) == [v EXCEPT !.class = "Real"]

(* TableDef::rowid_alias: a single key column declared exactly integer, in *)
(* a table with rowids, and no desc on the column.                         *)
RowidAlias(table) ==
    IF /\ ~table.without_rowid /\ Len(table.primary_key) = 1 /\ ~table.inline_pk_desc
       /\ table.columns[table.primary_key[1]].decl = "integer"
    THEN table.primary_key[1] ELSE 0

(* The columns of a table in the order of its records: the declared one,   *)
(* without rowids the key first; virtual columns are not stored.           *)
StoredOrder(table) ==
    LET declared == [c \in DOMAIN table.columns |-> c]
        key == IF table.without_rowid THEN table.primary_key ELSE <<>>
        rest == SelectSeq(declared, LAMBDA c : c \notin Range(key))
    IN  SelectSeq(key \o rest, LAMBDA c : ~table.columns[c].virtual)

(* A record: the alias of the rowid is null, a whole number in a real      *)
(* column is an integer, and an old row ends before the columns added      *)
(* since.                                                                  *)
Record(table, row) ==
    [i \in 1 .. Min({row.stored, Len(StoredOrder(table))}) |->
        LET c == StoredOrder(table)[i]
            v == row.cells[c]
        IN  IF c = RowidAlias(table) THEN Null
            ELSE IF AffinityOf(table.columns[c].decl) = "Real" /\ v.class = "Real" /\ v.tok = "1"
            THEN [v EXCEPT !.class = "Integer"] ELSE v]

(* What SQLite shows for a default: its literal under the column's         *)
(* affinity.                                                               *)
DefaultValue(column) ==
    LET d == column.default
        v == IF d.form = "true" THEN Value("Integer", "1", 1)
             ELSE IF d.form \in {"none", "null", "expression"} THEN Null ELSE d.value
        a == AffinityOf(column.decl)
        number == v.class \in {"Integer", "Real"} \/ (v.class = "Text" /\ v.tok = "1")
    IN  IF number /\ a = "Real" THEN Real(v)
        ELSE IF number /\ a \in {"Integer", "Numeric"} /\ v.class = "Text"
        THEN [v EXCEPT !.class = "Integer"]
        ELSE IF number /\ a = "Text" THEN [v EXCEPT !.class = "Text"] ELSE v

(* What SQLite shows for a column of a row.                                *)
Shown(table, row, c) ==
    IF c = RowidAlias(table) THEN Rowid(row.rowid)
    ELSE IF \E i \in 1 .. row.stored : i <= Len(StoredOrder(table)) /\ StoredOrder(table)[i] = c
    THEN row.cells[c] ELSE DefaultValue(table.columns[c])

(***************************************************************************)
(* Reading a row (survey.rs)                                               *)
(***************************************************************************)
(* Mutant: a virtual column takes a position of the record.                *)
Position_zipped(table, c) == c
(* RowLayout::new and ::keyed: the position of a column in the record.     *)
Position(table, c) ==
    LET order == IF ~table.without_rowid THEN [i \in DOMAIN table.columns |-> i]
                 ELSE table.primary_key \o SelectSeq([i \in DOMAIN table.columns |-> i],
                                                     LAMBDA i : i \notin Range(table.primary_key))
        before == {i \in DOMAIN order : i <= CHOOSE k \in DOMAIN order : order[k] = c}
    IN  Cardinality({i \in before : ~table.columns[order[i]].virtual})

(* Reader::rows: a row of the table o as it is read from its tree; one     *)
(* without rowids has none.                                                *)
Read(o, row) == [rowid |-> IF o.without_rowid THEN {} ELSE {row.rowid}, values |-> Record(o, row)]
RowidOf(row) == Rowid(CHOOSE n \in row.rowid : TRUE)

(* Is the column the row's rowid.                                          *)
Aliases(table, row, c) == c = RowidAlias(table) /\ row.rowid # {}

(* RowLayout::cell, of the layout of a declaration and a row that was      *)
(* read, which need not be of the same table.                              *)
LayoutCell(table, row, c) ==
    IF c \notin DOMAIN table.columns THEN Missing
    ELSE IF table.columns[c].virtual THEN Virtual
    ELSE IF Aliases(table, row, c) THEN RowidOf(row)
    ELSE IF Position(table, c) > Len(row.values) THEN Missing ELSE row.values[Position(table, c)]

(* Affinity::logical_class: an integer in a real column is a real.         *)
logical_class(affinity, v) ==
    IF affinity = "Real" /\ v.class = "Integer" THEN "Real" ELSE v.class

(* Reader::survey_table, for one column.                                   *)
Survey(table, c) ==
    LET affinity == AffinityOf(table.columns[c].decl)
        cells == {LayoutCell(table, Read(table, table.rows[i]), c) : i \in DOMAIN table.rows}
        values == {v \in cells : v.class \notin {"Missing", "Virtual"}}
        classes == {IF c = RowidAlias(table) THEN v.class ELSE logical_class(affinity, v) : v \in values}
        lengths == {v.len : v \in {w \in values : w.class \in {"Text", "Blob"}}}
    IN  [affinity |-> affinity,
         classes |-> classes \ {"Null"},
         nulls |-> "Null" \in classes,
         missing |-> Missing \in cells,
         too_big |-> \E v \in values : v.class = "Integer" /\ v.tok \in TooBig,
         longest |-> IF lengths = {} THEN 0 ELSE Max(lengths),
         virtual |-> table.columns[c].virtual]

(***************************************************************************)
(* The first pass (plan.rs)                                                *)
(***************************************************************************)
AddRowid == <<>>

(* A column that cannot be in a key.                                       *)
Unfit(survey) == survey.nulls \/ survey.missing \/ survey.virtual \/ survey.longest > KeyLimit

(* choose_key(): the alias of the rowid, the primary key if every column   *)
(* of it can be in a key, and else the rowid.                              *)
choose_key(table) ==
    IF RowidAlias(table) # 0 THEN <<RowidAlias(table)>>
    ELSE IF \E c \in Range(table.primary_key) : Unfit(Survey(table, c)) THEN AddRowid
    ELSE table.primary_key

from_affinity(affinity) ==
    [Integer |-> "Int", Real |-> "Float", Text |-> "Text", Blob |-> "Bytes", Numeric |-> "Int"][affinity]
Single == [Integer |-> "Int", Real |-> "Float", Text |-> "Text", Blob |-> "Bytes"]

(* decide_type(): the type that holds every class of the column.           *)
decide_type(survey) ==
    IF survey.classes = {} THEN from_affinity(survey.affinity)
    ELSE IF Cardinality(survey.classes) = 1 THEN Single[CHOOSE c \in survey.classes : TRUE]
    ELSE IF survey.classes = {"Integer", "Real"} THEN "Float"
    ELSE IF "Blob" \in survey.classes THEN "Bytes" ELSE "Text"

(* The problems decide_type() and widen() find.                            *)
TypeProblems(survey, strict) ==
    {p \in {"IntegerTooLargeForFloat"} : survey.classes = {"Integer", "Real"} /\ survey.too_big}
    \cup {p \in {"WouldWiden"} : Cardinality(survey.classes) > 1 /\ strict}

(* default::parse: [some, value]; a literal is its value, an expression    *)
(* is none.                                                                *)
parse(default) ==
    CASE default.form = "null" -> [some |-> TRUE, value |-> Null]
      [] default.form = "true" -> [some |-> TRUE, value |-> Value("Bool", "1", 1)]
      [] default.form = "literal" -> [some |-> TRUE, value |-> default.value]
      [] OTHER -> [some |-> FALSE, value |-> Null]

value_fits(v, ty) ==
    <<v.class, ty>> \in {<<"Integer", "Int">>, <<"Integer", "Float">>, <<"Real", "Float">>,
                         <<"Text", "Text">>, <<"Blob", "Bytes">>, <<"Bool", "Bool">>}

(* collect_indexes(): the indexes over this column alone.                  *)
Indexed(table, c) == \E i \in DOMAIN table.indexes : table.indexes[i] = <<c>>

Nullable(survey, key, default) ==
    ~key /\ (survey.nulls \/ (survey.missing /\ default = Null))

(* plan_table(), for one declared column that is stored.                   *)
ColumnPlan(table, c, name, survey, key) ==
    LET ty == decide_type(survey)
        d == table.columns[c].default
        fits == d.form # "none" /\ parse(d).some /\ value_fits(parse(d).value, ty)
        default == IF fits THEN parse(d).value ELSE Null
    IN  [name |-> name, ty |-> ty, key |-> key, default |-> default, column |-> c,
         nullable |-> Nullable(survey, key, default),
         indexed |-> ~key /\ Indexed(table, c) /\ survey.longest <= KeyLimit,
         not_understood |-> d.form \notin {"none", "null"} /\ ~fits,
         widened |-> Cardinality(survey.classes) > 1]

RowidColumn ==
    [name |-> <<"r", "o", "w", "i", "d">>, ty |-> "Int", key |-> TRUE, default |-> Null,
     column |-> 0, nullable |-> FALSE, indexed |-> FALSE,
     not_understood |-> FALSE, widened |-> FALSE]

(* plan_table(): the columns, the rowid first when it has to be the key.   *)
AddColumn(columns, table, c, key) ==
    Append(columns, ColumnPlan(table, c,
                               assign([i \in DOMAIN columns |-> columns[i].name], table.columns[c].name),
                               Survey(table, c), c \in Range(key)))
TablePlan(table, name, key) ==
    [source |-> table.name, name |-> name, root_page |-> table.root, rows |-> Len(table.rows),
     columns |-> FoldLeft(LAMBDA columns, c : AddColumn(columns, table, c, key),
                          IF key = AddRowid THEN <<RowidColumn>> ELSE <<>>,
                          SelectSeq([i \in DOMAIN table.columns |-> i],
                                    LAMBDA c : ~table.columns[c].virtual))]

Keyless(table, key) == table.without_rowid /\ key = AddRowid

TableProblems(table, key, strict) ==
    IF ~table.parses \/ Keyless(table, key) THEN {"Unsupported"}
    ELSE UNION {TypeProblems(Survey(table, c), strict) :
                    c \in {i \in DOMAIN table.columns : ~table.columns[i].virtual}}

(* plan(): every table of the schema that is not SQLite's own; views hold  *)
(* no rows.                                                                *)
AddTable(p, t, name, key, strict) ==
    [taken |-> IF t.parses THEN Append(p.taken, name) ELSE p.taken,
     tables |-> IF ~t.parses \/ Keyless(t, key) THEN p.tables
                ELSE Append(p.tables, TablePlan(t, name, key)),
     problems |-> p.problems \cup TableProblems(t, key, strict)]
NoPlan == [taken |-> <<>>, tables |-> <<>>, problems |-> {}]
PlanOf(objects, strict) ==
    FoldLeft(LAMBDA p, t : AddTable(p, t, assign(p.taken, t.name), choose_key(t), strict),
             NoPlan, SelectSeq(objects, LAMBDA o : o.kind = "table" /\ ~o.internal))

(* survey_table() fails on a tree that cannot be walked, and the plan with *)
(* it.                                                                     *)
Unwalkable(objects) ==
    \E o \in Range(objects) : o.kind = "table" /\ ~o.internal /\ o.parses /\ o.damaged

(* import() until it creates the target: the plan is reported, and with a  *)
(* problem, in a dry run or over an existing target that is all.           *)
Plan ==
    /\ phase = "start"
    /\ \E p \in {PlanOf(source, options.strict)} :
        /\ plan' = IF Unwalkable(source) THEN NoPlan ELSE p
        /\ phase' = IF \/ Unwalkable(source) \/ p.problems # {}
                       \/ ~options.dry_run /\ options.exists THEN "refused"
                    ELSE IF options.dry_run THEN "done" ELSE "execute"
    /\ planned' = source
    /\ UNCHANGED <<source, options, at, next, batch, db, error>>

(***************************************************************************)
(* The second pass (run.rs)                                                *)
(***************************************************************************)
None == Value("None", "", 0)
Widens == [Integer |-> {"Int", "Float", "Text", "Bytes"}, Real |-> {"Float", "Text", "Bytes"},
           Text |-> {"Text", "Bytes"}, Blob |-> {"Bytes"}]
As(ty) == [Int |-> "Integer", Float |-> "Real", Text |-> "Text", Bytes |-> "Blob"][ty]

(* convert(): None when the value does not belong in the column.           *)
convert(v, ty) ==
    IF v = Null THEN Null
    ELSE IF ty \notin Widens[v.class] THEN None
    ELSE IF v.class = "Integer" /\ ty = "Float" /\ v.tok \in TooBig THEN None
    ELSE [v EXCEPT !.class = As(ty)]

(* value_for(): a virtual column and a rowid that a row does not have are  *)
(* not in the plan.                                                        *)
value_for(table, column, row) ==
    LET v == LayoutCell(table, row, column.column)
    IN  IF column.column = 0 THEN IF row.rowid = {} THEN None ELSE RowidOf(row)
        ELSE IF Aliases(table, row, column.column) THEN v
        ELSE IF v = Missing THEN column.default
        ELSE IF v = Virtual THEN None ELSE convert(v, column.ty)

Convert(table, columns, row) == [i \in DOMAIN columns |-> value_for(table, columns[i], row)]

(* Session: a put of rows that all have every column.  An integer default  *)
(* is coerced to float; a null that may not be one, a key that is taken    *)
(* and a key or an index entry that is too long fail the whole statement.  *)
EncodedLen(v) == CASE v.class = "Null" -> 1 [] v.class \in {"Integer", "Real"} -> 9 [] OTHER -> v.len + 2
KeyOf(columns, row) ==
    [i \in {c \in DOMAIN columns : columns[c].key} |-> row[i]]
KeyLen(columns, row) ==
    MapThenSumSet(LAMBDA i : EncodedLen(row[i]), {c \in DOMAIN columns : columns[c].key})
Coerced(columns, row) ==
    [i \in DOMAIN columns |-> IF columns[i].ty = "Float" /\ row[i].class = "Integer"
                              THEN Real(row[i]) ELSE row[i]]
PutError(columns, rows, new) ==
    LET all == rows \o new
    IN  IF \E r \in Range(new) : \E i \in DOMAIN columns : r[i] = Null /\ ~columns[i].nullable
        THEN "null"
        ELSE IF \E r \in Range(new) : \/ 9 + KeyLen(columns, r) > KeyLimit
                                      \/ \E i \in DOMAIN columns :
                                           /\ columns[i].indexed
                                           /\ 9 + EncodedLen(r[i]) + KeyLen(columns, r) > KeyLimit
        THEN "too long"
        ELSE IF \E i, j \in DOMAIN all : i < j /\ KeyOf(columns, all[i]) = KeyOf(columns, all[j])
        THEN "duplicate" ELSE ""

Table == plan.tables[at]

(* Schema::object(): what the schema has now under the planned name.       *)
SourceTable == {o \in Range(source) : o.kind # "free" /\ SameName(o.name, Table.source)}
Declaration == CHOOSE o \in SourceTable : TRUE

(* What the rows are read from: the tree on the page that was the table's  *)
(* root when it was planned, whichever table it belongs to now.            *)
RowSource == {o \in Range(source) : o.kind \in {"table", "free"} /\ o.root = Table.root_page}
Owner == CHOOSE o \in RowSource : TRUE

Fail(why) ==
    /\ phase' = "failed" /\ error' = why
    /\ UNCHANGED <<at, next, batch, db>>

(* The rows of the table after a put: all of the batch or none of it.      *)
Flushed(columns, rows, new) ==
    IF PutError(columns, rows, new) = "" THEN rows \o [i \in DOMAIN new |-> Coerced(columns, new[i])]
    ELSE rows

(* import_table() up to its loop: the table is created, its declaration    *)
(* is read from the source again, by its name, and the tree at the planned *)
(* root page is opened.                                                    *)
CreateTable ==
    /\ phase = "execute" /\ at <= Len(plan.tables)
    /\ db' = Append(db, [name |-> Table.name, rows |-> <<>>])
    /\ error' = IF SourceTable = {} THEN "unplanned"
                ELSE IF Declaration.kind # "table" \/ ~Declaration.parses \/ RowSource = {}
                THEN "source" ELSE ""
    /\ phase' = IF error' = "" THEN "rows" ELSE "failed"
    /\ next' = 1
    /\ UNCHANGED <<source, planned, options, plan, at, batch>>

SetRows(rows) == [db EXCEPT ![at].rows = rows]
Flush(new) ==
    LET why == PutError(Table.columns, db[at].rows, new)
    IN  /\ db' = SetRows(Flushed(Table.columns, db[at].rows, new))
        /\ phase' = IF why = "" THEN "rows" ELSE "failed"
        /\ error' = why

(* One round of the loop: a row is read and converted, and a full batch is *)
(* flushed.                                                                *)
ReadRow ==
    /\ phase = "rows" /\ next <= Len(Owner.rows)
    /\ LET row == Convert(Declaration, Table.columns, Read(Owner, Owner.rows[next]))
           new == Append(batch, row)
       IN  IF None \in Range(row) THEN Fail("unplanned")
           ELSE /\ next' = next + 1
                /\ IF Len(new) = BATCH THEN batch' = <<>> /\ Flush(new)
                   ELSE batch' = new /\ UNCHANGED <<phase, db, error>>
                /\ UNCHANGED at
    /\ UNCHANGED <<source, planned, options, plan>>

(* Were as many rows written as were planned.                              *)
Counted(rows) == Len(rows) = Table.rows

(* The walk of the tree ends in an error, and the rows read since the last *)
(* flush are lost.                                                         *)
ReadFails ==
    /\ phase = "rows" /\ next > Len(Owner.rows) /\ Owner.damaged
    /\ Fail("source")
    /\ UNCHANGED <<source, planned, options, plan>>

(* The end of import_table(): the last batch, and the count.               *)
EndTable ==
    /\ phase = "rows" /\ next > Len(Owner.rows) /\ ~Owner.damaged
    /\ LET why == PutError(Table.columns, db[at].rows, batch)
           rows == Flushed(Table.columns, db[at].rows, batch)
       IN  /\ db' = SetRows(rows)
           /\ error' = IF why # "" THEN why ELSE IF Counted(rows) THEN "" ELSE "unplanned"
           /\ phase' = IF error' = "" THEN "execute" ELSE "failed"
           /\ at' = IF error' = "" THEN at + 1 ELSE at
    /\ batch' = <<>>
    /\ UNCHANGED <<source, planned, options, plan, next>>

(* execute() returns its report.                                           *)
Finish ==
    /\ phase = "execute" /\ at > Len(plan.tables)
    /\ phase' = "done"
    /\ UNCHANGED <<source, planned, options, plan, at, next, batch, db, error>>

(* The other program writes to the source after it was planned and before  *)
(* the second pass reads it.                                               *)
Change ==
    /\ phase = "execute" /\ at = 1 /\ db = <<>> /\ source = planned
    /\ source' \in Changes(source)
    /\ UNCHANGED <<planned, options, phase, plan, at, next, batch, db, error>>

(* The import is killed.                                                   *)
Crash ==
    /\ phase \in {"execute", "rows"}
    /\ phase' = "crashed"
    /\ UNCHANGED <<source, planned, options, plan, at, next, batch, db, error>>

Init ==
    /\ \E databases \in Sources : source \in databases
    /\ options \in [strict : BOOLEAN, dry_run : BOOLEAN, exists : BOOLEAN]
    /\ planned = <<>> /\ phase = "start" /\ plan = NoPlan
    /\ at = 1 /\ next = 1 /\ batch = <<>> /\ db = <<>> /\ error = ""

Next == Plan \/ CreateTable \/ ReadRow \/ ReadFails \/ EndTable \/ Finish \/ Change \/ Crash

Spec == Init /\ [][Next]_vars

(***************************************************************************)
(* Properties                                                              *)
(***************************************************************************)
Imported == {o \in Range(source) : o.kind = "table" /\ ~o.internal}
PlanFor(o) == CHOOSE i \in DOMAIN plan.tables : SameName(plan.tables[i].source, o.name)
Complete == phase = "done" /\ ~options.dry_run

(* Has the table still the root page and the declaration it was planned    *)
(* with.  Its rows may be others.                                          *)
Stayed(o) == \E q \in Range(planned) : [q EXCEPT !.rows = o.rows, !.damaged = o.damaged] = o

(* A cell of the target says what SQLite shows for the cell it came from.  *)
Says(table, row, column, v) ==
    v.tok = IF column.column = 0 THEN Rowid(row.rowid).tok ELSE Shown(table, row, column.column).tok

(* Does the row have a default in this column that the report said was not *)
(* understood.                                                             *)
Excused(table, row, column) ==
    column.not_understood /\ LayoutCell(table, Read(table, row), column.column) = Missing

(* The rows of the i-th table of the target are the first rows of o.       *)
Copies(o, i) ==
    \A r \in DOMAIN db[i].rows : \A k \in DOMAIN plan.tables[i].columns :
        LET column == plan.tables[i].columns[k]
        IN  Says(o, o.rows[r], column, db[i].rows[r][k]) \/ Excused(o, o.rows[r], column)

(* All of o is in the i-th table of the target.                            *)
Holds(o, i) ==
    /\ SameName(plan.tables[i].source, o.name)
    /\ Len(db[i].rows) = Len(o.rows)
    /\ Copies(o, i)
    /\ {c \in DOMAIN o.columns : ~o.columns[c].virtual}
         \subseteq {plan.tables[i].columns[k].column : k \in DOMAIN plan.tables[i].columns}

(* An import that reports success has every row of every table that has    *)
(* still the root page and the declaration it was planned with, once, in   *)
(* order, and in every stored column what SQLite shows there, be it an     *)
(* alias of the rowid, a whole number in a real column or a column the row *)
(* is older than; only a default the report said it could not read is      *)
(* excused.  The rows may have changed after they were planned.  Of a      *)
(* table that was dropped, moved or altered meanwhile it says nothing: see *)
(* ChangesAreCaught (run.rs: execute).                                     *)
NothingLost ==
    Complete => \A o \in Imported : Stayed(o) => \E i \in DOMAIN db : Holds(o, i)

(* With an unchanged source the two passes agree: every value belongs in   *)
(* the column the plan made for it, no null meets a column that has none,  *)
(* and the counts match.  What is left to go wrong is a key (run.rs:       *)
(* ImportError::Unplanned; plan.rs: plan_table).                           *)
PassesAgree == phase = "failed" /\ source = planned => error \in {"duplicate", "too long"}

(* A table at a time is filled, and one that is done has as many rows as   *)
(* were planned, whatever happened to the source.  What is in the target   *)
(* of a table that stayed where it was is a whole number of batches from   *)
(* its front, or all of it; after a failure or a crash too (run.rs:        *)
(* import_table, flush).                                                   *)
WholeBatches ==
    \A i \in DOMAIN db :
        /\ i <= at
        /\ i < at => Len(db[i].rows) = plan.tables[i].rows
        /\ \A o \in Imported : Stayed(o) /\ SameName(plan.tables[i].source, o.name) =>
             /\ Len(db[i].rows) % BATCH = 0 \/ Len(db[i].rows) = Len(o.rows)
             /\ Copies(o, i)

(* Under --strict nothing that is stored in the source changes its class,  *)
(* and without it only what the report says was widened (plan.rs: widen).  *)
ClassesAreKept ==
    Complete /\ source = planned => \A o \in Imported : \A r \in DOMAIN o.rows :
        LET t == plan.tables[PlanFor(o)]
        IN  \A i \in DOMAIN t.columns :
              \/ t.columns[i].column = 0
              \/ t.columns[i].widened /\ ~options.strict
              \/ LayoutCell(o, Read(o, o.rows[r]), t.columns[i].column) = Missing
              \/ db[PlanFor(o)].rows[r][i].class = Shown(o, o.rows[r], t.columns[i].column).class

(* The identifiers of a plan are ones the language takes, and distinct,    *)
(* case aside, among the tables and in every table (name.rs: assign).      *)
NamesAreDistinct ==
    \A i \in DOMAIN plan.tables :
        LET columns == plan.tables[i].columns
        IN  /\ Legal(plan.tables[i].name)
            /\ \A k \in DOMAIN plan.tables : k # i => ~SameName(plan.tables[i].name, plan.tables[k].name)
            /\ \A c \in DOMAIN columns : Legal(columns[c].name)
            /\ \A c, d \in DOMAIN columns : c # d => ~SameName(columns[c].name, columns[d].name)

(* A copy is whole or says why not: the five statements above, of a dry    *)
(* run, an import that is done, one that failed and one that was killed,   *)
(* with a source that stays and with one whose rows and tables change      *)
(* between the passes, as far as the statements reach (plan.rs, run.rs,    *)
(* name.rs).                                                               *)
ImportIsFaithful ==
    NothingLost /\ PassesAgree /\ WholeBatches /\ ClassesAreKept /\ NamesAreDistinct

(* What run.rs says of the first pass: the failures are known before a row *)
(* is written.                                                             *)
FailuresAreForeseen == phase = "failed" => source # planned

(* "If it finds something the plan did not predict ... it stops and says   *)
(* so" (run.rs:6-8): a success means every table of the source, whatever   *)
(* was done to it between the passes.                                      *)
ChangesAreCaught ==
    Complete => \A o \in Imported : \E i \in DOMAIN db : Holds(o, i)

(* What the documentation says of columns added later: the rows that are   *)
(* older take the column's default.                                        *)
OlderRowsTakeTheDefault ==
    Complete /\ source = planned => \A o \in Imported : \A r \in DOMAIN o.rows :
        LET t == plan.tables[PlanFor(o)]
        IN  \A i \in DOMAIN t.columns : Says(o, o.rows[r], t.columns[i], db[PlanFor(o)].rows[r][i])
=============================================================================
