-------------------------------- MODULE Sql ---------------------------------
(***************************************************************************)
(* The SQL parser (sql/parser.rs), onto the same trees.                    *)
(*                                                                         *)
(* What the dialect does not support is refused where it stands, with a    *)
(* message of its own; the grammar expects nothing there either, so those  *)
(* refusals need no case of their own here unless they stand elsewhere.    *)
(***************************************************************************)
EXTENDS Syntax, TLC

CONSTANTS Quoted,   \* quoted names -> the name, or "" when it is misshapen
          Upper     \* words not in lower case -> in lower case

RESERVED ==
    {"all", "and", "as", "asc", "begin", "between", "by", "case", "cast", "check", "collate",
     "commit", "constraint", "create", "cross", "default", "delete", "desc", "distinct", "drop",
     "else", "end", "escape", "except", "exists", "explain", "foreign", "from", "full", "glob",
     "group", "having", "if", "in", "index", "inner", "insert", "intersect", "into", "is", "join",
     "key", "left", "like", "limit", "match", "natural", "not", "null", "offset", "on", "or",
     "order", "outer", "primary", "references", "regexp", "release", "replace", "right",
     "rollback", "savepoint", "select", "set", "show", "table", "then", "transaction", "true",
     "union", "unique", "update", "using", "values", "when", "where", "with"}

(* The keyword at the cursor: a word in lower case, never a quoted name.   *)
kw(s, i) == LET t == tok(s, i) IN IF t \in DOMAIN Upper THEN Upper[t] ELSE t

expect_kw(s, i, w) == IF kw(s, i) = w THEN Ok(i + 1, w) ELSE Err(i)

Skip(s, i, w) == IF kw(s, i) = w THEN i + 1 ELSE i

raw_ident(s, i) ==
    CASE tok(s, i) \in DOMAIN Quoted ->
             IF Quoted[tok(s, i)] = "" THEN Err(i) ELSE Ok(i + 1, Quoted[tok(s, i)])
      [] tok(s, i) \in Words \cup DOMAIN Upper ->
             IF kw(s, i) \in RESERVED THEN Err(i) ELSE Ok(i + 1, tok(s, i))
      [] OTHER -> Err(i)

ident(s, i) == Then(raw_ident(s, i), LAMBDA j, n : IF n \in Refused THEN Err(i) ELSE Ok(j, n))

column_ref(s, i) ==
    Then(ident(s, i), LAMBDA j, first :
        IF tok(s, j) = "." THEN Wrap(ident(s, j + 1), LAMBDA c : <<"column", first, c>>)
                           ELSE Ok(j, <<"column", "", first>>))

IsLiteral(s, i) ==
    tok(s, i) \in Ints \cup {AllOnes} \cup Literals \/ kw(s, i) \in {"true", "false", "null"}

(* The value is what the word says in lower case.                          *)
literal_value(s, i) == IF IsLiteral(s, i) THEN Ok(i + 1, kw(s, i)) ELSE Err(i)

-----------------------------------------------------------------------------
(* Expressions, on the ladder of QQL.                                      *)

RECURSIVE or_loop(_, _, _), and_loop(_, _, _), not_expr(_, _), cmp_loop(_, _, _),
          add_loop(_, _, _), mul_loop(_, _, _), unary_expr(_, _), primary_expr(_, _)

or_expr(s, i) == or_loop(s, <<>>, i)

expr(s, i) == or_expr(s, i)

and_expr(s, i) == and_loop(s, <<>>, i)

or_loop(s, left, i) ==
    Then(After(left, and_expr(s, i)), LAMBDA j, e :
        IF kw(s, j) = "or" THEN or_loop(s, <<e, "or">>, j + 1) ELSE Ok(j, e))

and_loop(s, left, i) ==
    Then(After(left, not_expr(s, i)), LAMBDA j, e :
        IF kw(s, j) = "and" THEN and_loop(s, <<e, "and">>, j + 1) ELSE Ok(j, e))

cmp_expr(s, i) == cmp_loop(s, <<>>, i)

(* not before the words of an unsupported comparison is left to that.      *)
not_expr(s, i) ==
    IF kw(s, i) = "not" /\ kw(s, i + 1) \notin {"between", "in", "like", "glob", "regexp", "match"}
    THEN Wrap(not_expr(s, i + 1), LAMBDA e : <<"unary", "not", e>>)
    ELSE cmp_expr(s, i)

add_expr(s, i) == add_loop(s, <<>>, i)

NullLiteral == <<"literal", "null">>

(* A comparison with the word null is refused at the operator; is and      *)
(* is not are the null-safe comparisons the engine makes anyway.  The left *)
(* side holds the place of an operator that refuses null, or 0.            *)
cmp_loop(s, left, i) ==
    Then(add_expr(s, i), LAMBDA j, e :
        IF left # <<>>
        THEN IF left[3] > 0 /\ NullLiteral \in {left[1], e} THEN Err(left[3])
             ELSE Ok(j, Binary(left[2], left[1], e))
        ELSE IF tok(s, j) \in {"=", "!=", "<", "<=", ">", ">="}
        THEN cmp_loop(s, <<e, tok(s, j), j>>, j + 1)
        ELSE IF kw(s, j) = "is"
        THEN IF kw(s, j + 1) = "not" THEN cmp_loop(s, <<e, "!=", 0>>, j + 2)
                                     ELSE cmp_loop(s, <<e, "=", 0>>, j + 1)
        ELSE Ok(j, e))

mul_expr(s, i) == mul_loop(s, <<>>, i)

add_loop(s, left, i) ==
    Then(After(left, mul_expr(s, i)), LAMBDA j, e :
        IF tok(s, j) \in {"+", "-", "||"}
        THEN add_loop(s, <<e, IF tok(s, j) = "-" THEN "-" ELSE "+">>, j + 1)
        ELSE Ok(j, e))

mul_loop(s, left, i) ==
    Then(After(left, unary_expr(s, i)), LAMBDA j, e :
        IF tok(s, j) \in {"*", "/", "%"} THEN mul_loop(s, <<e, tok(s, j)>>, j + 1) ELSE Ok(j, e))

(* Mutant: the sign is that of the whole product.                          *)
unary_expr_product(s, i) ==
    CASE tok(s, i) = "-" -> Wrap(mul_expr(s, i + 1), LAMBDA e : <<"unary", "-", e>>)
      [] tok(s, i) = "+" -> unary_expr(s, i + 1)
      [] OTHER           -> primary_expr(s, i)

unary_expr(s, i) ==
    CASE tok(s, i) = "-" -> Wrap(unary_expr(s, i + 1), LAMBDA e : <<"unary", "-", e>>)
      [] tok(s, i) = "+" -> unary_expr(s, i + 1)
      [] OTHER           -> primary_expr(s, i)

primary_expr(s, i) ==
    CASE IsLiteral(s, i) -> Ok(i + 1, <<"literal", kw(s, i)>>)
      [] tok(s, i) = "(" -> Then(expr(s, i + 1), LAMBDA j, e :
                                Wrap(expect(s, j, ")"), LAMBDA t : e))
      [] OTHER           -> column_ref(s, i)

-----------------------------------------------------------------------------
(* Statements.                                                             *)

Optional(s, i, word, Read(_)) ==
    IF kw(s, i) = word THEN Wrap(Read(i + 1), LAMBDA x : Some(x)) ELSE Ok(i, None)

filter(s, i) == Optional(s, i, "where", LAMBDA j : expr(s, j))

(* Items with commas between them, read into what has been read.           *)
RECURSIVE idents(_, _, _)
idents(s, i, done) ==
    Then(ident(s, i), LAMBDA j, n :
        IF tok(s, j) = "," THEN idents(s, j + 1, Append(done, n)) ELSE Ok(j, Append(done, n)))

(* Names between parentheses.                                              *)
Enclosed(s, i) ==
    Then(expect(s, i, "("), LAMBDA j, b : Then(idents(s, j, <<>>), LAMBDA k, ns :
        Wrap(expect(s, k, ")"), LAMBDA e : ns)))

RECURSIVE select_list(_, _, _)
select_list(s, i, done) ==
    Then(column_ref(s, i), LAMBDA j, c :
        IF tok(s, j) = "," THEN select_list(s, j + 1, Append(done, c)) ELSE Ok(j, Append(done, c)))

(* A bare name; an alias, a qualified name or a subquery is refused.       *)
one_table(s, i) ==
    Then(ident(s, i), LAMBDA j, t :
        IF tok(s, j) = "." \/ kw(s, j) = "as" \/ raw_ident(s, j).ok \/ tok(s, j) \in DOMAIN Quoted
        THEN Err(j) ELSE Ok(j, t))

RECURSIVE parse_from(_, _, _)
parse_from(s, i, done) ==
    LET kind == IF kw(s, i) = "left" THEN "left" ELSE "inner"
        word == IF kw(s, i) = "join" THEN i
                ELSE IF kw(s, i) = "left" THEN Skip(s, i + 1, "outer") ELSE i + 1
    IN  IF kw(s, i) \in {"join", "inner", "left"}
        THEN Then(expect_kw(s, word, "join"), LAMBDA j, w : Then(one_table(s, j), LAMBDA k, t :
                 Then(expect_kw(s, k, "on"), LAMBDA l, o : Then(expr(s, l), LAMBDA n, e :
                     parse_from(s, n, Append(done, <<kind, t, e>>))))))
        ELSE Ok(i, done)

order(s, i) ==
    Optional(s, i, "order", LAMBDA j : Then(expect_kw(s, j, "by"), LAMBDA k, b :
        Then(column_ref(s, k), LAMBDA l, c :
            IF kw(s, l) = "desc" THEN Ok(l + 1, <<c, "desc">>)
                                 ELSE Ok(Skip(s, l, "asc"), <<c, "asc">>))))

limit(s, i) ==
    Optional(s, i, "limit", LAMBDA j : IF tok(s, j) \in Ints THEN Ok(j + 1, tok(s, j)) ELSE Err(j))

select(s, i) ==
    LET all  == Skip(s, i, "all")
        list == IF tok(s, all) = "*" THEN Ok(all + 1, None)
                ELSE Wrap(select_list(s, all, <<>>), LAMBDA cs : Some(cs))
    IN  Then(list, LAMBDA i1, p : Then(expect_kw(s, i1, "from"), LAMBDA i2, w :
            Then(one_table(s, i2), LAMBDA i3, t : Then(parse_from(s, i3, <<>>), LAMBDA i4, js :
                Then(filter(s, i4), LAMBDA i5, f : Then(order(s, i5), LAMBDA i6, o :
                    Wrap(limit(s, i6), LAMBDA n : <<"get", t, js, p, None, f, o, n>>)))))))

RECURSIVE exprs(_, _, _)
exprs(s, i, done) ==
    Then(expr(s, i), LAMBDA j, e :
        IF tok(s, j) = "," THEN exprs(s, j + 1, Append(done, e)) ELSE Ok(j, Append(done, e)))

(* A row of another length than the column list is refused at its start.   *)
RECURSIVE rows(_, _, _, _)
rows(s, i, columns, done) ==
    Then(expect(s, i, "("), LAMBDA j, b : Then(exprs(s, j, <<>>), LAMBDA k, es :
        Then(expect(s, k, ")"), LAMBDA l, e :
            IF Len(es) # Len(columns) THEN Err(i)
            ELSE LET all == Append(done, [c \in DOMAIN columns |-> <<columns[c], es[c]>>])
                 IN  IF tok(s, l) = "," THEN rows(s, l + 1, columns, all) ELSE Ok(l, all))))

insert(s, i) ==
    Then(expect_kw(s, i, "into"), LAMBDA i1, w : Then(ident(s, i1), LAMBDA i2, t :
        Then(Enclosed(s, i2), LAMBDA i3, cs : Then(expect_kw(s, i3, "values"), LAMBDA i4, v :
            Wrap(rows(s, i4, cs, <<>>), LAMBDA rs : <<"put", t, rs>>)))))

RECURSIVE assigns(_, _, _)
assigns(s, i, done) ==
    Then(ident(s, i), LAMBDA j, c : Then(expect(s, j, "="), LAMBDA k, b :
        Then(expr(s, k), LAMBDA l, e :
            IF tok(s, l) = "," THEN assigns(s, l + 1, Append(done, <<c, e>>))
                               ELSE Ok(l, Append(done, <<c, e>>)))))

update(s, i) ==
    Then(ident(s, i), LAMBDA i1, t : Then(expect_kw(s, i1, "set"), LAMBDA i2, w :
        Then(assigns(s, i2, <<>>), LAMBDA i3, as :
            Wrap(filter(s, i3), LAMBDA f : <<"set", t, f, as>>))))

delete(s, i) ==
    Then(expect_kw(s, i, "from"), LAMBDA j, w : Then(ident(s, j), LAMBDA k, t :
        Wrap(filter(s, k), LAMBDA f : <<"del", t, f>>)))

-----------------------------------------------------------------------------
(* Tables.                                                                 *)

TypeNames ==
    [w \in {"int", "integer", "bigint", "smallint", "tinyint", "mediumint", "int2", "int4", "int8"}
        |-> "int"]
    @@ [w \in {"real", "float", "numeric", "decimal", "double"} |-> "float"]
    @@ [w \in {"text", "varchar", "nvarchar", "char", "nchar", "clob", "string", "character",
               "date", "datetime", "timestamp"} |-> "text"]
    @@ [w \in {"boolean", "bool"} |-> "bool"] @@ [w \in {"blob"} |-> "bytes"]

(* The numbers of a length, up to the closing parenthesis.                 *)
RECURSIVE length(_, _)
length(s, i) ==
    IF tok(s, i) \notin Ints \cup {AllOnes} THEN Err(i)
    ELSE IF tok(s, i + 1) = "," THEN length(s, i + 2)
    ELSE expect(s, i + 1, ")")

type_name(s, i) ==
    IF kw(s, i) \notin DOMAIN TypeNames THEN Err(i)
    ELSE LET ty == TypeNames[kw(s, i)]
             j  == CASE kw(s, i) = "double"    -> Skip(s, i + 1, "precision")
                     [] kw(s, i) = "character" -> Skip(s, i + 1, "varying")
                     [] OTHER                  -> i + 1
         IN  IF tok(s, j) = "(" THEN Wrap(length(s, j + 1), LAMBDA t : ty) ELSE Ok(j, ty)

deferred_tail(s, i) ==
    IF kw(s, i) # "initially" THEN Ok(i, None)
    ELSE IF kw(s, i + 1) \in {"deferred", "immediate"} THEN Ok(i + 2, None) ELSE Err(i + 1)

(* What is done when the row referred to goes.                             *)
action(s, i) ==
    CASE kw(s, i) = "set"                     -> IF kw(s, i + 1) \in {"null", "default"}
                                                 THEN Ok(i + 2, None) ELSE Err(i + 1)
      [] kw(s, i) \in {"cascade", "restrict"} -> Ok(i + 1, None)
      [] kw(s, i) = "no"                      -> expect_kw(s, i + 1, "action")
      [] OTHER                                -> Err(i)

RECURSIVE clauses(_, _)
clauses(s, i) ==
    CASE kw(s, i) = "on"         -> IF kw(s, i + 1) \in {"delete", "update"}
                                    THEN Then(action(s, i + 2), LAMBDA j, a : clauses(s, j))
                                    ELSE Err(i + 1)
      [] kw(s, i) = "match"      -> Then(ident(s, i + 1), LAMBDA j, n : clauses(s, j))
      [] kw(s, i) = "deferrable" -> Then(deferred_tail(s, i + 1), LAMBDA j, d : clauses(s, j))
      [] kw(s, i) = "not"        -> Then(expect_kw(s, i + 1, "deferrable"), LAMBDA j, w :
                                        Then(deferred_tail(s, j), LAMBDA k, d : clauses(s, k)))
      [] OTHER                   -> Ok(i, None)

foreign_key_tail(s, i) ==
    Then(ident(s, i), LAMBDA j, t :
        IF tok(s, j) = "(" THEN Then(Enclosed(s, j), LAMBDA k, cs : clauses(s, k))
                           ELSE clauses(s, j))

(* keyed: the table has its key already, in an earlier column or clause.   *)
RECURSIVE constraints(_, _, _, _)
constraints(s, i, col, keyed) ==
    CASE kw(s, i) = "primary"    -> Then(expect_kw(s, i + 1, "key"), LAMBDA j, w :
                                        IF keyed THEN Err(j)
                                        ELSE constraints(s, Skip(s, j, "asc"),
                                                         [col EXCEPT !.key = TRUE], keyed))
      [] kw(s, i) = "not"        -> Then(expect_kw(s, i + 1, "null"), LAMBDA j, w :
                                        constraints(s, j, [col EXCEPT !.nullable = FALSE], keyed))
      [] kw(s, i) = "null"       -> constraints(s, i + 1, col, keyed)
      [] kw(s, i) = "default"    -> Then(literal_value(s, i + 1), LAMBDA j, v :
                                        constraints(s, j, [col EXCEPT !.default = Some(v)], keyed))
      [] kw(s, i) = "references" -> Then(foreign_key_tail(s, i + 1), LAMBDA j, x :
                                        constraints(s, j, col, keyed))
      [] kw(s, i) = "constraint" -> Then(ident(s, i + 1), LAMBDA j, n : constraints(s, j, col, keyed))
      [] OTHER                   -> Ok(i, col)

HasKey(columns) == \E c \in DOMAIN columns : columns[c].key

column_def(s, i, earlier, saw_table_pk) ==
    Then(ident(s, i), LAMBDA j, n : Then(type_name(s, j), LAMBDA k, ty :
        Wrap(constraints(s, k, [name |-> n, ty |-> ty, nullable |-> TRUE, key |-> FALSE,
                                index |-> FALSE, text |-> FALSE, default |-> None],
                         saw_table_pk \/ HasKey(earlier)),
             LAMBDA col : [col EXCEPT !.nullable = @ /\ ~col.key])))

MakeKey(columns, c) == [columns EXCEPT ![c].key = TRUE, ![c].nullable = FALSE]

(* The columns of the key, each the first of its name and after the last.  *)
RECURSIVE key_columns(_, _, _, _)
key_columns(s, i, columns, last) ==
    Then(ident(s, i), LAMBDA j, n :
        LET named == {c \in DOMAIN columns : columns[c].name = n}
            c     == CHOOSE x \in named : \A y \in named : x <= y
            k     == Skip(s, j, "asc")
        IN  IF kw(s, k) = "desc" THEN Err(k)
            ELSE IF named = {} THEN Err(i)
            ELSE IF c <= last THEN Err(i)
            ELSE IF tok(s, k) = "," THEN key_columns(s, k + 1, MakeKey(columns, c), c)
            ELSE Ok(k, MakeKey(columns, c)))

(* What stands so far: the columns, and whether a clause named the key.    *)
table_constraint(s, at, columns, saw_table_pk) ==
    LET Table(cs, saw) == [columns |-> cs, saw |-> saw]
    IN  CASE kw(s, at) = "primary" ->
                 Then(expect_kw(s, at + 1, "key"), LAMBDA j, w :
                     IF saw_table_pk \/ HasKey(columns) THEN Err(at)
                     ELSE Then(expect(s, j, "("), LAMBDA k, b :
                         Then(key_columns(s, k, columns, 0), LAMBDA l, cs :
                             Wrap(expect(s, l, ")"), LAMBDA e : Table(cs, TRUE)))))
          [] kw(s, at) = "foreign" ->
                 Then(expect_kw(s, at + 1, "key"), LAMBDA j, w : Then(Enclosed(s, j), LAMBDA k, ns :
                     Then(expect_kw(s, k, "references"), LAMBDA l, r :
                         Wrap(foreign_key_tail(s, l), LAMBDA x : Table(columns, saw_table_pk)))))
          [] OTHER -> Err(at)

(* Columns and constraints, as they come.                                  *)
RECURSIVE definitions(_, _, _, _)
definitions(s, i, columns, saw) ==
    LET one == IF kw(s, i) \in {"primary", "unique", "check", "foreign"}
               THEN table_constraint(s, i, columns, saw)
               ELSE IF kw(s, i) = "constraint"
               THEN Then(ident(s, i + 1), LAMBDA j, n : table_constraint(s, j, columns, saw))
               ELSE Wrap(column_def(s, i, columns, saw), LAMBDA c :
                        [columns |-> Append(columns, c), saw |-> saw])
    IN  Then(one, LAMBDA j, t : IF tok(s, j) = "," THEN definitions(s, j + 1, t.columns, t.saw)
                                                   ELSE Ok(j, t.columns))

RECURSIVE options(_, _)
options(s, i) ==
    CASE kw(s, i) = "without"         -> Then(expect_kw(s, i + 1, "rowid"), LAMBDA j, w :
                                             options(s, j))
      [] kw(s, i) \in {"strict", ","} -> options(s, i + 1)
      [] OTHER                        -> Ok(i, None)

create_table(s, i) ==
    Then(ident(s, i), LAMBDA i1, n : Then(expect(s, i1, "("), LAMBDA i2, b :
        Then(definitions(s, i2, <<>>, FALSE), LAMBDA i3, cs : Then(expect(s, i3, ")"), LAMBDA i4, e :
            Then(options(s, i4), LAMBDA i5, x :
                IF HasKey(cs) THEN Ok(i5, <<"table", n, cs>>) ELSE Err(i5))))))

(* The name of an index is read and forgotten.                             *)
create_index(s, i) ==
    Then(ident(s, i), LAMBDA i1, x : Then(expect_kw(s, i1, "on"), LAMBDA i2, o :
        Then(ident(s, i2), LAMBDA i3, t : Then(expect(s, i3, "("), LAMBDA i4, b :
            Then(ident(s, i4), LAMBDA i5, c :
                Wrap(expect(s, Skip(s, i5, "asc"), ")"), LAMBDA e : <<"index", t, c, FALSE>>))))))

create(s, i) == CASE kw(s, i) = "table" -> create_table(s, i + 1)
                  [] kw(s, i) = "index" -> create_index(s, i + 1)
                  [] OTHER              -> Err(i)

drop(s, i) == IF kw(s, i) = "table" THEN Wrap(ident(s, i + 1), LAMBDA n : <<"drop", "table", n>>)
                                    ELSE Err(i)

-----------------------------------------------------------------------------

RECURSIVE statement(_, _)
statement(s, i) ==
    CASE kw(s, i) = "select"   -> select(s, i + 1)
      [] kw(s, i) = "insert"   -> insert(s, i + 1)
      [] kw(s, i) = "update"   -> update(s, i + 1)
      [] kw(s, i) = "delete"   -> delete(s, i + 1)
      [] kw(s, i) = "create"   -> create(s, i + 1)
      [] kw(s, i) = "drop"     -> drop(s, i + 1)
      [] kw(s, i) = "explain"  -> Then(IF kw(s, i + 1) = "query" THEN expect_kw(s, i + 2, "plan")
                                                                 ELSE Ok(i + 1, None),
                                       LAMBDA j, p : Wrap(statement(s, j), LAMBDA st :
                                                              <<"explain", st>>))
      [] kw(s, i) = "show"     -> Wrap(expect_kw(s, i + 1, "tables"), LAMBDA t : <<"show", t>>)
      [] kw(s, i) = "begin"    -> LET j == IF kw(s, i + 1) \in {"deferred", "immediate", "exclusive"}
                                           THEN i + 2 ELSE i + 1
                                  IN  Ok(Skip(s, j, "transaction"), <<"begin">>)
      [] kw(s, i) \in {"commit", "end"} -> Ok(Skip(s, i + 1, "transaction"), <<"commit">>)
      [] kw(s, i) = "rollback" -> Ok(Skip(s, i + 1, "transaction"), <<"rollback">>)
      [] OTHER                 -> Err(i)

parse_sql(s) ==
    Then(statement(s, 1), LAMBDA i, st :
        LET end == Skip(s, i, ";") IN IF end > Len(s) THEN Ok(end, st) ELSE Err(end))
=============================================================================
