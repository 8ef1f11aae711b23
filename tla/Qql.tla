-------------------------------- MODULE Qql ---------------------------------
(***************************************************************************)
(* The QQL parser (parser.rs), a function from a sequence of tokens to a   *)
(* tree or to the position of an error, one operator per method; each      *)
(* takes the tokens and the position it starts at.                         *)
(***************************************************************************)
EXTENDS Syntax

ident(s, i) == IF tok(s, i) \in Words THEN Ok(i + 1, tok(s, i)) ELSE Err(i)

name(s, i) == IF tok(s, i) \in Words \ Refused THEN Ok(i + 1, tok(s, i)) ELSE Err(i)

number(s, i) == IF tok(s, i) \in Ints THEN Ok(i + 1, tok(s, i)) ELSE Err(i)

column_ref(s, i) ==
    Then(name(s, i), LAMBDA j, first :
        IF tok(s, j) = "." THEN Wrap(name(s, j + 1), LAMBDA c : <<"column", first, c>>)
                           ELSE Ok(j, <<"column", "", first>>))

IsLiteral(t) == t \in Ints \cup Literals \cup {"true", "false", "null"}

-----------------------------------------------------------------------------
(* Expressions, loosest first.  Each loop reads an operand, puts what is   *)
(* read so far to the left of it and goes on while an operator follows.    *)

RECURSIVE or_loop(_, _, _), and_loop(_, _, _), not_expr(_, _), cmp_loop(_, _, _),
          add_loop(_, _, _), mul_loop(_, _, _), unary_expr(_, _), primary(_, _)

or_expr(s, i) == or_loop(s, <<>>, i)

expr(s, i) == or_expr(s, i)

and_expr(s, i) == and_loop(s, <<>>, i)

or_loop(s, left, i) ==
    Then(After(left, and_expr(s, i)), LAMBDA j, e :
        IF tok(s, j) = "or" THEN or_loop(s, <<e, "or">>, j + 1) ELSE Ok(j, e))

and_loop(s, left, i) ==
    Then(After(left, not_expr(s, i)), LAMBDA j, e :
        IF tok(s, j) = "and" THEN and_loop(s, <<e, "and">>, j + 1) ELSE Ok(j, e))

cmp_expr(s, i) == cmp_loop(s, <<>>, i)

not_expr(s, i) ==
    IF tok(s, i) = "not"
    THEN Wrap(not_expr(s, i + 1), LAMBDA e : <<"unary", "not", e>>)
    ELSE cmp_expr(s, i)

add_expr(s, i) == add_loop(s, <<>>, i)

(* One comparison, not a chain of them.                                    *)
cmp_loop(s, left, i) ==
    Then(After(left, add_expr(s, i)), LAMBDA j, e :
        IF left = <<>> /\ tok(s, j) \in {"match", "phrase", "=", "!=", "<", "<=", ">", ">="}
        THEN cmp_loop(s, <<e, tok(s, j)>>, j + 1)
        ELSE Ok(j, e))

mul_expr(s, i) == mul_loop(s, <<>>, i)

add_loop(s, left, i) ==
    Then(After(left, mul_expr(s, i)), LAMBDA j, e :
        IF tok(s, j) \in {"+", "-"} THEN add_loop(s, <<e, tok(s, j)>>, j + 1) ELSE Ok(j, e))

mul_loop(s, left, i) ==
    Then(After(left, unary_expr(s, i)), LAMBDA j, e :
        IF tok(s, j) \in {"*", "/", "%"} THEN mul_loop(s, <<e, tok(s, j)>>, j + 1) ELSE Ok(j, e))

unary_expr(s, i) ==
    IF tok(s, i) = "-"
    THEN Wrap(unary_expr(s, i + 1), LAMBDA e : <<"unary", "-", e>>)
    ELSE primary(s, i)

primary(s, i) ==
    CASE IsLiteral(tok(s, i))      -> Ok(i + 1, <<"literal", tok(s, i)>>)
      [] tok(s, i) = "("           -> Then(expr(s, i + 1), LAMBDA j, e :
                                          Wrap(expect(s, j, ")"), LAMBDA t : e))
      [] OTHER                     -> column_ref(s, i)

-----------------------------------------------------------------------------
(* Statements.  A list is read item by item into what has been read.       *)

(* A word that introduces a clause, or no clause.                          *)
Optional(s, i, word, Read(_)) ==
    IF tok(s, i) = word THEN Wrap(Read(i + 1), LAMBDA x : Some(x)) ELSE Ok(i, None)

Skip(s, i, t) == IF tok(s, i) = t THEN i + 1 ELSE i

filter(s, i) == Optional(s, i, "where", LAMBDA j : expr(s, j))

NoColumn(n, ty) == [name |-> n, ty |-> ty, nullable |-> FALSE, key |-> FALSE, index |-> FALSE,
                    text |-> FALSE, default |-> None]

RECURSIVE attributes(_, _, _)
attributes(s, i, col) ==
    IF tok(s, i) = "@"
    THEN CASE tok(s, i + 1) = "key"   -> attributes(s, i + 2, [col EXCEPT !.key = TRUE])
           [] tok(s, i + 1) = "index" -> attributes(s, i + 2, [col EXCEPT !.index = TRUE])
           [] tok(s, i + 1) = "text"  -> attributes(s, i + 2, [col EXCEPT !.text = TRUE])
           [] tok(s, i + 1) = "null"  -> attributes(s, i + 2, [col EXCEPT !.nullable = TRUE])
           [] OTHER                   -> Err(i + 1)
    ELSE IF tok(s, i) = "="
    THEN IF IsLiteral(tok(s, i + 1))
         THEN attributes(s, i + 2, [col EXCEPT !.default = Some(tok(s, i + 1))])
         ELSE Err(i + 1)
    ELSE Ok(i, col)

Types == {"int", "float", "text", "bytes", "asset", "bool"}

column_def(s, i) ==
    Then(name(s, i), LAMBDA j, n : Then(expect(s, j, ":"), LAMBDA k, c :
        IF tok(s, k) \in Types THEN attributes(s, k + 1, NoColumn(n, tok(s, k))) ELSE Err(k)))

(* Items up to a closing brace, the commas between them optional; a list   *)
(* without items is an error after the brace.                              *)
RECURSIVE columns(_, _, _)
columns(s, i, done) ==
    IF tok(s, i) = "}" THEN IF done = <<>> THEN Err(i + 1) ELSE Ok(i + 1, done)
    ELSE Then(column_def(s, i), LAMBDA j, c : columns(s, Skip(s, j, ","), Append(done, c)))

table_def(s, i) ==
    Then(name(s, i), LAMBDA j, t : Then(expect(s, j, "{"), LAMBDA k, b :
        Wrap(columns(s, k, <<>>), LAMBDA cs : <<"table", t, cs>>)))

(* A literal before what ends a field is taken without asking the ladder.  *)
field_value(s, i) ==
    IF tok(s, i + 1) \in {",", "}"} /\ IsLiteral(tok(s, i))
    THEN Ok(i + 1, <<"literal", tok(s, i)>>)
    ELSE expr(s, i)

RECURSIVE fields(_, _, _)
fields(s, i, done) ==
    IF tok(s, i) = "}" THEN IF done = <<>> THEN Err(i + 1) ELSE Ok(i + 1, done)
    ELSE Then(name(s, i), LAMBDA j, c : Then(expect(s, j, ":"), LAMBDA k, b :
             Then(field_value(s, k), LAMBDA l, e :
                 fields(s, Skip(s, l, ","), Append(done, <<c, e>>)))))

RECURSIVE rows(_, _, _)
rows(s, i, done) ==
    Then(expect(s, i, "{"), LAMBDA j, b : Then(fields(s, j, <<>>), LAMBDA k, r :
        IF tok(s, k) = "," THEN rows(s, k + 1, Append(done, r)) ELSE Ok(k, Append(done, r))))

put(s, i) == Then(name(s, i), LAMBDA j, t : Wrap(rows(s, j, <<>>), LAMBDA rs : <<"put", t, rs>>))

RECURSIVE joins(_, _, _)
joins(s, i, done) ==
    LET kind == IF tok(s, i) = "left" THEN "left" ELSE "inner"
        on   == IF kind = "left" THEN expect(s, i + 1, "join") ELSE expect(s, i, "join")
    IN  IF tok(s, i) \in {"left", "join"}
        THEN Then(on, LAMBDA j, w : Then(name(s, j), LAMBDA k, t :
                 Then(expect(s, k, "on"), LAMBDA l, o : Then(expr(s, l), LAMBDA n, e :
                     joins(s, n, Append(done, <<kind, t, e>>))))))
        ELSE Ok(i, done)

RECURSIVE column_list(_, _, _)
column_list(s, i, done) ==
    Then(column_ref(s, i), LAMBDA j, c :
        IF tok(s, j) = "," THEN column_list(s, j + 1, Append(done, c)) ELSE Ok(j, Append(done, c)))

projection(s, i) ==
    Optional(s, i, "{", LAMBDA j : Then(column_list(s, j, <<>>), LAMBDA k, cs :
        Wrap(expect(s, k, "}"), LAMBDA b : cs)))

as_of(s, i) ==
    Optional(s, i, "as", LAMBDA j : Then(expect(s, j, "of"), LAMBDA k, o :
        IF tok(s, k) = "time" THEN Wrap(number(s, k + 1), LAMBDA n : <<"time", n>>)
                              ELSE Wrap(number(s, k), LAMBDA n : <<"commit", n>>)))

order(s, i) ==
    Optional(s, i, "order", LAMBDA j : Then(expect(s, j, "by"), LAMBDA k, b :
        Then(column_ref(s, k), LAMBDA l, c :
            IF tok(s, l) = "desc" THEN Ok(l + 1, <<c, "desc">>)
                                  ELSE Ok(Skip(s, l, "asc"), <<c, "asc">>))))

limit(s, i) == Optional(s, i, "limit", LAMBDA j : number(s, j))

get(s, i) ==
    Then(name(s, i), LAMBDA i1, t : Then(joins(s, i1, <<>>), LAMBDA i2, js :
        Then(projection(s, i2), LAMBDA i3, p : Then(as_of(s, i3), LAMBDA i4, a :
            Then(filter(s, i4), LAMBDA i5, f : Then(order(s, i5), LAMBDA i6, o :
                Wrap(limit(s, i6), LAMBDA n : <<"get", t, js, p, a, f, o, n>>)))))))

(* The operator is taken before it is looked at, and complained about only *)
(* when what follows it is an expression.                                  *)
Assigned(c, op, e) == IF op = "=" THEN e ELSE Binary(op, <<"column", "", c>>, e)

Plain == [eq \in {"=", "+=", "-=", "*=", "/="} |->
             CASE eq = "+=" -> "+" [] eq = "-=" -> "-" [] eq = "*=" -> "*" [] eq = "/=" -> "/"
               [] OTHER -> "="]

RECURSIVE assigns(_, _, _)
assigns(s, i, done) ==
    IF tok(s, i) = "}" THEN IF done = <<>> THEN Err(i + 1) ELSE Ok(i + 1, done)
    ELSE Then(name(s, i), LAMBDA j, c :
             Then(expr(s, IF j <= Len(s) THEN j + 1 ELSE j), LAMBDA k, e :
                 IF tok(s, j) \in DOMAIN Plain
                 THEN assigns(s, Skip(s, k, ","),
                              Append(done, <<c, Assigned(c, Plain[tok(s, j)], e)>>))
                 ELSE Err(j)))

set(s, i) ==
    Then(name(s, i), LAMBDA j, t : Then(filter(s, j), LAMBDA k, f :
        Then(expect(s, k, "{"), LAMBDA l, b :
            Wrap(assigns(s, l, <<>>), LAMBDA as : <<"set", t, f, as>>))))

del(s, i) == Then(name(s, i), LAMBDA j, t : Wrap(filter(s, j), LAMBDA f : <<"del", t, f>>))

(* index and drop index name a column, and say whether it is the text kind.*)
index(s, i, verb) ==
    Then(name(s, i), LAMBDA j, t : Then(expect(s, j, "."), LAMBDA k, d :
        Then(name(s, k), LAMBDA l, c :
            Ok(Skip(s, l, "text"), <<verb, t, c, tok(s, l) = "text">>))))

drop(s, i) ==
    CASE tok(s, i) = "table"  -> Wrap(name(s, i + 1), LAMBDA n : <<"drop", "table", n>>)
      [] tok(s, i) = "index"  -> index(s, i + 1, "drop index")
      [] tok(s, i) = "branch" -> Wrap(ident(s, i + 1), LAMBDA n : <<"drop", "branch", n>>)
      [] OTHER                -> Err(i)

branch(s, i) ==
    Then(ident(s, i), LAMBDA j, n :
        Wrap(Optional(s, j, "at", LAMBDA k : number(s, k)), LAMBDA at : <<"branch", n, at>>))

show(s, i) == IF tok(s, i) \in {"tables", "branches", "stats", "suggestions"}
              THEN Ok(i + 1, <<"show", tok(s, i)>>)
              ELSE Err(i)

gc(s, i) ==
    CASE tok(s, i) = "blobs" -> Ok(i + 1, <<"gc blobs">>)
      [] tok(s, i) = "keep"  -> Wrap(number(s, i + 1), LAMBDA n : <<"gc keep", n>>)
      [] OTHER               -> Err(i)

RECURSIVE statement(_, _)
statement(s, i) ==
    LET verb == tok(s, i)
    IN  CASE verb = "table"   -> table_def(s, i + 1)
          [] verb = "drop"    -> drop(s, i + 1)
          [] verb = "put"     -> put(s, i + 1)
          [] verb = "get"     -> get(s, i + 1)
          [] verb = "set"     -> set(s, i + 1)
          [] verb = "del"     -> del(s, i + 1)
          [] verb = "index"   -> index(s, i + 1, "index")
          [] verb = "show"    -> show(s, i + 1)
          [] verb = "branch"  -> branch(s, i + 1)
          [] verb = "gc"      -> gc(s, i + 1)
          [] verb = "explain" -> Wrap(statement(s, i + 1), LAMBDA st : <<"explain", st>>)
          [] verb \in {"switch", "merge"} -> Wrap(ident(s, i + 1), LAMBDA n : <<verb, n>>)
          [] verb \in {"log", "begin", "commit", "rollback"} -> Ok(i + 1, <<verb>>)
          [] OTHER            -> Err(i)

parse(s) == Then(statement(s, 1), LAMBDA i, st : IF i > Len(s) THEN Ok(i, st) ELSE Err(i))
=============================================================================
