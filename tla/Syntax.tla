------------------------------- MODULE Syntax -------------------------------
(***************************************************************************)
(* What the two front ends share (ast.rs, names.rs, pretty.rs): the tree   *)
(* they build and the printer that renders it back into QQL, the canonical *)
(* language.                                                               *)
(*                                                                         *)
(* A token is a string.  A tree is a tuple that starts with its kind; what *)
(* is optional is an empty or a one-element sequence.                      *)
(*   statement  <<verb, parts...>>                                         *)
(*   expression <<"literal", token>>, <<"column", table, column>>,         *)
(*              <<"unary", op, e>>, <<"binary", op, e, e>>                 *)
(***************************************************************************)
EXTENDS Naturals, Sequences, SequencesExt

CONSTANTS Words,     \* tokens that are words: keywords and names alike
          Ints,      \* tokens that are integers
          Literals   \* tokens that are floats, strings or bytes

(* An integer no sign can be seen on: SQL writes -1 as sixteen hex digits. *)
AllOnes == "0xFFFFFFFFFFFFFFFF"

Eof == "end of statement"

tok(s, i) == IF i <= Len(s) THEN s[i] ELSE Eof

(* refuse_as_name: the operators and the literals of an expression.        *)
Refused == {"not", "and", "or", "true", "false", "null"}

-----------------------------------------------------------------------------
(* What a parsing function returns: where it stands and what it built, or  *)
(* where the error is.                                                     *)

Ok(pos, tree) == [ok |-> TRUE, pos |-> pos, tree |-> tree]

Err(at) == [ok |-> FALSE, pos |-> at, tree |-> <<>>]

(* The question mark: an error returns at once.                            *)
Then(r, Rest(_, _)) == IF r.ok THEN Rest(r.pos, r.tree) ELSE r

expect(s, i, t) == IF tok(s, i) = t THEN Ok(i + 1, t) ELSE Err(i)

(* The result of r with its tree wrapped.                                  *)
Wrap(r, Tree(_)) == IF r.ok THEN Ok(r.pos, Tree(r.tree)) ELSE r

Binary(op, l, r) == <<"binary", op, l, r>>

(* An operand that was read, with what stands before it on the same level: *)
(* nothing, or the left side and the operator.                             *)
After(left, r) == IF r.ok /\ left # <<>> THEN Ok(r.pos, Binary(left[2], left[1], r.tree)) ELSE r

None == <<>>

Some(x) == <<x>>

-----------------------------------------------------------------------------
(* The printer.                                                            *)

column_text(c) == IF c[2] = "" THEN <<c[3]>> ELSE <<c[2], ".", c[3]>>

(* A negative number is printed with its sign, which is a token.           *)
literal(v) == IF v = AllOnes THEN <<"-", "1">> ELSE <<v>>

RECURSIVE expr_text(_)
expr_text(e) ==
    CASE e[1] = "literal" -> literal(e[2])
      [] e[1] = "column"  -> column_text(e)
      [] e[1] = "unary"   -> <<"(", e[2]>> \o expr_text(e[3]) \o <<")">>
      [] e[1] = "binary"  -> <<"(">> \o expr_text(e[3]) \o <<e[2]>> \o expr_text(e[4]) \o <<")">>

(* Texts with a comma between any two.                                     *)
Commas(texts) ==
    FoldLeft(LAMBDA done, t : IF done = <<>> THEN t ELSE done \o <<",">> \o t, <<>>, texts)

Each(items, Text(_)) == [i \in DOMAIN items |-> Text(items[i])]

(* A clause is printed when it is there.                                   *)
Clause(part, Text(_)) == IF part = None THEN <<>> ELSE Text(part[1])

Where(filter) == Clause(filter, LAMBDA e : <<"where">> \o expr_text(e))

(* A column is [name, ty, nullable, key, index, text, default].            *)
column(c) ==
    <<c.name, ":", c.ty>> \o Clause(c.default, LAMBDA d : <<"=">> \o literal(d))
        \o (IF c.key THEN <<"@", "key">> ELSE <<>>)
        \o (IF c.index THEN <<"@", "index">> ELSE <<>>)
        \o (IF c.nullable THEN <<"@", "null">> ELSE <<>>)

field(f) == <<f[1], ":">> \o expr_text(f[2])

row(fields) == <<"{">> \o Commas(Each(fields, field)) \o <<"}">>

(* Mutant: every join is printed as an inner one.                          *)
join_plain(j) == <<"join", j[2], "on">> \o expr_text(j[3])

(* A join is <<kind, table, on>>.                                          *)
join(j) == (IF j[1] = "left" THEN <<"left", "join">> ELSE <<"join">>)
               \o <<j[2], "on">> \o expr_text(j[3])

(* A get is <<"get", table, joins, projection, as_of, filter, order,       *)
(* limit>>.                                                                *)
get_text(g) ==
    <<"get", g[2]>> \o FlattenSeq(Each(g[3], join))
        \o Clause(g[4], LAMBDA cs : <<"{">> \o Commas(Each(cs, column_text)) \o <<"}">>)
        \o Clause(g[5], LAMBDA a : IF a[1] = "time" THEN <<"as", "of", "time", a[2]>>
                                                 ELSE <<"as", "of", a[2]>>)
        \o Where(g[6])
        \o Clause(g[7], LAMBDA o : <<"order", "by">> \o column_text(o[1]) \o <<o[2]>>)
        \o Clause(g[8], LAMBDA n : <<"limit", n>>)

Text(text) == IF text THEN <<"text">> ELSE <<>>

RECURSIVE pretty(_)
pretty(st) ==
    CASE st[1] = "table"      -> <<"table", st[2], "{">> \o Commas(Each(st[3], column)) \o <<"}">>
      [] st[1] = "put"        -> <<"put", st[2]>> \o Commas(Each(st[3], row))
      [] st[1] = "get"        -> get_text(st)
      [] st[1] = "set"        -> <<"set", st[2]>> \o Where(st[3]) \o <<"{">>
                                     \o Commas(Each(st[4], LAMBDA a : <<a[1], "=">> \o expr_text(a[2])))
                                     \o <<"}">>
      [] st[1] = "del"        -> <<"del", st[2]>> \o Where(st[3])
      [] st[1] = "index"      -> <<"index", st[2], ".", st[3]>> \o Text(st[4])
      [] st[1] = "drop index" -> <<"drop", "index", st[2], ".", st[3]>> \o Text(st[4])
      [] st[1] = "branch"     -> <<"branch", st[2]>> \o Clause(st[3], LAMBDA n : <<"at", n>>)
      [] st[1] = "explain"    -> <<"explain">> \o pretty(st[2])
      [] st[1] = "drop"       -> <<"drop", st[2], st[3]>>
      [] st[1] = "gc keep"    -> <<"gc", "keep", st[2]>>
      [] st[1] = "gc blobs"   -> <<"gc", "blobs">>
      [] st[1] \in {"show", "switch", "merge"}               -> <<st[1], st[2]>>
      [] st[1] \in {"log", "begin", "commit", "rollback"}    -> <<st[1]>>
=============================================================================
