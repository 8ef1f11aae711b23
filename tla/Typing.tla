------------------------------- MODULE Typing -------------------------------
(***************************************************************************)
(* Statements as they are typed, token by token, and what the parsers make *)
(* of them.                                                                *)
(***************************************************************************)
EXTENDS Qql, FiniteSets

CONSTANTS Quoted, Upper, \* quoted names and words in upper case, see Sql
          Sessions \* what may be typed, by name: the front end that reads, what is
                   \* typed already, what is typed next and the bound on the length

S == INSTANCE Sql

VARIABLES session, typed

vars == <<session, typed>>

Init == session \in DOMAIN Sessions /\ typed \in Sessions[session].starts

Language == Sessions[session].language

Read(s) == IF Language = "sql" THEN S!parse_sql(s) ELSE parse(s)

(* Bound: a statement not begun longer gets max tokens, and nothing more   *)
(* is typed after an error before the last token.                          *)
type ==
    /\ Len(typed) < Sessions[session].max \/ typed \in Sessions[session].starts
    /\ \E r \in {Read(typed)} : r.ok \/ r.pos >= Len(typed)
    /\ \E t \in Sessions[session].vocabulary : typed' = Append(typed, t)
    /\ UNCHANGED session

Next == type

Spec == Init /\ [][Next]_vars

-----------------------------------------------------------------------------

(* parse(pretty(ast)) = ast: whatever statement a front end accepts, in    *)
(* any spelling, its canonical form is QQL the parser accepts and that     *)
(* means the same (pretty.rs: statement; parser.rs: parse).                *)
RoundTrip ==
    \A r \in {Read(typed)} : r.ok => \A text \in {pretty(r.tree)} : parse(text) = Ok(Len(text) + 1, r.tree)

-----------------------------------------------------------------------------
(* What an expression means, without a parser: the tree whose tokens these *)
(* are and in which no operator stands above one that binds looser.        *)

Binds(op) == CASE op = "or" -> 1 [] op = "and" -> 2 [] op \in {"+", "-"} -> 5
               [] op \in {"*", "/", "%"} -> 6 [] OTHER -> 4

Tightness(e) == CASE e[1] = "binary" -> Binds(e[2])
                  [] e[1] = "unary"  -> IF e[2] = "not" THEN 3 ELSE 7
                  [] OTHER           -> 8

RECURSIVE Nested(_)
Nested(e) ==
    CASE e[1] = "binary" -> /\ Nested(e[3]) /\ Nested(e[4])
                            /\ Tightness(e[3]) >= Binds(e[2])
                            /\ Tightness(e[4]) > Binds(e[2])
                            /\ Binds(e[2]) = 4 => Tightness(e[3]) > 4
      [] e[1] = "unary"  -> Nested(e[3]) /\ Tightness(e[3]) >= Tightness(e)
      [] OTHER           -> TRUE

RECURSIVE Tokens(_)
Tokens(e) == CASE e[1] = "binary" -> Tokens(e[3]) \o <<e[2]>> \o Tokens(e[4])
               [] e[1] = "unary"  -> <<e[2]>> \o Tokens(e[3])
               [] OTHER           -> expr_text(e)

Condition(r) == r.ok /\ r.tree[1] = "del" /\ r.tree[3] # None

(* The parser's precedence is the documented one: or, and, not,            *)
(* comparison, sum, product, sign; left to right.  Without parentheses     *)
(* there is one such tree, and the parser finds it.                        *)
PrecedenceHolds(r) ==
    Condition(r) /\ (\A i \in DOMAIN typed : typed[i] \notin {"(", ")"})
        => LET e == r.tree[3][1]
           IN  Nested(e) /\ <<"del", r.tree[2], "where">> \o Tokens(e) = typed

(* A condition QQL accepts is accepted by SQL as the same tree, but for    *)
(* the operators only QQL has and the names SQL reserves.                  *)
SqlAgrees(r) ==
    \A words \in {{typed[i] : i \in 4..Len(typed)}} :
        Condition(r) /\ r.tree[2] \notin S!RESERVED /\ "phrase" \notin words
            /\ words \cap S!RESERVED \subseteq {"and", "or", "not", "true"}
            => \A q \in {S!parse_sql(<<"delete", "from">> \o Tail(typed))} : q.ok /\ q.tree = r.tree

(* The operators bind as documented, and the SQL ladder is the QQL ladder  *)
(* (quantydb-ql/parser.rs: or_expr to unary_expr; quantydb-sql/parser.rs). *)
LaddersAgree ==
    Language = "qql" /\ Len(typed) > 3 /\ Head(typed) = "del"
        => \A r \in {parse(typed)} : PrecedenceHolds(r) /\ SqlAgrees(r)
=============================================================================
