------------------------------- MODULE Values -------------------------------
(***************************************************************************)
(* Values and expressions of quantydb-exec (value_ops.rs): coercion,       *)
(* comparison, checked arithmetic and evaluation.                          *)
(*                                                                         *)
(* A value is a type tag and a payload.  The payload is a sequence of      *)
(* integers whatever the type, so that values of one type compare          *)
(* lexicographically: an int is <<i>>, a bool <<0>> or <<1>>, a text or    *)
(* bytes value its characters.  A float is a multiple of 1/FloatUnit and   *)
(* its payload is the multiple; only sums and differences of floats are    *)
(* computed, which are exact on that grid.  An asset column stores bytes   *)
(* (the chunk list of a blob descriptor).                                  *)
(*                                                                         *)
(* An expression is a record: a literal, a column reference                *)
(* <<table, column>> (table "" when unqualified), a unary or a binary      *)
(* node.  A fallible result is [ok, v].                                    *)
(***************************************************************************)
EXTENDS Integers, Sequences, Text

CONSTANTS MinInt, MaxInt,       \* the range of an i64
          IsDescriptor(_)       \* does this payload parse as a BlobRef

FloatUnit == 2

Null == [t |-> "null", v |-> <<>>]
IntV(i) == [t |-> "int", v |-> <<i>>]
FloatV(halves) == [t |-> "float", v |-> <<halves>>]
TextV(s) == [t |-> "text", v |-> s]
BytesV(s) == [t |-> "bytes", v |-> s]
BoolV(b) == [t |-> "bool", v |-> <<IF b THEN 1 ELSE 0>>]
True == BoolV(TRUE)
False == BoolV(FALSE)

Lit(v) == [k |-> "lit", v |-> v]
Col(c) == [k |-> "col", r |-> <<"", c>>]
QCol(t, c) == [k |-> "col", r |-> <<t, c>>]
Un(op, e) == [k |-> "un", op |-> op, e |-> e]
Bin(l, op, r) == [k |-> "bin", l |-> l, op |-> op, r |-> r]

Ok(v) == [ok |-> TRUE, v |-> v]
Err == [ok |-> FALSE, v |-> Null]

Numeric(v) == v.t \in {"int", "float"}

(* Both payloads on the float grid. *)
as_f64(v) == IF v.t = "int" THEN v.v[1] * FloatUnit ELSE v.v[1]

(* compare(): [ok, null, c], an error for two types that do not mix.       *)
compare(l, r) ==
    IF l = Null \/ r = Null THEN [ok |-> TRUE, null |-> TRUE, c |-> 0]
    ELSE IF l.t = r.t THEN [ok |-> TRUE, null |-> FALSE, c |-> LexCmp(l.v, r.v)]
    ELSE IF Numeric(l) /\ Numeric(r)
         THEN [ok |-> TRUE, null |-> FALSE, c |-> LexCmp(<<as_f64(l)>>, <<as_f64(r)>>)]
         ELSE [ok |-> FALSE, null |-> FALSE, c |-> 0]

(* `=`: null is a plain value.                                             *)
IsEqual(cmp) == IF cmp.ok THEN Ok(BoolV(cmp.c = 0)) ELSE Err
values_equal(l, r) == IF l = Null \/ r = Null THEN Ok(BoolV(l = r)) ELSE IsEqual(compare(l, r))

(* Order of `order by`: nulls first.                                       *)
sort_cmp(l, r) ==
    IF l = Null /\ r = Null THEN 0
    ELSE IF l = Null THEN -1
    ELSE IF r = Null THEN 1
    ELSE compare(l, r).c

(* Rust's `/` truncates toward zero and `%` takes the dividend's sign.     *)
Abs(i) == IF i < 0 THEN -i ELSE i
TruncDiv(a, b) == IF (a < 0) = (b < 0) THEN Abs(a) \div Abs(b) ELSE -(Abs(a) \div Abs(b))

Checked(i) == IF MinInt <= i /\ i <= MaxInt THEN Ok(IntV(i)) ELSE Err

arith(l, op, r) ==
    IF l = Null \/ r = Null THEN Ok(Null)
    ELSE IF l.t = "int" /\ r.t = "int" THEN
        LET a == l.v[1]  b == r.v[1] IN
        IF op \in {"/", "%"} /\ b = 0 THEN Err
        ELSE IF op = "+" THEN Checked(a + b)
        ELSE IF op = "-" THEN Checked(a - b)
        ELSE IF op = "*" THEN Checked(a * b)
        ELSE IF ~Checked(TruncDiv(a, b)).ok THEN Err    \* MIN / -1 and MIN % -1
        ELSE IF op = "/" THEN Checked(TruncDiv(a, b))
        ELSE Checked(a - b * TruncDiv(a, b))
    ELSE IF Numeric(l) /\ Numeric(r) THEN
        Ok(FloatV(IF op = "+" THEN as_f64(l) + as_f64(r) ELSE as_f64(l) - as_f64(r)))
    ELSE IF l.t = "text" /\ r.t = "text" /\ op = "+" THEN Ok(TextV(l.v \o r.v))
    ELSE Err

(* A filter must produce a bool; null counts as false.  The answer is a    *)
(* result holding a bool.                                                  *)
as_condition(res) ==
    IF ~res.ok THEN Err
    ELSE IF res.v.t = "bool" THEN res
    ELSE IF res.v = Null THEN Ok(False)
    ELSE Err

(* Fit a value into a column.                                              *)
coerce(v, ty, nullable) ==
    IF v = Null THEN IF nullable THEN Ok(Null) ELSE Err
    ELSE IF v.t = "int" /\ ty = "float" THEN Ok(FloatV(as_f64(v)))
    ELSE IF v.t = "bytes" /\ ty = "asset" THEN IF IsDescriptor(v.v) THEN Ok(v) ELSE Err
    ELSE IF v.t = ty THEN Ok(v)
    ELSE Err

TextSearch(l, op, r) ==
    IF op = "phrase" /\ r.t = "text" /\ has_prefix(r.v) THEN Err
    ELSE IF l = Null \/ r = Null THEN Ok(False)
    ELSE IF l.t # "text" \/ r.t # "text" THEN Err
    ELSE IF op = "phrase" THEN Ok(BoolV(contains_phrase(l.v, r.v)))
    ELSE Ok(BoolV(contains_all(l.v, r.v)))

Satisfies(cmp, op) ==
    IF ~cmp.ok THEN Err
    ELSE IF cmp.null THEN Ok(False)
    ELSE Ok(BoolV(\/ op = "<" /\ cmp.c < 0
                  \/ op = "<=" /\ cmp.c <= 0
                  \/ op = ">" /\ cmp.c > 0
                  \/ op = ">=" /\ cmp.c >= 0))

Negated(res) ==
    IF ~res.ok THEN Err
    ELSE IF res.v = Null THEN res
    ELSE IF res.v.t = "int" THEN Checked(-res.v.v[1])
    ELSE IF res.v.t = "float" THEN Ok(FloatV(-res.v.v[1]))
    ELSE Err

Inverted(res) ==
    IF ~res.ok \/ res.v = Null THEN res
    ELSE IF res.v.t = "bool" THEN Ok(BoolV(res.v = False))
    ELSE Err

(* A binary operator that is neither `and` nor `or`, both sides evaluated. *)
Applied(l, op, r) ==
    IF ~l.ok \/ ~r.ok THEN Err
    ELSE IF op \in {"match", "phrase"} THEN TextSearch(l.v, op, r.v)
    ELSE IF op = "=" THEN values_equal(l.v, r.v)
    ELSE IF op = "!=" THEN Inverted(values_equal(l.v, r.v))
    ELSE IF op \in {"<", "<=", ">", ">="} THEN Satisfies(compare(l.v, r.v), op)
    ELSE arith(l.v, op, r.v)

(* `and` and `or`: the right side counts only when the left leaves the     *)
(* answer open, and is not evaluated otherwise.                            *)
Connected(l, op, r) ==
    IF ~l.ok THEN Err ELSE IF (op = "and") = (l.v = False) THEN l ELSE r

(* eval(): scope maps the references an expression may hold to values.     *)
RECURSIVE eval(_, _)
eval(e, scope) ==
    CASE e.k = "lit" -> Ok(e.v)
      [] e.k = "col" -> Ok(scope[e.r])
      [] e.k = "un" -> IF e.op = "-" THEN Negated(eval(e.e, scope))
                                     ELSE Inverted(eval(e.e, scope))
      [] e.k = "bin" /\ e.op \in {"and", "or"} ->
           Connected(as_condition(eval(e.l, scope)), e.op, as_condition(eval(e.r, scope)))
      [] OTHER -> Applied(eval(e.l, scope), e.op, eval(e.r, scope))

=============================================================================
