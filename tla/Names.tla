-------------------------------- MODULE Names -------------------------------
(***************************************************************************)
(* Names of a SQLite database made into identifiers of QuantyDB            *)
(* (quantydb-import: name.rs), and the values and types of its columns.  A *)
(* name is the sequence of its characters, a value its storage class, a    *)
(* token for what it says and a length.                                    *)
(***************************************************************************)
EXTENDS Integers, Sequences, FiniteSets
LOCAL INSTANCE SequencesExt

Lower == [c \in {"A", "B", "R", "O"} |->
             CASE c = "A" -> "a" [] c = "B" -> "b" [] c = "R" -> "r" [] c = "O" -> "o"]
Letters == {"a", "b", "d", "i", "n", "o", "r", "t", "w"} \cup DOMAIN Lower
Digits == {"1", "2", "3", "4"}
Digit(n) == <<"1", "2", "3", "4">>[n]

Folded(name) == [i \in DOMAIN name |-> IF name[i] \in DOMAIN Lower THEN Lower[name[i]] ELSE name[i]]
SameName(a, b) == Folded(a) = Folded(b)

OPERATOR_WORDS == {<<"n", "o", "t">>, <<"a", "n", "d">>, <<"o", "r">>}

(* What the grammar takes as a name.                                       *)
Legal(name) ==
    /\ name # <<>> /\ name[1] \notin Digits
    /\ \A i \in DOMAIN name : name[i] \in Letters \cup Digits \cup {"_"}
    /\ Folded(name) \notin OPERATOR_WORDS

(* rewrite(): underscores for what may not be in a name, one in front of a *)
(* digit and one after a word that is an operator.                         *)
rewrite(source) ==
    LET out == [i \in DOMAIN source |->
                   IF source[i] \in Letters \cup Digits THEN source[i] ELSE "_"]
        filled == IF out = <<>> THEN <<"_">> ELSE out
        led == IF filled[1] \in Digits THEN <<"_">> \o filled ELSE filled
    IN  IF Folded(led) \in OPERATOR_WORDS THEN Append(led, "_") ELSE led

(* Names::assign: the first of name, name_2, name_3 ... that is not taken, *)
(* case aside.                                                             *)
assign(taken, source) ==
    LET base == rewrite(source)
        candidate(n) == IF n = 1 THEN base ELSE base \o <<"_", Digit(n)>>
        free == {n \in 1 .. 4 : \A t \in Range(taken) : ~SameName(t, candidate(n))}
    IN  candidate(CHOOSE n \in free : \A k \in free : n <= k)

Value(class, tok, len) == [class |-> class, tok |-> tok, len |-> len]
Null == Value("Null", "", 0)

(* Affinity::of for the declared types of the instances.                   *)
AffinityOf(decl) ==
    CASE decl \in {"integer", "int"} -> "Integer"
      [] decl = "text" -> "Text"
      [] decl \in {"blob", ""} -> "Blob"
      [] decl = "real" -> "Real"
      [] OTHER -> "Numeric"
=============================================================================
