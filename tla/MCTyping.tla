------------------------------ MODULE MCTyping ------------------------------
(* What is typed in the instances of Typing: vocabularies and beginnings.  *)
EXTENDS Naturals, TLC

Verbs == {"table", "drop", "put", "get", "set", "del", "index", "show", "branch", "switch",
          "merge", "log", "gc", "begin", "commit", "rollback", "explain"}
Inner == {"left", "join", "on", "as", "of", "time", "where", "order", "by", "asc", "desc",
          "limit", "at", "keep", "blobs", "tables", "branches", "stats", "suggestions", "text",
          "key", "null", "int", "match", "phrase"}
Operators == {"not", "and", "or", "true", "false"}
QqlWords == Verbs \cup Inner \cup Operators \cup {"t", "a"}
(* Statements of any kind; the other words and marks matter only inside    *)
(* conditions, clauses and lists, which have vocabularies of their own.    *)
Everything == (QqlWords \ {"asc", "desc", "by", "key", "null", "int", "phrase", "match"})
                \cup {"{", "}", "(", ")", ",", ":", "@", "1", "'s'"}

Empty == {<<>>}

Filtered == {<<"del", "t", "where">>}
OfExpressions == {"a", "t", "match", "not", "and", "or", "true", "1", ".", "=", "<", "+", "-",
                  "*", "(", ")"}

Begun == {<<"get", "t">>, <<"get", "t", "{", "a", "}">>,
          <<"get", "t", "join", "left", "on", "a">>, <<"get", "t", "where", "a", "=", "1">>,
          <<"get", "t", "order", "by", "desc">>}
OfClauses == {"left", "join", "on", "as", "of", "time", "where", "order", "by", "asc", "desc",
              "limit", "a", "1", "{", "}", ",", "."}

Lists == {<<"set", "t", "{">>, <<"put", "t", "{">>, <<"put", "t", "{", "a", ":", "1", "}">>,
          <<"table", "t", "{">>, <<"table", "t", "{", "a", ":", "int">>}
OfLists == {"a", "limit", "key", "null", "not", "int", "1", "{", "}", ",", ":", "@", "=", "+=",
            "-", "+"}

Tables == {<<"table", "t", "{">>}
OfTextTables == {"a", "int", "text", "}", ":", "@"}

-----------------------------------------------------------------------------
(* SQL: names that are quoted, one of them not shaped like a name, and     *)
(* words in upper case.                                                    *)

QuotedNames == [q \in {"[left]", "[null]", "[a b]"} |->
                   CASE q = "[left]" -> "left" [] q = "[null]" -> "null" [] OTHER -> ""]
UpperWords == [w \in {"FALSE", "NOT"} |-> IF w = "NOT" THEN "not" ELSE "false"]
AllWords == QqlWords \cup {"FALSE", "NOT", "b", "values", "is", "inner", "outer", "from",
                          "select", "into", "primary", "default", "references", "delete",
                          "cascade", "constraint", "foreign", "strict", "deferrable"}

Sentences == {<<>>, <<"select">>, <<"select", "*", "from", "t">>,
              <<"select", "*", "from", "t", "order", "by">>,
              <<"insert", "into", "t", "(">>, <<"insert", "into", "t", "(", "a", ")", "values">>,
              <<"update", "t", "set">>, <<"update", "t", "set", "a", "=">>,
              <<"delete", "from", "t", "where">>, <<"create", "index", "a", "on", "t">>,
              <<"drop", "table">>, <<"explain", "select", "a", "from">>}
OfSentences == {"a", "[left]", "[null]", "[a b]", "FALSE", "NOT", "null", "1", ",", ".", "(", ")",
                "=", "+", "-", "||", "*", "is", "where", "values", "from", "join", "inner", "left",
                "outer", "on", "order", "by", "desc", "limit", "tables", ";", "show", "begin",
                "commit", "rollback"}

Columned == {<<"create", "table", "t", "(", "a", "int", "not", "null", "default">>,
             <<"create", "table", "t", "(", "a", "int", ",", "b", "int">>,
             <<"create", "table", "t", "(", "a", "int", "primary", "key", ",">>,
             <<"create", "table", "t", "(", "a", "int", ",", "primary", "key">>,
             <<"create", "table", "t", "(", "a", "int", ",", "b", "int", "references", "a">>}
            \cup {<<"create", "table", "t", "(", "a", "int", "null", ",", "b", "int", ",",
                   "primary", "key", "(", k[1], ",", k[2], ")">> : k \in {"a", "b"} \X {"a", "b"}}
OfColumns == {"a", "b", "int", "primary", "key", "foreign", "not", "null", "default", "1",
              "references", "on", "delete", "cascade", "constraint", "deferrable", "strict",
              "(", ")", ","}

Signed == {<<"delete", "from", "t", "where">>, <<"create", "table", "t", "(", "a", "int">>}
OfSigned == {"a", "=", "0xFFFFFFFFFFFFFFFF"}
-----------------------------------------------------------------------------

Session(language, starts, vocabulary, max) ==
    [language |-> language, starts |-> starts, vocabulary |-> vocabulary, max |-> max]

(* Whole statements, conditions, the clauses of get, lists; SQL statements *)
(* and SQL column definitions.                                             *)
Tidy == "statements"  :> Session("qql", Empty, Everything, 4)
     @@ "conditions"  :> Session("qql", Filtered, OfExpressions, 8)
     @@ "clauses"     :> Session("qql", Begun, OfClauses, 8)
     @@ "lists"       :> Session("qql", Lists, OfLists, 9)
     @@ "sql"         :> Session("sql", Sentences, OfSentences, 6)
     @@ "definitions" :> Session("sql", Columned, OfColumns, 14)
=============================================================================
