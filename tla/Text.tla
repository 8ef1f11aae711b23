-------------------------------- MODULE Text --------------------------------
(***************************************************************************)
(* Text search of quantydb-exec (text.rs): the tokenizer, postings, and    *)
(* the brute force answers of `match` and `phrase` that a text index has   *)
(* to agree with; term_successor is from exec.rs.                          *)
(*                                                                         *)
(* A character is a number.  Letters are 1 .. MaxChar, an upper case       *)
(* letter is its lower case form plus UpperCase, Space is whitespace and   *)
(* Star the asterisk; both separate words.  Surrogates is the hole in the  *)
(* code points that holds no characters.                                   *)
(***************************************************************************)
EXTENDS Integers, Sequences, FiniteSets
LOCAL INSTANCE SequencesExt

CONSTANTS MaxTermLen, MaxChar, Surrogates

Space == 0
Star == -1
UpperCase == 100

IsLetter(ch) == ch > 0
to_lowercase(ch) == IF ch > UpperCase THEN ch - UpperCase ELSE ch

(* The order of two payloads: -1, 0 or 1.                                  *)
Precedes(a, b) ==
    \E i \in 1 .. Len(b) : /\ i <= Len(a) + 1
                           /\ \A j \in 1 .. i - 1 : a[j] = b[j]
                           /\ i <= Len(a) => a[i] < b[i]
LexCmp(a, b) == IF a = b THEN 0 ELSE IF Precedes(a, b) THEN -1 ELSE 1

(* The maximal runs of characters that Keep accepts, in order.             *)
Flush(acc) ==
    IF acc.cur = <<>> THEN acc ELSE [out |-> Append(acc.out, acc.cur), cur |-> <<>>]
Run(acc, ch, kept) == IF kept THEN [acc EXCEPT !.cur = Append(@, ch)] ELSE Flush(acc)
Runs(s, Keep(_)) ==
    Flush(FoldLeft(LAMBDA acc, ch : Run(acc, ch, Keep(ch)), [out |-> <<>>, cur |-> <<>>], s)).out

(* The terms of a text.  A term's position is its index less one; a term   *)
(* is cut at MaxTermLen.                                                   *)
Term(w) == [i \in 1 .. IF Len(w) < MaxTermLen THEN Len(w) ELSE MaxTermLen |-> to_lowercase(w[i])]
Terms(words) == [i \in 1 .. Len(words) |-> Term(words[i])]
tokenize(text) == Terms(Runs(text, IsLetter))

length(text) == Len(tokenize(text))

terms_of(text) == ToSet(tokenize(text))

(* Each distinct term with the set of its positions.                       *)
Positions(terms) ==
    [t \in ToSet(terms) |-> {i - 1 : i \in {j \in DOMAIN terms : terms[j] = t}}]
postings(text) == Positions(tokenize(text))

(* The words of a query: it is cut on whitespace, and a chunk that ends in *)
(* stars makes its last word a prefix.                                     *)
QueryWords(chunk, ws) ==
    [i \in 1 .. Len(ws) |->
        [term |-> ws[i], prefix |-> chunk[Len(chunk)] = Star /\ i = Len(ws)]]
ChunkTerms(chunks) ==
    FlattenSeq([i \in 1 .. Len(chunks) |-> QueryWords(chunks[i], tokenize(chunks[i]))])
query_terms(query) == ChunkTerms(Runs(query, LAMBDA ch : ch # Space))

has_prefix(query) == \E w \in ToSet(query_terms(query)) : w.prefix

HoldsAll(have, wanted) ==
    \A w \in wanted : IF w.prefix THEN \E h \in have : IsPrefix(w.term, h) ELSE w.term \in have
contains_all(haystack, needle) == HoldsAll(terms_of(haystack), ToSet(query_terms(needle)))

phrase_occurrences(have, wanted) ==
    IF wanted = <<>> THEN 0
    ELSE Cardinality({at \in 0 .. Len(have) - Len(wanted) :
                        SubSeq(have, at + 1, at + Len(wanted)) = wanted})
HoldsPhrase(have, wanted) == wanted = <<>> \/ phrase_occurrences(have, wanted) > 0
contains_phrase(haystack, needle) == HoldsPhrase(tokenize(haystack), tokenize(needle))

(* How often a phrase occurs, given one set of positions per word.         *)
phrase_hits(positions) ==
    IF positions = <<>> THEN 0
    ELSE Cardinality({start \in positions[1] :
                        \A k \in 2 .. Len(positions) : start + k - 1 \in positions[k]})

(* The first term that does not start with prefix: its last character      *)
(* raised, past the surrogates, carrying when it is the highest there is.  *)
(* <<>> stands for None.                                                   *)
RECURSIVE term_successor(_)
term_successor(prefix) ==
    IF prefix = <<>> THEN <<>>
    ELSE LET raised == Last(prefix) + 1
             next == CHOOSE c \in raised .. raised + Cardinality(Surrogates) :
                        /\ c \notin Surrogates
                        /\ \A d \in raised .. c - 1 : d \in Surrogates
         IN  IF next <= MaxChar THEN Append(Front(prefix), next)
                                ELSE term_successor(Front(prefix))

=============================================================================
