------------------------------- MODULE Record -------------------------------
(***************************************************************************)
(* A row of a table leaf as quantydb-sqlite decodes it (cell.rs,           *)
(* record.rs, varint.rs), against the encoder of SQLite, which is          *)
(* external.                                                               *)
(*                                                                         *)
(* A byte has Bits bits: 8 in the file, fewer here so that every width and *)
(* every edge of a width is within reach.  A varint is eight bytes of      *)
(* Bits - 1 bits each and a ninth that carries all of its bits, an integer *)
(* is two's complement in 1, 2, 3, 4, 6 or 8 bytes.                        *)
(***************************************************************************)
EXTENDS Integers, Sequences, FiniteSets
LOCAL INSTANCE SequencesExt

CONSTANTS
    Bits,       \* bits of a byte
    Rowids,     \* the rowids rows have
    Integers_,  \* the integers rows hold
    Texts,      \* the texts rows hold: sequences of "plain" and "astral" characters
    Blobs,      \* the blobs rows hold: sequences of bytes
    MaxColumns  \* bound: values of a row

VARIABLES
    rowid,     \* the rowid and the values SQLite stored
    row,
    encoding,  \* the text encoding of the database
    bytes_,    \* the bytes of the cell
    whole,     \* whether all the bytes are there
    out        \* what decode made of them

vars == <<rowid, row, encoding, bytes_, whole, out>>

Base == 2 ^ Bits
Half == 2 ^ (Bits - 1)
Byte == 0 .. Base - 1
VarintBits == 8 * (Bits - 1) + Bits

Null == [class |-> "null", n |-> 0, chars |-> <<>>]
Integer(n) == [class |-> "integer", n |-> n, chars |-> <<>>]
Text(t) == [class |-> "text", n |-> 0, chars |-> t]
Blob(b) == [class |-> "blob", n |-> 0, chars |-> b]
Real(b) == [class |-> "real", n |-> 0, chars |-> b]
Storable == {Null} \cup {Integer(n) : n \in Integers_} \cup {Text(t) : t \in Texts}
            \cup {Blob(b) : b \in Blobs} \cup {Real([i \in 1 .. 8 |-> i % Base])}

(***************************************************************************)
(* varint.rs                                                               *)
(***************************************************************************)
Fail == [ok |-> FALSE, value |-> 0, len |-> 0]
Signed(value, bits) == IF bits > 0 /\ value >= 2 ^ (bits - 1) THEN value - 2 ^ bits ELSE value

(* The value of the first n bytes without their continuation bits.         *)
Groups(bytes, n) == FoldLeft(LAMBDA v, b : v * Half + (b % Half), 0, SubSeq(bytes, 1, n))

(* Mutant: the ninth byte is read like the others.                         *)
read_seven(bytes) ==
    LET ends == {i \in 1 .. 9 : i <= Len(bytes) /\ bytes[i] < Half}
        last == CHOOSE i \in ends : \A j \in ends : i <= j
    IN  IF ends = {} THEN Fail
        ELSE [ok |-> TRUE, value |-> Signed(Groups(bytes, last), VarintBits), len |-> last]
(* read: up to eight bytes, the first without the continuation bit ends    *)
(* it; after eight with it the ninth contributes every bit.                *)
read(bytes) ==
    LET ends == {i \in 1 .. 8 : i <= Len(bytes) /\ bytes[i] < Half}
        last == CHOOSE i \in ends : \A j \in ends : i <= j
    IN  IF ends # {}
        THEN [ok |-> TRUE, value |-> Signed(Groups(bytes, last), VarintBits), len |-> last]
        ELSE IF Len(bytes) >= 9
        THEN [ok |-> TRUE, value |-> Signed(Groups(bytes, 8) * Base + bytes[9], VarintBits),
              len |-> 9]
        ELSE Fail

NotNegative(r) == IF r.ok /\ r.value < 0 THEN Fail ELSE r
read_unsigned(bytes) == NotNegative(read(bytes))

(***************************************************************************)
(* record.rs                                                               *)
(***************************************************************************)
Widths == <<1, 2, 3, 4, 6, 8>>

(* SerialType::from_code and width; 10 and 11 are reserved.                *)
from_code(code) ==
    LET is(kind, width) == [ok |-> TRUE, kind |-> kind, width |-> width]
    IN  IF code \in {0, 8, 9} THEN is(<<"null", "zero", "one">>[IF code = 0 THEN 1 ELSE code - 6], 0)
        ELSE IF code \in 1 .. 6 THEN is("int", Widths[code])
        ELSE IF code = 7 THEN is("float", 8)
        ELSE IF code \in {10, 11} THEN [ok |-> FALSE, kind |-> "null", width |-> 0]
        ELSE IF code % 2 = 0 THEN is("blob", (code - 12) \div 2)
        ELSE is("text", (code - 13) \div 2)

(* signed_be: big endian two's complement, sign extended from its width.   *)
signed_be(bytes) ==
    Signed(FoldLeft(LAMBDA v, b : v * Base + b, 0, bytes), Bits * Len(bytes))

(* Of a utf-16 unit only what text_from looks at: which half of a          *)
(* surrogate pair it is, from its more significant byte.                   *)
High == Base - 2
Low == Base - 1
Units(bytes, big) ==
    [i \in 1 .. Len(bytes) \div 2 |-> IF big THEN bytes[2 * i - 1] ELSE bytes[2 * i]]

(* String::from_utf16 and from_utf8 (the standard library's): a high       *)
(* surrogate and the low one after it make a character, in utf-8 a lead    *)
(* byte and the three continuation bytes after it.                         *)
from_utf16(units) ==
    LET ok == \A i \in DOMAIN units :
                 /\ units[i] = High => i < Len(units) /\ units[i + 1] = Low
                 /\ units[i] = Low => i > 1 /\ units[i - 1] = High
        starts == SelectSeq(units, LAMBDA u : u # Low)
    IN  [ok |-> ok, chars |-> [i \in DOMAIN starts |->
                                  IF starts[i] = High THEN "astral" ELSE "plain"]]
from_utf8(bytes) ==
    LET tail(i) == bytes[i] = Half
        ok == \A i \in DOMAIN bytes :
                 /\ bytes[i] = High => /\ i + 3 <= Len(bytes)
                                       /\ \A k \in 1 .. 3 : tail(i + k)
                 /\ tail(i) => \E k \in 1 .. 3 : i > k /\ bytes[i - k] = High
        starts == SelectSeq(bytes, LAMBDA b : b # Half)
    IN  [ok |-> ok, chars |-> [i \in DOMAIN starts |->
                                  IF starts[i] = High THEN "astral" ELSE "plain"]]

text_from(bytes, enc) ==
    IF enc = "utf8" THEN from_utf8(bytes)
    ELSE IF Len(bytes) % 2 # 0 THEN [ok |-> FALSE, chars |-> <<>>]
    ELSE from_utf16(Units(bytes, enc = "utf16be"))

NoRow == [ok |-> FALSE, rowid |-> 0, values |-> <<>>]

(* The first pass of decode: the serial types of the header from here on.  *)
NoTypes == [ok |-> FALSE, types |-> <<>>]
Push(ty, rest) == IF ty.ok THEN [rest EXCEPT !.types = <<ty>> \o @] ELSE NoTypes
Types(bytes, from, header_len) ==
    LET code[at \in from .. header_len - 1] == read_unsigned(SubSeq(bytes, at + 1, header_len))
        go[at \in from .. header_len] ==
          IF at = header_len THEN [ok |-> TRUE, types |-> <<>>]
          ELSE IF ~code[at].ok THEN NoTypes
          ELSE Push(from_code(code[at].value), go[at + code[at].len])
    IN  go[from]

Overruns(at, width, len) == at + width > len

(* The second pass, one value: a value that runs past the payload, or a    *)
(* text that is none, refuses the record.                                  *)
Ok(v) == [ok |-> TRUE, value |-> v]
AsText(text) == [ok |-> text.ok, value |-> Text(text.chars)]
ValueOf(ty, bytes, enc) ==
    CASE ty.kind = "null" -> Ok(Null)
      [] ty.kind = "zero" -> Ok(Integer(0))
      [] ty.kind = "one" -> Ok(Integer(1))
      [] ty.kind = "int" -> Ok(Integer(signed_be(bytes)))
      [] ty.kind = "float" -> Ok(Real(bytes))
      [] ty.kind = "blob" -> Ok(Blob(bytes))
      [] OTHER -> AsText(text_from(bytes, enc))
Stopped == [ok |-> FALSE, at |-> 0, values |-> <<>>]
Advanced(acc, ty, v) ==
    IF v.ok THEN [ok |-> TRUE, at |-> acc.at + ty.width, values |-> Append(acc.values, v.value)]
    ELSE Stopped
CutValue(acc, ty, bytes, enc) ==
    IF ~acc.ok \/ Overruns(acc.at, ty.width, Len(bytes)) THEN Stopped
    ELSE Advanced(acc, ty, ValueOf(ty, SubSeq(bytes, acc.at + 1, acc.at + ty.width), enc))

(* decode: the header, then the body cut into values.                      *)
Values(bytes, header_len, parsed, enc) ==
    IF ~parsed.ok THEN Stopped
    ELSE FoldLeft(LAMBDA acc, ty : CutValue(acc, ty, bytes, enc),
                  [ok |-> TRUE, at |-> header_len, values |-> <<>>], parsed.types)
AfterHeader(bytes, head, enc) ==
    IF ~head.ok \/ head.value < head.len \/ head.value > Len(bytes) THEN Stopped
    ELSE Values(bytes, head.value, Types(bytes, head.len, head.value), enc)
decode(bytes, enc) == AfterHeader(bytes, read_unsigned(bytes), enc)

(* The table leaf arm of cell::parse, for a payload that stays on the      *)
(* page, and the decoding of it.                                           *)
Row(id, record) == [ok |-> record.ok, rowid |-> id, values |-> record.values]
Leaf(bytes, size, id, enc) ==
    IF ~size.ok \/ ~id.ok \/ size.value > Len(bytes) - (size.len + id.len) THEN NoRow
    ELSE Row(id.value, decode(SubSeq(bytes, size.len + id.len + 1, size.len + id.len + size.value), enc))
AfterSize(bytes, size, enc) ==
    Leaf(bytes, size, read(SubSeq(bytes, size.len + 1, Len(bytes))), enc)
parse(bytes, enc) == AfterSize(bytes, read_unsigned(bytes), enc)

(***************************************************************************)
(* SQLite's encoder, external.                                             *)
(***************************************************************************)
Digits(v, base, n) == [i \in 1 .. n |-> (v \div base ^ (n - i)) % base]

PutVarint(v) ==
    LET u == IF v < 0 THEN v + 2 ^ VarintBits ELSE v
        n == CHOOSE k \in 1 .. 9 : \A j \in 1 .. 9 : (j = 9 \/ u < Half ^ j) <=> j >= k
        flag(s) == [i \in DOMAIN s |-> IF i < n THEN s[i] + Half ELSE s[i]]
    IN  IF n < 9 THEN flag(Digits(u, Half, n))
        ELSE flag(Digits(u \div Base, Half, 8) \o <<u % Base>>)

Fits(n, w) == n >= -(2 ^ (Bits * w - 1)) /\ n < 2 ^ (Bits * w - 1)
WidthCode(n) == CHOOSE c \in 1 .. 6 : Fits(n, Widths[c]) /\ \A d \in 1 .. c - 1 : ~Fits(n, Widths[d])

Flat(s) == FoldLeft(LAMBDA a, b : a \o b, <<>>, s)
TextBytes(t, enc) ==
    Flat([i \in DOMAIN t |->
        IF enc = "utf8" THEN (IF t[i] = "plain" THEN <<1>> ELSE <<High, Half, Half, Half>>)
        ELSE LET unit(hi) == IF enc = "utf16be" THEN <<hi, 1>> ELSE <<1, hi>>
             IN  IF t[i] = "plain" THEN unit(0) ELSE unit(High) \o unit(Low)])

Code(v, enc) ==
    IF v.class = "null" THEN 0
    ELSE IF v.class = "integer" THEN (IF v.n \in {0, 1} THEN 8 + v.n ELSE WidthCode(v.n))
    ELSE IF v.class = "real" THEN 7
    ELSE IF v.class = "blob" THEN 12 + 2 * Len(v.chars)
    ELSE 13 + 2 * Len(TextBytes(v.chars, enc))
Body(v, enc) ==
    IF v.class = "integer" /\ v.n \notin {0, 1}
    THEN LET w == Widths[WidthCode(v.n)]
         IN  Digits(IF v.n < 0 THEN v.n + 2 ^ (Bits * w) ELSE v.n, Base, w)
    ELSE IF v.class \in {"blob", "real"} THEN v.chars
    ELSE IF v.class = "text" THEN TextBytes(v.chars, enc)
    ELSE <<>>

MakeRecord(values, enc) ==
    LET codes == Flat([i \in DOMAIN values |-> PutVarint(Code(values[i], enc))])
        h == CHOOSE k \in 1 .. 9 : Len(PutVarint(Len(codes) + k)) = k
    IN  PutVarint(Len(codes) + h) \o codes \o Flat([i \in DOMAIN values |-> Body(values[i], enc)])

MakeCell(id, record) == PutVarint(Len(record)) \o PutVarint(id) \o record

(***************************************************************************)
(* The cell is written, cut short or not, and decoded.                     *)
(***************************************************************************)
Init ==
    /\ row = <<>> /\ bytes_ = <<>> /\ whole = TRUE /\ out = NoRow
    /\ rowid \in Rowids
    /\ encoding \in {"utf8", "utf16le", "utf16be"}

Store(v) ==
    /\ Len(row) < MaxColumns /\ whole
    /\ row' = Append(row, v)
    /\ bytes_' = MakeCell(rowid, MakeRecord(row', encoding))
    /\ out' = parse(bytes_', encoding)
    /\ UNCHANGED <<rowid, encoding, whole>>

(* A page that ends before the cell does.                                  *)
Cut(n) ==
    /\ whole /\ n < Len(bytes_)
    /\ whole' = FALSE
    /\ bytes_' = SubSeq(bytes_, 1, n)
    /\ out' = parse(bytes_', encoding)
    /\ UNCHANGED <<rowid, row, encoding>>

(* A cell that states a shorter payload than the record has.               *)
Shorten(n) ==
    /\ whole /\ row # <<>>
    /\ \E record \in {MakeRecord(row, encoding)} :
         /\ n < Len(record)
         /\ bytes_' = MakeCell(rowid, SubSeq(record, 1, n))
    /\ whole' = FALSE
    /\ out' = parse(bytes_', encoding)
    /\ UNCHANGED <<rowid, row, encoding>>

Next ==
    \/ \E v \in Storable : Store(v)
    \/ \E n \in 0 .. Len(bytes_) : Cut(n) \/ Shorten(n)
Spec == Init /\ [][Next]_vars

(***************************************************************************)
(* Properties                                                              *)
(***************************************************************************)

(* A row SQLite wrote comes back as the rowid and the values that went in: *)
(* rowids that take all nine bytes, integers at both edges of every width, *)
(* the two that take no byte, lengths whose varint takes several bytes,    *)
(* and text in each of the three encodings (varint.rs: read; record.rs:    *)
(* decode).  A row of which any number of bytes is missing at the end is   *)
(* refused, never decoded to fewer or to other values (cell.rs: parse).    *)
DecodeInverts ==
    IF whole THEN row # <<>> => out = [ok |-> TRUE, rowid |-> rowid, values |-> row]
    ELSE ~out.ok
=============================================================================
