------------------------------- MODULE Whole --------------------------------
(***************************************************************************)
(* What the updater can tell of a program file or a release without        *)
(* running anything (update.rs, fetch.rs): how long the file says it is,   *)
(* which digest the checksum file lists for it and whether that file is    *)
(* signed.                                                                 *)
(*                                                                         *)
(* A file is [format, known, head, entries, tail, made, len, about, id]:   *)
(* its format and whether the parser reads this kind of it, where the      *)
(* fixed header ends, the header entries, where the ELF section table      *)
(* ends, how long it was when it was made and how long it is now, what it  *)
(* answers to `about`, and what stands for its bytes.  An entry is where   *)
(* it ends in the file, whether it is a segment, and where what it         *)
(* describes ends.                                                         *)
(***************************************************************************)
EXTENDS Naturals, Sequences, FiniteSetsExt

(* sha256: distinct bytes have distinct digests.                           *)
Digest(f) == f.id

(* Every header field that is looked at lies within the file.              *)
Readable(f) == /\ f.head <= f.len
               /\ \A i \in DOMAIN f.entries : f.entries[i].at <= f.len

Ends(f) == {f.entries[i].end : i \in DOMAIN f.entries}

(* None refuses nothing, and neither does a length of 0.                   *)
Nothing == 0

elf(f) == IF f.known /\ Readable(f) THEN Max(Ends(f) \cup {f.tail}) ELSE Nothing

(* A command of size 0 has no successor.                                   *)
macho(f) ==
    IF Readable(f) /\ f.known
    THEN Max({f.entries[i].end : i \in {j \in DOMAIN f.entries : f.entries[j].segment}} \cup {0})
    ELSE Nothing

pe(f) == IF f.known /\ Readable(f) THEN Max(Ends(f) \cup {0}) ELSE Nothing

claimed_length(f) == CASE f.format = "elf"   -> elf(f)
                       [] f.format = "macho" -> macho(f)
                       [] f.format = "pe"    -> pe(f)
                       [] OTHER              -> Nothing

-----------------------------------------------------------------------------
(* A checksum file is a sequence of lines [readable, hex, digest, name]    *)
(* and what stands for its bytes; a signature is [hex, over, key].         *)

None == "none"

(* A line that cannot be read is refused wherever it stands, and so is a   *)
(* second line for the asset.                                              *)
digest_for(sums, asset) ==
    LET here == {i \in DOMAIN sums.lines : sums.lines[i].name = asset}
    IN  IF /\ \A i \in DOMAIN sums.lines : sums.lines[i].readable /\ sums.lines[i].hex
           /\ \E i \in here : here = {i}
        THEN sums.lines[CHOOSE i \in here : TRUE].digest
        ELSE None

(* Mutant: any signature of the release key will do.                       *)
verify_sums_key(sums, sig, key) == sig.hex /\ sig.key = key

verify_sums(sums, sig, key) == sig.hex /\ sig.key = key /\ sig.over = sums.id
=============================================================================
