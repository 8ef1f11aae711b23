----------------------------- MODULE MCSharing ------------------------------
(***************************************************************************)
(* What several threads or processes share, for TLC: the page cache, the   *)
(* database file, the token file and the installed program.  A behaviour   *)
(* is about one part; the others rest.                                     *)
(***************************************************************************)
EXTENDS Cache, Handles, Tokens, Update, TLC

CONSTANT Parts

VARIABLE part

(* The cache with threads that call stats().                               *)
Counted == INSTANCE Cache WITH Counting <- Threads, MaxTxid <- 4

(* The file where locks work, where they do not, and where they do not and *)
(* history is collected.                                                   *)
Setup(locking, collecting, commits) ==
    [locking |-> locking, collecting |-> collecting, commits |-> commits]
MCSetups == {Setup(TRUE, FALSE, 3), Setup(FALSE, FALSE, 2), Setup(FALSE, TRUE, 2)}

(* An editor whose changes have times of their own, and one that can do    *)
(* anything.                                                               *)
Editor(grants, sameTick, restores, ticks) ==
    [grants |-> grants, sameTick |-> sameTick, restores |-> restores, ticks |-> ticks]
MCEditors == {Editor({"k1", "k2"}, FALSE, FALSE, 3), Editor({"k1"}, TRUE, TRUE, 2)}
-----------------------------------------------------------------------------
(* Programs of the three formats, whole and cut, and releases that are     *)
(* signed, tampered with or badly written.                                 *)

Entry(at, segment, end) == [at |-> at, segment |-> segment, end |-> end]

Program(id, format, known, entries, tail, made) ==
    [id |-> id, format |-> format, known |-> known, head |-> 1, entries |-> entries,
     tail |-> tail, made |-> made, len |-> made, about |-> "quantydb"]

(* The loader needs the headers, and `about` none of the last bytes.       *)
Cut(f, len) == [f EXCEPT !.len = len, !.id = f.id \o "/cut",
                         !.about = IF Readable([f EXCEPT !.len = len]) THEN @ ELSE "crash"]

\* Headers end at 2; the longest extent is the first, the last or the table's.
Elf    == Program("elf", "elf", TRUE, <<Entry(2, TRUE, 6), Entry(2, TRUE, 4)>>, 8, 8)
Mapped == Program("mapped", "elf", TRUE, <<Entry(2, TRUE, 9), Entry(2, TRUE, 5)>>, 6, 9)
Macho  == Program("macho", "macho", TRUE,
                  <<Entry(2, TRUE, 7), Entry(2, TRUE, 5), Entry(3, FALSE, 3)>>, 0, 7)
Pe     == Program("pe", "pe", TRUE, <<Entry(2, TRUE, 7), Entry(3, TRUE, 5)>>, 0, 7)
Script == Program("script", "other", FALSE, <<>>, 0, 3)
Text   == [Script EXCEPT !.id = "text", !.about = "crash"]
Other  == [Elf EXCEPT !.id = "other", !.about = "other"]
Blank  == [Script EXCEPT !.id = "empty", !.len = 0]
Padded == [Elf EXCEPT !.id = "padded", !.len = 9]

Programs == {Elf, Padded, Cut(Elf, 7), Cut(Elf, 1), Mapped, Cut(Mapped, 8), Cut(Mapped, 5),
             Macho, Cut(Macho, 6), Cut(Macho, 2), Pe, Cut(Pe, 6), Script, Text, Other, Blank}
Pair == {Elf, Text}

Old == [Elf EXCEPT !.id = "old"]

Line(readable, hex, name, f) ==
    [readable |-> readable, hex |-> hex, name |-> name, digest |-> Digest(f)]

Sums(id, lines) == [id |-> id, lines |-> lines]

Signed(sums, key) == [hex |-> TRUE, over |-> sums.id, key |-> key]

One == Sums("one", <<Line(TRUE, TRUE, "a", Elf), Line(TRUE, TRUE, "b", Pe)>>)
Two == Sums("two", <<Line(TRUE, TRUE, "b", Pe), Line(TRUE, TRUE, "a", Mapped)>>)
Fork == Sums("fork", <<Line(TRUE, TRUE, "a", Macho)>>)
Twice == Sums("twice", <<Line(TRUE, TRUE, "a", Elf), Line(TRUE, TRUE, "a", Script)>>)
Bad == Sums("bad", <<Line(TRUE, FALSE, "b", Pe), Line(TRUE, TRUE, "a", Script)>>)
Missing == Sums("missing", <<Line(TRUE, TRUE, "b", Pe)>>)

Release(sums, sig, asset) == [sums |-> sums, sig |-> sig, asset |-> asset]

(* Two good releases, one made by somebody else, one whose list or asset   *)
(* was changed later, one without a signature, and lists nobody can read.  *)
Releases ==
    {Release(One, Signed(One, "ours"), Elf), Release(Two, Signed(Two, "ours"), Mapped),
     Release(Fork, Signed(Fork, "theirs"), Macho), Release(Fork, Signed(One, "ours"), Macho),
     Release(One, Signed(One, "ours"), Script), Release(One, Signed(One, "ours"), Cut(Elf, 7)),
     Release(One, [hex |-> FALSE, over |-> "one", key |-> "ours"], Elf),
     Release(Twice, Signed(Twice, "ours"), Elf), Release(Bad, Signed(Bad, "ours"), Script),
     Release(Missing, Signed(Missing, "ours"), Pe)}
Newest == {Release(One, Signed(One, "ours"), Elf)}

(* Updates from a file, beside those from releases that change.            *)
Local == INSTANCE Update WITH Inodes <- 1..3, Files <- Pair, Served <- Newest,
             RELEASE_KEY <- "none", Expected <- {"none"}, MAX_REDIRECTS <- 0
-----------------------------------------------------------------------------
all == <<part, vars, handleVars, tokenVars, updateVars>>

MCInit ==
    /\ part \in Parts
    /\ Init
    /\ HandlesInit /\ (part # "handles" => setup = Setup(TRUE, FALSE, 3))
    /\ TokensInit /\ (part # "tokens" => file.tokens = {} /\ ~editor.sameTick)
    /\ IF part = "fetching" THEN UpdateInit ELSE Local!UpdateInit

MCNext ==
    /\ UNCHANGED part
    /\ \/ part = "cache" /\ Next /\ UNCHANGED <<handleVars, tokenVars, updateVars>>
       \/ part = "counted" /\ Counted!Next /\ UNCHANGED <<handleVars, tokenVars, updateVars>>
       \/ part = "handles" /\ HandlesNext /\ UNCHANGED <<vars, tokenVars, updateVars>>
       \/ part = "tokens" /\ TokensNext /\ UNCHANGED <<vars, handleVars, updateVars>>
       \/ part = "local" /\ Local!UpdateNext /\ UNCHANGED <<vars, handleVars, tokenVars>>
       \/ part = "fetching" /\ UpdateNext /\ UNCHANGED <<vars, handleVars, tokenVars>>

MCSpec == MCInit /\ [][MCNext]_all

\* Neither threads nor processes are told apart.
Symmetry == Permutations(Threads) \cup Permutations(Procs)
=============================================================================
