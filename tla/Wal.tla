-------------------------------- MODULE Wal --------------------------------
(***************************************************************************)
(* Reading a SQLite database together with its write-ahead log             *)
(* (quantydb-sqlite: wal.rs, source.rs, header.rs and Reader::open).        *)
(*                                                                         *)
(* The writer is SQLite itself, external to this repository: transactions  *)
(* append frames, commit, roll back and are overwritten; a checkpoint      *)
(* copies pages into the main file and the next transaction restarts the   *)
(* log under a new salt over the old frames; a crash tears what was not    *)
(* synced; the last connection deletes the log.  The reader takes no lock  *)
(* of SQLite's: it opens the two files and reads page after page.          *)
(*                                                                         *)
(* A page is the number of the transaction that wrote it and, on page 1,   *)
(* the page count the database header claims.  A frame's checksum covers   *)
(* the frame before it: prev names that frame, and whole says that its own *)
(* bytes are the ones the checksum was computed over.                      *)
(***************************************************************************)
EXTENDS Integers, Sequences, FiniteSets, FiniteSetsExt

CONSTANTS
    MaxPage,      \* bound: pages of the database
    MaxTx,        \* bound: transactions
    MaxFrames,    \* bound: frames of a log
    MaxSalt,      \* bound: generations of the log
    Live          \* whether SQLite goes on working while the reader reads

VARIABLES
    main,     \* the pages of the main file
    log,      \* the -wal file: header and frames
    db,       \* the committed database, as SQLite would answer it
    commits,  \* commits of this generation of the log: where they end and what they made
    txn,      \* the open write transaction
    tail,     \* frames of this generation the writer has written
    synced,   \* frames of the log known to be on disk
    copied,   \* pages a checkpoint copied to the main file, not synced yet
    full,     \* whether the main file holds every commit
    txs,      \* transactions begun
    reader    \* the reader

vars == <<main, log, db, commits, txn, tail, synced, copied, full, txs, reader>>
writer == <<main, log, db, commits, txn, tail, synced, copied, full, txs>>

Torn == [tx |-> 0, claim |-> 0]
Page(t, c) == [tx |-> t, claim |-> c]
Frame(salt, p, size, data, prev) ==
    [salt |-> salt, page |-> p, size |-> size, data |-> data, prev |-> prev, whole |-> TRUE]

(* len: 0 is an absent or an empty file, 1 one that holds a header.        *)
NoLog == [len |-> 0, whole |-> TRUE, page_size |-> 0, salt |-> 0, frames |-> <<>>]
Idle == [open |-> FALSE, size |-> 0, wrote |-> {}, legacy |-> FALSE]
NoReader == [pc |-> "idle", kind |-> "none", pages |-> <<>>, count |-> 0, got |-> <<>>, seen |-> {}]

(***************************************************************************)
(* The reader's side: Wal::open, WalSource, Header::parse, Reader::open.   *)
(***************************************************************************)

(* The id a frame's successor is chained to; the header's for the first.   *)
Id(fr) == <<fr.salt, fr.page, fr.data.tx>>
HeaderId(l) == <<l.salt, 0, 0>>

(* checksum: the running value over the frames before, the frame header    *)
(* and the page equals the one the frame carries.                          *)
Checksum(fr, running) == fr.whole /\ fr.prev = running

(* One round of the frame loop of Wal::open: a frame of another salt or    *)
(* with a checksum that does not match ends it, page 0 is an error, and    *)
(* the frames since the last commit are published by a commit frame.       *)
Take(w, l, index) ==
    LET fr == l.frames[index]
        pending == Append(w.pending, <<fr.page, index>>)
        publish(pages) == [p \in DOMAIN pages \cup {pending[i][1] : i \in DOMAIN pending} |->
            IF \E i \in DOMAIN pending : pending[i][1] = p
            THEN Max({pending[i][2] : i \in {j \in DOMAIN pending : pending[j][1] = p}})
            ELSE pages[p]]
    IN  IF w.stop \/ fr.salt # l.salt \/ ~Checksum(fr, w.running)
        THEN [w EXCEPT !.stop = TRUE]
        ELSE IF fr.page = 0 THEN [w EXCEPT !.stop = TRUE, !.ok = FALSE]
        ELSE IF fr.size = 0 THEN [w EXCEPT !.running = Id(fr), !.pending = pending]
        ELSE [w EXCEPT !.running = Id(fr), !.pending = <<>>, !.pages = publish(w.pages),
                       !.count = fr.size]

(* Wal::open.  A file without a header is an empty log; a header that      *)
(* fails its magic, checksum, format or page size is an error.             *)
WalOpen(l) ==
    LET start == [ok |-> l.len = 0 \/ l.whole, stop |-> l.len = 0 \/ ~l.whole,
                  running |-> HeaderId(l), pending |-> <<>>, pages |-> <<>>, count |-> 0]
        walk[i \in 0 .. Len(l.frames)] == IF i = 0 THEN start ELSE Take(walk[i - 1], l, i)
        end == walk[Len(l.frames)]
    IN  [end EXCEPT !.pages = [p \in {q \in DOMAIN end.pages : q <= end.count} |-> end.pages[p]]]

(* Mutant: a log of another page size that looks empty is taken as none.   *)
WalSourceNewLenient(l) ==
    LET w == WalOpen(l)
    IN  [ok |-> w.ok, pages |-> w.pages,
         count |-> IF w.pages = <<>> THEN Len(main) ELSE w.count]
(* WalSource::new: a log of another page size is refused before an empty   *)
(* one is dropped; the log's last commit says how large the database is.   *)
WalSourceNew(l) ==
    LET w == WalOpen(l)
    IN  [ok |-> w.ok /\ l.page_size \in {0, 1}, pages |-> w.pages,
         count |-> IF w.pages = <<>> THEN Len(main) ELSE w.count]

(* FileSource::open: what the main file alone accounts for.                *)
FileSourceOpen == [ok |-> log.len = 0, pages |-> <<>>, count |-> Len(main)]

(* WalSource::read_at over a whole page: from the log when it holds a      *)
(* committed version, else from the main file, where a page past the end   *)
(* is an error.                                                            *)
Readable(pages, p) == p \in DOMAIN pages \/ p <= Len(main)
ReadAt(pages, p) == IF p \in DOMAIN pages THEN log.frames[pages[p]].data ELSE main[p]

(* Header::parse: the claim counts only when it is not zero (an old SQLite *)
(* leaves it so).                                                          *)
HeaderPageCount(data, pages_in_file) == IF data.claim # 0 THEN data.claim ELSE pages_in_file

(* Reader::open over an opened source, its page count or a refusal.        *)
ReaderOpen(source) ==
    LET count == HeaderPageCount(ReadAt(source.pages, 1), source.count)
    IN  [ok |-> source.ok /\ source.count > 0 /\ count <= source.count /\ count > 0,
         count |-> count]

(* open_file, or Reader::open(FileSource::open(..)) for kind "plain".      *)
OpenFile(kind) ==
    /\ reader.pc = "idle"
    /\ \E source \in {IF kind = "plain" THEN FileSourceOpen ELSE WalSourceNew(log)} :
         LET r == ReaderOpen(source)
         IN  reader' = [pc |-> IF r.ok THEN "read" ELSE "refused", kind |-> kind,
                        pages |-> source.pages, count |-> r.count, got |-> <<>>, seen |-> {db}]
    /\ UNCHANGED writer

(* Reader::read_page of the next page; one outside the files is an error.  *)
ReadPage ==
    /\ reader.pc = "read"
    /\ LET p == Len(reader.got) + 1
       IN  reader' = IF ~Readable(reader.pages, p)
                     THEN [reader EXCEPT !.pc = "refused"]
                     ELSE [reader EXCEPT !.got = Append(@, ReadAt(reader.pages, p)),
                                         !.pc = IF p = reader.count THEN "done" ELSE "read"]
    /\ UNCHANGED writer

Forget ==
    /\ reader.pc \in {"done", "refused"}
    /\ reader' = NoReader
    /\ UNCHANGED writer

(***************************************************************************)
(* The writer's side: SQLite, external.                                    *)
(***************************************************************************)
Quiet == (Live \/ reader.pc = "idle") /\ log.whole /\ log.page_size \in {0, 1}
Watch(new) == reader' = IF reader.pc = "read" THEN [reader EXCEPT !.seen = @ \cup {new}] ELSE reader

(* A transaction begins, to leave n pages.  When the main file holds every *)
(* commit the log may be restarted: a new salt, and frames from the start  *)
(* over those of the generation before.                                    *)
Begin(n, restart) ==
    /\ Quiet /\ ~txn.open /\ txs < MaxTx
    /\ IF restart
       THEN /\ full /\ log.salt < MaxSalt
            /\ log' = [log EXCEPT !.len = 1, !.page_size = 1, !.salt = @ + 1]
            /\ tail' = 0 /\ synced' = 0
            /\ commits' = <<[end |-> 0, db |-> db]>>
       ELSE log.len = 1 /\ UNCHANGED <<log, tail, synced, commits>>
    /\ txs' = txs + 1
    /\ txn' = [open |-> TRUE, size |-> n, wrote |-> {}, legacy |-> db[1].claim = 0]
    /\ UNCHANGED <<main, db, copied, full, reader>>

(* The pages a transaction must write: those it adds, and page 1 when the  *)
(* size changes.                                                           *)
Needed == Len(db) + 1 .. txn.size \cup IF txn.size = Len(db) THEN {} ELSE {1}

(* A frame is appended after the writer's last, the commit frame with the  *)
(* size of the database.                                                   *)
WriteFrame(p, commit) ==
    /\ Quiet /\ txn.open /\ p \notin txn.wrote /\ tail < MaxFrames
    /\ commit => Needed \subseteq txn.wrote \cup {p}
    /\ LET data == Page(txs, IF p = 1 /\ ~txn.legacy THEN txn.size ELSE 0)
           prev == IF tail = 0 THEN HeaderId(log) ELSE Id(log.frames[tail])
           fr == Frame(log.salt, p, IF commit THEN txn.size ELSE 0, data, prev)
           wrote == txn.wrote \cup {p}
           new == [q \in 1 .. txn.size |->
                     IF q \in wrote THEN Page(txs, IF q = 1 /\ ~txn.legacy THEN txn.size ELSE 0)
                     ELSE db[q]]
       IN  /\ log' = [log EXCEPT !.frames =
                        SubSeq(@, 1, tail) \o <<fr>> \o SubSeq(@, tail + 2, Len(@))]
           /\ tail' = tail + 1
           /\ IF commit
              THEN /\ db' = new /\ txn' = Idle /\ full' = FALSE /\ copied' = copied \ wrote
                   /\ commits' = Append(commits, [end |-> tail + 1, db |-> new])
                   /\ Watch(new)
              ELSE /\ txn' = [txn EXCEPT !.wrote = wrote]
                   /\ UNCHANGED <<db, full, copied, commits, reader>>
    /\ UNCHANGED <<main, synced, txs>>

LastEnd == commits[Len(commits)].end

(* Rolled back: the next transaction writes over the frames of this one.   *)
Rollback ==
    /\ Quiet /\ txn.open
    /\ txn' = Idle /\ tail' = LastEnd /\ synced' = Min({synced, LastEnd})
    /\ UNCHANGED <<main, log, db, commits, copied, full, txs, reader>>

SyncLog ==
    /\ Quiet /\ synced < tail
    /\ synced' = tail
    /\ UNCHANGED <<main, log, db, commits, txn, tail, copied, full, txs, reader>>

(* The pages of this generation that a checkpoint copies, lowest first.    *)
Logged == {log.frames[i].page : i \in 1 .. LastEnd} \cap 1 .. Len(db)
Backfill ==
    /\ Quiet /\ ~full /\ synced >= LastEnd /\ Logged \ copied # {}
    /\ LET p == Min(Logged \ copied)
       IN  /\ main' = [q \in 1 .. Max({Len(main), p}) |-> IF q = p THEN db[p] ELSE main[q]]
           /\ copied' = copied \cup {p}
    /\ UNCHANGED <<log, db, commits, txn, tail, synced, full, txs, reader>>

(* The checkpoint is complete: the main file is cut to size and synced.    *)
Checkpointed ==
    /\ Quiet /\ ~full /\ synced >= LastEnd /\ Logged \subseteq copied
    /\ main' = SubSeq(main, 1, Len(db)) /\ copied' = {} /\ full' = TRUE
    /\ UNCHANGED <<log, db, commits, txn, tail, synced, txs, reader>>

(* The last connection closes, and takes the log away.                     *)
Close ==
    /\ Quiet /\ full /\ ~txn.open /\ log.len = 1
    /\ log' = [NoLog EXCEPT !.salt = log.salt]
    /\ tail' = 0 /\ synced' = 0 /\ commits' = <<[end |-> 0, db |-> db]>>
    /\ UNCHANGED <<main, db, txn, copied, full, txs, reader>>

(* A crash tears any of the frames and pages that were not synced.  The    *)
(* commits that are left are those with every frame before their end.      *)
Crash(torn, spoilt) ==
    /\ Quiet /\ reader.pc = "idle"
    /\ txn.open \/ torn # {} \/ spoilt # {}
    /\ torn \subseteq synced + 1 .. tail /\ spoilt \subseteq copied
    /\ LET kept == SelectSeq(commits, LAMBDA c : \A i \in torn : c.end < i)
       IN  /\ commits' = kept
           /\ db' = kept[Len(kept)].db
           /\ tail' = kept[Len(kept)].end /\ synced' = tail'
    /\ log' = [log EXCEPT !.frames =
                 [i \in DOMAIN @ |-> IF i \in torn THEN [@[i] EXCEPT !.whole = FALSE, !.data = Torn]
                                     ELSE @[i]]]
    /\ main' = [p \in DOMAIN main |-> IF p \in spoilt THEN Torn ELSE main[p]]
    /\ txn' = Idle /\ copied' = {}
    /\ UNCHANGED <<full, txs, reader>>

(* A log header that was damaged, or the log of a database with pages of   *)
(* another size put beside this one.                                       *)
Spoil(how) ==
    /\ Quiet /\ reader.pc = "idle" /\ ~txn.open /\ log.len = 1
    /\ log' = IF how = "header" THEN [log EXCEPT !.whole = FALSE]
              ELSE [log EXCEPT !.page_size = 2, !.frames = <<>>]
    /\ UNCHANGED <<main, db, commits, txn, tail, synced, copied, full, txs, reader>>

Init ==
    /\ \E n \in 1 .. MaxPage - 1, legacy \in BOOLEAN :
         main = [p \in 1 .. n |-> Page(0, IF p = 1 /\ ~legacy THEN n ELSE 0)]
    /\ db = main /\ log = NoLog /\ commits = <<[end |-> 0, db |-> main]>>
    /\ txn = Idle /\ tail = 0 /\ synced = 0 /\ copied = {} /\ full = TRUE /\ txs = 0
    /\ reader = NoReader

Next ==
    \/ \E n \in Max({1, Len(db) - 1}) .. Min({MaxPage, Len(db) + 1}), restart \in BOOLEAN :
         Begin(n, restart)
    \/ \E p \in 1 .. txn.size, commit \in BOOLEAN : WriteFrame(p, commit)
    \/ Rollback
    \/ SyncLog
    \/ Backfill
    \/ Checkpointed
    \/ Close
    \/ \E torn \in SUBSET (synced + 1 .. tail), spoilt \in SUBSET copied : Crash(torn, spoilt)
    \/ \E how \in {"header", "size"} : Spoil(how)
    \/ \E kind \in {"log", "plain"} : OpenFile(kind)
    \/ ReadPage
    \/ Forget

Spec == Init /\ [][Next]_vars

(***************************************************************************)
(* Properties                                                              *)
(***************************************************************************)
(* What a reader that was not refused has read is the database one commit  *)
(* made, all of it and nothing else: no page of a transaction that was     *)
(* open, rolled back or lost in a crash, no frame of an earlier generation *)
(* of the log, no page a checkpoint left half copied, and no page of a     *)
(* size that was given up (wal.rs: Wal::open, WalSource).  And it is       *)
(* refused only for a log it cannot trust: a header that fails its checks, *)
(* or pages of another size; one of the main file alone only when a log    *)
(* lies beside it (lib.rs: Reader::open).                                  *)
ReadsAreOneCommit ==
    /\ reader.pc = "done" => reader.got \in reader.seen
    /\ reader.pc = "refused" =>
          IF reader.kind = "log" THEN ~log.whole \/ log.page_size = 2 ELSE log.len # 0
=============================================================================
