# A verification development for QuantyDB

TLA+ models of QuantyDB, the TLC configurations that check them on small
instances, and TLAPS proofs of their main safety properties. Paths are relative
to `src/crates`; `core` stands for `quantydb-core/src`, `service` for
`quantydb-service/src`, and so on. `PROJECT.json` maps every definition to the
lines it models.

## The system

QuantyDB is one file, one writer at a time and many readers.

| Part | Where | What it does |
|---|---|---|
| Pager | `core/pager.rs`, `meta.rs`, `freelist.rs` | pages, write batches, two meta slots, the two-sync commit, the free list chain |
| Write batch | `core/pager.rs` (`WriteBatch`) | pages taken and written, kept nodes, savepoints, suspension |
| Page cache | `core/cache.rs` | a clock cache of verified pages |
| B-tree | `core/btree.rs`, `node.rs` | copy-on-write trees over a batch |
| History | `core/db.rs`, `refs.rs`, `commit.rs` | commit records, branches, retention floors, snapshots, garbage collection |
| Blobs | `core/blob.rs`, `db.rs` | chunks by content with reference counts |
| Storage | `core/storage.rs`, `quantydb-sys/lock.rs` | the file, its lock, several handles |
| Session | `quantydb-exec` | catalog, rows, indexes, text index, planner, joins |
| Languages | `quantydb-ql` | QQL and SQL to one syntax tree, and the printer |
| Executor | `service/executor.rs`, `answer.rs` | one thread that owns the session: queues, parked transactions, group commit, deadlines, tokens |
| Server | `quantydb-server`, `quantydb-proto` | event loops, connections, slots, readiness, framing |
| Tokens | `quantydb-auth` | the token file and its reload |
| SQLite import | `quantydb-sqlite`, `quantydb-import` | log, trees and records of a SQLite file; plan and run of an import |
| Self update | `quantydb-cli/update.rs`, `fetch.rs` | fetch, check, stage, try and install a release |

They stack. A request goes from an event loop through the executor's channel to
the session; the session runs it on a write transaction of the history layer;
that is a batch of the pager; and the pager's commit is the only thing that
makes a write durable. The models follow these seams: each one takes the layer
below it as that layer's model shows it to be. `History` takes a commit as
atomic because `Pager` implements `AtomicStore`; `Batch` assumes a sound free
list (`ChainIsSound`) because `Pager` has `FreeListsSound`, as long as every
collection copies the whole refs tree, which `RefsTree` looks at; `Executor`
assumes that a connection has one request out at a time and announces its end
once, which is `Server`'s `DispatcherContract`.

## Modules

| Module | Models |
|---|---|
| `AtomicStore` | what the pager promises: numbered states, a commit in doubt, a crash that settles the doubt |
| `Pager`, `PagerInv` | the pager on a file that can fail, tear and lose writes; its inductive invariant |
| `Batch` | a write batch from the inside: `take_page_id`, `page_mut`, kept nodes, the undo log, suspension |
| `BTree` | get, put, unique put, remove, range scans; which nodes a batch owns, and what a call that fails has already rewritten |
| `RefsTree` | the refs tree as pages, under collection |
| `History` | commits, branches, floors, snapshots, collection, threads that read before they lock |
| `Cache` | the cache, and readers, a writer and `stats` around it |
| `Handles` | processes that create, open, lock, commit, read and collect one file; power loss |
| `Text`, `Values`, `Plan`, `Query`, `Rows` | the session: tokenizer, values and expressions, access plans and joins, reading, writing with index maintenance and blobs |
| `Syntax`, `Qql`, `Sql`, `Typing` | tree and printer, the two parsers, statements typed token by token |
| `Executor` | the executor thread, its clients and the clock |
| `Registry`, `Server` | slots and their tokens; one event loop with its peers |
| `Tokens` | the token file, a reload of four system calls, an editor |
| `Wal`, `Scan`, `Record`, `Names`, `Import` | the SQLite log against SQLite as writer, the walk of a tree over any pages, one record, names, the import |
| `Whole`, `Update` | what can be told of a file or a release; the update, call by call |
| `MC*` | instances for TLC |
| `*Proofs`, `PagerRefinement` | theorems |

Each module says in its header what its state stands for and what it abstracts.
The main points:

**Pager.** `disk[p]` is what a read returns, `synced[p]` what the last successful
sync left on the medium. A meta's roots are replaced by what they reach:
`tree[p]` is the stamp the image at `p` must carry. `Begin`, `Allocate`,
`Rollback`, `Suspend`, `Resume` and `Collect` build a batch; `CommitRaced`,
`CommitSettle`, `SettleStep`, `Seal`, `WritePage`, `SyncData`, `WriteMeta` and
`SyncMeta` are `commit` step by step, each I/O call with a twin that fails.
`PowerLoss` keeps, loses or tears every unsynced page independently,
`ProcessCrash` loses only memory, `Open` is recovery. `GcSweep` frees whatever a
collection did not mark. `Db::gc` marks the pages of data, catalogs and commit
records only, and counts on copying those of the refs tree; what it does not copy
(`left`) is free and still referenced. `RefsRewritten` says that it copies all of
them, which holds with few branches and not with many: run `trees` and run
`refs_seven` are about where the line is.

**BTree.** A tree is a nested value with an `own` flag on each node. A deletion
rewrites pages on the way up and can fail on the way, between siblings of
different kinds; its result therefore carries what the old page reads as by then.
A behaviour ends with the first call that fails: after it, two pages of the tree
may lead to the same child.

**Import.** The rows come from the root page that the plan remembers, the
declaration that lays them out is looked up by name when a table is written.
`Change` is the owner of the source between the two passes: rows and columns
change, a table is dropped, made again elsewhere, swapped with another, replaced
by a view, or its old root page belongs to another table, to nothing or to damage.

**Executor.** `chan`, `pc`, `ready`, `blocked`, `holder`, `conns` are the channel,
the place in `run` and the fields of `State`; an `Instant` is the number of ticks
since it was taken. `told` is what the answers so far tell a client about its
transaction, `promised` the writes some answer called committed. `Recv`, `Drain`,
`Drained`, `Sweep`, `Refill`, `BackToWaiting`, `Grouped`, `Alone`, `Served` and
`Exit` are the steps of the loop; `Submit`, `Close` and `Drop` are other threads.

**Server.** A stream is a sequence of units; a query takes two, so that it can
arrive in pieces. Peers follow scripts. The step of a connection, the turn of a
worker, delivery through the outbox and the wakeup are separate, and the
executor's answers are the environment.

**Rows.** A statement is a function of the database that may fail half way; the
transaction around it throws its writes away. Index entries, postings, corpus
counters and chunk counts are kept exactly as the code keeps them, by difference.

**Cache, Handles, Tokens, Update.** Every call to the file system or to the
shared structure is a step, and anybody may act between two.

## Runs

TLC finishes each within a few minutes. A run may consist of parts that share a
configuration: the first state chooses a part, and a behaviour is about that
part alone.

| Run | Parts | Shows |
|---|---|---|
| `pager` | a crowded file; a long one | whatever a crash keeps, `open` finds a whole commit (`CrashSafe`) and no acknowledged one is lost (`Durable`); free pages are referenced by nothing, where collections copy the whole refs tree (`FreeListsSound`); snapshots keep their pages (`SnapshotsIntact`); the pager is an atomic store (`Implements`) |
| `service` | executor without tokens; with tokens and shutdown; event loop | a parked transaction can be resumed (`HolderExact`); rows are exactly the acknowledged writes (`RowsArePromised`); a request is in one place until its one answer (`OneAnswer`); a client whose transaction was rolled back hears so (`AbortIsTold`); nothing is queued before a token was shown (`AuthGateHolds`); answers reach the asker and nobody else through reused slots (`AnswersReachTheAsker`); `DispatcherContract` |
| `live` | executor; event loop | every request of a connection that stays is answered (`EveryRequestAnswered`), and every statement of a well-behaved peer (`StatementsAreAnswered`) |
| `history` | one thread | branches can be walked to their floors (`WalksAreSafe`); snapshots are commits of their branch (`SnapshotsAreCommits`); branches move forward only (`BranchesMoveForward`); a transaction starts from its branch's head (`TransactionsBuildOnTheirBranch`) |
| `trees` | batch; B-tree; refs tree | kept nodes are their pages (`KeptNodesAgree`); a page is handed out once (`PagesAreHandedOutOnce`); a rollback is exact (`RollbackIsExact`); the tree answers like a map until a deletion fails (`ActsLikeAMap`); committed pages never lead into the open batch (`CommittedTreesAreFrozen`); a collection keeps the refs tree (`RefsSurviveCollection`, up to six branches) |
| `queries` | rows: assets in transactions, queries, full text, joins; typing: six vocabularies | `verify_indexes` and `check_blobs` never complain (`IndexesMatchRows`, `BlobCountsAreExact`); every access path and join strategy answers like the scan (`PlansAreInvisible`); `parse(pretty(ast)) = ast` for both front ends (`RoundTrip`); operators bind as documented and alike in both (`LaddersAgree`) |
| `sharing` | cache; cache with `stats`; handles; tokens; update from a file; update by fetch | snapshots read their commit (`UncountedReads`); acknowledged commits stay, and snapshots keep their pages, in every process (`AcknowledgedStays`, `SnapshotsStay`); a reload accepts what the file held during the call (`ReloadIsCurrent`); a working program is always left (`InstalledWorks`) and what a fetch installed was signed (`FetchedIsSigned`) |
| `sqlite` | log, deep and broad; record; scan; import | what is read is one commit (`ReadsAreOneCommit`); a row decodes to itself or is refused (`DecodeInverts`); a scan of any pages ends in the rows of the tree or an error (`ScanIsTheTree`, `EveryRoundIsProgress`); a successful import has every row of the tables that stayed as planned, and only whole batches otherwise (`ImportIsFaithful`) |

Four runs show a disagreement between the code and what the repository says:

| Run | Property | What happens |
|---|---|---|
| `cache_stats` | `SnapshotReads` | `stats` walks the free list without the writer lock. Overtaken by two commits between its read and its insert, it puts the old bytes of a reused chain page into the cache, where snapshots find them |
| `refs_seven` | `RefsSurviveCollection` | a collection marks no page of the refs tree and rewrites the paths to branches only; with seven branches, two of them dropped, a leaf that holds only `("head")` is freed while the tree refers to it |
| `tree_deletes` | `DeletesSucceed` | a branch with one child left is replaced by that child one level up; an underfull leaf then meets a branch as its sibling, and the deletion of a key the tree holds fails. When a leaf below was rewritten in place before, the key is gone although the call failed |
| `history_merge` | `BranchesMoveForward` | `merge_ff` tests ancestry before it takes the lock; a commit in between drops off the branch |

### Bounds

- `pager`: three commit attempts, enough to write, free and reuse a page. The
  crowded file has six pages, two pages per batch, two parked batches and two
  snapshots. The long one has eight pages and three per batch, and free lists of
  several chain pages, full or not, of which part stays behind a new page.
- `service`: three connections, so that a holder, a writer behind it and a third
  coexist; four requests, batches of two, both deadlines at 0, which lets either
  fire at any sweep. With tokens: eight of the eleven statements, three requests.
  The loop: up to three peers, buffers of one or two units, two events a turn,
  four generations, so that a slot's counter wraps.
- `live`: two connections and four requests. Requests are bounded, so the
  run does not show that a steady stream of newer requests delays nobody.
- `history`: two branches, six transaction ids, retention of one or two.
- `trees`: four pages of which three are listed or in the chain, one chain page
  that is damaged; trees of five keys and up to three levels; real sizes for the
  refs tree, because the question is which keys share a leaf.
- `queries`: at most three rows, two chunks, two blobs, one chunk per commit of an
  upload; `MaxTermLen` 3 cuts long words; integers of four bits reach overflow;
  joins of an int with a float. Statements of any kind up to 4 tokens, of all words
  but those that only matter further inside; 8 tokens of a condition or a clause, 9
  of a list, 6 in SQL beyond a beginning, 14 for column definitions; nothing is
  typed after an error that is not at the end.
- `sharing`: a cache of two slots, below the code's minimum of eight, so that
  eviction happens with few pages; three commits by two processes; `stats` with
  four transaction ids, because its races need two commits.
- `sqlite`: two pages and three transactions, or three pages and two; bytes of
  three bits, so that integers of all six widths stay within TLC's numbers, and
  values on both sides of each edge; trees of four pages with free pointers, pages
  of 512 bytes with 480 usable, payloads of every size to 2000, cells whose head
  ends on, before and behind the last usable byte; imports of three rows in
  batches of two, from a source that changes at most once, before the second pass.

Connections, threads and processes are interchangeable, so the safety runs of
`service` and `sharing` use symmetry; `live` does not. Deadlock is checked in
`pager` and `history`. Elsewhere the system may stop: scripts, statements and
scans end, executors shut down.

### Fairness

`live` assumes weak fairness of the executor's thread, of the clock, of the
worker, of the executor behind the loop and of each peer. The threads are
ordinary threads that wait for work a bounded time (`recv_timeout` with `TICK`,
the poll timeout) and statements are taken to return. Peers are fair because the
property is about peers that go on reading; nothing is assumed of the holder of
a transaction, which may stay silent for ever: the idle deadline lets the others
go on.

## Proofs

Every theorem holds for all values of the constants that satisfy the `ASSUME` of
the component's module; TLC evaluates these on the instances. The theorems that
state a property of a run are marked with it.

| Module | Theorem | Property |
|---|---|---|
| `PagerProofs` | `PagerInductive`, `TypeCorrect` | |
| | `CrashSafety`, `Durability`, `FreeListSafety`, `SnapshotSafety` | `CrashSafe`, `Durable`, `FreeListsSound`, `SnapshotsIntact` |
| `PagerRefinement` | `Refinement` | `Implements` |
| `BatchProofs` | `NodesAreTrue`, `RollbackRestores`, `NoPageIsSharedOut` | `KeptNodesAgree`, `RollbackIsExact`, `PagesAreHandedOutOnce` |
| `CacheProofs` | `MapAndRingAgree`, `SnapshotsReadTheirCommit` | `UncountedReads` |
| `ExecutorProofs` | `ExecutorInductive` | |
| | `ParkedIsResumable`, `PromisesKept`, `NewsIsOwed`, `EveryRequestHasItsPlace` | `HolderExact`, `RowsArePromised`, `AbortIsTold`, `OneAnswer` |
| | `NothingRunsBeforeReady` | `AuthGate` (`AuthGateHolds` on the instance with tokens) |
| `HandlesProofs` | `AcknowledgedCommitsStay`, `SnapshotsKeepTheirPages`, `TheLockKeepsWritersApart` | `AcknowledgedStays`, `SnapshotsStay` |
| `TokensProofs` | `ReloadsAreCurrent`, `AcceptedSetsWereWhole` | `ReloadIsCurrent` |
| `UpdateProofs` | `ThereIsAlwaysAProgram`, `FetchedWasSigned` | `InstalledWorks`, `FetchedIsSigned` |

None of the properties is inductive as it stands. What each argument adds:

**Pager.** `PagerInvariant`: `Building` and `Settling` say which pages a batch may
hold in each phase, so that no page it writes is reached by its base; `WriterInv`
follows the commit between the syncs; `AnchorInv` keeps the current state whole
in its slot, in the cache and on the medium, and the other slot older, torn, or
exactly one ahead and whole; `ReaderInv` keeps snapshots' pages part of the
committed state. `Refinement` maps writing the meta to `Try`, the second sync to
`Confirm`, a crash to `Crash` and everything else to a stutter. All pager
theorems assume `WriteBack`: between the death of a process and a failure of the
machine the kernel writes its cache back; and `RefsRewritten`: a collection copies
every page of the refs tree. Without the second, `FreeListsSound` fails on the
instance of run `pager`. The code guarantees it only while every refs page is on
the path to a branch, so the theorems say nothing of a database with as many
branches as `refs_seven` has.

**Batch.** `UndoCovers`: the undo log has, for every page touched since the
savepoint, what the savepoint found there. `PlacedInv`: a page that was handed
out is behind the cursor of the chain or past the end of the file, and in no
pool; it has to hold of what a rollback would bring back as well, because a
rollback moves the cursor back. The free list is any that satisfies
`ChainIsSound`, which is `FreeListsSound` of the pager.

**Cache.** `Sound`: map and ring name each other. `Reads`: whatever the cache has
for a page of a retained commit, and whatever a reader between its read and its
late insert is about to put there, is what that commit wrote; pages of an open
batch are in no retained commit, so its early inserts harm nobody. This needs
that no thread walks the free list (`Counting = {}`); `cache_stats` shows why.

**Executor.** `ExecutorInvariant`: the client believes in a transaction exactly
when one is parked or the news of its end is owed, and believes the writes in it
are those that are in it (`Agreed`); `RowsArePromised` alone is not inductive,
because whether an answer promises a write depends on that belief. It does not
speak of the queues, so those three properties hold in any order the guards
allow. `QueueInv`: an open connection that waits has its request in exactly one
of `chan`, `ready` and `blocked`, once, and a connection whose end is in the
channel is not open, so that `forget` drops no open connection's request; the
lemmas about `retain` show that keeping some entries of a queue neither doubles
nor loses one. `GateInv`: whoever is authenticated, queued or parked was told
Ready.

**Handles.** `HandlesInv`: as long as no two writers crossed, one slot has every
acknowledged commit in its line, on the medium too, and the other one is older or
has them as well (`Backed`); a handle's meta is the newest in the file or one that
a newer has been written over, and a commit that passed the guard started from the
newest. `PagesInv`: every meta's
commits lie below its page count, and counts grow with txids, so new pages are
behind everything any snapshot reads. `TheLockKeepsWritersApart` shows that where
the lock works and everybody takes it, writers never cross.

**Tokens.** `TimesNameTexts`: while no two changes share a modification time, the
time seen names the text accepted. `AcceptedSetsWereWhole` needs no such
assumption.

**Update.** `UpdateInv`: while an update runs alone, the directory in memory and
the one a power loss leaves both name a working program, the staged file is
synced and tried before it is renamed, and what a process remembers of a release
was signed. `UpdateAssumption` says of the files what the format says: a program
that works is as long as its headers claim. The file system is taken to keep the
order of directory changes across a power loss, not their durability, and the mode
bits of a staged file with its bytes, although they are set after the sync.

### Only model-checked

- `EveryRequestAnswered` and `StatementsAreAnswered`: liveness under fairness is
  out of the prover's reach.
- `BTree`, `RefsTree`, the session, the languages and the SQLite reader and
  import are built on recursive operators over trees and sequences; what they
  compute for every input is an induction over data, which the installed provers
  cannot do.
- `History`, `Server` and `Wal`: the properties are invariants and could be proved;
  they are not yet. `WalksAreSafe` needs the ancestry of commits of any length.
- That the parts fit together as described above (`ChainIsSound` from
  `FreeListsSound`, the executor's contract from `DispatcherContract`) is read off
  the statements, not proved across modules.

## Further disagreements

Met while modelling; the properties named here are in the modules and hold only
under the condition given, or fail on the instance given. They are not among the
runs.

| Property | What happens |
|---|---|
| `CrashSafe` with `WriteBack = FALSE` | `Pager::open` adopts a meta a killed process wrote and never synced; the next batch reuses pages that meta freed, and a power failure that loses the meta leaves the older one with overwritten pages (`core/pager.rs:15-18`) |
| `FreeListsSound` with `RefsRewritten = FALSE` | a page of the refs tree that a collection neither marks nor copies is on the free list and reached by the new meta (`core/freelist.rs:12-13`) |
| `Pager`: `WritesAvoidOlderMetas` | the commit after a collection writes pages that the meta in the other slot still references; `docs/FORMAT.md:214` excludes that for every older meta. The crash argument needs only the newest |
| `Pager`: `GcWritesFreshPages` | the collecting batch reuses pages of the old free list (`core/db.rs:615-617` says it cannot); `settle_freelist` keeps that harmless |
| `Executor`: `BatchingInvisible` | `show stats` is batchable and refused inside a transaction, so it fails when it shares a commit (`service/executor.rs:64`). Two connections, `put` and `stats` |
| `Executor`: `RolledBackInSilence` | the sweep runs before the queue is served, so a holder whose next statement is already there is rolled back as silent (`executor.rs:26`). `Idle = 1` |
| `Executor`: `NobodyWaitsForTheDead` | requests behind `Stop` in the channel are dropped unanswered (`executor.rs:253`); `serve` joins its workers first and does not get there. `Stops = TRUE` |
| `Executor`: `OldestFirst` | after a split `refill` older statements stand behind younger ones in `blocked` (`executor.rs:201`). Four connections, `Busy = 3` |
| `SnapshotsAreCommits` with a reading thread | a snapshot of a database that never branched reads the meta twice; a branch operation in between makes it report a txid that is no commit (`db.rs:321`) |
| `TransactionsBuildOnTheirBranch` with two writers | `begin` reads the branch name before the lock; if the branch is dropped meanwhile, the transaction starts from another one's head (`db.rs:292`) |
| `History`: `OldTimesAreEmpty` | a collection that keeps every commit still sets a floor, after which an earlier time is an error instead of the empty state (`db.rs:519`) |
| `BTree`: `NodesFit` | `finish_leaf` cuts after the entry that passes half; with values of 39, 79 and 128 bytes on pages of 512 the left half can exceed the page (`node.rs:103`) |
| `PlansAreInvisible` with `FloatGets` | `v = 2.0` on an indexed int column is an error, and an answer without the index (`docs/QQL.md:150`) |
| `Rows`: `StrategyNeverChangesTheResult` with `MCErrorGets` | a condition that fails on a right row fails the nested loop; a probe never evaluates it there (`docs/SQL.md:173`) |
| `Rows`: `SuggestionsWouldBeUsed` with `StarGets` | a text index is suggested for a search without words, which would not use it (`plan.rs:66`) |
| `StatementsAreAnswered` with a peer that sends hello, query and the end at once | read together, the hello is answered and the connection closed with the statement unread (`conn.rs:112`) |
| `StatementsAreAnswered` with a peer that sends two queries at once | the answer to the first is flushed after `step` has returned, so `drive` stops with the second in the buffer and nothing wakes the connection again (`worker.rs:194`, "as far as it will go"); `docs/PROTOCOL.md:173-176` asks peers not to |
| `Handles`: `RacesAreRefused` with `Scribes = Procs` | two commits through unlocked handles both read the slot before either writes it, pass the guard and are both acknowledged (`db.rs:91-95`) |
| `SnapshotsStay` without `~setup.collecting` | a collection in the writing process frees pages a reader in another process has pinned (`storage.rs:72`) |
| `ReloadIsCurrent` without `~sameTick`, `~restores` | a change that leaves the modification time alone is never read; a restored file is missed when the text was replaced between the time and the read (`tokens.rs:95`, `executor.rs:314`) |
| `ReadsAreOneCommit` with `Live = TRUE` | SQLite may commit and checkpoint between two page reads, and rows of two commits are read without an error (`quantydb-sqlite/lib.rs:9-12`) |
| `Import`: `ChangesAreCaught` | a source whose tables were dropped, made again or swapped between the passes can be imported without an error, as long as counts and types fit: rows of one table under the declaration of another (`quantydb-import/run.rs:6-8`) |
| `Import`: `FailuresAreForeseen` | the plan compares a value with the key limit, not the encoded key: a text of 502 bytes passes the plan and fails on its row (`run.rs`) |
| `Import`: `OlderRowsTakeTheDefault` | a literal default whose class is not the column's type is dropped, and rows older than the column get null (`docs/IMPORT.md:119`) |
| `InstalledWorks` without `Alone` | two updates share one staged name and one `.old`: one can install the other's unfinished file, or delete the only program left (`update.rs:15`, `:239`) |
| `RoundTrip` with `Tables`, `OfTextTables` | the printer never prints `@text` (`pretty.rs:3`) |
| `RoundTrip` with `Signed`, `OfSigned` | a hex literal with the top bit set is a negative literal, which QQL reads back as a negation or refuses as a default (`docs/DECISIONS.md:206`) |

## Not modelled

- Byte encodings, checksums, hashes and signatures: a checksum is the ability to
  tell a torn page, a signature names its key.
- The lexers, the parser of SQLite's `CREATE` statements, the encoding of messages,
  catalog entries and blob descriptors: sequential text or byte work without state.
- The scoring formula of text search (any function will do) and floating point
  beyond sums on a grid.
- The header on page 1 of a SQLite file as the log overlays it: the log part takes
  a page for its content.
- Terminal, prompts, printing, system call wrappers, the embedded interface and its
  macro, the benchmarks.

The reasons are with each component in `PROJECT.json`.
