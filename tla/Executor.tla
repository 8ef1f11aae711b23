------------------------------ MODULE Executor ------------------------------
(***************************************************************************)
(* The executor thread of quantydb-service (executor.rs, answer.rs): one   *)
(* thread owns the session, connections send it work through a channel,    *)
(* each connection's open transaction is parked between its statements,    *)
(* writers wait behind the connection that holds one, and neighbours in    *)
(* the queue share a commit.                                               *)
(*                                                                         *)
(* What is abstracted.  A statement is its name: one of every class that   *)
(* classify tells apart, and the one kind of batchable statement the       *)
(* session refuses inside a transaction.  The database is the number of    *)
(* its newest commit and the set of writes that are in it; a write is      *)
(* named by the request that asked for it.  A statement or a commit may    *)
(* fail for reasons of its own.  An Instant is the number of clock ticks   *)
(* since it was taken, counted only until the deadline it is compared with *)
(* has passed.                                                             *)
(***************************************************************************)
EXTENDS Naturals, Sequences, FiniteSets

CONSTANTS
    Conns,          \* connections; a ConnId is never used twice
    Statements,     \* the requests clients send
    MaxRequests,    \* bound: requests sent in all
    MaxBatch,       \* MAX_BATCH
    Busy,           \* Deadlines.busy, in ticks
    Idle,           \* Deadlines.idle_in_txn, in ticks
    TokensRequired, \* whether the server was given a token file
    Stops           \* whether the Executor is ever dropped

AllStatements == {"auth", "badauth", "garbled", "get", "put", "stats", "begin",
                  "commit", "rollback", "branch", "log"}

ASSUME ExecutorAssumption ==
    /\ "none" \notin Conns
    /\ Statements \subseteq AllStatements
    /\ MaxRequests \in Nat /\ MaxBatch \in Nat \ {0}
    /\ Busy \in Nat /\ Idle \in Nat
    /\ TokensRequired \in BOOLEAN /\ Stops \in BOOLEAN

\* answer::classify, and Either::Say for what never reaches the engine.
Kind(s) ==
    IF s \in {"auth", "badauth", "garbled"} THEN "Say"
    ELSE IF s = "get" THEN "Reads"
    ELSE IF s = "begin" THEN "Begins"
    ELSE IF s \in {"commit", "rollback"} THEN "Ends"
    ELSE IF s \in {"branch", "log"} THEN "Alone"
    ELSE "Batchable"
-----------------------------------------------------------------------------
VARIABLES
    chan,      \* the mpsc channel: Request, Closed and Stop, oldest first
    pc,        \* where the thread is: recv, drain, sweep, serve, exit, gone
    stop,      \* the local variable of run
    ready,     \* State.ready
    blocked,   \* State.blocked
    holder,    \* State.holder: the connection, or None
    silent,    \* State.holder: ticks since the Instant beside it
    conns,     \* State.conns; a missing entry reads as a fresh one
    db,        \* the database: newest commit and the writes in it
    open,      \* connections that are still there
    asked,     \* requests sent so far
    waiting,   \* connections that have no answer to their request yet
    told,      \* what its answers tell a client that is still there
    promised,  \* writes some answer said are committed
    quiet      \* ticks since the holder's connection last sent anything

clients == <<open, asked, waiting, told, promised>>
queues == <<ready, blocked>>
clock == <<silent, quiet>>
vars == <<chan, pc, stop, queues, holder, clock, conns, db, clients>>

None == "none"
NoTxn == [open |-> FALSE, base |-> 0, writes |-> {}]
Fresh == [authenticated |-> FALSE, parked |-> NoTxn, aborted |-> FALSE]
NotTold == [ready |-> FALSE, txn |-> FALSE, pend |-> {}, refused |-> FALSE]

Init ==
    /\ chan = <<>> /\ pc = "recv" /\ stop = FALSE
    /\ ready = <<>> /\ blocked = <<>>
    /\ holder = None /\ silent = 0 /\ quiet = 0
    /\ conns = [c \in Conns |-> Fresh]
    /\ db = [head |-> 0, rows |-> {}]
    /\ open = Conns
    /\ asked = 0
    /\ waiting = {}
    /\ told = [c \in Conns |-> NotTold]
    /\ promised = {}
-----------------------------------------------------------------------------
(* Answers.  An answer ends the wait of the connection that asked, and     *)
(* its client now knows what it was told.                                  *)

\* Whether the answer `says` to request p means that no transaction is open.
Ends(p, says) ==
    \/ says \in {"aborted", "lost"}
    \/ p.stmt \in {"commit", "rollback"} /\ says \in {"ok", "error"}

\* What a client that believes t makes of `says` in answer to its request p.
Learn(t, p, says) ==
    [ready   |-> t.ready \/ says = "ready",
     txn     |-> ~Ends(p, says) /\ (t.txn \/ (p.stmt = "begin" /\ says = "ok")),
     pend    |-> IF Ends(p, says) THEN {}
                 ELSE t.pend \cup {w \in {p.write} : p.stmt = "put" /\ says = "ok" /\ t.txn},
     refused |-> t.refused \/ (p.stmt = "stats" /\ says = "refused" /\ ~t.txn)]

\* The writes such an answer says are committed.
Promises(t, p, says) ==
    IF says # "ok" THEN {}
    ELSE IF p.stmt = "commit" THEN t.pend
    ELSE {w \in {p.write} : p.stmt = "put" /\ ~t.txn}

\* Job::answer for every request of P; says[p] is what p is told.
Answer(P, says) ==
    /\ waiting' = waiting \ {p.id : p \in P}
    /\ told' = [c \in Conns |->
          IF \E p \in P : p.id = c
          THEN LET p == CHOOSE p \in P : p.id = c IN Learn(told[c], p, says[p])
          ELSE told[c]]
    /\ promised' = promised \cup UNION {Promises(told[p.id], p, says[p]) : p \in P}
    /\ UNCHANGED <<open, asked>>

AnswerOne(p, says) == Answer({p}, [q \in {p} |-> says])
AnswerAll(P, says) == Answer(P, [p \in P |-> says])
-----------------------------------------------------------------------------
(* The session: Session::run_parsed on transaction txn.  Every outcome is  *)
(* what the statement says, the transaction after it, and the database.    *)

Outcome(says, txn, data) == [says |-> says, txn |-> txn, db |-> data]

\* A transaction that began at the newest commit.
Begun(writes) == [open |-> TRUE, base |-> db.head, writes |-> writes]

Committed(writes) == [head |-> db.head + 1, rows |-> db.rows \cup writes]

\* Statement::Commit: nothing written commits nothing; resume refuses a
\* transaction whose base is no longer the newest commit.
RunCommit(txn) ==
    IF txn.writes = {} THEN {Outcome("ok", NoTxn, db)}
    ELSE IF txn.base # db.head THEN {Outcome("lost", NoTxn, db)}
    ELSE {Outcome("ok", NoTxn, Committed(txn.writes)), Outcome("error", NoTxn, db)}

\* run_in_txn: the database level statements are refused, the others resume
\* the transaction; one that fails is undone and leaves it open.
RunInTxn(txn, s, w) ==
    IF s \in {"branch", "log", "stats"} THEN {Outcome("refused", txn, db)}
    ELSE IF txn.base # db.head THEN {Outcome("lost", NoTxn, db)}
    ELSE LET wrote == IF s = "put" THEN [txn EXCEPT !.writes = @ \cup {w}] ELSE txn
         IN  {Outcome("ok", wrote, db), Outcome("error", txn, db)}

\* One statement is one transaction.
RunAutocommit(s, w) ==
    LET data == IF s = "put" THEN Committed({w}) ELSE IF s = "branch" THEN Committed({}) ELSE db
    IN  {Outcome("ok", NoTxn, data), Outcome("error", NoTxn, db)}

run_parsed(txn, s, w) ==
    IF s = "begin"
    THEN IF txn.open THEN {Outcome("error", txn, db)}
         ELSE {Outcome("ok", Begun({}), db)}
    ELSE IF s \in {"commit", "rollback"} /\ ~txn.open THEN {Outcome("error", NoTxn, db)}
    ELSE IF s = "commit" THEN RunCommit(txn)
    ELSE IF s = "rollback" THEN {Outcome("ok", NoTxn, db)}
    ELSE IF txn.open THEN RunInTxn(txn, s, w)
    ELSE RunAutocommit(s, w)

-----------------------------------------------------------------------------
(* Taking work in.                                                         *)

Request(c, s, w) == [work |-> "Request", id |-> c, stmt |-> s, write |-> w, age |-> 0]
Closed(c) == [work |-> "Closed", id |-> c]
Stop == [work |-> "Stop"]

touches_data(p) == Kind(p.stmt) \notin {"Reads", "Say"}

runnable_now(p) == holder \in {None, p.id} \/ ~touches_data(p)

\* Mutant: the token is asked for but not insisted on.
is_authenticatedAlways(c) == TRUE

is_authenticated(c) == ~TokensRequired \/ conns[c].authenticated

\* accept: Auth is answered on the spot, and so is everything else before a
\* token has been shown; the rest is queued.
accept(p) ==
    /\ \/ /\ p.stmt \in {"auth", "badauth"}
          /\ LET accepted == ~TokensRequired \/ p.stmt = "auth"
             IN  /\ conns' = IF accepted THEN [conns EXCEPT ![p.id].authenticated = TRUE] ELSE conns
                 /\ AnswerOne(p, IF accepted THEN "ready" ELSE "authfailed")
          /\ UNCHANGED queues
       \/ /\ p.stmt \notin {"auth", "badauth"} /\ ~is_authenticated(p.id)
          /\ AnswerOne(p, "notauthenticated")
          /\ UNCHANGED <<queues, conns>>
       \/ /\ p.stmt \notin {"auth", "badauth"} /\ is_authenticated(p.id)
          /\ IF runnable_now(p) THEN ready' = Append(ready, p) /\ UNCHANGED blocked
                                ELSE blocked' = Append(blocked, p) /\ UNCHANGED ready
          /\ UNCHANGED <<conns, clients>>
    /\ UNCHANGED <<stop, holder, clock>>

\* retain and partition of std: the entries of q at the places K, in their
\* order.
Rank(K, i) == Cardinality({j \in K : j <= i})
retain(q, K) == [n \in 1..Cardinality(K) |-> q[CHOOSE i \in K : Rank(K, i) = n]]

\* forget: everything held for a connection that is gone.
forget(c) ==
    /\ conns' = [conns EXCEPT ![c] = Fresh]
    /\ ready' = retain(ready, {i \in DOMAIN ready : ready[i].id # c})
    /\ blocked' = retain(blocked, {i \in DOMAIN blocked : blocked[i].id # c})
    /\ holder' = IF holder = c THEN None ELSE holder
    /\ told' = [told EXCEPT ![c] = NotTold]
    /\ UNCHANGED <<stop, clock, open, asked, waiting, promised>>

\* take, on the oldest work of the channel.
take ==
    /\ chan # <<>>
    /\ chan' = Tail(chan)
    /\ LET w == Head(chan)
       IN  \/ w.work = "Request" /\ accept(w)
           \/ w.work = "Closed" /\ forget(w.id)
           \/ w.work = "Stop" /\ stop' = TRUE
                              /\ UNCHANGED <<queues, holder, clock, conns, clients>>
    /\ UNCHANGED db

\* recv_timeout: work, or a tick with nothing to take.
Recv ==
    /\ pc = "recv" /\ pc' = "drain"
    /\ \/ take
       \/ chan = <<>> /\ UNCHANGED <<chan, stop, queues, holder, clock, conns, db, clients>>

\* The rest of what is already waiting joins the turn, up to a full batch.
Drain ==
    /\ pc = "drain" /\ Len(ready) < MaxBatch
    /\ take
    /\ UNCHANGED pc

Drained ==
    /\ pc = "drain" /\ (chan = <<>> \/ Len(ready) >= MaxBatch)
    /\ pc' = "sweep"
    /\ UNCHANGED <<chan, stop, queues, holder, clock, conns, db, clients>>
-----------------------------------------------------------------------------
(* The deadlines.                                                          *)

IdleExpired == holder # None /\ silent > Idle

\* Mutant: the rolled back transaction is not recorded for its owner.
RollBackIdleSilently ==
    IF IdleExpired
    THEN /\ conns' = [conns EXCEPT ![holder].parked = NoTxn]
         /\ holder' = None
    ELSE UNCHANGED <<conns, holder>>

\* Dropping the parked transaction of a silent holder is its rollback.
RollBackIdle ==
    IF IdleExpired
    THEN /\ conns' = [conns EXCEPT ![holder].parked = NoTxn, ![holder].aborted = TRUE]
         /\ holder' = None
    ELSE UNCHANGED <<conns, holder>>

\* What has waited for the writer too long.
Late == {blocked[i] : i \in {j \in DOMAIN blocked : blocked[j].age > Busy}}

\* Mutant: a refused statement stays in the queue.
RefuseLateKeeping ==
    IF holder' = None THEN UNCHANGED <<blocked, clients>>
    ELSE /\ UNCHANGED blocked
         /\ AnswerAll(Late, "busy")

\* While somebody still holds the queue, statements past the deadline are
\* refused.
RefuseLate ==
    IF holder' = None THEN UNCHANGED <<blocked, clients>>
    ELSE /\ blocked' = retain(blocked, {i \in DOMAIN blocked : blocked[i].age <= Busy})
         /\ AnswerAll(Late, "busy")

Sweep ==
    /\ pc = "sweep" /\ pc' = "serve"
    /\ RollBackIdle
    /\ RefuseLate
    /\ UNCHANGED <<chan, stop, ready, clock, db>>
-----------------------------------------------------------------------------
(* serve: one turn of its loop at a time.                                  *)

\* refill: once nothing holds the queue, what was blocked becomes ready.
Refill ==
    /\ pc = "serve" /\ ready = <<>> /\ holder = None /\ blocked # <<>>
    /\ LET n == IF Len(blocked) < MaxBatch THEN Len(blocked) ELSE MaxBatch
       IN  /\ ready' = SubSeq(blocked, 1, n)
           /\ blocked' = SubSeq(blocked, n + 1, Len(blocked))
    /\ UNCHANGED <<chan, pc, stop, holder, clock, conns, db, clients>>

\* Mutant: the turn ends without a look at what was blocked.
ServedEarly ==
    /\ pc = "serve" /\ ready = <<>>
    /\ pc' = IF stop THEN "exit" ELSE "recv"
    /\ UNCHANGED <<chan, stop, queues, holder, clock, conns, db, clients>>

Served ==
    /\ pc = "serve" /\ ready = <<>> /\ (holder # None \/ blocked = <<>>)
    /\ pc' = IF stop THEN "exit" ELSE "recv"
    /\ UNCHANGED <<chan, stop, queues, holder, clock, conns, db, clients>>

\* The front of the queue has to wait after all.
BackToWaiting ==
    /\ pc = "serve" /\ ready # <<>> /\ ~runnable_now(Head(ready))
    /\ ready' = Tail(ready)
    /\ blocked' = Append(blocked, Head(ready))
    /\ UNCHANGED <<chan, pc, stop, holder, clock, conns, db, clients>>

\* Mutant: a connection whose transaction was rolled back may share a commit.
SharableAborted(p) ==
    /\ Kind(p.stmt) = "Batchable"
    /\ \E c \in Conns : p.id = c /\ ~conns[c].parked.open

\* A statement that needs no commit of its own, from a connection with no
\* transaction and no bad news waiting.
Sharable(p) ==
    /\ Kind(p.stmt) = "Batchable"
    /\ \E c \in Conns : p.id = c /\ ~conns[c].parked.open /\ ~conns[c].aborted

\* next_batch: n statements at the front may share a commit, and no more.
next_batch(n) ==
    IF holder # None THEN n = 0
    ELSE /\ n \in 0..Len(ready) /\ n <= MaxBatch
         /\ \A i \in 1..n : Sharable(ready[i])
         /\ n < Len(ready) /\ n < MaxBatch => ~Sharable(ready[n + 1])

\* grouped: begin, every statement behind a savepoint of its own, commit, and
\* only then the answers.
grouped(n) ==
    LET group == {ready[i] : i \in 1..n}
    IN  \E says \in [group -> {"ok", "error", "refused"}] :
        /\ \A p \in group : \E o \in run_parsed(Begun({}), p.stmt, p.write) : says[p] = o.says
        /\ LET wrote == {p.write : p \in {q \in group : q.stmt = "put" /\ says[q] = "ok"}}
           IN  \E o \in RunCommit(Begun(wrote)) :
               /\ db' = o.db
               /\ IF o.says = "ok" THEN Answer(group, says) ELSE AnswerAll(group, "error")

Grouped ==
    /\ pc = "serve" /\ ready # <<>> /\ runnable_now(Head(ready))
    /\ \E n \in 2..Len(ready) :
          /\ next_batch(n)
          /\ grouped(n)
          /\ ready' = SubSeq(ready, n + 1, Len(ready))
    /\ UNCHANGED <<chan, pc, stop, blocked, holder, clock, conns>>

\* Mutant: any statement that leaves no transaction open clears the holder.
HolderAfterNaive(c, txn) == IF txn.open THEN c ELSE None

\* Only the connection's own transaction moves the holder.
HolderAfter(c, txn) ==
    IF txn.open THEN c ELSE IF holder = c THEN None ELSE holder

\* alone: one statement with the connection's own transaction attached, or
\* the news that it is gone.
alone(c, p) ==
    \/ /\ conns[c].aborted
       /\ conns' = [conns EXCEPT ![c].aborted = FALSE]
       /\ AnswerOne(p, "aborted")
       /\ UNCHANGED <<holder, clock, db>>
    \/ /\ ~conns[c].aborted
       /\ \E o \in IF Kind(p.stmt) = "Say" THEN {Outcome("parse", conns[c].parked, db)}
                   ELSE run_parsed(conns[c].parked, p.stmt, p.write) :
             /\ conns' = [conns EXCEPT ![c].parked = o.txn]
             /\ holder' = HolderAfter(c, o.txn)
             /\ silent' = IF o.txn.open THEN 0 ELSE silent
             /\ quiet' = IF o.txn.open THEN 0 ELSE quiet
             /\ db' = o.db
             /\ AnswerOne(p, o.says)

Alone ==
    /\ pc = "serve" /\ ready # <<>> /\ runnable_now(Head(ready))
    /\ \E n \in {0, 1} : next_batch(n)
    /\ \E c \in Conns : Head(ready).id = c /\ alone(c, Head(ready))
    /\ ready' = Tail(ready)
    /\ UNCHANGED <<chan, pc, stop, blocked>>

\* After Stop: what is still queued is told so, and the thread ends.
Exit ==
    /\ pc = "exit" /\ pc' = "gone"
    /\ AnswerAll({ready[i] : i \in DOMAIN ready} \cup {blocked[i] : i \in DOMAIN blocked}, "shutdown")
    /\ ready' = <<>> /\ blocked' = <<>>
    /\ UNCHANGED <<chan, stop, holder, clock, conns, db>>
-----------------------------------------------------------------------------
(* The workers and the clock.                                              *)

\* Handle::submit, on behalf of a connection that is not waiting already.
Submit(c, s) ==
    /\ c \in open \ waiting /\ asked < MaxRequests
    /\ asked' = asked + 1
    /\ \/ /\ pc # "gone"
          /\ chan' = Append(chan, Request(c, s, asked'))
          /\ waiting' = waiting \cup {c}
          /\ quiet' = IF holder = c THEN 0 ELSE quiet
       \/ /\ pc = "gone"
          /\ UNCHANGED <<chan, waiting, quiet>>
    /\ UNCHANGED <<pc, stop, queues, holder, silent, conns, db, open, told, promised>>

\* Handle::closed.
Close(c) ==
    /\ c \in open
    /\ open' = open \ {c}
    /\ chan' = IF pc = "gone" THEN chan ELSE Append(chan, Closed(c))
    /\ UNCHANGED <<pc, stop, queues, holder, clock, conns, db, asked, waiting, told, promised>>

\* The Executor is dropped: it sends Stop and waits for the thread.
Drop ==
    /\ Stops /\ pc # "gone" /\ ~stop
    /\ \A i \in DOMAIN chan : chan[i].work # "Stop"
    /\ chan' = Append(chan, Stop)
    /\ UNCHANGED <<pc, stop, queues, holder, clock, conns, db, clients>>

Older(n, limit) == IF n > limit THEN n ELSE n + 1
Aged(q) == [i \in DOMAIN q |-> [q[i] EXCEPT !.age = Older(@, Busy)]]

\* Time passes, while statements run and between them.
Tick ==
    /\ pc # "gone"
    /\ ready' = Aged(ready) /\ blocked' = Aged(blocked)
    /\ silent' = IF holder = None THEN 0 ELSE Older(silent, Idle)
    /\ quiet' = IF holder = None THEN 0 ELSE Older(quiet, Idle)
    /\ <<ready, blocked, clock>>' # <<ready, blocked, clock>>
    /\ UNCHANGED <<chan, pc, stop, holder, conns, db, clients>>
-----------------------------------------------------------------------------
Thread ==
    \/ Recv \/ Drain \/ Drained \/ Sweep
    \/ Refill \/ Served \/ BackToWaiting \/ Grouped \/ Alone \/ Exit

Client == \E c \in Conns : Close(c) \/ \E s \in Statements : Submit(c, s)

Next == Thread \/ Client \/ Drop \/ Tick

Spec == Init /\ [][Next]_vars

\* The thread is scheduled and time passes; clients owe nobody anything.
FairSpec == Spec /\ WF_vars(Thread) /\ WF_vars(Tick)
-----------------------------------------------------------------------------
(* Properties.                                                             *)

Pending == [work : {"Request"}, id : Conns, stmt : AllStatements, write : Nat, age : 0..Busy + 1]
Transactions == [open : BOOLEAN, base : Nat, writes : SUBSET Nat]
Works == Pending \cup [work : {"Closed"}, id : Conns] \cup {Stop}

\* The types of the executor's fields; a turn never takes in more than a batch.
TypeOK ==
    /\ chan \in Seq(Works)
    /\ pc \in {"recv", "drain", "sweep", "serve", "exit", "gone"}
    /\ stop \in BOOLEAN
    /\ ready \in Seq(Pending) /\ blocked \in Seq(Pending)
    /\ Len(ready) <= MaxBatch
    /\ holder \in Conns \cup {None}
    /\ silent \in 0..Idle + 1 /\ quiet \in 0..Idle + 1
    /\ conns \in [Conns -> [authenticated : BOOLEAN, parked : Transactions, aborted : BOOLEAN]]
    /\ db \in [head : Nat, rows : SUBSET Nat]
    /\ open \subseteq Conns
    /\ asked \in Nat
    /\ waiting \subseteq Conns
    /\ told \in [Conns -> [ready : BOOLEAN, txn : BOOLEAN, pend : SUBSET Nat, refused : BOOLEAN]]
    /\ promised \subseteq Nat

\* A transaction is parked for exactly the connection that holds the queue,
\* and nobody has committed since it began: resuming it never fails, however
\* many reads went past it (executor.rs:510-513).
HolderExact ==
    \A c \in Conns :
       /\ conns[c].parked.open <=> holder = c
       /\ conns[c].parked.open => conns[c].parked.base = db.head

\* The rows in the database are exactly the writes some answer promised:
\* no write is lost after it was acknowledged, none is committed for a client
\* that believes it is inside a transaction or was told the write failed.
RowsArePromised == db.rows = promised

\* Where the request of connection c is.
Places(c) ==
    {<<"chan", i>> : i \in {j \in DOMAIN chan : chan[j].work = "Request" /\ chan[j].id = c}}
    \cup {<<"ready", i>> : i \in {j \in DOMAIN ready : ready[j].id = c}}
    \cup {<<"blocked", i>> : i \in {j \in DOMAIN blocked : blocked[j].id = c}}

\* Every request gets one answer: one that is unanswered sits in exactly one
\* queue until then, and one that is answered in none.
OneAnswer ==
    pc # "gone" => \A c \in open : Cardinality(Places(c)) = IF c \in waiting THEN 1 ELSE 0

\* A transaction is rolled back as idle, and that is kept until its owner has
\* been told: a client that was told its transaction is open finds it open,
\* or hears that it is gone, before anything else of its runs.
AbortIsTold ==
    \A c \in Conns : told[c].txn => conns[c].parked.open \/ conns[c].aborted

\* A server with a token file runs nothing for a connection it has not said
\* Ready to: no statement of it is queued and it holds no transaction.
AuthGate ==
    \A c \in Conns : TokensRequired /\ ~told[c].ready =>
       /\ \A i \in DOMAIN ready : ready[i].id # c
       /\ \A i \in DOMAIN blocked : blocked[i].id # c
       /\ ~conns[c].parked.open

\* Every request of a connection that stays is answered: run, refused after
\* the busy deadline, or refused at shutdown.
EveryRequestAnswered ==
    \A c \in Conns : c \in waiting ~> c \notin waiting \/ c \notin open

\* "Blocked behind the open transaction, oldest first" (executor.rs:201).
OldestFirst ==
    \A i, j \in DOMAIN blocked : i < j => blocked[i].age >= blocked[j].age

\* "the same statements produce the same answers whether they shared a commit
\* or not" (executor.rs:64-65): nobody outside a transaction is told that the
\* statement cannot run inside one.
BatchingInvisible == \A c \in Conns : ~told[c].refused

\* "How long a connection may hold an open transaction in silence"
\* (executor.rs:26): only a connection that sent nothing for the whole
\* interval loses its transaction.
RolledBackInSilence ==
    [][\A c \in Conns : ~conns[c].aborted /\ conns'[c].aborted => quiet > Idle]_vars

\* "Say so rather than leaving a connection parked on an answer that will
\* never come" (executor.rs:145-146): nobody waits for a thread that is gone.
NobodyWaitsForTheDead ==
    pc = "gone" => open \cap waiting = {}
=============================================================================
