--------------------------- MODULE ExecutorProofs ---------------------------
(***************************************************************************)
(* The executor's safety properties for any connections, batch size and   *)
(* deadlines.                                                              *)
(*                                                                         *)
(* HolderExact, RowsArePromised and AbortIsTold follow from                *)
(* ExecutorInvariant: for every connection, what its answers told its      *)
(* client and what the executor keeps for it agree.  It does not speak of  *)
(* the queues, so the three hold in whatever order the guards let          *)
(* statements run.  OneAnswer follows from QueueInv, which says where the  *)
(* request of every open connection is, and AuthGate from both and         *)
(* GateInv.                                                                *)
(***************************************************************************)
EXTENDS Executor, FiniteSetTheorems, TLAPS

\* conns and told are functions on the connections, and their entries of
\* conns have the fields of ConnState and Open.
Shape ==
    /\ conns = [c \in Conns |-> conns[c]]
    /\ told = [c \in Conns |-> told[c]]
    /\ \A c \in Conns :
          /\ conns[c] = [authenticated |-> conns[c].authenticated,
                         parked |-> conns[c].parked, aborted |-> conns[c].aborted]
          /\ conns[c].parked = [open |-> conns[c].parked.open, base |-> conns[c].parked.base,
                                writes |-> conns[c].parked.writes]
          /\ conns[c].parked.open \in BOOLEAN /\ conns[c].aborted \in BOOLEAN
          /\ told[c].txn \in BOOLEAN

\* What the client of c was told is what the executor keeps for it.
Agreed(c) ==
    /\ told[c].txn <=> conns[c].parked.open \/ conns[c].aborted
    /\ conns[c].parked.open => ~conns[c].aborted /\ told[c].pend = conns[c].parked.writes
    /\ ~told[c].txn => told[c].pend = {}

\* The inductive invariant.
ExecutorInvariant ==
    /\ Shape
    /\ holder \in Conns \cup {None}
    /\ HolderExact
    /\ \A c \in Conns : Agreed(c)
    /\ RowsArePromised

-----------------------------------------------------------------------------
(* Answers.                                                                *)

\* An answer that neither ends a transaction nor reports a statement as done
\* changes nothing a client believes about its transaction.
Harmless == {"ready", "authfailed", "notauthenticated", "busy", "shutdown", "parse", "refused"}

LEMMA LearnHarmless ==
    ASSUME NEW t, NEW p, NEW says \in Harmless, t.txn \in BOOLEAN
    PROVE  /\ Learn(t, p, says).txn = t.txn
           /\ Learn(t, p, says).pend = t.pend
           /\ Promises(t, p, says) = {}
BY Zenon DEF Learn, Promises, Harmless, Ends

\* Answering any number of requests with such an answer promises nothing.
LEMMA AnswerHarmless ==
    ASSUME NEW P, NEW says \in Harmless, Shape, AnswerAll(P, says)
    PROVE  /\ promised' = promised
           /\ told' = [c \in Conns |-> told'[c]]
           /\ \A c \in Conns :
                 /\ told'[c].txn = told[c].txn /\ told'[c].pend = told[c].pend
<1>1. promised' = promised
  <2>1. \A p \in P : Promises(told[p.id], p, says) = {}
    BY DEF Promises, Harmless
  <2>2. \A p \in P : [q \in P |-> says][p] = says
    OBVIOUS
  <2>3. promised' = promised \cup UNION {Promises(told[p.id], p, says) : p \in P}
    BY <2>2 DEF AnswerAll, Answer
  <2> QED BY <2>1, <2>3
<1>2. told' = [c \in Conns |->
          IF \E p \in P : p.id = c
          THEN Learn(told[c], CHOOSE p \in P : p.id = c, says)
          ELSE told[c]]
  <2>1. ASSUME NEW c, \E p \in P : p.id = c
        PROVE  [q \in P |-> says][CHOOSE p \in P : p.id = c] = says
    BY <2>1
  <2> QED BY <2>1 DEF AnswerAll, Answer
<1>3. ASSUME NEW c \in Conns
      PROVE  told'[c].txn = told[c].txn /\ told'[c].pend = told[c].pend
  <2>1. told[c].txn \in BOOLEAN
    BY Zenon DEF Shape
  <2>2. CASE \E p \in P : p.id = c
    <3> DEFINE p == CHOOSE p \in P : p.id = c
    <3>1. told'[c] = Learn(told[c], p, says)
      BY <1>2, <2>2
    <3> HIDE DEF p
    <3> QED BY <3>1, <2>1, LearnHarmless
  <2>3. CASE ~ \E p \in P : p.id = c
    BY <2>3, <1>2, <2>1
  <2> QED BY <2>2, <2>3
<1> QED BY <1>1, <1>2, <1>3

\* One answer is learnt by the connection that asked and by nobody else.
LEMMA AnswerOneLearnt ==
    ASSUME NEW p, NEW says, Shape, p.id \in Conns, AnswerOne(p, says)
    PROVE  /\ told' = [told EXCEPT ![p.id] = Learn(told[p.id], p, says)]
           /\ promised' = promised \cup Promises(told[p.id], p, says)
<1>1. promised' = promised \cup Promises(told[p.id], p, says)
  BY DEF AnswerOne, Answer
<1>2. \A c \in Conns : (\E q \in {p} : q.id = c) <=> c = p.id
  OBVIOUS
<1>3. (CHOOSE q \in {p} : q.id = p.id) = p
  OBVIOUS
<1>4. ASSUME NEW c \in Conns
      PROVE  told'[c] = IF c = p.id THEN Learn(told[p.id], p, says) ELSE told[c]
  BY <1>2, <1>3 DEF AnswerOne, Answer
<1>5. told' = [c \in Conns |-> told'[c]]
  BY DEF AnswerOne, Answer
<1> QED BY <1>1, <1>4, <1>5 DEF Shape

-----------------------------------------------------------------------------
(* Running a statement.                                                    *)

\* The outcomes o of statement s on transaction x, one by one: what it says,
\* the transaction after it, and the database.
OneOf(o, x, s, w) ==
    \/ /\ s = "begin" /\ x.open /\ o.says = "error" /\ o.txn = x /\ o.db = db
    \/ /\ s = "begin" /\ ~x.open /\ o.says = "ok" /\ o.txn = Begun({}) /\ o.db = db
    \/ /\ s \in {"commit", "rollback"} /\ ~x.open
       /\ o.says = "error" /\ o.txn = NoTxn /\ o.db = db
    \/ /\ s = "commit" /\ x.open /\ o.says = "ok" /\ o.txn = NoTxn
       /\ o.db.rows = db.rows \cup x.writes
    \/ /\ s = "commit" /\ x.open /\ o.says = "error" /\ o.txn = NoTxn /\ o.db = db
    \/ /\ s = "rollback" /\ x.open /\ o.says = "ok" /\ o.txn = NoTxn /\ o.db = db
    \/ /\ s \notin {"begin", "commit", "rollback", "put"} /\ x.open
       /\ o.says \in {"ok", "error", "refused"} /\ o.txn = x /\ o.db = db
    \/ /\ s = "put" /\ x.open /\ o.says = "ok" /\ o.db = db
       /\ o.txn = [x EXCEPT !.writes = @ \cup {w}]
    \/ /\ s = "put" /\ x.open /\ o.says = "error" /\ o.txn = x /\ o.db = db
    \/ /\ s \notin {"begin", "commit", "rollback"} /\ ~x.open
       /\ o.says = "error" /\ o.txn = NoTxn /\ o.db = db
    \/ /\ s = "put" /\ ~x.open /\ o.says = "ok" /\ o.txn = NoTxn
       /\ o.db.rows = db.rows \cup {w}
    \/ /\ s = "branch" /\ ~x.open /\ o.says = "ok" /\ o.txn = NoTxn
       /\ o.db.rows = db.rows
    \/ /\ s \notin {"begin", "commit", "rollback", "put", "branch"} /\ ~x.open
       /\ o.says = "ok" /\ o.txn = NoTxn /\ o.db = db

\* run_parsed has no other outcomes.
LEMMA Outcomes ==
    ASSUME NEW x, NEW s, NEW w, NEW o \in run_parsed(x, s, w),
           x.open \in BOOLEAN, x.open => x.base = db.head
    PROVE  OneOf(o, x, s, w)
<1>1. CASE s = "begin"
  BY <1>1 DEF run_parsed, Outcome, OneOf
<1>2. CASE s \in {"commit", "rollback"} /\ ~x.open
  BY <1>2 DEF run_parsed, Outcome, OneOf
<1>3. CASE s = "commit" /\ x.open
  <2>1. o \in RunCommit(x)
    BY <1>3 DEF run_parsed
  <2>2. o.says \in {"ok", "error"} /\ o.txn = NoTxn
    BY <2>1, <1>3 DEF RunCommit, Outcome
  <2>3. o.says = "ok" => o.db.rows = db.rows \cup x.writes
    BY <2>1, <1>3 DEF RunCommit, Outcome, Committed
  <2>4. o.says = "error" => o.db = db
    BY <2>1, <1>3 DEF RunCommit, Outcome
  <2> QED BY <1>3, <2>2, <2>3, <2>4 DEF OneOf
<1>4. CASE s = "rollback" /\ x.open
  BY <1>4 DEF run_parsed, Outcome, OneOf
<1>5. CASE s \notin {"begin", "commit", "rollback"} /\ x.open
  BY <1>5 DEF run_parsed, RunInTxn, Outcome, OneOf
<1>6. CASE s \notin {"begin", "commit", "rollback"} /\ ~x.open
  BY <1>6 DEF run_parsed, RunAutocommit, Committed, Outcome, OneOf
<1> QED BY <1>1, <1>2, <1>3, <1>4, <1>5, <1>6

\* A client that believes t and the transaction x parked for it agree.
Matches(t, x) ==
    /\ x = [open |-> x.open, base |-> x.base, writes |-> x.writes]
    /\ x.open \in BOOLEAN /\ t.txn \in BOOLEAN
    /\ t.txn <=> x.open
    /\ x.open => x.base = db.head /\ t.pend = x.writes
    /\ ~t.txn => t.pend = {}

\* After outcome o of request p on transaction x they agree again: on whether
\* a transaction is open, on what is in it and on what has been committed.  A
\* statement that touches no data commits nothing.
Accounted(o, t, x, p) ==
    /\ o.txn = [open |-> o.txn.open, base |-> o.txn.base, writes |-> o.txn.writes]
    /\ o.txn.open \in BOOLEAN
    /\ Learn(t, p, o.says).txn <=> o.txn.open
    /\ o.txn.open => /\ o.txn.base = db.head /\ o.db = db
                     /\ Learn(t, p, o.says).pend = o.txn.writes
    /\ ~o.txn.open => Learn(t, p, o.says).pend = {}
    /\ o.db.rows = db.rows \cup Promises(t, p, o.says)
    /\ o.txn.open => x.open \/ Kind(p.stmt) = "Begins"
    /\ Kind(p.stmt) \in {"Reads", "Say"} => o.db = db

\* Every statement the session runs is accounted for.
LEMMA RunAgrees ==
    ASSUME NEW t, NEW x, NEW p, NEW o \in run_parsed(x, p.stmt, p.write),
           Kind(p.stmt) # "Say", Matches(t, x)
    PROVE  Accounted(o, t, x, p)
<1> USE DEF Matches
<1>1. OneOf(o, x, p.stmt, p.write)
  BY Outcomes
<1>2. /\ o.txn = [open |-> o.txn.open, base |-> o.txn.base, writes |-> o.txn.writes]
      /\ o.txn.open \in BOOLEAN
  <2>1. CASE o.txn = x
    BY <2>1
  <2>2. CASE o.txn = NoTxn
    BY <2>2 DEF NoTxn
  <2>3. CASE o.txn = Begun({})
    BY <2>3 DEF Begun
  <2>4. CASE o.txn = [x EXCEPT !.writes = @ \cup {p.write}]
    BY <2>4
  <2> QED BY <1>1, <2>1, <2>2, <2>3, <2>4 DEF OneOf
<1>3. o.txn.open => o.txn.base = db.head /\ o.db = db
  BY <1>1 DEF OneOf, NoTxn, Begun
<1>4. Learn(t, p, o.says).txn <=> ~Ends(p, o.says) /\ (t.txn \/ (p.stmt = "begin" /\ o.says = "ok"))
  BY Zenon DEF Learn
<1>5. Learn(t, p, o.says).txn <=> o.txn.open
  BY <1>1, <1>4 DEF OneOf, NoTxn, Begun, Ends
<1>6. Learn(t, p, o.says).pend =
         IF Ends(p, o.says) THEN {}
         ELSE t.pend \cup {w \in {p.write} : p.stmt = "put" /\ o.says = "ok" /\ t.txn}
  BY DEF Learn
<1>7. o.txn.open => Learn(t, p, o.says).pend = o.txn.writes
  <2>1. CASE p.stmt = "put" /\ x.open
    BY <2>1, <1>1, <1>6 DEF OneOf, NoTxn, Begun, Ends
  <2>2. CASE ~(p.stmt = "put" /\ x.open)
    BY <2>2, <1>1, <1>6 DEF OneOf, NoTxn, Begun, Ends
  <2> QED BY <2>1, <2>2
<1>8. ~o.txn.open => Learn(t, p, o.says).pend = {}
  BY <1>1, <1>6 DEF OneOf, NoTxn, Begun, Ends
<1>9. o.db.rows = db.rows \cup Promises(t, p, o.says)
  BY <1>1 DEF OneOf, NoTxn, Begun, Promises
<1>10. o.txn.open => x.open \/ Kind(p.stmt) = "Begins"
  BY <1>1 DEF OneOf, NoTxn, Begun, Kind
<1>11. Kind(p.stmt) \in {"Reads", "Say"} => o.db = db
  BY <1>1 DEF OneOf, Kind
<1> QED BY <1>2, <1>3, <1>5, <1>7, <1>8, <1>9, <1>10, <1>11 DEF Accounted
-----------------------------------------------------------------------------
(* Steps.                                                                  *)

\* Changing one field of a connection's entry leaves the others.
LEMMA EntryFields ==
    ASSUME NEW r, NEW v,
           r = [authenticated |-> r.authenticated, parked |-> r.parked, aborted |-> r.aborted]
    PROVE  /\ [r EXCEPT !.authenticated = v] =
                [authenticated |-> v, parked |-> r.parked, aborted |-> r.aborted]
           /\ [r EXCEPT !.parked = v] =
                [authenticated |-> r.authenticated, parked |-> v, aborted |-> r.aborted]
           /\ [r EXCEPT !.aborted = v] =
                [authenticated |-> r.authenticated, parked |-> r.parked, aborted |-> v]
OBVIOUS

\* The rollback of an idle transaction changes two fields of its owner.
LEMMA RolledBack ==
    ASSUME Shape, NEW h \in Conns,
           conns' = [conns EXCEPT ![h].parked = NoTxn, ![h].aborted = TRUE]
    PROVE  conns' = [c \in Conns |->
                       IF c = h THEN [authenticated |-> conns[h].authenticated,
                                      parked |-> NoTxn, aborted |-> TRUE]
                       ELSE conns[c]]
<1>1. conns' = [c \in Conns |->
                  IF c = h THEN [[conns[h] EXCEPT !.parked = NoTxn] EXCEPT !.aborted = TRUE]
                  ELSE conns[c]]
  BY DEF Shape
<1>2. conns[h] = [authenticated |-> conns[h].authenticated,
                  parked |-> conns[h].parked, aborted |-> conns[h].aborted]
  BY Zenon DEF Shape
<1>3. [conns[h] EXCEPT !.parked = NoTxn] =
         [authenticated |-> conns[h].authenticated, parked |-> NoTxn, aborted |-> conns[h].aborted]
  BY Zenon, <1>2, EntryFields
<1> DEFINE r == [conns[h] EXCEPT !.parked = NoTxn]
<1>4. conns' = [c \in Conns |-> IF c = h THEN [r EXCEPT !.aborted = TRUE] ELSE conns[c]]
  BY Zenon, <1>1
<1>5. /\ r = [authenticated |-> r.authenticated, parked |-> r.parked, aborted |-> r.aborted]
      /\ r.authenticated = conns[h].authenticated /\ r.parked = NoTxn
  BY <1>3
<1> HIDE DEF r
<1>6. [r EXCEPT !.aborted = TRUE] =
         [authenticated |-> conns[h].authenticated, parked |-> NoTxn, aborted |-> TRUE]
  BY ZenonT(60), <1>5, EntryFields
<1> QED BY Zenon, <1>4, <1>6

\* The invariant reads of conns only parked and aborted, and of told only txn
\* and pend: a step that leaves these alone preserves it.
LEMMA NothingMoved ==
    ASSUME ExecutorInvariant,
           holder' = holder, db' = db, promised' = promised,
           conns' = [c \in Conns |-> conns'[c]], told' = [c \in Conns |-> told'[c]],
           \A c \in Conns :
              /\ conns'[c] = [authenticated |-> conns'[c].authenticated,
                              parked |-> conns'[c].parked, aborted |-> conns'[c].aborted]
              /\ conns'[c].parked = conns[c].parked /\ conns'[c].aborted = conns[c].aborted
              /\ told'[c].txn = told[c].txn /\ told'[c].pend = told[c].pend
    PROVE  ExecutorInvariant'
<1>1. Shape'
  BY DEF ExecutorInvariant, Shape
<1>2. HolderExact'
  BY DEF ExecutorInvariant, HolderExact
<1>3. ASSUME NEW c \in Conns PROVE Agreed(c)'
  <2>1. Agreed(c)
    BY DEF ExecutorInvariant
  <2> QED BY <2>1 DEF Agreed
<1>4. RowsArePromised' /\ holder' \in Conns \cup {None}
  BY DEF ExecutorInvariant, RowsArePromised, None
<1> QED BY <1>1, <1>2, <1>3, <1>4 DEF ExecutorInvariant

\* A step that only answers harmlessly.
LEMMA HarmlessStep ==
    ASSUME ExecutorInvariant, UNCHANGED <<conns, holder, db>>,
           NEW P, NEW says \in Harmless, AnswerAll(P, says)
    PROVE  ExecutorInvariant'
<1>1. Shape
  BY DEF ExecutorInvariant
<1>2. /\ promised' = promised
      /\ told' = [c \in Conns |-> told'[c]]
      /\ \A c \in Conns : told'[c].txn = told[c].txn /\ told'[c].pend = told[c].pend
  BY <1>1, AnswerHarmless
<1> QED BY Zenon, <1>1, <1>2, NothingMoved DEF Shape

\* A step that touches none of it.
LEMMA Untouched ==
    ASSUME ExecutorInvariant, UNCHANGED <<conns, told, holder, db, promised>>
    PROVE  ExecutorInvariant'
BY Zenon, NothingMoved DEF ExecutorInvariant, Shape

\* accept: what it answers on the spot is harmless, and a token only sets
\* authenticated.
LEMMA AcceptStep ==
    ASSUME ExecutorInvariant, NEW p, accept(p), UNCHANGED db
    PROVE  ExecutorInvariant'
<1> USE DEF queues, clients
<1>1. CASE p.stmt \in {"auth", "badauth"}
  <2> DEFINE accepted == ~TokensRequired \/ p.stmt = "auth"
             says == IF accepted THEN "ready" ELSE "authfailed"
  <2>1. /\ conns' = IF accepted THEN [conns EXCEPT ![p.id].authenticated = TRUE] ELSE conns
        /\ AnswerOne(p, says)
        /\ holder' = holder
    BY <1>1 DEF accept
  <2>2. says \in Harmless /\ AnswerAll({p}, says)
    BY <2>1 DEF Harmless, AnswerOne, AnswerAll
  <2> HIDE DEF accepted, says
  <2>3. Shape
    BY DEF ExecutorInvariant
  <2>4. /\ promised' = promised
        /\ told' = [c \in Conns |-> told'[c]]
        /\ \A c \in Conns : told'[c].txn = told[c].txn /\ told'[c].pend = told[c].pend
    BY <2>2, <2>3, AnswerHarmless
  <2>5. /\ conns' = [c \in Conns |-> conns'[c]]
        /\ \A c \in Conns :
              /\ conns'[c] = [authenticated |-> conns'[c].authenticated,
                              parked |-> conns'[c].parked, aborted |-> conns'[c].aborted]
              /\ conns'[c].parked = conns[c].parked /\ conns'[c].aborted = conns[c].aborted
    <3>1. CASE ~accepted
      BY Zenon, <3>1, <2>1, <2>3 DEF Shape
    <3>2. CASE accepted
      <4>1. conns' = [c \in Conns |-> IF c = p.id THEN [conns[c] EXCEPT !.authenticated = TRUE]
                                                  ELSE conns[c]]
        BY Zenon, <3>2, <2>1, <2>3 DEF Shape
      <4>2. ASSUME NEW c \in Conns
            PROVE  /\ conns'[c] = [authenticated |-> conns'[c].authenticated,
                                   parked |-> conns'[c].parked, aborted |-> conns'[c].aborted]
                   /\ conns'[c].parked = conns[c].parked /\ conns'[c].aborted = conns[c].aborted
        <5>1. conns[c] = [authenticated |-> conns[c].authenticated,
                          parked |-> conns[c].parked, aborted |-> conns[c].aborted]
          BY Zenon, <2>3 DEF Shape
        <5>2. [conns[c] EXCEPT !.authenticated = TRUE] =
                 [authenticated |-> TRUE, parked |-> conns[c].parked, aborted |-> conns[c].aborted]
          BY Zenon, <5>1, EntryFields
        <5> QED BY Zenon, <4>1, <5>1, <5>2
      <4> QED BY Zenon, <4>1, <4>2
    <3> QED BY <3>1, <3>2
  <2> QED BY Zenon, <2>1, <2>4, <2>5, NothingMoved
<1>2. CASE p.stmt \notin {"auth", "badauth"} /\ ~is_authenticated(p.id)
  <2>1. AnswerAll({p}, "notauthenticated") /\ UNCHANGED <<conns, holder>>
    BY <1>2 DEF accept, AnswerOne, AnswerAll
  <2>2. "notauthenticated" \in Harmless
    BY DEF Harmless
  <2> QED BY <2>1, <2>2, HarmlessStep
<1>3. CASE p.stmt \notin {"auth", "badauth"} /\ is_authenticated(p.id)
  BY <1>3, Untouched DEF accept
<1> QED BY <1>1, <1>2, <1>3

\* forget: nothing is kept for the connection and nobody is left to believe
\* anything.
LEMMA ForgetStep ==
    ASSUME ExecutorInvariant, NEW c, forget(c), UNCHANGED db
    PROVE  ExecutorInvariant'
<1>1. /\ conns' = [conns EXCEPT ![c] = Fresh]
      /\ told' = [told EXCEPT ![c] = NotTold]
      /\ holder' = IF holder = c THEN None ELSE holder
      /\ promised' = promised
  BY DEF forget
<1>2. Shape'
  BY Zenon, <1>1 DEF ExecutorInvariant, Shape, Fresh, NoTxn, NotTold
<1>3. \A d \in Conns : conns'[d] = IF d = c THEN Fresh ELSE conns[d]
  BY <1>1 DEF ExecutorInvariant, Shape
<1>4. \A d \in Conns : told'[d] = IF d = c THEN NotTold ELSE told[d]
  BY <1>1 DEF ExecutorInvariant, Shape
<1>5. HolderExact'
  <2>1. \A d \in Conns : d # None
    BY ExecutorAssumption DEF None
  <2> QED BY <1>1, <1>3, <2>1 DEF ExecutorInvariant, HolderExact, Fresh, NoTxn
<1>6. ASSUME NEW d \in Conns PROVE Agreed(d)'
  <2>1. Agreed(d)
    BY DEF ExecutorInvariant
  <2> QED BY <2>1, <1>3, <1>4 DEF Agreed, Fresh, NoTxn, NotTold
<1>7. RowsArePromised' /\ holder' \in Conns \cup {None}
  BY <1>1 DEF ExecutorInvariant, RowsArePromised, None
<1> QED BY <1>2, <1>5, <1>6, <1>7 DEF ExecutorInvariant

\* take, whatever the work is.
LEMMA TakeStep ==
    ASSUME ExecutorInvariant, take
    PROVE  ExecutorInvariant'
<1>1. CASE accept(Head(chan))
  BY <1>1, AcceptStep DEF take
<1>2. CASE forget(Head(chan).id)
  BY <1>2, ForgetStep DEF take
<1>3. CASE UNCHANGED <<queues, holder, clock, conns, clients>>
  BY <1>3, Untouched DEF take, queues, clients
<1> QED BY <1>1, <1>2, <1>3 DEF take

\* sweep: the transaction of a silent holder goes, and that is noted for it;
\* the refusals are harmless.
LEMMA SweepStep ==
    ASSUME ExecutorInvariant, Sweep
    PROVE  ExecutorInvariant'
<1>1. Shape
  BY DEF ExecutorInvariant
<1>2. /\ promised' = promised
      /\ told' = [c \in Conns |-> told'[c]]
      /\ \A c \in Conns : told'[c].txn = told[c].txn /\ told'[c].pend = told[c].pend
  <2>1. "busy" \in Harmless
    BY DEF Harmless
  <2>2. CASE holder' = None
    BY <2>2, <1>1 DEF Sweep, RefuseLate, clients, Shape
  <2>3. CASE holder' # None
    <3>1. AnswerAll(Late, "busy")
      BY <2>3 DEF Sweep, RefuseLate
    <3> QED BY <3>1, <2>1, <1>1, AnswerHarmless
  <2> QED BY <2>2, <2>3
<1>3. db' = db
  BY DEF Sweep
<1>4. CASE ~IdleExpired
  <2>1. UNCHANGED <<conns, holder>>
    BY <1>4 DEF Sweep, RollBackIdle
  <2> QED BY Zenon, <2>1, <1>1, <1>2, <1>3, NothingMoved DEF Shape
<1>5. CASE IdleExpired
  <2>1. /\ holder \in Conns /\ holder' = None
        /\ conns' = [conns EXCEPT ![holder].parked = NoTxn, ![holder].aborted = TRUE]
    BY <1>5 DEF Sweep, RollBackIdle, IdleExpired, ExecutorInvariant
  <2> DEFINE h == holder
  <2>2. conns' = [c \in Conns |->
                    IF c = h THEN [authenticated |-> conns[h].authenticated,
                                   parked |-> NoTxn, aborted |-> TRUE]
                    ELSE conns[c]]
    BY Zenon, <2>1, <1>1, RolledBack
  <2> HIDE DEF h
  <2>3. Shape'
    BY Zenon, <2>2, <1>1, <1>2 DEF Shape, NoTxn
  <2>4. \A c \in Conns : c # None
    BY ExecutorAssumption DEF None
  <2>5. HolderExact'
    BY <2>1, <2>2, <2>4, <1>3 DEF ExecutorInvariant, HolderExact, NoTxn, h
  <2>6. ASSUME NEW c \in Conns PROVE Agreed(c)'
    <3>1. Agreed(c) /\ (c = h => conns[c].parked.open)
      BY DEF ExecutorInvariant, HolderExact, h
    <3>2. CASE c = h
      BY <3>1, <3>2, <2>2, <1>2 DEF Agreed, NoTxn
    <3>3. CASE c # h
      BY <3>1, <3>3, <2>2, <1>2 DEF Agreed
    <3> QED BY <3>2, <3>3
  <2>7. RowsArePromised' /\ holder' \in Conns \cup {None}
    BY <2>1, <1>2, <1>3 DEF ExecutorInvariant, RowsArePromised
  <2> QED BY <2>3, <2>5, <2>6, <2>7 DEF ExecutorInvariant
<1> QED BY <1>4, <1>5

\* grouped: nobody holds a transaction, and every statement of the group comes
\* from a connection that believes it has none; the commit makes all their
\* writes rows, and only then they are promised.
LEMMA GroupedStep ==
    ASSUME ExecutorInvariant, Grouped
    PROVE  ExecutorInvariant'
<1>1. PICK n \in 2..Len(ready) : next_batch(n) /\ grouped(n)
  BY DEF Grouped
<1>2. UNCHANGED <<holder, conns>>
  BY DEF Grouped
<1>3. /\ holder = None
      /\ \A i \in 1..n : Sharable(ready[i])
  BY <1>1 DEF next_batch
<1> DEFINE group == {ready[i] : i \in 1..n}
<1>4. ASSUME NEW p \in group
      PROVE  /\ Kind(p.stmt) = "Batchable" /\ p.id \in Conns
             /\ ~told[p.id].txn /\ told[p.id].pend = {}
  <2>1. Sharable(p)
    BY <1>3
  <2>2. p.id \in Conns /\ ~conns[p.id].parked.open /\ ~conns[p.id].aborted
    BY <2>1 DEF Sharable
  <2>3. Agreed(p.id)
    BY <2>2 DEF ExecutorInvariant
  <2> QED BY <2>1, <2>2, <2>3 DEF Sharable, Agreed
<1>5. \E says \in [group -> {"ok", "error", "refused"}] :
        \E o \in RunCommit(Begun({p.write : p \in {q \in group : q.stmt = "put" /\ says[q] = "ok"}})) :
           /\ db' = o.db
           /\ IF o.says = "ok" THEN Answer(group, says) ELSE AnswerAll(group, "error")
  BY Zenon, <1>1 DEF grouped
<1> HIDE DEF group
<1>6. PICK says \in [group -> {"ok", "error", "refused"}] :
        \E o \in RunCommit(Begun({p.write : p \in {q \in group : q.stmt = "put" /\ says[q] = "ok"}})) :
           /\ db' = o.db
           /\ IF o.says = "ok" THEN Answer(group, says) ELSE AnswerAll(group, "error")
  BY Zenon, <1>5
<1> DEFINE wrote == {p.write : p \in {q \in group : q.stmt = "put" /\ says[q] = "ok"}}
<1>7. PICK o \in RunCommit(Begun(wrote)) :
           /\ db' = o.db
           /\ IF o.says = "ok" THEN Answer(group, says) ELSE AnswerAll(group, "error")
  BY Zenon, <1>6
<1>8. o.says = "ok" => o.db.rows = db.rows \cup wrote
  <2> HIDE DEF wrote
  <2> QED BY <1>7 DEF RunCommit, Begun, Outcome, Committed
<1>9. o.says # "ok" => o.db = db
  <2> HIDE DEF wrote
  <2> QED BY <1>7 DEF RunCommit, Begun, Outcome, Committed
<1>10. PICK heard \in [group -> {"ok", "error", "refused"}] :
          Answer(group, heard) /\ heard = IF o.says = "ok" THEN says ELSE [p \in group |-> "error"]
  BY <1>7 DEF AnswerAll
<1>11. \A p \in group : Kind(p.stmt) = "Batchable" => p.stmt \notin {"begin", "commit", "rollback"}
  BY DEF Kind
<1>12. RowsArePromised'
  <2>1. promised' = promised \cup UNION {Promises(told[p.id], p, heard[p]) : p \in group}
    BY <1>10 DEF Answer
  <2>2. \A p \in group : Promises(told[p.id], p, heard[p]) =
                           {w \in {p.write} : p.stmt = "put" /\ heard[p] = "ok"}
    BY <1>4, <1>11 DEF Promises
  <2>3. CASE o.says = "ok"
    <3> DEFINE U == UNION {Promises(told[p.id], p, heard[p]) : p \in group}
    <3>1. U = wrote
      <4>1. heard = says
        BY <2>3, <1>10
      <4>2. \A w : w \in wrote <=> \E p \in group : p.stmt = "put" /\ heard[p] = "ok" /\ w = p.write
        BY <4>1
      <4>3. \A w : w \in U
                   <=> \E p \in group : w \in Promises(told[p.id], p, heard[p])
        OBVIOUS
      <4>4. \A w : \A p \in group : w \in Promises(told[p.id], p, heard[p])
                   <=> p.stmt = "put" /\ heard[p] = "ok" /\ w = p.write
        BY <2>2
      <4> HIDE DEF wrote, U
      <4>5. \A w : w \in U <=> w \in wrote
        BY <4>2, <4>3, <4>4
      <4> QED BY Zenon, <4>5
    <3>2. promised' = promised \cup U
      BY <2>1
    <3> HIDE DEF wrote, U
    <3> QED BY <2>3, <3>1, <3>2, <1>7, <1>8 DEF ExecutorInvariant, RowsArePromised
  <2>4. CASE o.says # "ok"
    BY <2>1, <2>2, <2>4, <1>7, <1>9, <1>10 DEF ExecutorInvariant, RowsArePromised
  <2> QED BY <2>3, <2>4
<1>13. /\ told' = [c \in Conns |-> told'[c]]
       /\ \A c \in Conns : told'[c].txn = told[c].txn /\ told'[c].pend = told[c].pend
  <2>1. told' = [c \in Conns |->
          IF \E p \in group : p.id = c
          THEN LET p == CHOOSE p \in group : p.id = c IN Learn(told[c], p, heard[p])
          ELSE told[c]]
    BY <1>10 DEF Answer
  <2>2. ASSUME NEW c \in Conns
        PROVE  told'[c].txn = told[c].txn /\ told'[c].pend = told[c].pend
    <3>1. CASE \E p \in group : p.id = c
      <4> DEFINE p == CHOOSE p \in group : p.id = c
      <4>1. p \in group /\ p.id = c
        BY <3>1
      <4>2. told'[c] = Learn(told[c], p, heard[p])
        BY <2>1, <3>1
      <4> HIDE DEF p
      <4>3. heard[p] \in {"ok", "error", "refused"}
        BY <4>1, <1>10
      <4>4. ~Ends(p, heard[p]) /\ p.stmt # "begin"
        BY <4>1, <4>3, <1>4, <1>11 DEF Ends
      <4>5. told[c].txn \in BOOLEAN /\ ~told[c].txn
        BY Zenon, <4>1, <1>4 DEF ExecutorInvariant, Shape
      <4> QED BY <4>2, <4>4, <4>5 DEF Learn
    <3>2. CASE ~ \E p \in group : p.id = c
      BY <2>1, <3>2
    <3> QED BY <3>1, <3>2
  <2> QED BY <2>1, <2>2
<1>14. Shape'
  BY <1>2, <1>13 DEF ExecutorInvariant, Shape
<1>15. HolderExact'
  <2>1. \A c \in Conns : ~conns[c].parked.open
    BY <1>3, ExecutorAssumption DEF ExecutorInvariant, HolderExact, None
  <2> QED BY <2>1, <1>2 DEF ExecutorInvariant, HolderExact
<1>16. ASSUME NEW c \in Conns PROVE Agreed(c)'
  <2>1. Agreed(c)
    BY DEF ExecutorInvariant
  <2> QED BY <2>1, <1>2, <1>13 DEF Agreed
<1> QED BY <1>2, <1>12, <1>14, <1>15, <1>16 DEF ExecutorInvariant

\* alone: only the connection's own transaction moves, and the database moves
\* under nobody else's.
LEMMA AloneStep ==
    ASSUME ExecutorInvariant, Alone
    PROVE  ExecutorInvariant'
<1>1. PICK c \in Conns : Head(ready).id = c /\ alone(c, Head(ready))
  BY DEF Alone
<1> DEFINE p == Head(ready)
<1>2. p.id = c /\ alone(c, p) /\ runnable_now(p)
  BY <1>1 DEF Alone
<1> HIDE DEF p
<1>3. Shape
  BY DEF ExecutorInvariant
<1>4. conns[c] = [authenticated |-> conns[c].authenticated,
                  parked |-> conns[c].parked, aborted |-> conns[c].aborted]
  BY Zenon, <1>3 DEF Shape
<1>5. Agreed(c) /\ told[c].txn \in BOOLEAN
  BY Zenon, <1>3 DEF ExecutorInvariant, Shape
<1>6. \A d \in Conns : d # None
  BY ExecutorAssumption DEF None
<1>7. CASE conns[c].aborted
  <2>1. /\ conns' = [conns EXCEPT ![c].aborted = FALSE]
        /\ AnswerOne(p, "aborted") /\ UNCHANGED <<holder, db>>
    BY <1>2, <1>7 DEF alone
  <2>2. /\ told' = [told EXCEPT ![c] = Learn(told[c], p, "aborted")]
        /\ promised' = promised \cup Promises(told[c], p, "aborted")
    BY <2>1, <1>2, <1>3, AnswerOneLearnt
  <2>3. /\ Learn(told[c], p, "aborted").txn = FALSE
        /\ Learn(told[c], p, "aborted").pend = {}
        /\ Promises(told[c], p, "aborted") = {}
    BY Zenon DEF Learn, Ends, Promises
  <2>4. conns' = [d \in Conns |->
                    IF d = c THEN [authenticated |-> conns[c].authenticated,
                                   parked |-> conns[c].parked, aborted |-> FALSE]
                    ELSE conns[d]]
    <3>1. conns' = [d \in Conns |-> IF d = c THEN [conns[c] EXCEPT !.aborted = FALSE] ELSE conns[d]]
      BY Zenon, <2>1, <1>3 DEF Shape
    <3> QED BY Zenon, <3>1, <1>4, EntryFields
  <2>5. told' = [d \in Conns |-> IF d = c THEN Learn(told[c], p, "aborted") ELSE told[d]]
    BY <2>2, <1>3 DEF Shape
  <2>6. Shape'
    BY Zenon, <2>3, <2>4, <2>5, <1>3 DEF Shape
  <2>7. HolderExact'
    BY <2>1, <2>4 DEF ExecutorInvariant, HolderExact
  <2>8. ASSUME NEW d \in Conns PROVE Agreed(d)'
    <3>1. CASE d = c
      BY <3>1, <1>5, <1>7, <2>3, <2>4, <2>5 DEF Agreed
    <3>2. CASE d # c
      <4>1. Agreed(d)
        BY DEF ExecutorInvariant
      <4> QED BY <3>2, <4>1, <2>4, <2>5 DEF Agreed
    <3> QED BY <3>1, <3>2
  <2>9. RowsArePromised' /\ holder' \in Conns \cup {None}
    BY <2>1, <2>2, <2>3 DEF ExecutorInvariant, RowsArePromised
  <2> QED BY <2>6, <2>7, <2>8, <2>9 DEF ExecutorInvariant
<1>8. CASE ~conns[c].aborted
  <2> DEFINE x == conns[c].parked
  <2>1. PICK o \in IF Kind(p.stmt) = "Say" THEN {Outcome("parse", x, db)}
                   ELSE run_parsed(x, p.stmt, p.write) :
           /\ conns' = [conns EXCEPT ![c].parked = o.txn]
           /\ holder' = HolderAfter(c, o.txn)
           /\ db' = o.db
           /\ AnswerOne(p, o.says)
    BY <1>2, <1>8 DEF alone
  <2> DEFINE u == Learn(told[c], p, o.says)
  <2>2. Matches(told[c], x)
    BY <1>3, <1>5, <1>8 DEF Shape, Agreed, ExecutorInvariant, HolderExact, Matches
  <2>3. x.open <=> holder = c
    BY DEF ExecutorInvariant, HolderExact
  <2>4. /\ told' = [told EXCEPT ![c] = u]
        /\ promised' = promised \cup Promises(told[c], p, o.says)
    BY <2>1, <1>2, <1>3, AnswerOneLearnt
  <2>5. conns' = [d \in Conns |->
                    IF d = c THEN [authenticated |-> conns[c].authenticated,
                                   parked |-> o.txn, aborted |-> conns[c].aborted]
                    ELSE conns[d]]
    <3>1. conns' = [d \in Conns |-> IF d = c THEN [conns[c] EXCEPT !.parked = o.txn] ELSE conns[d]]
      BY <2>1, <1>3 DEF Shape
    <3> QED BY SMTT(40), <3>1, <1>4, EntryFields
  <2>6. told' = [d \in Conns |-> IF d = c THEN u ELSE told[d]]
    BY <2>4, <1>3 DEF Shape
  <2>7. u.txn \in BOOLEAN
    BY DEF Learn
  <2>8. Accounted(o, told[c], x, p)
    <3>1. CASE Kind(p.stmt) = "Say"
      <4>1. o.says = "parse" /\ o.txn = x /\ o.db = db
        BY <2>1, <3>1 DEF Outcome
      <4>2. "parse" \in Harmless
        BY DEF Harmless
      <4>3. u.txn = told[c].txn /\ u.pend = told[c].pend /\ Promises(told[c], p, o.says) = {}
        BY <4>1, <4>2, <1>5, LearnHarmless
      <4> HIDE DEF x
      <4> QED BY <4>1, <4>3, <2>2 DEF Matches, Accounted
    <3>2. CASE Kind(p.stmt) # "Say"
      <4>1. o \in run_parsed(x, p.stmt, p.write)
        BY SMTT(40), <2>1, <3>2
      <4> HIDE DEF x
      <4> QED BY <4>1, <3>2, <2>2, RunAgrees
    <3> QED BY <3>1, <3>2
  <2>9. /\ o.txn.open \in BOOLEAN
        /\ u.txn <=> o.txn.open
        /\ o.txn.open => o.txn.base = db.head /\ o.db = db /\ u.pend = o.txn.writes
        /\ ~o.txn.open => u.pend = {}
        /\ conns'[c].parked = o.txn /\ conns'[c].aborted = conns[c].aborted /\ told'[c] = u
    BY SMTT(40), <2>5, <2>6, <2>8 DEF Accounted
  <2> HIDE DEF u
  <2>10. Shape'
    <3>1. o.txn = [open |-> o.txn.open, base |-> o.txn.base, writes |-> o.txn.writes]
      BY <2>8 DEF Accounted
    <3>2. ASSUME NEW d \in Conns
          PROVE  /\ conns'[d] = [authenticated |-> conns'[d].authenticated,
                                 parked |-> conns'[d].parked, aborted |-> conns'[d].aborted]
                 /\ conns'[d].parked.open \in BOOLEAN /\ conns'[d].aborted \in BOOLEAN
                 /\ told'[d].txn \in BOOLEAN
      BY Zenon, <2>5, <2>6, <2>7, <2>9, <1>3 DEF Shape
    <3>3. ASSUME NEW d \in Conns
          PROVE  conns'[d].parked = [open |-> conns'[d].parked.open, base |-> conns'[d].parked.base,
                                     writes |-> conns'[d].parked.writes]
      BY <2>5, <3>1, <1>3 DEF Shape
    <3> QED BY SMTT(40), <2>5, <2>6, <3>2, <3>3 DEF Shape
  <2>11. \A d \in Conns : d # c /\ conns[d].parked.open => holder = d /\ o.db = db /\ ~o.txn.open
    <3>1. \A d \in Conns : conns[d].parked.open => holder = d
      BY DEF ExecutorInvariant, HolderExact
    <3>2. holder \notin {None, c} => Kind(p.stmt) \in {"Reads", "Say"} /\ ~x.open
      BY <1>2, <2>3 DEF runnable_now, touches_data
    <3> QED BY <3>1, <3>2, <2>8, <1>6 DEF Accounted
  <2>12. HolderExact'
    <3> SUFFICES ASSUME NEW d \in Conns
                 PROVE  /\ conns'[d].parked.open <=> holder' = d
                        /\ conns'[d].parked.open => conns'[d].parked.base = db'.head
      BY DEF HolderExact
    <3>1. /\ conns[d].parked.open <=> holder = d
          /\ conns[d].parked.open => conns[d].parked.base = db.head
      BY DEF ExecutorInvariant, HolderExact
    <3>2. holder' = IF o.txn.open THEN c ELSE IF holder = c THEN None ELSE holder
      BY <2>1 DEF HolderAfter
    <3>3. CASE d = c
      BY <3>2, <3>3, <2>1, <2>9, <1>6
    <3>4. CASE d # c
      <4>1. conns'[d] = conns[d]
        BY <2>5, <3>4
      <4>2. holder' = d <=> holder = d
        <5>1. CASE holder = d
          BY <5>1, <3>1, <3>2, <3>4, <2>11
        <5>2. CASE holder # d
          BY <5>2, <3>2, <3>4, <1>6
        <5> QED BY <5>1, <5>2
      <4> QED BY <4>1, <4>2, <3>1, <3>4, <2>1, <2>11
    <3> QED BY <3>3, <3>4
  <2>13. ASSUME NEW d \in Conns PROVE Agreed(d)'
    <3>1. CASE d = c
      BY <3>1, <1>8, <2>9 DEF Agreed
    <3>2. CASE d # c
      <4>1. Agreed(d)
        BY DEF ExecutorInvariant
      <4> QED BY <3>2, <4>1, <2>5, <2>6 DEF Agreed
    <3> QED BY <3>1, <3>2
  <2>14. RowsArePromised'
    BY <2>1, <2>4, <2>8 DEF Accounted, ExecutorInvariant, RowsArePromised
  <2>15. holder' \in Conns \cup {None}
    BY <2>1 DEF HolderAfter, ExecutorInvariant
  <2> QED BY <2>10, <2>12, <2>13, <2>14, <2>15 DEF ExecutorInvariant
<1> QED BY <1>7, <1>8
-----------------------------------------------------------------------------
(* Theorems.                                                               *)

\* Every step of the thread, of the clients and of the clock preserves it.
LEMMA NextStep ==
    ASSUME ExecutorInvariant, [Next]_vars
    PROVE  ExecutorInvariant'
<1> USE DEF clients, queues, clock
<1>1. CASE Recv
  BY <1>1, TakeStep, Untouched DEF Recv
<1>2. CASE Drain
  BY <1>2, TakeStep DEF Drain
<1>3. CASE Drained \/ Refill \/ Served \/ BackToWaiting
  BY <1>3, Untouched DEF Drained, Refill, Served, BackToWaiting
<1>4. CASE Sweep
  BY <1>4, SweepStep
<1>5. CASE Grouped
  BY <1>5, GroupedStep
<1>6. CASE Alone
  BY <1>6, AloneStep
<1>7. CASE Exit
  <2>1. "shutdown" \in Harmless
    BY DEF Harmless
  <2> QED BY <1>7, <2>1, HarmlessStep DEF Exit
<1>8. CASE Client
  BY <1>8, Untouched DEF Client, Close, Submit
<1>9. CASE Drop \/ Tick
  BY <1>9, Untouched DEF Drop, Tick
<1>10. CASE UNCHANGED vars
  BY <1>10, Untouched DEF vars
<1> QED BY <1>1, <1>2, <1>3, <1>4, <1>5, <1>6, <1>7, <1>8, <1>9, <1>10 DEF Next, Thread

\* What the answers tell the clients, what the executor keeps for them and
\* what is in the database agree, always.
THEOREM ExecutorInductive == Spec => []ExecutorInvariant
<1>1. Init => ExecutorInvariant
  <2> SUFFICES ASSUME Init PROVE ExecutorInvariant
    OBVIOUS
  <2>1. /\ \A c \in Conns : conns[c] = Fresh /\ told[c] = NotTold
        /\ conns = [c \in Conns |-> conns[c]] /\ told = [c \in Conns |-> told[c]]
    BY DEF Init
  <2>2. Shape
    <3>1. /\ Fresh = [authenticated |-> Fresh.authenticated, parked |-> Fresh.parked,
                      aborted |-> Fresh.aborted]
          /\ Fresh.parked = [open |-> Fresh.parked.open, base |-> Fresh.parked.base,
                             writes |-> Fresh.parked.writes]
          /\ Fresh.parked.open \in BOOLEAN /\ Fresh.aborted \in BOOLEAN
          /\ NotTold.txn \in BOOLEAN
      BY Zenon DEF Fresh, NoTxn, NotTold
    <3> QED BY <2>1, <3>1 DEF Shape
  <2>3. HolderExact /\ holder \in Conns \cup {None}
    BY <2>1, ExecutorAssumption DEF Init, HolderExact, Fresh, NoTxn, None
  <2>4. \A c \in Conns : Agreed(c)
    BY <2>1 DEF Agreed, Fresh, NoTxn, NotTold
  <2>5. RowsArePromised
    BY DEF Init, RowsArePromised
  <2> QED BY <2>2, <2>3, <2>4, <2>5 DEF ExecutorInvariant
<1> QED BY <1>1, NextStep, PTL DEF Spec

\* A parked transaction belongs to the holder of the queue and can be resumed
\* (executor.rs:510-513), for any number of connections and any deadlines.
THEOREM ParkedIsResumable == Spec => []HolderExact
<1>1. ExecutorInvariant => HolderExact
  BY DEF ExecutorInvariant
<1> QED BY <1>1, ExecutorInductive, PTL

\* Group commit, savepoints, roll backs and refusals keep every promise: the
\* rows are the acknowledged writes, no fewer and no more (ADR-029).
THEOREM PromisesKept == Spec => []RowsArePromised
<1>1. ExecutorInvariant => RowsArePromised
  BY DEF ExecutorInvariant
<1> QED BY <1>1, ExecutorInductive, PTL

\* A client is never left believing in a transaction that is gone without the
\* executor remembering that it owes it the news (executor.rs:190).
THEOREM NewsIsOwed == Spec => []AbortIsTold
<1>1. ExecutorInvariant => AbortIsTold
  BY DEF ExecutorInvariant, Agreed, AbortIsTold
<1> QED BY <1>1, ExecutorInductive, PTL

-----------------------------------------------------------------------------
(* Where a request is.  Of(p, c): p is a request of connection c.          *)

Of(p, c) == p.work = "Request" /\ p.id = c
Has(q, c) == \E i \in DOMAIN q : Of(q[i], c)
Once(q, c) == \A i, j \in DOMAIN q : Of(q[i], c) /\ Of(q[j], c) => i = j

LEMMA AppendHas ==
    ASSUME NEW S, NEW q \in Seq(S), NEW p \in S, NEW c
    PROVE  /\ Append(q, p) \in Seq(S)
           /\ Has(Append(q, p), c) <=> Has(q, c) \/ Of(p, c)
           /\ Once(q, c) /\ ~(Has(q, c) /\ Of(p, c)) => Once(Append(q, p), c)
<1> DEFINE r == Append(q, p)
           n == Len(q) + 1
<1>1. /\ r \in Seq(S) /\ n \in DOMAIN r /\ r[n] = p /\ n \notin DOMAIN q
      /\ \A i \in DOMAIN q : i \in DOMAIN r /\ r[i] = q[i]
      /\ \A i \in DOMAIN r : i = n \/ i \in DOMAIN q
  OBVIOUS
<1> HIDE DEF r, n
<1>2. Has(r, c) <=> Has(q, c) \/ Of(p, c)
  BY <1>1 DEF Has
<1>3. Once(q, c) /\ ~(Has(q, c) /\ Of(p, c)) => Once(r, c)
  BY <1>1 DEF Has, Once
<1> QED BY <1>1, <1>2, <1>3 DEF r

LEMMA TailHas ==
    ASSUME NEW S, NEW q \in Seq(S), q # <<>>, NEW c
    PROVE  /\ Head(q) \in S /\ Tail(q) \in Seq(S)
           /\ Has(q, c) <=> Of(Head(q), c) \/ Has(Tail(q), c)
           /\ Once(q, c) => Once(Tail(q), c) /\ ~(Of(Head(q), c) /\ Has(Tail(q), c))
<1> DEFINE r == Tail(q)
<1>1. /\ r \in Seq(S) /\ 1 \in DOMAIN q /\ q[1] = Head(q) /\ q[1] \in S
      /\ \A i \in DOMAIN r : i + 1 \in DOMAIN q /\ r[i] = q[i + 1] /\ i \in Nat /\ i + 1 # 1
      /\ \A i \in DOMAIN q : i = 1 \/ (i - 1 \in DOMAIN r /\ q[i] = r[i - 1])
  OBVIOUS
<1> HIDE DEF r
<1>2. Has(q, c) <=> Of(Head(q), c) \/ Has(r, c)
  BY <1>1 DEF Has
<1>3. Once(q, c) => ~(Of(Head(q), c) /\ Has(r, c))
  BY <1>1 DEF Has, Once
<1>4. Once(q, c) => Once(r, c)
  <2> SUFFICES ASSUME Once(q, c), NEW i \in DOMAIN r, NEW j \in DOMAIN r, Of(r[i], c), Of(r[j], c)
               PROVE  i = j
    BY DEF Once
  <2>1. i + 1 = j + 1
    BY <1>1 DEF Once
  <2> QED BY <2>1, <1>1
<1> QED BY <1>1, <1>2, <1>3, <1>4 DEF r

LEMMA SplitHas ==
    ASSUME NEW S, NEW q \in Seq(S), NEW n \in 0..Len(q), NEW c
    PROVE  LET a == SubSeq(q, 1, n)
               b == SubSeq(q, n + 1, Len(q))
           IN  /\ a \in Seq(S) /\ b \in Seq(S) /\ DOMAIN a = 1..n /\ \A i \in 1..n : a[i] = q[i]
               /\ Has(q, c) <=> Has(a, c) \/ Has(b, c)
               /\ Once(q, c) => Once(a, c) /\ Once(b, c) /\ ~(Has(a, c) /\ Has(b, c))
<1> DEFINE a == SubSeq(q, 1, n)
           b == SubSeq(q, n + 1, Len(q))
<1>0. n \in Nat /\ Len(q) \in Nat /\ n <= Len(q) /\ DOMAIN q = 1..Len(q)
  OBVIOUS
<1>1. a \in Seq(S) /\ DOMAIN a = 1..n /\ \A i \in 1..n : a[i] = q[i] /\ i \in DOMAIN q
  BY <1>0
<1>2. b \in Seq(S) /\ DOMAIN b = 1..Len(q) - n /\ \A i \in 1..Len(q) - n : b[i] = q[n + i] /\ n + i \in DOMAIN q
  BY <1>0
<1> HIDE DEF a, b
<1>3. \A i \in DOMAIN q : (i \in DOMAIN a /\ a[i] = q[i]) \/ (i - n \in DOMAIN b /\ b[i - n] = q[i])
  BY <1>0, <1>1, <1>2
<1>4. Has(q, c) <=> Has(a, c) \/ Has(b, c)
  BY <1>1, <1>2, <1>3 DEF Has
<1>5. Once(q, c) => Once(a, c)
  BY <1>1 DEF Once
<1>6. Once(q, c) => Once(b, c)
  <2> SUFFICES ASSUME Once(q, c), NEW i \in DOMAIN b, NEW j \in DOMAIN b, Of(b[i], c), Of(b[j], c)
               PROVE  i = j
    BY DEF Once
  <2>1. n + i = n + j
    BY <1>2 DEF Once
  <2> QED BY <2>1, <1>0, <1>2
<1>7. Once(q, c) => ~(Has(a, c) /\ Has(b, c))
  <2> SUFFICES ASSUME Once(q, c), NEW i \in DOMAIN a, NEW j \in DOMAIN b, Of(a[i], c), Of(b[j], c)
               PROVE  FALSE
    BY DEF Has
  <2>1. i = n + j
    BY <1>1, <1>2 DEF Once
  <2> QED BY <2>1, <1>0, <1>1, <1>2
<1> QED BY <1>1, <1>2, <1>4, <1>5, <1>6, <1>7 DEF a, b

\* Every place of a finite set of numbers has a rank of its own, and every
\* rank up to the size of the set is that of a place.
LEMMA Ranks ==
    ASSUME NEW n \in Nat, NEW K \in SUBSET (1..n)
    PROVE  /\ Cardinality(K) \in Nat
           /\ \A i \in K : Rank(K, i) \in 1..Cardinality(K)
           /\ \A i, j \in K : Rank(K, i) = Rank(K, j) => i = j
           /\ \A m \in 1..Cardinality(K) : \E i \in K : Rank(K, i) = m
<1> DEFINE U(i) == {j \in K : j <= i}
<1>1. IsFiniteSet(K) /\ Cardinality(K) \in Nat
  <2>1. IsFiniteSet(1..n)
    BY FS_Interval
  <2> QED BY Zenon, <2>1, FS_Subset, FS_CardinalityType
<1>2. ASSUME NEW i \in K PROVE Rank(K, i) \in 1..Cardinality(K)
  <2>1. IsFiniteSet(U(i)) /\ Cardinality(U(i)) <= Cardinality(K) /\ Cardinality(U(i)) \in Nat
    BY <1>1, FS_Subset, FS_CardinalityType
  <2>2. i \in U(i)
    OBVIOUS
  <2>3. Cardinality(U(i)) # 0
    BY <2>1, <2>2, FS_EmptySet
  <2> QED BY <1>1, <2>1, <2>3 DEF Rank
<1>3. ASSUME NEW i \in K, NEW j \in K, i < j PROVE Rank(K, i) < Rank(K, j)
  <2>1. U(i) \subseteq U(j) /\ j \in U(j) /\ j \notin U(i)
    <3>1. \A k \in K : k \in Int
      OBVIOUS
    <3>2. j <= j /\ ~(j <= i) /\ \A k \in K : k <= i => k <= j
      BY <1>3, <3>1
    <3> QED BY Zenon, <3>2
  <2>2. IsFiniteSet(U(j)) /\ IsFiniteSet(U(i)) /\ Cardinality(U(i)) \in Nat /\ Cardinality(U(j)) \in Nat
    BY <1>1, FS_Subset, FS_CardinalityType
  <2>3. Cardinality(U(i)) <= Cardinality(U(j)) /\ (Cardinality(U(i)) = Cardinality(U(j)) => U(i) = U(j))
    BY <2>1, <2>2, FS_Subset
  <2> QED BY <2>1, <2>2, <2>3 DEF Rank
<1>4. ASSUME NEW i \in K, NEW j \in K, Rank(K, i) = Rank(K, j) PROVE i = j
  <2>1. i \in Int /\ j \in Int /\ Rank(K, i) \in Int /\ Rank(K, j) \in Int
    BY <1>2, <1>1
  <2>2. i < j \/ j < i \/ i = j
    BY <2>1
  <2> QED BY <2>1, <2>2, <1>3, <1>4
<1>5. ASSUME NEW m \in 1..Cardinality(K) PROVE \E i \in K : Rank(K, i) = m
  <2> DEFINE f == [i \in K |-> Rank(K, i)]
             T == 1..Cardinality(K)
  <2>1. f \in Injection(K, T)
    BY <1>2, <1>4 DEF Injection, IsInjective
  <2>2. IsFiniteSet(T) /\ Cardinality(T) = Cardinality(K)
    BY <1>1, FS_Interval
  <2> HIDE DEF f
  <2>3. f \in Surjection(K, T)
    BY <2>1, <2>2, FS_Injection
  <2> QED BY Zenon, <2>3 DEF Surjection, f
<1> QED BY <1>1, <1>2, <1>4, <1>5

LEMMA RetainHas ==
    ASSUME NEW S, NEW q \in Seq(S), NEW K \in SUBSET DOMAIN q, NEW c
    PROVE  /\ retain(q, K) \in Seq(S)
           /\ Has(retain(q, K), c) <=> \E i \in K : Of(q[i], c)
           /\ Once(q, c) => Once(retain(q, K), c)
<1> DEFINE N == Cardinality(K)
           r == retain(q, K)
           at(m) == CHOOSE i \in K : Rank(K, i) = m
<1>1. /\ N \in Nat
      /\ \A i \in K : Rank(K, i) \in 1..N
      /\ \A i, j \in K : Rank(K, i) = Rank(K, j) => i = j
      /\ \A m \in 1..N : \E i \in K : Rank(K, i) = m
  <2>1. Len(q) \in Nat /\ K \in SUBSET (1..Len(q))
    OBVIOUS
  <2> QED BY Zenon, <2>1, Ranks
<1>2. \A m \in 1..N : at(m) \in K /\ Rank(K, at(m)) = m
  BY <1>1
<1>3. \A i \in K : at(Rank(K, i)) = i
  BY <1>1, <1>2
<1>4. r = [m \in 1..N |-> q[at(m)]]
  BY DEF retain
<1>5. \A i \in K : q[i] \in S /\ i \in DOMAIN q
  OBVIOUS
<1> HIDE DEF N, r, at
<1>6. DOMAIN r = 1..N /\ (\A m \in 1..N : r[m] = q[at(m)] /\ r[m] \in S) /\ r \in Seq(S)
  BY <1>1, <1>2, <1>4, <1>5
<1>7. Has(r, c) <=> \E i \in K : Of(q[i], c)
  BY <1>1, <1>2, <1>3, <1>6 DEF Has
<1>8. Once(q, c) => Once(r, c)
  <2> SUFFICES ASSUME Once(q, c), NEW i \in DOMAIN r, NEW j \in DOMAIN r, Of(r[i], c), Of(r[j], c)
               PROVE  i = j
    BY DEF Once
  <2>1. at(i) = at(j)
    BY <1>2, <1>5, <1>6 DEF Once
  <2> QED BY <2>1, <1>2, <1>6
<1> QED BY <1>6, <1>7, <1>8 DEF r

LEMMA AgedHas ==
    ASSUME NEW q \in Seq(Pending), NEW c
    PROVE  /\ Aged(q) \in Seq(Pending)
           /\ Has(Aged(q), c) <=> Has(q, c)
           /\ Once(q, c) => Once(Aged(q), c)
<1>1. ASSUME NEW p \in Pending
      PROVE  /\ [p EXCEPT !.age = Older(@, Busy)] \in Pending
             /\ [p EXCEPT !.age = Older(@, Busy)].id = p.id
             /\ [p EXCEPT !.age = Older(@, Busy)].work = p.work
  <2>1. Older(p.age, Busy) \in 0..Busy + 1
    BY ExecutorAssumption DEF Pending, Older
  <2> QED BY SMTT(40), <2>1 DEF Pending
<1> DEFINE r == Aged(q)
<1>2. DOMAIN r = DOMAIN q /\ \A i \in DOMAIN q : r[i] = [q[i] EXCEPT !.age = Older(@, Busy)]
  BY DEF Aged
<1>3. \A i \in DOMAIN q : q[i] \in Pending
  OBVIOUS
<1> HIDE DEF r
<1>4. \A i \in DOMAIN q : r[i] \in Pending /\ r[i].id = q[i].id /\ r[i].work = q[i].work
  BY Zenon, <1>1, <1>2, <1>3
<1>5. r \in Seq(Pending)
  <2>1. r = [i \in DOMAIN q |-> r[i]]
    BY DEF Aged, r
  <2>2. DOMAIN q = 1..Len(q) /\ Len(q) \in Nat
    OBVIOUS
  <2>3. r \in [1..Len(q) -> Pending]
    BY <2>1, <2>2, <1>4
  <2> QED BY <2>2, <2>3
<1>6. Has(r, c) <=> Has(q, c)
  BY <1>2, <1>4 DEF Has, Of
<1>7. Once(q, c) => Once(r, c)
  BY <1>2, <1>4 DEF Once, Of
<1> QED BY <1>5, <1>6, <1>7 DEF r
-----------------------------------------------------------------------------
(* Every request is in one place until it is answered.                     *)

QueueTypes ==
    /\ chan \in Seq(Works) /\ ready \in Seq(Pending) /\ blocked \in Seq(Pending)
    /\ open \subseteq Conns /\ asked \in Nat

\* One request of c is somewhere, in one place, and c waits for it; or none.
Queued(c) ==
    /\ Once(chan, c) /\ Once(ready, c) /\ Once(blocked, c)
    /\ ~(Has(chan, c) /\ Has(ready, c)) /\ ~(Has(chan, c) /\ Has(blocked, c))
    /\ ~(Has(ready, c) /\ Has(blocked, c))
    /\ c \in waiting <=> Has(chan, c) \/ Has(ready, c) \/ Has(blocked, c)

\* The inductive invariant: a connection that announced its end is not open,
\* so what forget() drops was no open connection's.
QueueInv ==
    /\ QueueTypes
    /\ \A i \in DOMAIN chan : chan[i].work = "Closed" => chan[i].id \notin open
    /\ pc # "gone" => \A c \in open : Queued(c)

LEMMA PendingFacts ==
    ASSUME NEW p \in Pending
    PROVE  p.work = "Request" /\ p.id \in Conns /\ (\A c : Of(p, c) <=> p.id = c)
BY DEF Pending, Of

LEMMA WorkFacts ==
    ASSUME NEW w \in Works
    PROVE  /\ w.work \in {"Request", "Closed", "Stop"}
           /\ w.work = "Request" => w \in Pending
BY DEF Works, Pending, Stop

\* take() moves the oldest work of the channel: a request is answered or
\* joins one queue, and what is forgotten belongs to no open connection.
LEMMA TakeQueued ==
    ASSUME QueueInv, pc # "gone", pc' # "gone", take
    PROVE  QueueInv'
<1> DEFINE w == Head(chan)
<1>t. QueueTypes /\ \A c \in open : Queued(c)
  BY DEF QueueInv
<1>c. chan # <<>> /\ chan \in Seq(Works) /\ chan' = Tail(chan)
  BY <1>t DEF take, QueueTypes
<1>w. w \in Works /\ chan' \in Seq(Works) /\ w.work \in {"Request", "Closed", "Stop"}
      /\ (w.work = "Request" => w \in Pending /\ \A c : Of(w, c) <=> w.id = c)
  BY <1>c, TailHas, WorkFacts, PendingFacts
<1>h. \A c : /\ Has(chan, c) <=> Of(w, c) \/ Has(chan', c)
             /\ Once(chan, c) => Once(chan', c) /\ ~(Of(w, c) /\ Has(chan', c))
  BY <1>c, TailHas
<1>k. \A i \in DOMAIN chan' : i + 1 \in DOMAIN chan /\ chan'[i] = chan[i + 1]
  BY <1>c
<1>1. 1 \in DOMAIN chan /\ chan[1] = w
  BY <1>c
<1> HIDE DEF w
<1>2. CASE w.work = "Request" /\ waiting' = waiting \ {w.id} /\ UNCHANGED <<queues, open, asked>>
  <2>1. ASSUME NEW c \in open PROVE Queued(c)'
    <3>1. Queued(c) /\ (Of(w, c) <=> w.id = c)
      BY <1>t, <1>w, <1>2
    <3> QED BY <3>1, <1>h, <1>2 DEF Queued, queues
  <2> QED BY <2>1, <1>2, <1>t, <1>w, <1>k DEF QueueInv, QueueTypes, queues
<1>3. CASE w.work = "Request" /\ ready' = Append(ready, w) /\ UNCHANGED <<blocked, clients>>
  <2>1. ASSUME NEW c \in open PROVE Queued(c)'
    <3>1. Queued(c) /\ (Of(w, c) <=> w.id = c)
      BY <1>t, <1>w, <1>3
    <3>2. /\ Has(ready', c) <=> Has(ready, c) \/ Of(w, c)
          /\ Once(ready, c) /\ ~(Has(ready, c) /\ Of(w, c)) => Once(ready', c)
      BY <1>3, <1>t, <1>w, AppendHas DEF QueueTypes
    <3> QED BY <3>1, <3>2, <1>h, <1>3 DEF Queued, clients
  <2>2. ready' \in Seq(Pending)
    BY SMTT(40), <1>3, <1>t, <1>w, AppendHas DEF QueueTypes
  <2> QED BY <2>1, <2>2, <1>3, <1>t, <1>w, <1>k DEF QueueInv, QueueTypes, clients
<1>4. CASE w.work = "Request" /\ blocked' = Append(blocked, w) /\ UNCHANGED <<ready, clients>>
  <2>1. ASSUME NEW c \in open PROVE Queued(c)'
    <3>1. Queued(c) /\ (Of(w, c) <=> w.id = c)
      BY <1>t, <1>w, <1>4
    <3>2. /\ Has(blocked', c) <=> Has(blocked, c) \/ Of(w, c)
          /\ Once(blocked, c) /\ ~(Has(blocked, c) /\ Of(w, c)) => Once(blocked', c)
      BY <1>4, <1>t, <1>w, AppendHas DEF QueueTypes
    <3> QED BY <3>1, <3>2, <1>h, <1>4 DEF Queued, clients
  <2>2. blocked' \in Seq(Pending)
    BY SMTT(40), <1>4, <1>t, <1>w, AppendHas DEF QueueTypes
  <2> QED BY <2>1, <2>2, <1>4, <1>t, <1>w, <1>k DEF QueueInv, QueueTypes, clients
<1>5. CASE w.work = "Closed" /\ forget(w.id)
  <2>1. w.id \notin open /\ \A c : ~Of(w, c)
    BY <1>1, <1>5 DEF QueueInv, Of
  <2>2. ready \in Seq(Pending) /\ blocked \in Seq(Pending)
    BY SMTT(40), <1>t DEF QueueTypes
  <2> DEFINE R == {i \in DOMAIN ready : ready[i].id # w.id}
             B == {i \in DOMAIN blocked : blocked[i].id # w.id}
  <2>3. ready' = retain(ready, R) /\ blocked' = retain(blocked, B) /\ UNCHANGED <<open, asked, waiting>>
    BY <1>5 DEF forget
  <2>4. R \in SUBSET DOMAIN ready /\ B \in SUBSET DOMAIN blocked
    OBVIOUS
  <2>5. ready' \in Seq(Pending) /\ blocked' \in Seq(Pending)
    BY <2>2, <2>3, <2>4, RetainHas
  <2>6. ASSUME NEW c \in open PROVE Queued(c)'
    <3>1. Queued(c) /\ c # w.id
      BY SMTT(40), <1>t, <2>1
    <3>2. /\ Has(ready', c) <=> \E i \in R : Of(ready[i], c)
          /\ Once(ready, c) => Once(ready', c)
          /\ Has(blocked', c) <=> \E i \in B : Of(blocked[i], c)
          /\ Once(blocked, c) => Once(blocked', c)
      BY SMTT(40), <2>2, <2>3, <2>4, RetainHas
    <3>3. (Has(ready', c) <=> Has(ready, c)) /\ (Has(blocked', c) <=> Has(blocked, c))
      BY <3>1, <3>2 DEF Has, Of
    <3> HIDE DEF R, B
    <3> QED BY <3>1, <3>2, <3>3, <2>1, <2>3, <1>h DEF Queued
  <2> QED BY <2>3, <2>5, <2>6, <1>t, <1>w, <1>k DEF QueueInv, QueueTypes
<1>6. CASE w.work = "Stop" /\ UNCHANGED <<queues, clients>>
  <2>1. \A c : ~Of(w, c)
    BY <1>6 DEF Of
  <2>2. ASSUME NEW c \in open PROVE Queued(c)'
    BY <2>1, <1>t, <1>h, <1>6 DEF Queued, queues, clients
  <2> QED BY <2>2, <1>6, <1>t, <1>w, <1>k DEF QueueInv, QueueTypes, queues, clients
<1>7. CASE w.work = "Request" /\ accept(w)
  <2>1. CASE AnswerOne(w, "ready") \/ AnswerOne(w, "authfailed") \/ AnswerOne(w, "notauthenticated")
    <3>1. waiting' = waiting \ {w.id} /\ UNCHANGED <<open, asked>>
      BY <2>1 DEF AnswerOne, Answer
    <3>2. CASE UNCHANGED queues
      BY <3>1, <3>2, <1>7, <1>2 DEF queues
    <3>3. CASE UNCHANGED clients /\ UNCHANGED blocked /\ ready' = Append(ready, w)
      BY <3>3, <1>7, <1>3
    <3>4. CASE UNCHANGED clients /\ UNCHANGED ready /\ blocked' = Append(blocked, w)
      BY <3>4, <1>7, <1>4
    <3> QED BY SMTT(40), <3>2, <3>3, <3>4, <1>7 DEF accept, queues
  <2>2. CASE ~(AnswerOne(w, "ready") \/ AnswerOne(w, "authfailed") \/ AnswerOne(w, "notauthenticated"))
    BY <2>2, <1>7, <1>3, <1>4 DEF accept, clients
  <2> QED BY <2>1, <2>2
<1> QED BY <1>5, <1>6, <1>7 DEF take, w

\* What is refused as late leaves the queue.
LEMMA SweepQueued ==
    ASSUME QueueInv, Sweep
    PROVE  QueueInv'
<1>t. QueueTypes /\ pc # "gone" /\ pc' # "gone" /\ (\A c \in open : Queued(c)) /\ UNCHANGED <<chan, ready>>
  BY SMTT(40) DEF QueueInv, Sweep
<1>1. CASE holder' = None
  <2>1. UNCHANGED <<blocked, clients>>
    BY <1>1 DEF Sweep, RefuseLate
  <2> QED BY <2>1, <1>t DEF QueueInv, QueueTypes, Queued, clients
<1>2. CASE holder' # None
  <2> DEFINE K == {i \in DOMAIN blocked : blocked[i].age <= Busy}
  <2>1. blocked' = retain(blocked, K) /\ AnswerAll(Late, "busy")
    BY <1>2 DEF Sweep, RefuseLate
  <2>2. waiting' = waiting \ {p.id : p \in Late} /\ UNCHANGED <<open, asked>>
    BY <2>1 DEF AnswerAll, Answer
  <2>3. blocked \in Seq(Pending) /\ K \in SUBSET DOMAIN blocked
    BY <1>t DEF QueueTypes
  <2>4. blocked' \in Seq(Pending)
    BY SMTT(40), <2>1, <2>3, RetainHas
  <2>5. ASSUME NEW c \in open PROVE Queued(c)'
    <3>1. Queued(c)
      BY SMTT(40), <1>t
    <3>2. /\ Has(blocked', c) <=> \E i \in K : Of(blocked[i], c)
          /\ Once(blocked, c) => Once(blocked', c)
      BY <2>1, <2>3, RetainHas
    <3>3. \A i \in DOMAIN blocked : i \in K <=> ~(blocked[i].age > Busy)
      <4>1. \A i \in DOMAIN blocked : blocked[i] \in Pending
        BY <2>3
      <4> QED BY <4>1, ExecutorAssumption DEF Pending
    <3>4. c \in {p.id : p \in Late} <=> \E i \in DOMAIN blocked : i \notin K /\ Of(blocked[i], c)
      <4>1. \A i \in DOMAIN blocked : Of(blocked[i], c) <=> blocked[i].id = c
        BY <2>3, PendingFacts
      <4> HIDE DEF K
      <4> QED BY <3>3, <4>1 DEF Late
    <3> HIDE DEF K
    <3>5. Has(blocked, c) <=> Has(blocked', c) \/ c \in {p.id : p \in Late}
      BY SMTT(40), <3>2, <3>4, <2>3 DEF Has
    <3>6. ~(Has(blocked', c) /\ c \in {p.id : p \in Late})
      BY SMTT(40), <3>1, <3>2, <3>4, <2>3 DEF Queued, Once
    <3> QED BY <3>1, <3>2, <3>5, <3>6, <2>2, <1>t DEF Queued
  <2> QED BY <2>2, <2>4, <2>5, <1>t DEF QueueInv, QueueTypes
<1> QED BY <1>1, <1>2

\* refill() takes the front of blocked over.
LEMMA RefillQueued ==
    ASSUME QueueInv, Refill
    PROVE  QueueInv'
<1>t. QueueTypes /\ pc # "gone" /\ pc' # "gone" /\ (\A c \in open : Queued(c)) /\ UNCHANGED <<chan, clients>>
  BY DEF QueueInv, Refill
<1>b. blocked \in Seq(Pending) /\ ready = <<>>
  BY <1>t DEF QueueTypes, Refill
<1>1. PICK n \in 0..Len(blocked) :
         ready' = SubSeq(blocked, 1, n) /\ blocked' = SubSeq(blocked, n + 1, Len(blocked))
  <2>1. Len(blocked) \in 0..Len(blocked) /\ (~(Len(blocked) < MaxBatch) => MaxBatch \in 0..Len(blocked))
    BY <1>b, ExecutorAssumption
  <2> QED BY Zenon, <2>1 DEF Refill
<1>2. ready' \in Seq(Pending) /\ blocked' \in Seq(Pending)
  BY <1>1, <1>b, SplitHas
<1>3. ASSUME NEW c \in open PROVE Queued(c)'
  <2>1. /\ Has(blocked, c) <=> Has(ready', c) \/ Has(blocked', c)
        /\ Once(blocked, c) => Once(ready', c) /\ Once(blocked', c) /\ ~(Has(ready', c) /\ Has(blocked', c))
    BY <1>1, <1>b, SplitHas
  <2>2. ~Has(ready, c) /\ Queued(c)
    BY <1>b, <1>t DEF Has
  <2> QED BY <2>1, <2>2, <1>t DEF Queued, clients
<1> QED BY <1>2, <1>3, <1>t DEF QueueInv, QueueTypes, clients

LEMMA BackQueued ==
    ASSUME QueueInv, BackToWaiting
    PROVE  QueueInv'
<1>t. QueueTypes /\ pc # "gone" /\ pc' # "gone" /\ (\A c \in open : Queued(c)) /\ UNCHANGED <<chan, clients>>
  BY DEF QueueInv, BackToWaiting
<1>1. /\ ready # <<>> /\ ready \in Seq(Pending) /\ blocked \in Seq(Pending)
      /\ ready' = Tail(ready) /\ blocked' = Append(blocked, Head(ready))
  BY <1>t DEF BackToWaiting, QueueTypes
<1>2. Head(ready) \in Pending /\ ready' \in Seq(Pending)
  BY <1>1, TailHas
<1>3. blocked' \in Seq(Pending)
  BY <1>1, <1>2, AppendHas
<1>4. ASSUME NEW c \in open PROVE Queued(c)'
  <2>1. /\ Has(ready, c) <=> Of(Head(ready), c) \/ Has(ready', c)
        /\ Once(ready, c) => Once(ready', c) /\ ~(Of(Head(ready), c) /\ Has(ready', c))
    BY <1>1, TailHas
  <2>2. /\ Has(blocked', c) <=> Has(blocked, c) \/ Of(Head(ready), c)
        /\ Once(blocked, c) /\ ~(Has(blocked, c) /\ Of(Head(ready), c)) => Once(blocked', c)
    BY <1>1, <1>2, AppendHas
  <2> QED BY <2>1, <2>2, <1>t DEF Queued, clients
<1> QED BY <1>2, <1>3, <1>4, <1>t DEF QueueInv, QueueTypes, clients

\* The statements of a group leave the queue together and are all answered.
LEMMA GroupedQueued ==
    ASSUME QueueInv, Grouped
    PROVE  QueueInv'
<1>t. QueueTypes /\ pc # "gone" /\ pc' # "gone" /\ (\A c \in open : Queued(c)) /\ UNCHANGED <<chan, blocked>>
  BY DEF QueueInv, Grouped
<1>r. ready \in Seq(Pending)
  BY <1>t DEF QueueTypes
<1>1. PICK n \in 2..Len(ready) : grouped(n) /\ ready' = SubSeq(ready, n + 1, Len(ready))
  BY DEF Grouped
<1>n. n \in 0..Len(ready)
  BY <1>1, <1>r
<1> DEFINE group == {ready[i] : i \in 1..n}
<1>2. waiting' = waiting \ {p.id : p \in group} /\ UNCHANGED <<open, asked>>
  <2>1. \E says : Answer(group, says)
    BY Zenon, <1>1 DEF grouped, AnswerAll
  <2> HIDE DEF group
  <2> QED BY <2>1 DEF Answer
<1>3. ready' \in Seq(Pending)
  BY <1>1, <1>r, <1>n, SplitHas
<1>4. ASSUME NEW c \in open PROVE Queued(c)'
  <2> DEFINE a == SubSeq(ready, 1, n)
  <2>1. /\ DOMAIN a = 1..n /\ \A i \in 1..n : a[i] = ready[i]
        /\ a \in Seq(Pending)
        /\ Has(ready, c) <=> Has(a, c) \/ Has(ready', c)
        /\ Once(ready, c) => Once(ready', c) /\ ~(Has(a, c) /\ Has(ready', c))
    BY <1>1, <1>r, <1>n, SplitHas
  <2> HIDE DEF a
  <2>2. \A i \in 1..n : Of(a[i], c) <=> ready[i].id = c
    BY <2>1, PendingFacts
  <2>3. Has(a, c) <=> c \in {p.id : p \in group}
    BY <2>1, <2>2 DEF Has
  <2> HIDE DEF group
  <2> QED BY <2>1, <2>3, <1>2, <1>t DEF Queued
<1> QED BY <1>2, <1>3, <1>4, <1>t DEF QueueInv, QueueTypes

LEMMA AloneQueued ==
    ASSUME QueueInv, Alone
    PROVE  QueueInv'
<1>t. QueueTypes /\ pc # "gone" /\ pc' # "gone" /\ (\A c \in open : Queued(c)) /\ UNCHANGED <<chan, blocked>>
  BY DEF QueueInv, Alone
<1>1. ready # <<>> /\ ready \in Seq(Pending) /\ ready' = Tail(ready)
  BY <1>t DEF Alone, QueueTypes
<1>2. Head(ready) \in Pending /\ ready' \in Seq(Pending)
  BY SMTT(40), <1>1, TailHas
<1>3. waiting' = waiting \ {Head(ready).id} /\ UNCHANGED <<open, asked>>
  <2>1. \E says : AnswerOne(Head(ready), says)
    BY SMTT(40) DEF Alone, alone
  <2> QED BY <2>1 DEF AnswerOne, Answer
<1>4. ASSUME NEW c \in open PROVE Queued(c)'
  <2>1. /\ Has(ready, c) <=> Of(Head(ready), c) \/ Has(ready', c)
        /\ Once(ready, c) => Once(ready', c) /\ ~(Of(Head(ready), c) /\ Has(ready', c))
    BY SMTT(40), <1>1, TailHas
  <2>2. Of(Head(ready), c) <=> Head(ready).id = c
    BY <1>2, PendingFacts
  <2> QED BY <2>1, <2>2, <1>3, <1>t DEF Queued
<1> QED BY <1>2, <1>3, <1>4, <1>t DEF QueueInv, QueueTypes

\* Submit puts one request in for a connection that has none.
LEMMA SubmitQueued ==
    ASSUME QueueInv, NEW c \in Conns, NEW s \in Statements, Submit(c, s)
    PROVE  QueueInv'
<1>t. QueueTypes /\ UNCHANGED <<pc, ready, blocked, open>> /\ c \in open \ waiting
      /\ asked' = asked + 1 /\ asked' \in Nat
  BY SMTT(40) DEF QueueInv, QueueTypes, Submit, queues
<1>1. CASE pc = "gone"
  <2>1. chan' = chan
    BY SMTT(40), <1>1 DEF Submit
  <2> QED BY <1>1, <2>1, <1>t DEF QueueInv, QueueTypes
<1>2. CASE pc # "gone"
  <2> DEFINE p == Request(c, s, asked')
  <2>1. p \in Pending /\ p.work = "Request" /\ p.id = c
    BY <1>t, ExecutorAssumption DEF Request, Pending
  <2>2. p \in Works
    BY <2>1 DEF Works
  <2>3. chan' = Append(chan, p) /\ waiting' = waiting \cup {c}
    BY <1>2 DEF Submit
  <2> HIDE DEF p
  <2>4. chan \in Seq(Works) /\ chan' \in Seq(Works)
    BY <1>t, <2>2, <2>3, AppendHas DEF QueueTypes
  <2>5. ASSUME NEW i \in DOMAIN chan', chan'[i].work = "Closed" PROVE chan'[i].id \notin open
    <3>1. chan'[i] = p \/ (i \in DOMAIN chan /\ chan'[i] = chan[i])
      BY <2>3, <2>4
    <3> QED BY <3>1, <2>1, <2>5 DEF QueueInv
  <2>6. ASSUME NEW d \in open PROVE Queued(d)'
    <3>1. /\ Has(chan', d) <=> Has(chan, d) \/ Of(p, d)
          /\ Once(chan, d) /\ ~(Has(chan, d) /\ Of(p, d)) => Once(chan', d)
      BY <2>2, <2>3, <2>4, AppendHas
    <3>2. Of(p, d) <=> c = d
      BY <2>1 DEF Of
    <3>3. Queued(d)
      BY <1>2 DEF QueueInv
    <3> QED BY <3>1, <3>2, <3>3, <2>3, <1>t DEF Queued
  <2> QED BY <2>4, <2>5, <2>6, <1>t DEF QueueInv, QueueTypes
<1> QED BY <1>1, <1>2

\* Closed and Stop are no requests.
LEMMA AnnounceQueued ==
    ASSUME QueueInv, NEW w \in Works, w.work # "Request", w.work = "Closed" => w.id \notin open',
           chan' = Append(chan, w) \/ chan' = chan, open' \subseteq open,
           UNCHANGED <<pc, queues, asked, waiting>>
    PROVE  QueueInv'
<1>t. QueueTypes /\ UNCHANGED <<ready, blocked>>
  BY DEF QueueInv, queues
<1>1. CASE chan' = chan
  BY <1>1, <1>t DEF QueueInv, QueueTypes, Queued
<1>2. CASE chan' = Append(chan, w)
  <2>1. chan \in Seq(Works) /\ chan' \in Seq(Works)
    BY <1>t, <1>2, AppendHas DEF QueueTypes
  <2>2. ASSUME NEW i \in DOMAIN chan', chan'[i].work = "Closed" PROVE chan'[i].id \notin open'
    <3>1. chan'[i] = w \/ (i \in DOMAIN chan /\ chan'[i] = chan[i])
      BY <1>2, <2>1
    <3> QED BY <3>1, <2>2 DEF QueueInv
  <2>3. ASSUME NEW d \in open', pc # "gone" PROVE Queued(d)'
    <3>1. /\ Has(chan', d) <=> Has(chan, d) \/ Of(w, d)
          /\ Once(chan, d) /\ ~(Has(chan, d) /\ Of(w, d)) => Once(chan', d)
      BY <1>2, <2>1, AppendHas
    <3>2. ~Of(w, d)
      BY SMTT(40) DEF Of
    <3>3. Queued(d)
      BY <2>3 DEF QueueInv
    <3> QED BY <3>1, <3>2, <3>3, <1>t DEF Queued
  <2> QED BY <2>1, <2>2, <2>3, <1>t DEF QueueInv, QueueTypes
<1> QED BY <1>1, <1>2

LEMMA QueueNext == QueueInv /\ [Next]_vars => QueueInv'
<1> SUFFICES ASSUME QueueInv, [Next]_vars PROVE QueueInv'
  OBVIOUS
<1>1. ASSUME UNCHANGED <<chan, queues, clients>>, pc = "gone" => pc' = "gone" PROVE QueueInv'
  BY <1>1 DEF QueueInv, QueueTypes, Queued, queues, clients
<1>2. CASE Recv \/ Drain
  <2>1. pc # "gone" /\ pc' # "gone"
    BY <1>2 DEF Recv, Drain
  <2>2. CASE take
    BY <2>1, <2>2, TakeQueued
  <2>3. CASE UNCHANGED <<chan, queues, clients>>
    BY <2>1, <2>3, <1>1
  <2> QED BY <1>2, <2>2, <2>3 DEF Recv, Drain
<1>3. CASE Drained \/ Served
  BY SMTT(40), <1>3, <1>1 DEF Drained, Served
<1>4. CASE Exit
  BY <1>4 DEF Exit, QueueInv, QueueTypes, AnswerAll, Answer
<1>5. ASSUME NEW c \in Conns, Close(c) PROVE QueueInv'
  <2>1. Closed(c) \in Works /\ Closed(c).work = "Closed" /\ Closed(c).id = c
    BY DEF Closed, Works
  <2>2. chan' = Append(chan, Closed(c)) \/ chan' = chan
    BY <1>5 DEF Close
  <2>3. open' = open \ {c} /\ UNCHANGED <<pc, queues, asked, waiting>>
    BY <1>5 DEF Close
  <2> QED BY <2>1, <2>2, <2>3, AnnounceQueued
<1>6. CASE Drop
  <2>1. Stop \in Works /\ Stop.work = "Stop"
    BY DEF Stop, Works
  <2> QED BY <1>6, <2>1, AnnounceQueued DEF Drop, clients
<1>7. CASE Tick
  <2>1. ready' = Aged(ready) /\ blocked' = Aged(blocked) /\ UNCHANGED <<chan, pc, clients>> /\ QueueTypes
    BY <1>7 DEF Tick, QueueInv
  <2>2. ready \in Seq(Pending) /\ blocked \in Seq(Pending)
    BY <2>1 DEF QueueTypes
  <2>3. ready' \in Seq(Pending) /\ blocked' \in Seq(Pending)
    BY <2>1, <2>2, AgedHas
  <2>4. ASSUME NEW c \in open, Queued(c) PROVE Queued(c)'
    <3>1. /\ Has(ready', c) <=> Has(ready, c)
          /\ Has(blocked', c) <=> Has(blocked, c)
          /\ Once(ready, c) => Once(ready', c)
          /\ Once(blocked, c) => Once(blocked', c)
      BY <2>1, <2>2, AgedHas
    <3> QED BY <3>1, <2>1, <2>4 DEF Queued, clients
  <2> QED BY SMTT(40), <2>1, <2>3, <2>4 DEF QueueInv, QueueTypes, clients
<1>8. CASE UNCHANGED vars
  BY <1>8, <1>1 DEF vars
<1> QED
  BY SMTT(40), <1>2, <1>3, <1>4, <1>5, <1>6, <1>7, <1>8, SweepQueued, RefillQueued, BackQueued, GroupedQueued,
     AloneQueued, SubmitQueued DEF Next, Thread, Client

LEMMA QueueInit == Init => QueueInv
<1> SUFFICES ASSUME Init PROVE QueueInv
  OBVIOUS
<1>1. chan = <<>> /\ ready = <<>> /\ blocked = <<>> /\ open = Conns /\ waiting = {} /\ asked = 0
  BY DEF Init
<1>2. \A c : ~Has(<<>>, c) /\ Once(<<>>, c)
  BY DEF Has, Once
<1> QED BY <1>1, <1>2 DEF QueueInv, QueueTypes, Queued

\* Every request that was taken sits in exactly one of the channel, ready and
\* blocked until its one answer, and an answered one in none: through
\* forget() of other connections, refusals, refills, groups and shutdown.
THEOREM EveryRequestHasItsPlace == Spec => []OneAnswer
<1>1. QueueInv => OneAnswer
  <2> SUFFICES ASSUME QueueInv, pc # "gone", NEW c \in open
               PROVE  Cardinality(Places(c)) = IF c \in waiting THEN 1 ELSE 0
    BY DEF OneAnswer
  <2>1. Queued(c) /\ QueueTypes
    BY DEF QueueInv
  <2>2. \A i \in DOMAIN ready : Of(ready[i], c) <=> ready[i].id = c
    BY <2>1, PendingFacts DEF QueueTypes
  <2>3. \A i \in DOMAIN blocked : Of(blocked[i], c) <=> blocked[i].id = c
    BY <2>1, PendingFacts DEF QueueTypes
  <2>4. Places(c) = {<<"chan", i>> : i \in {j \in DOMAIN chan : Of(chan[j], c)}}
                    \cup {<<"ready", i>> : i \in {j \in DOMAIN ready : Of(ready[j], c)}}
                    \cup {<<"blocked", i>> : i \in {j \in DOMAIN blocked : Of(blocked[j], c)}}
    BY Zenon, <2>2, <2>3 DEF Places, Of
  <2>5. CASE c \notin waiting
    <3>1. Places(c) = {}
      BY <2>1, <2>4, <2>5 DEF Queued, Has
    <3> QED BY SMTT(40), <3>1, <2>5, FS_EmptySet
  <2>6. CASE c \in waiting
    <3>1. \E x : Places(c) = {x}
      <4>1. CASE Has(chan, c)
        <5>1. PICK i \in DOMAIN chan : Of(chan[i], c)
          BY <4>1 DEF Has
        <5>2. Places(c) = {<<"chan", i>>}
          BY <5>1, <4>1, <2>1, <2>4 DEF Queued, Has, Once
        <5> QED BY Zenon, <5>2
      <4>2. CASE Has(ready, c)
        <5>1. PICK i \in DOMAIN ready : Of(ready[i], c)
          BY <4>2 DEF Has
        <5>2. Places(c) = {<<"ready", i>>}
          BY <5>1, <4>2, <2>1, <2>4 DEF Queued, Has, Once
        <5> QED BY Zenon, <5>2
      <4>3. CASE Has(blocked, c)
        <5>1. PICK i \in DOMAIN blocked : Of(blocked[i], c)
          BY <4>3 DEF Has
        <5>2. Places(c) = {<<"blocked", i>>}
          BY <5>1, <4>3, <2>1, <2>4 DEF Queued, Has, Once
        <5> QED BY Zenon, <5>2
      <4> QED BY Zenon, <4>1, <4>2, <4>3, <2>1, <2>6 DEF Queued
    <3> QED BY Zenon, <3>1, <2>6, FS_Singleton
  <2> QED BY <2>5, <2>6
<1> QED BY <1>1, QueueInit, QueueNext, PTL DEF Spec

-----------------------------------------------------------------------------
(* Nothing is queued or parked for a connection that was not let in.       *)

\* The inductive invariant: whoever was let in has been told.
GateInv ==
    TokensRequired =>
       \A c \in Conns : conns[c].authenticated \/ Has(ready, c) \/ Has(blocked, c) \/ conns[c].parked.open
                        => told[c].ready

\* An answer takes no Ready back.
LEMMA ReadyStays ==
    ASSUME NEW P, NEW says, Answer(P, says), NEW c \in Conns, told[c].ready
    PROVE  told'[c].ready
<1>1. \/ told'[c] = told[c]
      \/ \E p : told'[c] = Learn(told[c], p, says[p])
  BY DEF Answer
<1>2. \A p : Learn(told[c], p, says[p]).ready
  BY Zenon DEF Learn
<1> QED BY <1>1, <1>2

LEMMA GateNext == ExecutorInvariant /\ QueueInv /\ GateInv /\ [Next]_vars => GateInv'
<1> SUFFICES ASSUME ExecutorInvariant, QueueInv, GateInv, [Next]_vars, TokensRequired, NEW c \in Conns,
                    conns'[c].authenticated \/ Has(ready', c) \/ Has(blocked', c) \/ conns'[c].parked.open
             PROVE  told'[c].ready
  BY Zenon DEF GateInv
<1>t. QueueTypes /\ Shape /\ ready \in Seq(Pending) /\ blocked \in Seq(Pending)
  BY DEF QueueInv, QueueTypes, ExecutorInvariant
<1>g. conns[c].authenticated \/ Has(ready, c) \/ Has(blocked, c) \/ conns[c].parked.open => told[c].ready
  BY DEF GateInv
<1>1. ASSUME told[c].ready => told'[c].ready,
             conns'[c].authenticated \/ Has(ready', c) \/ Has(blocked', c) \/ conns'[c].parked.open
             => conns[c].authenticated \/ Has(ready, c) \/ Has(blocked, c) \/ conns[c].parked.open
      PROVE  told'[c].ready
  BY <1>1, <1>g
<1>2. CASE Recv \/ Drain
  <2>1. CASE take
    <3> DEFINE w == Head(chan)
    <3>1. chan # <<>> /\ chan \in Seq(Works) /\ w \in Works
      BY <2>1, <1>t, TailHas DEF take, QueueTypes
    <3> HIDE DEF w
    <3>2. CASE w.work = "Request" /\ accept(w)
      <4>1. w \in Pending /\ (Of(w, c) <=> w.id = c) /\ w.id \in Conns
        BY <3>1, <3>2, WorkFacts, PendingFacts
      <4>2. CASE w.stmt \in {"auth", "badauth"}
        <5>1. UNCHANGED queues /\
              \/ w.stmt = "auth" /\ conns' = [conns EXCEPT ![w.id].authenticated = TRUE] /\ AnswerOne(w, "ready")
              \/ UNCHANGED conns /\ AnswerOne(w, "authfailed")
          BY <3>2, <4>2 DEF accept
        <5>2. CASE UNCHANGED conns /\ AnswerOne(w, "authfailed")
          BY <5>1, <5>2, <1>1, ReadyStays DEF AnswerOne, queues
        <5>3. CASE conns' = [conns EXCEPT ![w.id].authenticated = TRUE] /\ AnswerOne(w, "ready")
          <6>1. CASE c # w.id
            <7>1. conns'[c] = conns[c]
              BY <5>3, <6>1, <1>t DEF Shape
            <7> QED BY <7>1, <5>1, <5>3, <1>1, ReadyStays DEF AnswerOne, queues
          <6>2. CASE c = w.id
            <7>1. told'[c] = Learn(told[c], w, "ready")
              BY <5>3, <6>2 DEF AnswerOne, Answer
            <7>2. Learn(told[c], w, "ready").ready
              BY Zenon DEF Learn
            <7> QED BY <7>1, <7>2
          <6> QED BY <6>1, <6>2
        <5> QED BY <5>1, <5>2, <5>3
      <4>3. CASE w.stmt \notin {"auth", "badauth"} /\ ~is_authenticated(w.id)
        BY SMTT(40), <4>3, <3>2, <1>1, ReadyStays DEF accept, AnswerOne, queues
      <4>4. CASE w.stmt \notin {"auth", "badauth"} /\ is_authenticated(w.id)
        <5>1. UNCHANGED <<conns, told>>
          BY <4>4, <3>2 DEF accept, clients
        <5>2. conns[w.id].authenticated
          BY SMTT(40), <4>4 DEF is_authenticated
        <5>3. /\ Has(ready', c) => Has(ready, c) \/ c = w.id
              /\ Has(blocked', c) => Has(blocked, c) \/ c = w.id
          <6>1. ready' = Append(ready, w) \/ ready' = ready
            BY <4>4, <3>2 DEF accept
          <6>2. blocked' = Append(blocked, w) \/ blocked' = blocked
            BY <4>4, <3>2 DEF accept
          <6> QED BY ZenonT(60), <6>1, <6>2, <4>1, <1>t, AppendHas
        <5> QED BY <5>1, <5>2, <5>3, <1>1
      <4> QED BY SMTT(40), <4>2, <4>3, <4>4
    <3>3. CASE w.work = "Closed" /\ forget(w.id)
      <4> DEFINE R == {i \in DOMAIN ready : ready[i].id # w.id}
                 B == {i \in DOMAIN blocked : blocked[i].id # w.id}
      <4>1. /\ conns' = [conns EXCEPT ![w.id] = Fresh] /\ told' = [told EXCEPT ![w.id] = NotTold]
            /\ ready' = retain(ready, R) /\ blocked' = retain(blocked, B)
        BY <3>3 DEF forget
      <4>2. /\ Has(ready', c) <=> \E i \in R : Of(ready[i], c)
            /\ Has(blocked', c) <=> \E i \in B : Of(blocked[i], c)
        BY Zenon, <4>1, <1>t, RetainHas
      <4>3. CASE c = w.id
        <5>1. ~Has(ready', c) /\ ~Has(blocked', c)
          BY <4>2, <4>3 DEF Of
        <5>2. conns'[c] = Fresh
          BY <4>1, <4>3, <1>t DEF Shape
        <5> QED BY <5>1, <5>2 DEF Fresh, NoTxn
      <4>4. CASE c # w.id
        <5>1. conns'[c] = conns[c] /\ told'[c] = told[c]
          BY SMTT(40), <4>1, <4>4, <1>t DEF Shape
        <5>2. (Has(ready', c) => Has(ready, c)) /\ (Has(blocked', c) => Has(blocked, c))
          BY SMTT(40), <4>2 DEF Has
        <5> QED BY SMTT(40), <5>1, <5>2, <1>1
      <4> QED BY <4>3, <4>4
    <3>4. CASE UNCHANGED <<queues, conns, told>>
      BY <3>4, <1>1 DEF queues
    <3> QED BY <2>1, <3>2, <3>3, <3>4 DEF take, clients, w
  <2>2. CASE UNCHANGED <<queues, conns, told>>
    BY <2>2, <1>1 DEF queues
  <2> QED BY <1>2, <2>1, <2>2 DEF Recv, Drain, clients
<1>3. CASE Sweep
  <2>1. conns'[c].authenticated = conns[c].authenticated /\ (conns'[c].parked.open => conns[c].parked.open)
    <3>1. CASE UNCHANGED conns
      BY <3>1
    <3>2. CASE conns' = [conns EXCEPT ![holder].parked = NoTxn, ![holder].aborted = TRUE] /\ holder # None
      <4>1. holder \in Conns
        BY <3>2 DEF ExecutorInvariant
      <4>2. CASE c = holder
        <5>0. conns'[c] = [authenticated |-> conns[c].authenticated, parked |-> NoTxn, aborted |-> TRUE]
          BY ZenonT(60), <3>2, <4>1, <4>2, <1>t, RolledBack
        <5>1. conns'[c].parked = NoTxn /\ conns'[c].authenticated = conns[c].authenticated
          BY <5>0
        <5> QED BY <5>1 DEF NoTxn
      <4>3. CASE c # holder
        BY <3>2, <4>1, <4>3, <1>t DEF Shape
      <4> QED BY <4>2, <4>3
    <3> QED BY <1>3, <3>1, <3>2 DEF Sweep, RollBackIdle, IdleExpired
  <2>2. UNCHANGED ready
    BY <1>3 DEF Sweep
  <2>3. CASE UNCHANGED <<blocked, clients>>
    BY <2>1, <2>2, <2>3, <1>1 DEF clients
  <2>4. CASE blocked' = retain(blocked, {i \in DOMAIN blocked : blocked[i].age <= Busy}) /\ AnswerAll(Late, "busy")
    <3>1. Has(blocked', c) => Has(blocked, c)
      <4> DEFINE K == {i \in DOMAIN blocked : blocked[i].age <= Busy}
      <4>1. K \in SUBSET DOMAIN blocked /\ blocked' = retain(blocked, K)
        BY <2>4
      <4> HIDE DEF K
      <4>2. Has(blocked', c) <=> \E i \in K : Of(blocked[i], c)
        BY <4>1, <1>t, RetainHas
      <4> QED BY <4>1, <4>2 DEF Has
    <3>2. told[c].ready => told'[c].ready
      BY SMTT(40), <2>4, ReadyStays DEF AnswerAll
    <3> QED BY SMTT(40), <3>1, <3>2, <2>1, <2>2, <1>1
  <2> QED BY <1>3, <2>3, <2>4 DEF Sweep, RefuseLate
<1>4. CASE Refill
  <2>1. PICK n \in 0..Len(blocked) :
           ready' = SubSeq(blocked, 1, n) /\ blocked' = SubSeq(blocked, n + 1, Len(blocked))
    <3>1. Len(blocked) \in 0..Len(blocked) /\ (~(Len(blocked) < MaxBatch) => MaxBatch \in 0..Len(blocked))
      BY <1>t, ExecutorAssumption
    <3> QED BY Zenon, <1>4, <3>1 DEF Refill
  <2>2. Has(blocked, c) <=> Has(ready', c) \/ Has(blocked', c)
    BY <2>1, <1>t, SplitHas
  <2> QED BY <2>2, <1>4, <1>1 DEF Refill, clients
<1>5. CASE BackToWaiting
  <2>1. ready # <<>> /\ ready' = Tail(ready) /\ blocked' = Append(blocked, Head(ready))
    BY <1>5 DEF BackToWaiting
  <2>2. Head(ready) \in Pending /\ (Has(ready, c) <=> Of(Head(ready), c) \/ Has(ready', c))
    BY <2>1, <1>t, TailHas
  <2>3. Has(blocked', c) <=> Has(blocked, c) \/ Of(Head(ready), c)
    BY SMTT(40), <2>1, <2>2, <1>t, AppendHas
  <2> QED BY <2>2, <2>3, <1>5, <1>1 DEF BackToWaiting, clients
<1>6. CASE Grouped
  <2>1. PICK n \in 2..Len(ready) : grouped(n) /\ ready' = SubSeq(ready, n + 1, Len(ready))
    BY SMTT(40), <1>6 DEF Grouped
  <2>2. Has(ready', c) => Has(ready, c)
    <3>1. n \in 0..Len(ready)
      BY SMTT(40), <2>1, <1>t
    <3> QED BY <3>1, <2>1, <1>t, SplitHas
  <2>3. told[c].ready => told'[c].ready
    BY <2>1, ReadyStays DEF grouped, AnswerAll
  <2> QED BY <2>2, <2>3, <1>6, <1>1 DEF Grouped
<1>7. CASE Alone
  <2>1. ready # <<>> /\ ready' = Tail(ready) /\ UNCHANGED blocked
    BY <1>7 DEF Alone
  <2>2. Head(ready) \in Pending /\ (Has(ready, c) <=> Of(Head(ready), c) \/ Has(ready', c))
    BY <2>1, <1>t, TailHas
  <2>3. PICK d \in Conns : Head(ready).id = d /\ alone(d, Head(ready))
    BY <1>7 DEF Alone
  <2>4. told[c].ready => told'[c].ready
    <3>1. \E says : AnswerOne(Head(ready), says)
      BY SMTT(40), <2>3 DEF alone
    <3> QED BY <3>1, ReadyStays DEF AnswerOne
  <2>5. CASE c = d
    BY SMTT(40), <2>2, <2>3, <2>4, <2>5, <1>g, PendingFacts
  <2>6. CASE c # d
    <3>1. \/ conns' = [conns EXCEPT ![d].aborted = FALSE]
          \/ \E x : conns' = [conns EXCEPT ![d].parked = x]
      BY <2>3 DEF alone
    <3>2. conns'[c] = conns[c]
      BY SMTT(40), <2>6, <3>1, <1>t DEF Shape
    <3> QED BY <3>2, <2>1, <2>2, <2>4, <1>1
  <2> QED BY SMTT(40), <2>5, <2>6
<1>8. CASE Exit
  <2>1. ~Has(ready', c) /\ ~Has(blocked', c)
    BY <1>8 DEF Exit, Has
  <2>2. told[c].ready => told'[c].ready
    BY SMTT(40), <1>8, ReadyStays DEF Exit, AnswerAll
  <2> QED BY <2>1, <2>2, <1>8, <1>1 DEF Exit
<1>9. CASE Tick
  <2>1. ready' = Aged(ready) /\ blocked' = Aged(blocked) /\ UNCHANGED <<conns, told>>
    BY <1>9 DEF Tick, clients
  <2> QED BY <2>1, <1>t, <1>1, AgedHas
<1>10. CASE UNCHANGED <<queues, conns, told>>
  BY <1>10, <1>1 DEF queues
<1> QED
  BY ZenonT(60), <1>2, <1>3, <1>4, <1>5, <1>6, <1>7, <1>8, <1>9, <1>10
  DEF Next, Thread, Client, Drained, Served, Close, Submit, Drop, vars, clients

\* With a token file the executor queues no statement and keeps no transaction
\* for a connection it has not said Ready to, however requests, refusals and
\* closings interleave: accept() is the only gate and it is enough.
THEOREM NothingRunsBeforeReady == Spec => []AuthGate
<1>1. Init => GateInv
  BY DEF Init, GateInv, Has, Fresh, NoTxn
<1>2. QueueInv /\ GateInv => AuthGate
  <2> SUFFICES ASSUME QueueInv, GateInv, NEW c \in Conns, TokensRequired, ~told[c].ready
               PROVE  /\ \A i \in DOMAIN ready : ready[i].id # c
                      /\ \A i \in DOMAIN blocked : blocked[i].id # c
                      /\ ~conns[c].parked.open
    BY DEF AuthGate
  <2>1. ~Has(ready, c) /\ ~Has(blocked, c) /\ ~conns[c].parked.open
    BY DEF GateInv
  <2>2. (\A i \in DOMAIN ready : ready[i] \in Pending) /\ (\A i \in DOMAIN blocked : blocked[i] \in Pending)
    BY DEF QueueInv, QueueTypes
  <2> QED BY SMTT(40), <2>1, <2>2, PendingFacts DEF Has
<1> QED BY <1>1, <1>2, QueueInit, QueueNext, GateNext, ExecutorInductive, PTL DEF Spec
=============================================================================
