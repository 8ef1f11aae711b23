------------------------------- MODULE Server -------------------------------
(***************************************************************************)
(* One event loop of quantydb-server (worker.rs) with its connections      *)
(* (conn.rs), the registry, the outbox through which answers come back     *)
(* (dispatch.rs), the readiness layer (poll/) and the wire's framing       *)
(* (frame.rs of quantydb-proto).  Peers, the kernel's socket buffers and   *)
(* the executor's answers are the environment.                             *)
(*                                                                         *)
(* A stream is a sequence of units.  A hello, a close and a broken frame   *)
(* are one unit; a query is two, its header and its body, so that it can   *)
(* arrive in pieces.  What the server says is one unit per message, an     *)
(* answer any number of them.                                              *)
(*                                                                         *)
(* A peer follows a script of steps: a message to send, "await" (read      *)
(* until every answer so far is there), "fin" (close the sending half) or  *)
(* "reset".                                                                *)
(***************************************************************************)
EXTENDS Naturals, Sequences, FiniteSets, Registry
LOCAL INSTANCE SequencesExt
LOCAL INSTANCE FiniteSetsExt
LOCAL INSTANCE Functions

CONSTANT Settings   \* what is served and how, by name: see below

VARIABLES setting,   \* the setting; it does not change
          peer,      \* peer -> [pc, sent, up, fin, reset, down, got, eof]
          backlog,   \* peers the kernel has queued for accept
          reg,       \* the worker's registry
          nextId,    \* ConnId::next()
          events,    \* readiness events of this turn that are not handled yet
          woken,     \* the wake event of this turn, reported last
          wake,      \* the wakeup is posted
          outbox,    \* replies waiting: [token, id, msgs]
          taken,     \* replies the worker has taken and not delivered yet
          jobs,      \* jobs the dispatcher holds
          posting,   \* replies pushed whose wakeup is still to come
          gone,      \* ids the dispatcher was told are closed, in order
          running    \* "yes", "asked" (flag dropped) or "no" (shut down)

vars == <<setting, peer, backlog, reg, nextId, events, woken, wake, outbox, taken, jobs, posting, gone, running>>

Script == Settings[setting].script  \* peer -> sequence of steps
AnswerSizes == Settings[setting].sizes  \* units of an answer; 0: one that cannot be encoded
Room == Settings[setting].room      \* units the kernel takes towards a peer
InCap == Settings[setting].cap      \* units of the input buffer that stop fill
EventsPerTurn == Settings[setting].turn  \* EVENTS_PER_TURN
Backend == Settings[setting].backend  \* "epoll" or "kqueue"
Peers == DOMAIN Script              \* clients

-----------------------------------------------------------------------------
(* One connection (conn.rs).                                               *)

(* Conn::new(), with the socket's peer and the name beside it.             *)
NewConn(p, id) ==
    [peer |-> p, id |-> id, phase |-> "hello", input_closed |-> FALSE, awaiting |-> FALSE,
     inbuf |-> <<>>, outbuf |-> <<>>, interest |-> "read"]

wants_write(c) == c.outbuf # <<>>

is_finished(c) == (c.phase = "draining" \/ c.input_closed) /\ ~wants_write(c) /\ ~c.awaiting

(* A message that cannot be encoded ends the connection instead.           *)
push(c, msg) ==
    IF msg.fits THEN [c EXCEPT !.outbuf = Append(@, msg)] ELSE [c EXCEPT !.phase = "draining"]

Say(kind) == [say |-> kind, p |-> "", k |-> 0, last |-> TRUE, fits |-> TRUE]

fail(c) == [push(c, Say("error")) EXCEPT !.phase = "draining"]

(* The answer to the request that is out.                                  *)
resume(c, msgs) == FoldLeft(push, [c EXCEPT !.awaiting = FALSE], msgs)

(* fill(): read until the kernel has no more or the buffer is over its     *)
(* cap.  ok is FALSE for a socket that failed.                             *)
fill(c, sock) ==
    LET cap == IF InCap + 1 > Len(c.inbuf) THEN InCap + 1 - Len(c.inbuf) ELSE 0
        n == IF Len(sock.up) < cap THEN Len(sock.up) ELSE cap
        capped == Len(c.inbuf) + n > InCap
    IN  [ok |-> ~sock.reset, n |-> n,
         conn |-> [c EXCEPT !.inbuf = @ \o SubSeq(sock.up, 1, n),
                            !.input_closed = @ \/ (~capped /\ sock.fin)]]

step_hello(c) ==
    IF c.inbuf = <<>> THEN c
    ELSE LET took == [c EXCEPT !.inbuf = Tail(@)] IN
         IF Head(c.inbuf).u = "hello"
         THEN [took EXCEPT !.phase = "frames", !.outbuf = @ \o <<Say("accepted"), Say("ready")>>]
         ELSE [push(took, Say("refused")) EXCEPT !.phase = "draining"]

(* One frame; [conn, req], req <<>> or the request it holds.               *)
step_frame(c) ==
    LET none(conn) == [conn |-> conn, req |-> <<>>] IN
    IF c.inbuf = <<>> THEN none(c)
    ELSE LET u == Head(c.inbuf)
             took == [c EXCEPT !.inbuf = Tail(@)]
         IN  IF u.u = "huge" THEN none(fail(c))
             ELSE IF u.u = "close" THEN none([took EXCEPT !.phase = "draining"])
             ELSE IF u.u # "head" THEN none(fail(took))
             ELSE IF Len(c.inbuf) = 1 THEN none(c)
             ELSE [conn |-> [c EXCEPT !.inbuf = SubSeq(@, 3, Len(@)), !.awaiting = TRUE],
                   req |-> <<[p |-> c.inbuf[2].p, k |-> c.inbuf[2].k]>>]

(* Mutant: a request is taken while another is out. *)
step_eager(c) ==
    IF c.phase = "draining" \/ wants_write(c) THEN [conn |-> c, req |-> <<>>]
    ELSE IF c.phase = "hello" THEN [conn |-> step_hello(c), req |-> <<>>]
    ELSE step_frame(c)

(* step(): nothing is read while a request is out or output waits.  Every  *)
(* message it does take leaves the connection in one of those states.      *)
step(c) ==
    IF c.phase = "draining" \/ c.awaiting \/ wants_write(c) THEN [conn |-> c, req |-> <<>>]
    ELSE IF c.phase = "hello" THEN [conn |-> step_hello(c), req |-> <<>>]
    ELSE step_frame(c)

(* flush(): the socket took n units.                                       *)
flush(c, n) == [c EXCEPT !.outbuf = SubSeq(@, n + 1, Len(@))]

(* drive(): step and flush until nothing moves; out is what the socket     *)
(* took, reqs what was submitted.  A reset socket refuses every write.     *)
RECURSIVE Driven(_, _, _)
Driven(c, sock, room) ==
    LET st == step(c)
        n == IF Len(st.conn.outbuf) < room THEN Len(st.conn.outbuf) ELSE room
        broken == sock.reset /\ st.conn.outbuf # <<>>
        flushed == flush(st.conn, n)
        finished == broken \/ is_finished(flushed)
        here == [conn |-> flushed, finished |-> finished, reqs |-> st.req,
                 out |-> IF broken THEN <<>> ELSE SubSeq(st.conn.outbuf, 1, n)]
    IN  IF \/ finished \/ flushed.awaiting \/ wants_write(flushed)
           \/ Len(flushed.inbuf) = Len(c.inbuf)
        THEN here
        ELSE LET rest == Driven(flushed, sock, room - n)
             IN  [rest EXCEPT !.reqs = st.req \o @, !.out = here.out \o @]

-----------------------------------------------------------------------------
(* The worker.                                                             *)

(* What closing the connections of a set of tokens leaves behind.          *)
Closed(tokens) ==
    /\ reg' = FoldLeft(remove, reg, SetToSeq(tokens))
    /\ gone' = gone \o SetToSeq({get_mut(reg, t).id : t \in tokens})

(* Mutant: a connection with output left does not ask to write. *)
InterestRead(c) == "read"

(* What the worker asks readiness for: writing only while output waits.    *)
Interest(c) == IF wants_write(c) THEN "both" ELSE "read"

(* drive(): push one connection as far as it goes and fix up its interest. *)
drive(token, c, sock) ==
    \E d \in {Driven(c, sock, Room - Len(sock.down))} :
      LET p == c.peer
          after == [sock EXCEPT !.down = @ \o d.out]
          conn == [d.conn EXCEPT !.interest = Interest(d.conn)]
      IN  /\ jobs' = jobs \cup {[id |-> c.id, token |-> token, req |-> r] : r \in ToSet(d.reqs)}
          /\ IF d.finished
             THEN /\ reg' = remove(reg, token)
                  /\ gone' = Append(gone, c.id)
                  /\ peer' = [peer EXCEPT ![p] = [after EXCEPT !.eof = TRUE]]
             ELSE /\ reg' = Stored(reg, token, conn)
                  /\ gone' = gone
                  /\ peer' = [peer EXCEPT ![p] = after]

on_ready(ev) ==
    LET c == get_mut(reg, ev.token) IN
    /\ events' = events \ {ev}
    /\ IF c = Vacant THEN UNCHANGED <<peer, reg, jobs, gone>>       \* stale
       ELSE \E f \in {IF ev.readable THEN fill(c, peer[c.peer]) ELSE [ok |-> TRUE, n |-> 0, conn |-> c]} :
            LET sock == peer[c.peer]
                read == [sock EXCEPT !.up = SubSeq(@, f.n + 1, Len(@))]
            IN  IF ev.error \/ ~f.ok
                THEN Closed({ev.token}) /\ peer' = [peer EXCEPT ![c.peer].eof = TRUE] /\ UNCHANGED jobs
                ELSE drive(ev.token, f.conn, read)
    /\ UNCHANGED <<backlog, nextId, woken, wake, outbox, taken, posting, running>>

LISTENER == [index |-> 0, gen |-> 0]

(* accept_all(): everything the kernel has queued.                         *)
RECURSIVE Accepted(_, _, _)
Accepted(r, id, ps) ==
    IF ps = <<>> THEN r
    ELSE Accepted(insert(r, NewConn(Head(ps), id)), id + 1, Tail(ps))

accept_all ==
    /\ \E e \in events : e.token = LISTENER /\ events' = events \ {e}
    /\ reg' = Accepted(reg, nextId, backlog)
    /\ nextId' = nextId + Len(backlog)
    /\ backlog' = <<>>
    /\ UNCHANGED <<peer, woken, wake, outbox, taken, jobs, posting, gone, running>>

(* accept() fails for good, say for want of descriptors, after it gave     *)
(* some of the queue: the turn ends where it is, the loop is left and      *)
(* everything the worker holds is closed.                                  *)
accept_fails ==
    /\ \E e \in events : e.token = LISTENER
    /\ \E n \in 0 .. (Len(backlog) - 1) :
         LET full == Accepted(reg, nextId, SubSeq(backlog, 1, n))
         IN  /\ nextId' = nextId + n
             /\ reg' = FoldLeft(remove, full, SetToSeq(Tokens(full)))
             /\ gone' = gone \o SetToSeq({get_mut(full, t).id : t \in Tokens(full)})
    /\ events' = {} /\ woken' = FALSE /\ backlog' = <<>>
    /\ peer' = [p \in Peers |-> [peer[p] EXCEPT !.eof = @ \/ peer[p].pc > 0]]
    /\ running' = "no"
    /\ UNCHANGED <<wake, outbox, taken, jobs, posting>>

(* deliver(): take the replies that are there, then hand each to its       *)
(* connection if that is still the one that asked.                         *)
take ==
    /\ events = {} /\ woken /\ taken = <<>>
    /\ woken' = FALSE
    /\ taken' = outbox
    /\ outbox' = <<>>
    /\ UNCHANGED <<peer, backlog, reg, nextId, events, wake, jobs, posting, gone, running>>

(* Mutant: a reply goes to whoever holds the token now. *)
deliver_by_token ==
    /\ taken # <<>>
    /\ taken' = Tail(taken)
    /\ LET reply == Head(taken)
           c == get_mut(reg, reply.token)
       IN  IF c = Vacant THEN UNCHANGED <<peer, reg, jobs, gone>>
           ELSE drive(reply.token, resume(c, reply.msgs), peer[c.peer])
    /\ UNCHANGED <<backlog, nextId, events, woken, wake, outbox, posting, running>>

deliver ==
    /\ taken # <<>>
    /\ taken' = Tail(taken)
    /\ LET reply == Head(taken)
           c == get_mut(reg, reply.token)
       IN  IF c = Vacant THEN UNCHANGED <<peer, reg, jobs, gone>>
           ELSE IF c.id # reply.id THEN UNCHANGED <<peer, reg, jobs, gone>>
           ELSE drive(reply.token, resume(c, reply.msgs), peer[c.peer])
    /\ UNCHANGED <<backlog, nextId, events, woken, wake, outbox, posting, running>>

(* What the kernel reports of a connection.                                *)
Readable(c) == peer[c.peer].up # <<>> \/ peer[c.peer].fin \/ peer[c.peer].reset
Writable(c) == c.interest = "both" /\ (Len(peer[c.peer].down) < Room \/ peer[c.peer].reset)

(* epoll: one event per descriptor, a hangup sets both flags.  kqueue: one *)
(* per filter, the end of the stream on the write filter is an error.      *)
Reported(t) ==
    LET c == get_mut(reg, t)
        dead == peer[c.peer].reset
        e(r, x) == [token |-> t, readable |-> r, error |-> x]
    IN  IF Backend = "epoll"
        THEN IF Readable(c) \/ Writable(c) THEN {e(Readable(c), dead)} ELSE {}
        ELSE (IF Readable(c) THEN {e(TRUE, FALSE)} ELSE {})
             \cup (IF Writable(c) THEN {e(dead, dead)} ELSE {})

ReadyEvents ==
    UNION {Reported(t) : t \in Tokens(reg)}
    \cup (IF backlog # <<>> THEN {[token |-> LISTENER, readable |-> TRUE, error |-> FALSE]} ELSE {})

Rested == events = {} /\ ~woken /\ taken = <<>>

(* poll(): up to EventsPerTurn of what is ready.  A posted wakeup is       *)
(* drained here, before the replies are taken.                             *)
poll ==
    LET want == Cardinality(ReadyEvents)
        n == IF want < EventsPerTurn THEN want ELSE EventsPerTurn
    IN  /\ running = "yes" /\ Rested
        /\ ReadyEvents # {} \/ wake
        /\ events' \in {s \in SUBSET ReadyEvents : Cardinality(s) = n}
        /\ woken' = wake
        /\ wake' = FALSE
        /\ UNCHANGED <<peer, backlog, reg, nextId, outbox, taken, jobs, posting, gone, running>>

(* The loop sees the flag between two turns and closes what it holds.      *)
shutdown ==
    /\ running = "asked" /\ Rested
    /\ Closed(Tokens(reg))
    /\ peer' = [p \in Peers |-> [peer[p] EXCEPT !.eof = @ \/ peer[p].pc > 0]]
    /\ running' = "no"
    /\ UNCHANGED <<backlog, nextId, events, woken, wake, outbox, taken, jobs, posting>>

-----------------------------------------------------------------------------
(* The executor: it answers what it holds, in any order, and may answer    *)
(* nothing at all for a connection that is gone.                           *)

(* n messages; none stands for one that does not fit a frame.              *)
AnswerTo(req, n) ==
    [i \in 1 .. (IF n = 0 THEN 1 ELSE n) |->
        [say |-> "answer", p |-> req.p, k |-> req.k, last |-> i >= n, fits |-> n > 0]]

(* Job::answer(): the reply is queued, then the worker is woken.           *)
answer(job, n) ==
    /\ jobs' = jobs \ {job}
    /\ outbox' = Append(outbox, [token |-> job.token, id |-> job.id, msgs |-> AnswerTo(job.req, n)])
    /\ posting' = posting + 1
    /\ UNCHANGED <<peer, backlog, reg, nextId, events, woken, wake, taken, gone, running>>

WakeUp ==
    /\ posting > 0
    /\ posting' = posting - 1
    /\ wake' = TRUE
    /\ UNCHANGED <<peer, backlog, reg, nextId, events, woken, outbox, taken, jobs, gone, running>>

Discard(job) ==
    /\ job.id \in ToSet(gone)
    /\ jobs' = jobs \ {job}
    /\ UNCHANGED <<peer, backlog, reg, nextId, events, woken, wake, outbox, taken, posting, gone, running>>

-----------------------------------------------------------------------------
(* Peers.                                                                  *)

Units(p, s) ==
    CASE s = "query" -> <<[u |-> "head", p |-> p, k |-> 0],
                          [u |-> "body", p |-> p, k |-> peer[p].asked + 1]>>
      [] OTHER -> <<[u |-> s, p |-> p, k |-> 0]>>

AnswersOf(p) == Cardinality({i \in DOMAIN peer[p].got : peer[p].got[i].say = "answer" /\ peer[p].got[i].last})
Greeted(p) == \E i \in DOMAIN peer[p].got : peer[p].got[i].say = "ready"

NextStep(p) == Script[p][peer[p].pc]
Acting(p) == peer[p].pc > 0 /\ peer[p].pc <= Len(Script[p])
Advance(p) == [peer EXCEPT ![p].pc = @ + 1]

Connect(p) ==
    /\ peer[p].pc = 0 /\ running # "no"
    /\ peer' = Advance(p)
    /\ backlog' = Append(backlog, p)
    /\ UNCHANGED <<reg, nextId, events, woken, wake, outbox, taken, jobs, posting, gone, running>>

(* A message enters the kernel whole or, a query, in two pieces.           *)
Send(p) ==
    /\ Acting(p)
    /\ NextStep(p) \in {"hello", "query", "close", "huge", "junk"}
    /\ LET us == Units(p, NextStep(p))
           done == peer[p].part + 1 = Len(us)
       IN  \E whole \in {TRUE, done} :
             peer' = [peer EXCEPT ![p] =
                        [@ EXCEPT !.up = IF peer[p].eof THEN @
                                         ELSE @ \o SubSeq(us, peer[p].part + 1, IF whole THEN Len(us) ELSE peer[p].part + 1),
                                  !.part = IF whole THEN 0 ELSE @ + 1,
                                  !.pc = IF whole THEN @ + 1 ELSE @,
                                  !.asked = IF whole /\ NextStep(p) = "query" THEN @ + 1 ELSE @]]
    /\ UNCHANGED <<backlog, reg, nextId, events, woken, wake, outbox, taken, jobs, posting, gone, running>>

Await(p) ==
    /\ Acting(p) /\ NextStep(p) = "await"
    /\ \/ Greeted(p) /\ AnswersOf(p) = peer[p].asked
       \/ peer[p].eof /\ peer[p].down = <<>>
    /\ peer' = Advance(p)
    /\ UNCHANGED <<backlog, reg, nextId, events, woken, wake, outbox, taken, jobs, posting, gone, running>>

Fin(p) ==
    /\ Acting(p) /\ NextStep(p) \in {"fin", "reset"}
    /\ peer' = [peer EXCEPT ![p] = [@ EXCEPT !.fin = TRUE, !.reset = (NextStep(p) = "reset"), !.pc = @ + 1]]
    /\ UNCHANGED <<backlog, reg, nextId, events, woken, wake, outbox, taken, jobs, posting, gone, running>>

Receive(p) ==
    /\ peer[p].down # <<>>
    /\ peer' = [peer EXCEPT ![p] = [@ EXCEPT !.got = Append(@, Head(peer[p].down)), !.down = Tail(@)]]
    /\ UNCHANGED <<backlog, reg, nextId, events, woken, wake, outbox, taken, jobs, posting, gone, running>>

Stop ==
    /\ running = "yes"
    /\ running' = "asked"
    /\ UNCHANGED <<peer, backlog, reg, nextId, events, woken, wake, outbox, taken, jobs, posting, gone>>

-----------------------------------------------------------------------------
Init ==
    /\ setting \in DOMAIN Settings
    /\ peer = [p \in Peers |-> [pc |-> 0, part |-> 0, asked |-> 0, up |-> <<>>, fin |-> FALSE,
                                reset |-> FALSE, down |-> <<>>, got |-> <<>>, eof |-> FALSE]]
    /\ backlog = <<>> /\ reg = NoSlots /\ nextId = 1
    /\ events = {} /\ woken = FALSE /\ wake = FALSE
    /\ outbox = <<>> /\ taken = <<>> /\ jobs = {} /\ posting = 0 /\ gone = <<>> /\ running = "yes"

OnReady == \E ev \in events : ev.token # LISTENER /\ on_ready(ev)
Answer == \E job \in jobs, n \in AnswerSizes : answer(job, n)

WorkerNext == poll \/ OnReady \/ accept_all \/ accept_fails \/ take \/ deliver \/ shutdown
ExecutorNext == Answer \/ WakeUp \/ \E job \in jobs : Discard(job)
PeerNext(p) == Connect(p) \/ Send(p) \/ Await(p) \/ Fin(p) \/ Receive(p)

Next ==
    /\ WorkerNext \/ ExecutorNext \/ (\E p \in Peers : PeerNext(p)) \/ Stop
    /\ UNCHANGED setting

Spec == Init /\ [][Next]_vars

AllPeers == UNION {DOMAIN Settings[s].script : s \in DOMAIN Settings}

(* The loop's thread runs, the executor answers what it is given, and a    *)
(* peer reads what comes and goes on with its script.                      *)
Worker == WorkerNext /\ UNCHANGED setting
Executor == (Answer \/ WakeUp) /\ UNCHANGED setting
Peer(p) == p \in Peers /\ (Send(p) \/ Await(p) \/ Fin(p) \/ Receive(p)) /\ UNCHANGED setting

LiveSpec == Spec /\ WF_vars(Worker) /\ WF_vars(Executor) /\ \A p \in AllPeers : WF_vars(Peer(p))

-----------------------------------------------------------------------------
(* Properties.                                                             *)

Alive == {get_mut(reg, t) : t \in Tokens(reg)}
Out(id) ==
    Cardinality({j \in jobs : j.id = id})
    + Len(SelectSeq(outbox \o taken, LAMBDA r : r.id = id))

(* The answers a peer has received are those to its own statements, in the *)
(* order it sent them, none missing and none torn, whatever slots changed  *)
(* hands while the executor worked (Registry::get_mut, Worker::deliver).   *)
AnswersReachTheAsker ==
    \A p \in Peers :
        LET ans == SelectSeq(peer[p].got, LAMBDA m : m.say = "answer")
        IN  \A i \in DOMAIN ans :
              /\ ans[i].p = p
              /\ ans[i].k = 1 + Cardinality({j \in 1 .. (i - 1) : ans[j].last})

(* A connection waits exactly while one request of its own is out: with    *)
(* the executor, in the outbox or taken from it.                           *)
OneRequestOut ==
    /\ \A id \in 1 .. (nextId - 1) : Out(id) <= 1
    /\ \A c \in Alive : c.awaiting <=> Out(c.id) = 1

(* Every connection that was accepted is either open or was reported       *)
(* closed to the dispatcher once.                                          *)
ClosedOnce ==
    /\ Cardinality(ToSet(gone)) = Len(gone)
    /\ ToSet(gone) \cap {c.id : c \in Alive} = {}
    /\ ToSet(gone) \cup {c.id : c \in Alive} = 1 .. (nextId - 1)

(* What the dispatcher may count on: it never holds two requests of one    *)
(* connection, and it hears of the end of each connection once, so that it *)
(* keeps no state for one that is gone and loses none of one that lives    *)
(* (Conn::step, Conn::resume, Worker::close, Worker::shutdown).            *)
DispatcherContract == OneRequestOut /\ ClosedOnce

(* A statement that has been sent whole is answered to the peer that sent  *)
(* it, unless the peer goes away or the server is told to stop.            *)
Asked(p, k) == p \in Peers /\ peer[p].asked >= k
Answered(p, k) == p \in Peers /\ (AnswersOf(p) >= k \/ peer[p].reset \/ running # "yes")
Scripts == UNION {Range(Settings[s].script) : s \in DOMAIN Settings}
MaxQueries == Max({Cardinality({i \in DOMAIN q : q[i] = "query"}) : q \in Scripts})

StatementsAreAnswered ==
    \A p \in AllPeers : \A k \in 1 .. MaxQueries : Asked(p, k) ~> Answered(p, k)
=============================================================================
