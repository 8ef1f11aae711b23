----------------------------- MODULE MCService ------------------------------
(***************************************************************************)
(* The serving side for TLC: the executor as a server without tokens has   *)
(* it and as one that requires them and stops, and the event loop in       *)
(* front of it.  A behaviour is about one part; the others rest.           *)
(***************************************************************************)
EXTENDS Executor, TLC

CONSTANTS Parts, Vacant, Generations, Settings

VARIABLES part, setting, peer, backlog, reg, nextId, events, woken, wake, outbox, taken,
          jobs, posting, gone, running

Auth == INSTANCE Executor WITH Statements <- AllStatements \ {"get", "put", "log"},
                               MaxRequests <- 3, TokensRequired <- TRUE, Stops <- TRUE
S == INSTANCE Server

loopVars == <<setting, peer, backlog, reg, nextId, events, woken, wake, outbox, taken, jobs,
              posting, gone, running>>
all == <<part, vars, loopVars>>

MCInit == part \in Parts /\ Init /\ S!Init /\ (part # "loop" => setting = "rest")

MCNext ==
    /\ UNCHANGED part
    /\ \/ part = "open" /\ Next /\ UNCHANGED loopVars
       \/ part = "guarded" /\ Auth!Next /\ UNCHANGED loopVars
       \/ part = "loop" /\ S!Next /\ UNCHANGED vars

MCSpec == MCInit /\ [][MCNext]_all

(* The fairness of the parts, see Executor and Server; no other step is    *)
(* possible in a part that rests.                                          *)
MCLiveSpec ==
    /\ MCSpec
    /\ WF_all(part = "open" /\ Thread /\ UNCHANGED <<part, loopVars>>)
    /\ WF_all(part = "open" /\ Tick /\ UNCHANGED <<part, loopVars>>)
    /\ WF_all(part = "loop" /\ S!Worker /\ UNCHANGED <<part, vars>>)
    /\ WF_all(part = "loop" /\ S!Executor /\ UNCHANGED <<part, vars>>)
    /\ \A p \in S!AllPeers : WF_all(part = "loop" /\ S!Peer(p) /\ UNCHANGED <<part, vars>>)

\* Nothing tells one connection from another.
Symmetry == Permutations(Conns)
-----------------------------------------------------------------------------
(* What is served: the scripts of the peers, the sizes of the answers, the *)
(* room in the kernel's buffer and in ours, the events of a turn.          *)

Setting(script, sizes, room, cap, turn, backend) ==
    [script |-> script, sizes |-> sizes, room |-> room, cap |-> cap, turn |-> turn,
     backend |-> backend]

(* A conversation by the book, one that dies while its statement is out,   *)
(* and a newcomer that can take over the slot.                             *)
Turnover ==
    ("a" :> <<"hello", "await", "query", "reset">>)
    @@ ("b" :> <<"hello", "query", "await", "close">>)
    @@ ("c" :> <<"reset">>)

(* Statements and the end of the conversation sent without waiting.        *)
Ahead ==
    ("a" :> <<"hello", "query", "query", "close">>)
    @@ ("b" :> <<"hello", "await", "huge", "fin">>)

(* Well-behaved peers: one that closes, and one that half-closes.          *)
Polite ==
    ("a" :> <<"hello", "await", "query", "await", "close">>)
    @@ ("b" :> <<"hello", "await", "query", "fin">>)

Nobody == [p \in {} |-> <<>>]

Safe == "rest" :> Setting(Nobody, {1}, 1, 2, 2, "epoll")
     @@ "turnover" :> Setting(Turnover, {2}, 1, 2, 2, "epoll")
     @@ "ahead" :> Setting(Ahead, {0, 2}, 1, 2, 2, "kqueue")
Live == "rest" :> Setting(Nobody, {1}, 1, 2, 2, "epoll")
     @@ "polite" :> Setting(Polite, {3}, 2, 4, 4, "epoll")
-----------------------------------------------------------------------------
(* The properties of the parts that are instances, by their own names.     *)

(* A server that requires tokens runs nothing for a connection that has    *)
(* not shown one (executor.rs: admit): Executor's AuthGate.                *)
AuthGateHolds == part = "guarded" => Auth!AuthGate

(* Registry::get_mut and Worker::deliver: see Server.                      *)
AnswersReachTheAsker == S!AnswersReachTheAsker

(* Conn::step, Conn::resume, Worker::close and Worker::shutdown: see       *)
(* Server.                                                                 *)
DispatcherContract == S!DispatcherContract

(* Conn::fill, Worker::drive and Worker::deliver: see Server.              *)
StatementsAreAnswered == S!StatementsAreAnswered

=============================================================================
