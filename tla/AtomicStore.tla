---------------------------- MODULE AtomicStore ----------------------------
(***************************************************************************)
(* What the pager promises the layers above it, without pages: a numbered  *)
(* sequence of database states.  A commit is in doubt from the moment its  *)
(* meta page may be on the medium until it is confirmed; a crash settles   *)
(* the doubt one way or the other, and nothing else ever moves the state.  *)
(***************************************************************************)
EXTENDS Naturals

CONSTANT Initial   \* the contents of a freshly created database

VARIABLES
    cur,    \* the state readers see: a number and the contents under it
    doubt   \* states a crash may move to: none, or the one being committed

store == <<cur, doubt>>

Init ==
    /\ cur = [id |-> 0, contents |-> Initial]
    /\ doubt = {}

\* A commit reaches the point where a crash could make it the next state.
Try ==
    /\ doubt = {}
    /\ \E next \in doubt' : doubt' = {next} /\ next.id = cur.id + 1
    /\ UNCHANGED cur

\* The commit is durable and its caller told so.
Confirm ==
    /\ cur' \in doubt
    /\ doubt' = {}

Crash ==
    /\ cur' \in {cur} \cup doubt
    /\ doubt' = {}

Next == Try \/ Confirm \/ Crash

Spec == Init /\ [][Next]_store
=============================================================================
