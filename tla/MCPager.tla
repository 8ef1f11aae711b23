------------------------------ MODULE MCPager ------------------------------
(***************************************************************************)
(* The pager, for TLC.  A crowded file has six pages, suspended batches    *)
(* and snapshots; a long one eight pages and free lists of several chain   *)
(* pages, consumed one after another and partly kept behind a new one, and *)
(* nobody else.                                                            *)
(***************************************************************************)
EXTENDS PagerInv

VARIABLE part

Bound ==
    IF part = "crowded"
    THEN committed.page_count <= 6 /\ batch.next_page <= 6 /\ Cardinality(batch.dirty) <= 2
    ELSE parked = {} /\ snaps = {}

MCInit == part \in {"crowded", "long"} /\ Init
MCNext == Next /\ UNCHANGED part /\ Bound'
MCSpec == MCInit /\ [][MCNext]_<<vars, part>>
=============================================================================
