------------------------------ MODULE Handles ------------------------------
(***************************************************************************)
(* Several processes with one database file: creating and opening it,      *)
(* the writer lock, the commit guard, and readers that take no lock        *)
(* (storage.rs, Pager::create, open and commit, meta.rs, lock.rs).         *)
(*                                                                         *)
(* A commit is reduced to the page of its root: pages[page] holds the      *)
(* stamp of the commit that wrote it last.  A meta is [txid, next, kept,   *)
(* free, line]: kept are the retained commits [page, stamp], line every    *)
(* stamp it was built upon (not stored, for the properties).  How a commit *)
(* fails or is torn within one process is the subject of Pager.            *)
(***************************************************************************)
EXTENDS Naturals, Sequences, FiniteSets

CONSTANTS Procs,          \* processes; each holds at most one handle
          Scribes,        \* processes that write through an unlocked handle
          Setups,         \* the circumstances that are looked at
          MaxPages,       \* bound: pages of the file
          Absent,         \* no meta, no commit, nobody
          Garbled         \* bytes that do not decode

MetaType == [txid : Nat, next : Nat, kept : SUBSET [page : Nat, stamp : Nat],
             free : SUBSET Nat, line : SUBSET Nat]

ASSUME HandlesAssumption ==
    /\ MaxPages \in Nat /\ Absent \notin Procs
    /\ Setups \subseteq [locking : BOOLEAN, collecting : BOOLEAN, commits : Nat]
    /\ {Absent, Garbled} \cap MetaType = {} /\ Absent \notin [page : Nat, stamp : Nat]

VARIABLES setup,     \* [locking, collecting, commits]: whether the file system supports
                     \* the lock, whether gc is run, how many transactions are begun
          slot,      \* 0..1 -> the meta a reader finds there, Absent or Garbled
          durable,   \* the same as of the last sync
          pages,     \* page -> stamp of the commit whose bytes it holds
          exists,    \* the file has a name
          lock,      \* the process that holds the lock, or Absent
          h,         \* process -> its handle
          stamps,    \* stamps used
          acked,     \* stamps of commits that were acknowledged
          crossed    \* a commit began while another, or the creation, was under way

fileVars == <<setup, slot, durable, pages, exists, lock>>
handleVars == <<setup, slot, durable, pages, exists, lock, h, stamps, acked, crossed>>

FilePages == 2 .. (MaxPages + 1)
Empty == [txid |-> 0, next |-> 2, kept |-> {}, free |-> {}, line |-> {}]
IsMeta(m) == m \notin {Absent, Garbled}

Shut == [pc |-> "none", locked |-> FALSE, meta |-> Empty, batch |-> Empty,
         page |-> 0, stamp |-> 0, snap |-> Absent]

Go(p, pc) == h' = [h EXCEPT ![p].pc = pc]

-----------------------------------------------------------------------------
(* Creating and opening.                                                   *)

(* FileStorage::create() and open(): the file first, the lock after.       *)
create_file(p) ==
    /\ h[p].pc = "none" /\ ~exists
    /\ exists' = TRUE
    /\ Go(p, "claim_new")
    /\ UNCHANGED <<setup, slot, durable, pages, lock, stamps, acked, crossed>>

open_file(p) ==
    /\ h[p].pc = "none" /\ exists
    /\ Go(p, "claim")
    /\ UNCHANGED <<fileVars, stamps, acked, crossed>>

open_file_unlocked(p) ==
    /\ h[p].pc = "none" /\ exists
    /\ Go(p, "recover")
    /\ UNCHANGED <<fileVars, stamps, acked, crossed>>

(* claim(): a held lock refuses the handle, a missing one does not.        *)
claim(p) ==
    /\ h[p].pc \in {"claim", "claim_new"}
    /\ IF setup.locking /\ lock # Absent
       THEN h' = [h EXCEPT ![p] = Shut] /\ lock' = lock
       ELSE /\ h' = [h EXCEPT ![p].locked = setup.locking,
                              ![p].pc = IF @ = "claim" THEN "recover" ELSE "create"]
            /\ lock' = IF setup.locking THEN p ELSE lock
    /\ UNCHANGED <<setup, slot, durable, pages, exists, stamps, acked, crossed>>

(* Pager::create(): both slots, then the sync.  The handle exists after it.*)
create_slot0(p) ==
    /\ h[p].pc = "create"
    /\ IF slot[0] = Absent /\ slot[1] = Absent
       THEN slot' = [slot EXCEPT ![0] = Empty] /\ Go(p, "create1") /\ lock' = lock
       ELSE /\ h' = [h EXCEPT ![p] = Shut]                      \* not empty
            /\ lock' = IF lock = p THEN Absent ELSE lock
            /\ slot' = slot
    /\ UNCHANGED <<setup, durable, pages, exists, stamps, acked, crossed>>

create_slot1(p) ==
    /\ h[p].pc = "create1"
    /\ slot' = [slot EXCEPT ![1] = Empty]
    /\ Go(p, "create2")
    /\ UNCHANGED <<setup, durable, pages, exists, lock, stamps, acked, crossed>>

create_sync(p) ==
    /\ h[p].pc = "create2"
    /\ durable' = slot
    /\ h' = [h EXCEPT ![p].pc = "open", ![p].meta = Empty]
    /\ acked' = acked \cup {0}
    /\ UNCHANGED <<setup, slot, pages, exists, lock, stamps, crossed>>

(* meta::recover(): the newest slot that decodes, or an error.             *)
FoundIn(s) == LET ms == {m \in {s[0], s[1]} : IsMeta(m)}
              IN  IF ms = {} THEN Absent ELSE CHOOSE m \in ms : \A n \in ms : n.txid <= m.txid

recover(p) ==
    /\ h[p].pc = "recover"
    /\ IF FoundIn(slot) = Absent
       THEN h' = [h EXCEPT ![p] = Shut] /\ lock' = IF lock = p THEN Absent ELSE lock
       ELSE h' = [h EXCEPT ![p].pc = "open", ![p].meta = FoundIn(slot)] /\ lock' = lock
    /\ UNCHANGED <<setup, slot, durable, pages, exists, stamps, acked, crossed>>

(* The process drops its handle or is killed; what it wrote stays in the   *)
(* file, what it had not written is gone, the lock is released.            *)
close(p) ==
    /\ h[p].pc # "none"
    /\ h' = [h EXCEPT ![p] = Shut]
    /\ lock' = IF lock = p THEN Absent ELSE lock
    /\ UNCHANGED <<setup, slot, durable, pages, exists, stamps, acked, crossed>>

(* The machine stops: a slot that was not synced holds its old value, its  *)
(* new one or neither.  Pages a durable meta names were synced before it.  *)
crash ==
    /\ \E s \in [{0, 1} -> {"old", "new", "torn"}] :
         slot' = [i \in {0, 1} |-> IF slot[i] = durable[i] \/ s[i] = "old" THEN durable[i]
                                  ELSE IF s[i] = "new" THEN slot[i] ELSE Garbled]
    /\ durable' = slot'
    /\ h' = [p \in Procs |-> Shut]
    /\ lock' = Absent
    /\ UNCHANGED <<setup, pages, exists, stamps, acked, crossed>>

-----------------------------------------------------------------------------
(* Writing.                                                                *)

MayWrite(p) == h[p].pc = "open" /\ (h[p].locked \/ ~setup.locking \/ p \in Scribes)

(* Mutant: a page of a retained commit is rewritten in place. *)
InPlace(base) == {base.next} \cup {c.page : c \in base.kept}

(* Where a batch may write: the free list first, then the end of the file. *)
Allocatable(base) == IF base.free = {} THEN {base.next} ELSE base.free

(* A transaction that writes one page.                                     *)
begin(p) ==
    /\ MayWrite(p) /\ stamps < setup.commits
    /\ LET base == h[p].meta IN
       \E page \in Allocatable(base) \cap FilePages :
         /\ h' = [h EXCEPT ![p].pc = "guard", ![p].page = page, ![p].stamp = stamps + 1,
                           ![p].batch = [txid |-> base.txid + 1,
                                         next |-> IF page = base.next THEN page + 1 ELSE base.next,
                                         free |-> base.free \ {page},
                                         kept |-> base.kept \cup {[page |-> page, stamp |-> stamps + 1]},
                                         line |-> base.line \cup {stamps + 1}]]
         /\ stamps' = stamps + 1
    /\ UNCHANGED <<fileVars, acked, crossed>>

(* gc(): the newest commit is kept, the pages of the others become free.   *)
(* It takes the handle for itself, so no snapshot of this process is open. *)
collect(p) ==
    /\ setup.collecting /\ MayWrite(p) /\ h[p].snap = Absent
    /\ Cardinality(h[p].meta.kept) > 1
    /\ LET base == h[p].meta
           head == CHOOSE c \in base.kept : \A d \in base.kept : d.stamp <= c.stamp
       IN  h' = [h EXCEPT ![p].pc = "guard", ![p].page = 0, ![p].stamp = head.stamp,
                          ![p].batch = [txid |-> base.txid + 1, next |-> base.next,
                                        free |-> (2 .. (base.next - 1)) \ {head.page},
                                        kept |-> {head}, line |-> base.line]]
    /\ UNCHANGED <<fileVars, stamps, acked, crossed>>

UnderWay == {"create1", "create2", "write", "meta", "sync"}

(* The commit guard: the slot about to be overwritten is read first.       *)
txid_in_slot(i) == IF IsMeta(slot[i]) THEN slot[i].txid ELSE 0

commit_guard(p) ==
    /\ h[p].pc = "guard"
    /\ IF txid_in_slot(h[p].batch.txid % 2) > h[p].meta.txid
       THEN Go(p, "open") /\ crossed' = crossed                   \* WriterRaced
       ELSE /\ Go(p, "write")
            /\ crossed' = (crossed \/ \E q \in Procs \ {p} : h[q].pc \in UnderWay)
    /\ UNCHANGED <<fileVars, stamps, acked>>

(* Mutant: the pages are not synced before the meta is written. *)
commit_pages_unsynced(p) ==
    /\ h[p].pc = "write"
    /\ pages' = IF h[p].page = 0 THEN pages ELSE [pages EXCEPT ![h[p].page] = h[p].stamp]
    /\ Go(p, "meta")
    /\ UNCHANGED <<setup, slot, durable, exists, lock, stamps, acked, crossed>>

(* The pages, and the sync that makes them durable before any meta names   *)
(* them; it also makes durable what a killed process left behind.          *)
commit_pages(p) ==
    /\ h[p].pc = "write"
    /\ pages' = IF h[p].page = 0 THEN pages ELSE [pages EXCEPT ![h[p].page] = h[p].stamp]
    /\ durable' = slot
    /\ Go(p, "meta")
    /\ UNCHANGED <<setup, slot, exists, lock, stamps, acked, crossed>>

commit_meta(p) ==
    /\ h[p].pc = "meta"
    /\ slot' = [slot EXCEPT ![h[p].batch.txid % 2] = h[p].batch]
    /\ Go(p, "sync")
    /\ UNCHANGED <<setup, durable, pages, exists, lock, stamps, acked, crossed>>

commit_sync(p) ==
    /\ h[p].pc = "sync"
    /\ durable' = slot
    /\ h' = [h EXCEPT ![p].pc = "open", ![p].meta = h[p].batch]
    /\ acked' = acked \cup {h[p].stamp}
    /\ UNCHANGED <<setup, slot, pages, exists, lock, stamps, crossed>>

-----------------------------------------------------------------------------
(* Reading: a snapshot pins a commit the handle knows of.                  *)

pin(p) ==
    /\ h[p].pc = "open" /\ h[p].snap = Absent
    /\ \E c \in h[p].meta.kept : h' = [h EXCEPT ![p].snap = c]
    /\ UNCHANGED <<fileVars, stamps, acked, crossed>>

forget(p) ==
    /\ h[p].pc = "open" /\ h[p].snap # Absent
    /\ h' = [h EXCEPT ![p].snap = Absent]
    /\ UNCHANGED <<fileVars, stamps, acked, crossed>>

-----------------------------------------------------------------------------
HandlesInit ==
    /\ setup \in Setups
    /\ slot = [i \in {0, 1} |-> Absent] /\ durable = slot
    /\ pages = [p \in FilePages |-> 0]
    /\ exists = FALSE /\ lock = Absent
    /\ h = [p \in Procs |-> Shut]
    /\ stamps = 0 /\ acked = {} /\ crossed = FALSE

HandlesNext ==
    \/ \E p \in Procs :
         \/ create_file(p) \/ open_file(p) \/ open_file_unlocked(p) \/ claim(p)
         \/ create_slot0(p) \/ create_slot1(p) \/ create_sync(p) \/ recover(p) \/ close(p)
         \/ begin(p) \/ collect(p) \/ commit_guard(p) \/ commit_pages(p) \/ commit_meta(p) \/ commit_sync(p)
         \/ pin(p) \/ forget(p)
    \/ crash

HandlesSpec == HandlesInit /\ [][HandlesNext]_handleVars

-----------------------------------------------------------------------------
(* Properties.                                                             *)

(* Writers are kept apart by the lock, unless somebody writes without it.  *)
KeptApart == ~crossed \/ (setup.locking /\ Scribes = {})

(* A database whose creation was acknowledged can be opened, now and after *)
(* a crash that loses everything unsynced, and holds every commit that was *)
(* acknowledged: with one writer by the lock, and without the lock by the  *)
(* guard as long as no two of them cross (FileStorage::claim,              *)
(* Pager::commit).                                                         *)
AcknowledgedStays ==
    acked # {} /\ KeptApart =>
        \A s \in {slot, durable} :
            /\ FoundIn(s) # Absent
            /\ acked \ {0} \subseteq FoundIn(s).line

(* The same without the proviso: a write that races another writer is      *)
(* refused.                                                                *)
RacesAreRefused ==
    acked # {} => FoundIn(slot) # Absent /\ acked \ {0} \subseteq FoundIn(slot).line

(* The page under a snapshot holds the bytes of the commit it pinned, for  *)
(* as long as the snapshot is open, in whichever process and with or       *)
(* without a lock, as long as nobody collects (Pager::commit).             *)
SnapshotsStay ==
    KeptApart /\ ~setup.collecting =>
        \A p \in Procs : h[p].snap # Absent => pages[h[p].snap.page] = h[p].snap.stamp

=============================================================================
