------------------------------- MODULE Update -------------------------------
(***************************************************************************)
(* `quantydb update` (update.rs, fetch.rs): a release is fetched or a file *)
(* read, checked, staged beside the running binary, run, and put in its    *)
(* place by two renames.  Every call to the file system is a step of its   *)
(* own, which may fail; the process may be killed and the machine may lose *)
(* power between any two; the release may be replaced between any two      *)
(* requests; and a second update may run at the same time.                 *)
(*                                                                         *)
(* The file system is a directory of three names over inodes.  It keeps    *)
(* the order of directory changes across a power loss, not their           *)
(* durability, and keeps a file's bytes only once they are synced.         *)
(***************************************************************************)
EXTENDS Whole

CONSTANTS Updates,        \* updates that can run at the same time
          Inodes,         \* bound: files that exist at once
          Original,       \* the program installed at first
          Files,          \* what --file can be given
          Served,         \* [sums, sig, asset] a release can be at some time
          RELEASE_KEY,
          Asset,          \* the name of this machine's binary
          Expected,       \* what --sha256 can be given, None included
          MAX_REDIRECTS

Works(f) == f.about = "quantydb"

Complete(f) == f.format = "other" \/ f.len >= f.made

Candidates == Files \cup {r.asset : r \in Served}

(* An update starts from a program that works, and the headers of a        *)
(* program that runs do not claim less than it was made with.              *)
ASSUME UpdateAssumption ==
    /\ Inodes \subseteq Nat \ {0}
    /\ Works(Original) /\ Complete(Original)
    /\ \A f \in Candidates :
         /\ {f.len, f.made, claimed_length(f)} \subseteq Nat
         /\ Works(f) /\ f.format # "other" => claimed_length(f) >= f.made

VARIABLES dir,      \* target, new, old -> inode
          kept,     \* the directory as a power loss would leave it
          ino,      \* inode -> [file, synced, exec]
          latest,   \* the release behind the address
          proc      \* update -> its local state

updateVars == <<dir, kept, ino, latest, proc>>

NoInode == 0

(* What is left of a file whose bytes did not reach the disk.              *)
Lost == [Original EXCEPT !.len = 0, !.about = "crash", !.id = "torn"]

(* out: how the last update ended.                                         *)
NoUpdate == [pc |-> "idle", out |-> None, how |-> None, file |-> Lost, want |-> None,
             sums |-> None, hops |-> 0, https |-> TRUE, held |-> NoInode]

UpdateInit ==
    /\ \E i \in Inodes :
         /\ dir = [n \in {"target", "new", "old"} |-> IF n = "target" THEN i ELSE NoInode]
         /\ ino = [j \in Inodes |-> [file |-> Original, synced |-> TRUE, exec |-> TRUE]]
         /\ i = CHOOSE j \in Inodes : TRUE
    /\ kept = dir
    /\ latest \in Served
    /\ proc = [p \in Updates |-> NoUpdate]

FileAt(n) == ino[dir[n]]

There(n) == dir[n] # NoInode

(* An inode nothing refers to.                                             *)
Unused == {i \in Inodes : /\ \A n \in DOMAIN dir : dir[n] # i /\ kept[n] # i
                          /\ \A p \in Updates : proc[p].held # i}

Goto(p, pc) == proc' = [proc EXCEPT ![p].pc = pc]

(* The update returns; nothing of it is left but the outcome.              *)
Ended(p, out) == [NoUpdate EXCEPT !.out = out, !.how = proc[p].how]

Return(p, out) == proc' = [proc EXCEPT ![p] = Ended(p, out)]

Quiet == UNCHANGED <<dir, kept, ino, latest>>

-----------------------------------------------------------------------------
(* Getting the bytes.                                                      *)

(* The running binary is the one that is replaced.                         *)
update(p) ==
    /\ proc[p].pc = "idle" /\ There("target") /\ Works(FileAt("target").file)
    /\ \E how \in {"file", "fetch"}, want \in Expected :
         proc' = [proc EXCEPT ![p] = [NoUpdate EXCEPT !.pc = how, !.how = how, !.want = want]]
    /\ Quiet

(* --file: the candidate is read whole, or not at all.                     *)
read_file(p) ==
    /\ proc[p].pc = "file"
    /\ \/ \E f \in Files : proc' = [proc EXCEPT ![p].file = f, ![p].pc = "install"]
       \/ Return(p, "failed")
    /\ Quiet

(* Without --file: this machine has a release and this build has a key.    *)
fetch_latest(p) ==
    /\ proc[p].pc = "fetch"
    /\ \/ RELEASE_KEY # None /\ Goto(p, "SHA256SUMS")
       \/ Return(p, "failed")
    /\ Quiet

(* One hop of a get: a body, a redirect that may leave https, or anything  *)
(* else, which ends the update.                                            *)
Redirect(p) ==
    \E https \in BOOLEAN :
        proc' = [proc EXCEPT ![p].hops = @ + 1, ![p].https = https]

Arrived(p, next) ==
    proc' = [proc EXCEPT ![p] = [next EXCEPT !.hops = 0, !.https = TRUE]]

get(p, next) ==
    IF proc[p].hops > MAX_REDIRECTS \/ ~proc[p].https
    THEN Return(p, "failed")
    ELSE Redirect(p) \/ Arrived(p, next) \/ Return(p, "failed")

get_sums(p) ==
    /\ proc[p].pc = "SHA256SUMS"
    /\ get(p, [proc[p] EXCEPT !.pc = "SHA256SUMS.sig", !.sums = latest.sums])
    /\ Quiet

get_sig(p) ==
    /\ proc[p].pc = "SHA256SUMS.sig"
    /\ LET published == digest_for(proc[p].sums, Asset)
           good == /\ verify_sums(proc[p].sums, latest.sig, RELEASE_KEY)
                   /\ published # None /\ proc[p].want \in {None, published}
       IN  get(p, IF good THEN [proc[p] EXCEPT !.pc = "asset", !.want = published, !.sums = None]
                          ELSE Ended(p, "failed"))
    /\ Quiet

get_asset(p) ==
    /\ proc[p].pc = "asset"
    /\ get(p, [proc[p] EXCEPT !.pc = "install", !.file = latest.asset])
    /\ Quiet

(* A release is published, or one file of it replaced, at any time.        *)
publish ==
    /\ latest' \in Served \ {latest}
    /\ UNCHANGED <<dir, kept, ino, proc>>

-----------------------------------------------------------------------------
(* Installing them.  Each of these steps is one call to the file system.   *)

(* The checks before anything is written.                                  *)
Sound(f, want) ==
    f.len > 0 /\ f.len >= claimed_length(f) /\ want \in {None, Digest(f)}

install(p) ==
    /\ proc[p].pc = "install"
    /\ IF Sound(proc[p].file, proc[p].want) THEN Goto(p, "clear") ELSE Return(p, "failed")
    /\ Quiet

Gone(n) == dir' = [dir EXCEPT ![n] = NoInode]

(* remove_file, whose failure nobody looks at.                             *)
Remove(n) == (Gone(n) \/ UNCHANGED dir) /\ UNCHANGED <<kept, ino, latest>>

clear_staged(p) == proc[p].pc = "clear" /\ Remove("new") /\ Goto(p, "create")

(* write_program: create, write, sync, and set the mode of what is at the  *)
(* path.  A file that is still there is truncated in place.                *)
create(p) ==
    /\ proc[p].pc = "create"
    /\ \/ \E i \in IF There("new") THEN {dir["new"]} ELSE Unused :
            /\ \A j \in Unused : There("new") \/ i <= j
            /\ dir' = [dir EXCEPT !["new"] = i]
            /\ ino' = [ino EXCEPT ![i] = [file |-> Lost, synced |-> FALSE,
                                          exec |-> There("new") /\ ino[i].exec]]
            /\ proc' = [proc EXCEPT ![p].held = i, ![p].pc = "write"]
       \/ Goto(p, "discard") /\ UNCHANGED <<dir, ino>>
    /\ UNCHANGED <<kept, latest>>

write(p) ==
    /\ proc[p].pc = "write"
    /\ \/ /\ ino' = [ino EXCEPT ![proc[p].held].file = proc[p].file]
          /\ Goto(p, "sync")
       \/ Goto(p, "discard") /\ UNCHANGED ino
    /\ UNCHANGED <<dir, kept, latest>>

(* Mutant: the file is closed without a sync.                              *)
sync_skipped(p) == proc[p].pc = "sync" /\ Goto(p, "chmod") /\ Quiet

sync(p) ==
    /\ proc[p].pc = "sync"
    /\ \/ /\ ino' = [ino EXCEPT ![proc[p].held].synced = TRUE]
          /\ Goto(p, "chmod")
       \/ Goto(p, "discard") /\ UNCHANGED ino
    /\ UNCHANGED <<dir, kept, latest>>

executable(p) ==
    /\ proc[p].pc = "chmod"
    /\ \/ /\ There("new")
          /\ ino' = [ino EXCEPT ![dir["new"]].exec = TRUE]
          /\ proc' = [proc EXCEPT ![p].pc = "run", ![p].held = NoInode]
       \/ Goto(p, "discard") /\ UNCHANGED ino
    /\ UNCHANGED <<dir, kept, latest>>

(* What is at the path is run and has to say it is quantydb.               *)
version_of(p) ==
    /\ proc[p].pc = "run"
    /\ \/ There("new") /\ FileAt("new").exec /\ Works(FileAt("new").file) /\ Goto(p, "ask")
       \/ Goto(p, "discard")
    /\ Quiet

(* The question; an output that cannot be written returns at once.         *)
confirmed(p) ==
    /\ proc[p].pc = "ask"
    /\ Goto(p, "forget") \/ Goto(p, "decline") \/ Return(p, "failed")
    /\ Quiet

forget_previous(p) == proc[p].pc = "forget" /\ Remove("old") /\ Goto(p, "aside")

(* A rename of what is at one name over what is at another.                *)
Rename(a, b) == There(a) /\ dir' = [dir EXCEPT ![a] = NoInode, ![b] = dir[a]]

move_aside(p) ==
    /\ proc[p].pc = "aside"
    /\ \/ Rename("target", "old") /\ Goto(p, "place")
       \/ Goto(p, "discard") /\ UNCHANGED dir
    /\ UNCHANGED <<kept, ino, latest>>

place(p) ==
    /\ proc[p].pc = "place"
    /\ \/ Rename("new", "target") /\ Return(p, "done")
       \/ Goto(p, "put_back") /\ UNCHANGED dir
    /\ UNCHANGED <<kept, ino, latest>>

(* What was moved aside goes back, if it can.                              *)
put_back(p) ==
    /\ proc[p].pc = "put_back"
    /\ Rename("old", "target") \/ UNCHANGED dir
    /\ Goto(p, "discard")
    /\ UNCHANGED <<kept, ino, latest>>

(* The way out of everything that went wrong, and of a no.                 *)
discard(p) ==
    /\ proc[p].pc \in {"discard", "decline"}
    /\ Remove("new")
    /\ Return(p, IF proc[p].pc = "decline" THEN "left" ELSE "failed")

-----------------------------------------------------------------------------
(* The machine.                                                            *)

kill(p) == proc[p].pc # "idle" /\ Return(p, "killed") /\ Quiet

flush == kept # dir /\ kept' = dir /\ UNCHANGED <<dir, ino, latest, proc>>

power_loss ==
    /\ dir' = kept
    /\ \E lost \in SUBSET {i \in Inodes : ~ino[i].synced} :
         ino' = [i \in Inodes |-> [ino[i] EXCEPT !.file = IF i \in lost THEN Lost ELSE @,
                                                !.synced = TRUE]]
    /\ proc' = [p \in Updates |-> Ended(p, "killed")]
    /\ UNCHANGED <<kept, latest>>

Fetch(p) == fetch_latest(p) \/ get_sums(p) \/ get_sig(p) \/ get_asset(p)

Write(p) == clear_staged(p) \/ create(p) \/ write(p) \/ sync(p) \/ executable(p)

Replace(p) == forget_previous(p) \/ move_aside(p) \/ place(p) \/ put_back(p) \/ discard(p)

Step(p) == \/ read_file(p) \/ Fetch(p) \/ install(p) \/ Write(p)
           \/ version_of(p) \/ confirmed(p) \/ Replace(p)

UpdateNext == \/ \E p \in Updates : update(p) \/ Step(p) \/ kill(p)
        \/ publish \/ flush \/ power_loss

UpdateSpec == UpdateInit /\ [][UpdateNext]_updateVars

-----------------------------------------------------------------------------

(* Nobody else updates the same program at the same time.                  *)
Alone == \A p, q \in Updates : p = q

(* "Nothing is replaced until the replacement has proven it works": what   *)
(* is installed runs, says it is quantydb and, when its format says how    *)
(* long it is, is not a cut copy.  And whatever fails and whenever the     *)
(* machine stops, such a program is there under its own name or beside it  *)
(* as .old: an update never leaves the user without one (update.rs:        *)
(* install, place).                                                        *)
Proven(i) == i.exec /\ Works(i.file) /\ Complete(i.file)

InstalledWorks ==
    Alone => /\ There("target") => Proven(FileAt("target"))
             /\ \E n \in {"target", "old"} : There(n) /\ Proven(FileAt(n))

(* A digest that a list signed by the release key has for this machine;    *)
(* list and signature came with separate requests.                         *)
Listed(digest) ==
    \E r, s \in Served :
        /\ s.sig.hex /\ s.sig.key = RELEASE_KEY /\ s.sig.over = r.sums.id
        /\ \E i \in DOMAIN r.sums.lines :
             r.sums.lines[i].name = Asset /\ r.sums.lines[i].digest = digest

(* What a fetch installed is the file that a checksum list signed by the   *)
(* release key names for this machine, whichever releases the three        *)
(* requests met (fetch.rs: latest, verify_sums).                           *)
FetchedIsSigned ==
    Alone => \A p \in Updates : proc[p].out = "done" /\ proc[p].how = "fetch" =>
        There("target") /\ Listed(Digest(FileAt("target").file))
=============================================================================
