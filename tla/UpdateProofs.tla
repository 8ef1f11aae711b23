---------------------------- MODULE UpdateProofs ----------------------------
(***************************************************************************)
(* Proofs about an update that runs alone, for any releases, files and     *)
(* number of inodes, and power losses at any time.                         *)
(***************************************************************************)
EXTENDS Update, TLAPS

Names == {"target", "new", "old"}
Writing == {"write", "sync", "chmod"}
Staged == {"run", "ask", "forget", "aside", "place"}
Checked == {"clear", "create"} \cup Writing \cup Staged
Fetching == {"fetch", "SHA256SUMS", "SHA256SUMS.sig", "asset"}
Steps == Fetching \cup {"idle", "file", "install"} \cup Checked \cup {"put_back", "discard", "decline"}

Lists == {r.sums : r \in Served} \cup {None}
ProcType ==
    [pc : Steps, out : {None, "done", "left", "failed", "killed"}, how : {None, "file", "fetch"},
     file : Candidates \cup {Lost}, want : Expected \cup {None} \cup {digest_for(s, Asset) : s \in Lists},
     sums : Lists, hops : Nat, https : BOOLEAN, held : Inodes \cup {NoInode}]

InodeType == [file : Candidates \cup {Lost, Original}, synced : BOOLEAN, exec : BOOLEAN]

UpdateTypeOK ==
    /\ {dir, kept} \subseteq [Names -> Inodes \cup {NoInode}] /\ ino \in [Inodes -> InodeType]
    /\ latest \in Served /\ proc \in [Updates -> ProcType]

(* A directory in which a working program, safe on the disk, is found, and *)
(* nothing else where one is expected.                                     *)
Good(i) == ino[i].synced /\ Proven(ino[i])
DirOK(d) ==
    /\ \A n \in {"target", "old"} : d[n] # NoInode => Good(d[n])
    /\ d["target"] # NoInode \/ d["old"] # NoInode
    /\ d["new"] # NoInode => d["new"] \notin {d["target"], d["old"]}

(* What is staged is no file that a power loss would bring back.           *)
Fresh == dir["new"] # NoInode => dir["new"] \notin {kept["target"], kept["old"]}

ProcOK(r) ==
    /\ r.pc \in Steps \ {"idle", "place", "put_back", "discard", "decline"} => dir["target"] # NoInode
    /\ r.pc \in Writing => r.held # NoInode /\ dir["new"] = r.held
    /\ r.pc \in {"sync", "chmod"} => ino[r.held].file = r.file
    /\ r.pc = "chmod" => ino[r.held].synced
    /\ r.pc \in Staged => /\ dir["new"] # NoInode /\ ino[dir["new"]].file = r.file
                          /\ ino[dir["new"]].synced /\ ino[dir["new"]].exec
    /\ r.pc \in Staged \ {"run"} => Works(r.file)
    /\ r.pc \in Checked \cup {"install"} => r.file \in Candidates
    /\ r.pc \in Checked => Sound(r.file, r.want)
    /\ r.pc = "file" => r.how = "file"
    /\ r.pc = "SHA256SUMS.sig" => \E s \in Served : r.sums = s.sums
    /\ r.pc \in Checked \cup {"install", "asset"} /\ r.how = "fetch" => r.want # None /\ Listed(r.want)
    /\ r.out = "done" => r.pc = "idle"
    /\ r.out = "done" /\ r.how = "fetch" => dir["target"] # NoInode /\ Listed(Digest(ino[dir["target"]].file))

AloneOK == DirOK(dir) /\ DirOK(kept) /\ Fresh /\ \A p \in Updates : ProcOK(proc[p])

UpdateInv == UpdateTypeOK /\ (Alone => AloneOK)

-----------------------------------------------------------------------------
(* Steps of the process alone.                                             *)

Same(r, s) == /\ r.pc = s.pc /\ r.out = s.out /\ r.how = s.how /\ r.file = s.file
              /\ r.want = s.want /\ r.sums = s.sums /\ r.held = s.held

LEMMA ProcFacts ==
    ASSUME UpdateInv, NEW p \in Updates
    PROVE  /\ proc \in [Updates -> ProcType] /\ proc[p] \in ProcType
           /\ Alone => ProcOK(proc[p]) /\ AloneOK /\ \A q \in Updates : q = p
BY DEF UpdateInv, UpdateTypeOK, AloneOK, Alone

LEMMA ProcStep ==
    ASSUME UpdateInv, NEW p \in Updates, NEW r \in ProcType, proc' = [proc EXCEPT ![p] = r],
           UNCHANGED <<dir, kept, ino, latest>>, Alone => ProcOK(r)
    PROVE  UpdateInv'
<1>1. UpdateTypeOK'
    BY DEF UpdateInv, UpdateTypeOK
<1>2. ASSUME Alone PROVE AloneOK'
  <2>1. AloneOK /\ \A q \in Updates : q = p /\ proc'[q] = r
        BY <1>2, ProcFacts
  <2>2. DirOK(dir)' /\ DirOK(kept)' /\ Fresh'
        BY <2>1 DEF AloneOK, DirOK, Good, Fresh
  <2>3. \A q \in Updates : ProcOK(proc[q])'
        BY <2>1, <1>2 DEF ProcOK
  <2> QED
        BY <2>2, <2>3 DEF AloneOK
<1> QED
    BY <1>1, <1>2 DEF UpdateInv, Alone

LEMMA NoUpdateType ==
    /\ NoUpdate \in ProcType /\ NoUpdate.pc = "idle" /\ NoUpdate.out = None /\ NoUpdate.how = None
    /\ NoUpdate.held = NoInode
BY DEF NoUpdate, ProcType, Steps, Lists

LEMMA EndedType ==
    ASSUME UpdateInv, NEW p \in Updates, NEW o \in {"done", "left", "failed", "killed"}
    PROVE  /\ Ended(p, o) \in ProcType /\ Ended(p, o).pc = "idle" /\ Ended(p, o).out = o
           /\ Ended(p, o).how = proc[p].how /\ Ended(p, o).held = NoInode
           /\ o # "done" => ProcOK(Ended(p, o))
<1>1. /\ Ended(p, o) \in ProcType /\ Ended(p, o).pc = "idle" /\ Ended(p, o).out = o
      /\ Ended(p, o).how = proc[p].how /\ Ended(p, o).held = NoInode
  <2>1. proc[p].how \in {None, "file", "fetch"}
        BY ProcFacts DEF ProcType
  <2> QED
        BY Zenon, <2>1, NoUpdateType DEF Ended, ProcType
<1>2. o # "done" => ProcOK(Ended(p, o))
    BY <1>1 DEF ProcOK, Steps, Writing, Staged, Checked, Fetching
<1> QED
    BY <1>1, <1>2

LEMMA ReturnKeeps ==
    ASSUME UpdateInv, NEW p \in Updates, NEW o \in {"left", "failed", "killed"}, Return(p, o),
           UNCHANGED <<dir, kept, ino, latest>>
    PROVE  UpdateInv'
BY Zenon, EndedType, ProcStep DEF Return

LEMMA GotoFacts ==
    ASSUME UpdateInv, NEW p \in Updates, NEW x \in Steps, Goto(p, x)
    PROVE  \E r \in ProcType : proc' = [proc EXCEPT ![p] = r] /\ r.pc = x
                              /\ r.out = proc[p].out /\ r.how = proc[p].how /\ r.file = proc[p].file
                              /\ r.want = proc[p].want /\ r.sums = proc[p].sums /\ r.held = proc[p].held
<1> DEFINE r == [proc[p] EXCEPT !.pc = x]
<1>1. proc' = [proc EXCEPT ![p] = r]
    BY ProcFacts DEF Goto
<1>2. /\ r \in ProcType /\ r.pc = x
      /\ r.out = proc[p].out /\ r.how = proc[p].how /\ r.file = proc[p].file
      /\ r.want = proc[p].want /\ r.sums = proc[p].sums /\ r.held = proc[p].held
    BY ProcFacts DEF ProcType
<1> QED
    BY Zenon, <1>1, <1>2

LEMMA SameIsOK == ASSUME NEW r, NEW s, Same(r, s), ProcOK(s) PROVE ProcOK(r)
BY DEF Same, ProcOK

-----------------------------------------------------------------------------
(* Getting the bytes.                                                      *)

LEMMA UpdateKeeps == ASSUME UpdateInv, NEW p \in Updates, update(p) PROVE UpdateInv'
<1>1. PICK how \in {"file", "fetch"}, want \in Expected :
         proc' = [proc EXCEPT ![p] = [NoUpdate EXCEPT !.pc = how, !.how = how, !.want = want]]
    BY Zenon DEF update
<1> DEFINE r == [NoUpdate EXCEPT !.pc = how, !.how = how, !.want = want]
<1>2. r \in ProcType /\ r.pc = how /\ r.how = how /\ r.out = None
    BY Zenon, NoUpdateType DEF ProcType, Steps, Fetching
<1> HIDE DEF r
<1>3. dir["target"] # NoInode /\ UNCHANGED <<dir, kept, ino, latest>>
    BY DEF update, There, Quiet
<1>4. ProcOK(r)
    BY <1>2, <1>3 DEF ProcOK, Writing, Staged, Checked, None
<1> QED
    BY Zenon, <1>1, <1>2, <1>3, <1>4, ProcStep DEF r

LEMMA ReadFileKeeps == ASSUME UpdateInv, NEW p \in Updates, read_file(p) PROVE UpdateInv'
<1>1. CASE Return(p, "failed")
    BY <1>1, ReturnKeeps DEF read_file, Quiet
<1>2. CASE \E f \in Files : proc' = [proc EXCEPT ![p].file = f, ![p].pc = "install"]
  <2>1. PICK f \in Files : proc' = [proc EXCEPT ![p].file = f, ![p].pc = "install"]
        BY Zenon, <1>2
  <2> DEFINE r == [proc[p] EXCEPT !.file = f, !.pc = "install"]
  <2>2. proc' = [proc EXCEPT ![p] = r]
        BY Zenon, <2>1, ProcFacts
  <2>3. r \in ProcType /\ r.pc = "install" /\ r.how = proc[p].how /\ r.out = proc[p].out /\ r.file = f
        BY ZenonT(60), ProcFacts DEF ProcType, Steps, Candidates
  <2> HIDE DEF r
  <2>4. proc[p].pc = "file" /\ UNCHANGED <<dir, kept, ino, latest>>
        BY DEF read_file, Quiet
  <2>5. Alone => ProcOK(r)
        BY <2>3, <2>4, ProcFacts DEF ProcOK, Steps, Writing, Staged, Checked, Candidates
  <2> QED
        BY Zenon, <2>2, <2>3, <2>4, <2>5, ProcStep
<1> QED
    BY <1>1, <1>2 DEF read_file

LEMMA FetchLatestKeeps == ASSUME UpdateInv, NEW p \in Updates, fetch_latest(p) PROVE UpdateInv'
<1>1. CASE Return(p, "failed")
    BY <1>1, ReturnKeeps DEF fetch_latest, Quiet
<1>2. CASE Goto(p, "SHA256SUMS")
  <2>1. PICK r \in ProcType : proc' = [proc EXCEPT ![p] = r] /\ r.pc = "SHA256SUMS" /\ r.out = proc[p].out
    <3>1. "SHA256SUMS" \in Steps
          BY DEF Steps, Fetching
    <3> QED
          BY <1>2, <3>1, GotoFacts
  <2>2. proc[p].pc = "fetch" /\ UNCHANGED <<dir, kept, ino, latest>>
        BY DEF fetch_latest, Quiet
  <2>3. Alone => ProcOK(r)
        BY <2>1, <2>2, ProcFacts DEF ProcOK, Steps, Writing, Staged, Checked, Fetching
  <2> QED
        BY Zenon, <2>1, <2>2, <2>3, ProcStep
<1> QED
    BY <1>1, <1>2 DEF fetch_latest

(* One hop: the get ends the update, goes on, or has what it asked for.    *)
LEMMA GetKeeps ==
    ASSUME UpdateInv, NEW p \in Updates, NEW next \in ProcType, get(p, next), Alone => ProcOK(next),
           UNCHANGED <<dir, kept, ino, latest>>
    PROVE  UpdateInv'
<1>1. CASE Return(p, "failed")
    BY <1>1, ReturnKeeps
<1>2. CASE Redirect(p)
  <2>1. PICK https \in BOOLEAN : proc' = [proc EXCEPT ![p].hops = @ + 1, ![p].https = https]
        BY Zenon, <1>2 DEF Redirect
  <2> DEFINE r == [proc[p] EXCEPT !.hops = proc[p].hops + 1, !.https = https]
  <2>2. proc[p].hops + 1 \in Nat /\ proc[p] \in ProcType
        BY ProcFacts DEF ProcType
  <2>3. proc' = [proc EXCEPT ![p] = r]
        BY Zenon, <2>1, ProcFacts DEF ProcType
  <2>4. r \in ProcType /\ Same(r, proc[p])
        BY Zenon, <2>2 DEF ProcType, Same
  <2> HIDE DEF r
  <2> QED
        BY Zenon, <2>3, <2>4, ProcFacts, SameIsOK, ProcStep
<1>3. CASE Arrived(p, next)
  <2> DEFINE r == [next EXCEPT !.hops = 0, !.https = TRUE]
  <2>1. proc' = [proc EXCEPT ![p] = r]
        BY <1>3 DEF Arrived
  <2>2. r \in ProcType /\ Same(r, next)
        BY Zenon DEF ProcType, Same
  <2> HIDE DEF r
  <2> QED
        BY Zenon, <2>1, <2>2, SameIsOK, ProcStep
<1> QED
    BY <1>1, <1>2, <1>3 DEF get

LEMMA GetSumsKeeps == ASSUME UpdateInv, NEW p \in Updates, get_sums(p) PROVE UpdateInv'
<1> DEFINE next == [proc[p] EXCEPT !.pc = "SHA256SUMS.sig", !.sums = latest.sums]
<1>1. proc[p].pc = "SHA256SUMS" /\ get(p, next) /\ UNCHANGED <<dir, kept, ino, latest>>
    BY DEF get_sums, Quiet
<1>2. latest \in Served
    BY DEF UpdateInv, UpdateTypeOK
<1>3. next \in ProcType /\ next.pc = "SHA256SUMS.sig" /\ next.sums = latest.sums /\ next.out = proc[p].out
    BY ZenonT(60), <1>2, ProcFacts DEF ProcType, Steps, Fetching, Lists
<1> HIDE DEF next
<1>4. Alone => ProcOK(next)
    BY <1>1, <1>2, <1>3, ProcFacts DEF ProcOK, Steps, Writing, Staged, Checked, Fetching
<1> QED
    BY <1>1, <1>3, <1>4, GetKeeps

(* The one line for this machine in a list that carries the signature.     *)
LEMMA DigestIsListed ==
    ASSUME NEW r \in Served, NEW s \in Served, verify_sums(r.sums, s.sig, RELEASE_KEY),
           digest_for(r.sums, Asset) # None
    PROVE  Listed(digest_for(r.sums, Asset))
<1> DEFINE here == {i \in DOMAIN r.sums.lines : r.sums.lines[i].name = Asset}
           k == CHOOSE i \in here : TRUE
<1>1. digest_for(r.sums, Asset) = r.sums.lines[k].digest /\ \E i \in here : here = {i}
    BY DEF digest_for
<1>2. k \in here
    BY <1>1
<1> QED
    BY <1>1, <1>2 DEF Listed, verify_sums

LEMMA GetSigKeeps == ASSUME UpdateInv, NEW p \in Updates, get_sig(p) PROVE UpdateInv'
<1> DEFINE published == digest_for(proc[p].sums, Asset)
           good == /\ verify_sums(proc[p].sums, latest.sig, RELEASE_KEY)
                   /\ published # None /\ proc[p].want \in {None, published}
           yes == [proc[p] EXCEPT !.pc = "asset", !.want = published, !.sums = None]
<1>1. /\ proc[p].pc = "SHA256SUMS.sig" /\ UNCHANGED <<dir, kept, ino, latest>>
      /\ get(p, IF good THEN yes ELSE Ended(p, "failed"))
    BY DEF get_sig, Quiet
<1>2. latest \in Served
    BY DEF UpdateInv, UpdateTypeOK
<1>3. CASE ~good
    BY <1>1, <1>3, EndedType, GetKeeps
<1>4. CASE good
  <2>1. proc[p].sums \in Lists
        BY ProcFacts DEF ProcType
  <2>2. Alone => Listed(published) /\ published # None
    <3>1. ASSUME Alone PROVE \E r \in Served : proc[p].sums = r.sums
          BY <1>1, <3>1, ProcFacts DEF ProcOK
    <3> QED
          BY <1>2, <1>4, <3>1, DigestIsListed
  <2>3. published \in {digest_for(s, Asset) : s \in Lists}
        BY <2>1
  <2> HIDE DEF published
  <2>4. /\ yes \in ProcType /\ yes.pc = "asset" /\ yes.want = published /\ yes.out = proc[p].out
        /\ yes.how = proc[p].how
    <3>1. None \in Lists /\ "asset" \in Steps /\ proc[p] \in ProcType
          BY ProcFacts DEF Lists, Steps, Fetching
    <3> QED
          BY Zenon, <2>3, <3>1 DEF ProcType
  <2> HIDE DEF yes
  <2>5. Alone => ProcOK(yes)
        BY <1>1, <2>2, <2>4, ProcFacts DEF ProcOK, Steps, Writing, Staged, Checked, Fetching
  <2> QED
        BY <1>1, <1>4, <2>4, <2>5, GetKeeps
<1> QED
    BY <1>3, <1>4

LEMMA GetAssetKeeps == ASSUME UpdateInv, NEW p \in Updates, get_asset(p) PROVE UpdateInv'
<1> DEFINE next == [proc[p] EXCEPT !.pc = "install", !.file = latest.asset]
<1>1. proc[p].pc = "asset" /\ get(p, next) /\ UNCHANGED <<dir, kept, ino, latest>>
    BY DEF get_asset, Quiet
<1>2. latest.asset \in Candidates
    BY DEF UpdateInv, UpdateTypeOK, Candidates
<1>3. /\ next \in ProcType /\ next.pc = "install" /\ next.file = latest.asset /\ next.out = proc[p].out
      /\ next.how = proc[p].how /\ next.want = proc[p].want
    BY Zenon, <1>2, ProcFacts DEF ProcType, Steps, Fetching
<1> HIDE DEF next
<1>4. Alone => ProcOK(next)
    BY <1>1, <1>2, <1>3, ProcFacts DEF ProcOK, Steps, Writing, Staged, Checked, Fetching
<1> QED
    BY <1>1, <1>3, <1>4, GetKeeps

LEMMA InstallKeeps == ASSUME UpdateInv, NEW p \in Updates, install(p) PROVE UpdateInv'
<1>0. proc[p].pc = "install" /\ UNCHANGED <<dir, kept, ino, latest>>
    BY DEF install, Quiet
<1>1. CASE ~Sound(proc[p].file, proc[p].want)
    BY <1>0, <1>1, ReturnKeeps DEF install
<1>2. CASE Sound(proc[p].file, proc[p].want)
  <2>1. "clear" \in Steps /\ Goto(p, "clear")
        BY <1>2 DEF install, Steps, Checked
  <2>2. PICK r \in ProcType :
           /\ proc' = [proc EXCEPT ![p] = r] /\ r.pc = "clear" /\ r.out = proc[p].out /\ r.how = proc[p].how
           /\ r.file = proc[p].file /\ r.want = proc[p].want
        BY <2>1, GotoFacts
  <2>3. Alone => ProcOK(r)
        BY <1>0, <1>2, <2>2, ProcFacts DEF ProcOK, Steps, Writing, Staged, Checked
  <2> QED
        BY Zenon, <1>0, <2>2, <2>3, ProcStep
<1> QED
    BY <1>1, <1>2

(* The steps on the way out, the program that is run and the question.     *)
LEMMA LeavingKeeps ==
    ASSUME UpdateInv, NEW p \in Updates, Goto(p, "discard") \/ Goto(p, "decline"),
           proc[p].pc # "idle", UNCHANGED <<dir, kept, ino, latest>>
    PROVE  UpdateInv'
<1>1. PICK x \in {"discard", "decline"} : Goto(p, x) /\ x \in Steps
    BY DEF Steps
<1>2. PICK r \in ProcType : proc' = [proc EXCEPT ![p] = r] /\ r.pc = x /\ r.out = proc[p].out
    BY <1>1, GotoFacts
<1>3. Alone => ProcOK(r)
    BY <1>2, ProcFacts DEF ProcOK, Steps, Writing, Staged, Checked
<1> QED
    BY Zenon, <1>2, <1>3, ProcStep

LEMMA VersionKeeps == ASSUME UpdateInv, NEW p \in Updates, version_of(p) PROVE UpdateInv'
<1>0. proc[p].pc = "run" /\ UNCHANGED <<dir, kept, ino, latest>>
    BY DEF version_of, Quiet
<1>1. CASE Goto(p, "discard")
    BY <1>0, <1>1, LeavingKeeps
<1>2. CASE Works(FileAt("new").file) /\ Goto(p, "ask")
  <2>1. "ask" \in Steps
        BY DEF Steps, Checked, Staged
  <2>2. PICK r \in ProcType :
           /\ proc' = [proc EXCEPT ![p] = r] /\ r.pc = "ask" /\ r.out = proc[p].out /\ r.how = proc[p].how
           /\ r.file = proc[p].file /\ r.want = proc[p].want
        BY <1>2, <2>1, GotoFacts
  <2>3. ASSUME Alone PROVE ProcOK(r)
    <3>1. ProcOK(proc[p])
          BY <2>3, ProcFacts
    <3>2. Works(proc[p].file)
          BY <1>0, <1>2, <3>1 DEF ProcOK, FileAt, Staged
    <3> QED
          BY <1>0, <2>2, <3>1, <3>2 DEF ProcOK, Steps, Writing, Staged, Checked
  <2> QED
        BY Zenon, <1>0, <2>2, <2>3, ProcStep
<1> QED
    BY <1>1, <1>2 DEF version_of

LEMMA ConfirmedKeeps == ASSUME UpdateInv, NEW p \in Updates, confirmed(p) PROVE UpdateInv'
<1>0. proc[p].pc = "ask" /\ UNCHANGED <<dir, kept, ino, latest>>
    BY DEF confirmed, Quiet
<1>1. CASE Goto(p, "decline")
    BY <1>0, <1>1, LeavingKeeps
<1>2. CASE Return(p, "failed")
    BY <1>0, <1>2, ReturnKeeps
<1>3. CASE Goto(p, "forget")
  <2>1. "forget" \in Steps
        BY DEF Steps, Checked, Staged
  <2>2. PICK r \in ProcType :
           /\ proc' = [proc EXCEPT ![p] = r] /\ r.pc = "forget" /\ r.out = proc[p].out /\ r.how = proc[p].how
           /\ r.file = proc[p].file /\ r.want = proc[p].want
        BY <1>3, <2>1, GotoFacts
  <2>3. Alone => ProcOK(r)
        BY <1>0, <2>2, ProcFacts DEF ProcOK, Steps, Writing, Staged, Checked
  <2> QED
        BY Zenon, <1>0, <2>2, <2>3, ProcStep
<1> QED
    BY <1>1, <1>2, <1>3 DEF confirmed

-----------------------------------------------------------------------------
(* Steps that change the directory or a file.                              *)

LEMMA DiskStep ==
    ASSUME UpdateInv, NEW p \in Updates, NEW r \in ProcType, proc' = [proc EXCEPT ![p] = r],
           dir' \in [Names -> Inodes \cup {NoInode}], ino' \in [Inodes -> InodeType], UNCHANGED <<kept, latest>>,
           Alone => DirOK(dir)' /\ DirOK(kept)' /\ Fresh' /\ ProcOK(proc[p])'
    PROVE  UpdateInv'
<1>1. UpdateTypeOK'
    BY DEF UpdateInv, UpdateTypeOK
<1>2. ASSUME Alone PROVE AloneOK'
    BY <1>2, ProcFacts DEF AloneOK
<1> QED
    BY <1>1, <1>2 DEF UpdateInv, Alone

LEMMA DiskFacts ==
    ASSUME UpdateInv
    PROVE  /\ dir \in [Names -> Inodes \cup {NoInode}] /\ kept \in [Names -> Inodes \cup {NoInode}]
           /\ ino \in [Inodes -> InodeType] /\ NoInode \notin Inodes
           /\ Alone => DirOK(dir) /\ DirOK(kept) /\ Fresh
BY UpdateAssumption DEF UpdateInv, UpdateTypeOK, AloneOK, NoInode

(* remove_file of the staged file or, with the program in its place, of    *)
(* the previous one.                                                       *)
LEMMA RemoveKeeps ==
    ASSUME UpdateInv, NEW n \in {"new", "old"}, Remove(n), Alone => n = "new" \/ dir["target"] # NoInode
    PROVE  /\ dir' \in [Names -> Inodes \cup {NoInode}] /\ UNCHANGED <<kept, ino, latest>>
           /\ dir'["target"] = dir["target"] /\ (n = "old" => dir'["new"] = dir["new"])
           /\ Alone => DirOK(dir)' /\ DirOK(kept)' /\ Fresh'
<1>1. /\ UNCHANGED <<kept, ino, latest>> /\ dir' \in {dir, [dir EXCEPT ![n] = NoInode]}
    BY DEF Remove, Gone
<1>2. /\ dir' \in [Names -> Inodes \cup {NoInode}]
      /\ \A m \in Names : dir'[m] = dir[m] \/ (m = n /\ dir'[m] = NoInode)
    BY <1>1, DiskFacts DEF Names
<1>3. dir'["target"] = dir["target"] /\ (n = "old" => dir'["new"] = dir["new"])
    BY <1>2 DEF Names
<1>4. ASSUME Alone PROVE DirOK(dir)' /\ DirOK(kept)' /\ Fresh'
  <2>1. DirOK(dir) /\ DirOK(kept) /\ Fresh
        BY <1>4, DiskFacts
  <2>2. DirOK(kept)'
        BY <1>1, <2>1 DEF DirOK, Good
  <2>3. DirOK(dir)'
        BY <1>1, <1>2, <1>4, <2>1 DEF DirOK, Good, Names
  <2>4. Fresh'
        BY <1>1, <1>2, <2>1 DEF Fresh, Names
  <2> QED
        BY <2>2, <2>3, <2>4
<1> QED
    BY <1>1, <1>2, <1>3, <1>4

LEMMA ClearKeeps == ASSUME UpdateInv, NEW p \in Updates, clear_staged(p) PROVE UpdateInv'
<1>1. proc[p].pc = "clear" /\ Remove("new") /\ Goto(p, "create") /\ "create" \in Steps
    BY DEF clear_staged, Steps, Checked
<1>2. PICK r \in ProcType :
         /\ proc' = [proc EXCEPT ![p] = r] /\ r.pc = "create" /\ r.out = proc[p].out /\ r.how = proc[p].how
         /\ r.file = proc[p].file /\ r.want = proc[p].want
    BY <1>1, GotoFacts
<1>3. /\ dir' \in [Names -> Inodes \cup {NoInode}] /\ UNCHANGED <<kept, ino, latest>>
      /\ dir'["target"] = dir["target"] /\ (Alone => DirOK(dir)' /\ DirOK(kept)' /\ Fresh')
    BY <1>1, RemoveKeeps
<1>4. proc'[p] = r /\ ino' \in [Inodes -> InodeType]
    BY <1>2, <1>3, ProcFacts, DiskFacts
<1>5. Alone => ProcOK(proc[p])'
    BY <1>1, <1>2, <1>3, <1>4, ProcFacts DEF ProcOK, Steps, Writing, Staged, Checked
<1> QED
    BY Zenon, <1>2, <1>3, <1>4, <1>5, DiskStep

LEMMA ForgetKeeps == ASSUME UpdateInv, NEW p \in Updates, forget_previous(p) PROVE UpdateInv'
<1>1. proc[p].pc = "forget" /\ Remove("old") /\ Goto(p, "aside") /\ "aside" \in Steps
    BY DEF forget_previous, Steps, Checked, Staged
<1>2. PICK r \in ProcType :
         /\ proc' = [proc EXCEPT ![p] = r] /\ r.pc = "aside" /\ r.out = proc[p].out /\ r.how = proc[p].how
         /\ r.file = proc[p].file /\ r.want = proc[p].want
    BY <1>1, GotoFacts
<1>3. Alone => dir["target"] # NoInode
    BY <1>1, ProcFacts DEF ProcOK, Steps, Checked, Staged
<1>4. /\ dir' \in [Names -> Inodes \cup {NoInode}] /\ UNCHANGED <<kept, ino, latest>>
      /\ dir'["target"] = dir["target"] /\ dir'["new"] = dir["new"]
      /\ (Alone => DirOK(dir)' /\ DirOK(kept)' /\ Fresh')
    BY <1>1, <1>3, RemoveKeeps
<1>5. proc'[p] = r /\ ino' \in [Inodes -> InodeType]
    BY <1>2, <1>4, ProcFacts, DiskFacts
<1>6. Alone => ProcOK(proc[p])'
    BY <1>1, <1>2, <1>4, <1>5, ProcFacts DEF ProcOK, Steps, Writing, Staged, Checked
<1> QED
    BY Zenon, <1>2, <1>4, <1>5, <1>6, DiskStep

LEMMA DiscardKeeps == ASSUME UpdateInv, NEW p \in Updates, discard(p) PROVE UpdateInv'
<1>1. PICK o \in {"left", "failed"} : Remove("new") /\ Return(p, o)
    BY DEF discard
<1>2. proc' = [proc EXCEPT ![p] = Ended(p, o)] /\ Ended(p, o) \in ProcType
    BY <1>1, EndedType DEF Return
<1>3. /\ dir' \in [Names -> Inodes \cup {NoInode}] /\ UNCHANGED <<kept, ino, latest>>
      /\ (Alone => DirOK(dir)' /\ DirOK(kept)' /\ Fresh')
    BY <1>1, RemoveKeeps
<1>4. proc'[p].pc = "idle" /\ proc'[p].out = o /\ ino' \in [Inodes -> InodeType]
    BY <1>2, <1>3, ProcFacts, DiskFacts, EndedType
<1>5. ProcOK(proc[p])'
    BY <1>4 DEF ProcOK, Steps, Writing, Staged, Checked
<1> QED
    BY Zenon, <1>2, <1>3, <1>4, <1>5, DiskStep

(* A file that is staged, and nothing else, is written.                    *)
LEMMA StagingKeeps ==
    ASSUME UpdateInv, Alone, UNCHANGED kept, dir' \in [Names -> Inodes \cup {NoInode}],
           NEW i \in Inodes, dir'["new"] = i, dir'["target"] = dir["target"], dir'["old"] = dir["old"],
           i \notin {dir["target"], dir["old"], kept["target"], kept["old"]},
           \A j \in Inodes : j # i => ino'[j] = ino[j]
    PROVE  DirOK(dir)' /\ DirOK(kept)' /\ Fresh'
<1>1. DirOK(dir) /\ DirOK(kept) /\ NoInode \notin Inodes
    BY DiskFacts
<1>2. \A d \in {dir, kept} : \A n \in {"target", "old"} : d[n] # NoInode => d[n] \in Inodes /\ d[n] # i
    BY DiskFacts DEF Names
<1>3. \A j \in Inodes : j # i /\ Good(j) => Good(j)'
    BY DEF Good
<1>4. DirOK(kept)'
    BY <1>1, <1>2, <1>3 DEF DirOK
<1>5. DirOK(dir)'
    BY <1>1, <1>2, <1>3 DEF DirOK
<1> QED
    BY <1>4, <1>5 DEF Fresh

LEMMA CreateKeeps == ASSUME UpdateInv, NEW p \in Updates, create(p) PROVE UpdateInv'
<1>0. proc[p].pc = "create" /\ UNCHANGED <<kept, latest>>
    BY DEF create
<1>1. CASE Goto(p, "discard") /\ UNCHANGED <<dir, ino>>
    BY <1>0, <1>1, LeavingKeeps
<1>2. CASE ~(Goto(p, "discard") /\ UNCHANGED <<dir, ino>>)
  <2>1. PICK i \in IF There("new") THEN {dir["new"]} ELSE Unused :
           /\ dir' = [dir EXCEPT !["new"] = i]
           /\ ino' = [ino EXCEPT ![i] = [file |-> Lost, synced |-> FALSE, exec |-> There("new") /\ ino[i].exec]]
           /\ proc' = [proc EXCEPT ![p].held = i, ![p].pc = "write"]
        BY Zenon, <1>2 DEF create
  <2>2. i \in Inodes
        BY <2>1, DiskFacts DEF There, Unused, Names
  <2> DEFINE r == [proc[p] EXCEPT !.held = i, !.pc = "write"]
  <2>3. proc' = [proc EXCEPT ![p] = r]
        BY Zenon, <2>1, ProcFacts
  <2>4. /\ r \in ProcType /\ r.pc = "write" /\ r.held = i /\ r.out = proc[p].out /\ r.how = proc[p].how
        /\ r.file = proc[p].file /\ r.want = proc[p].want
        BY ZenonT(60), <2>2, ProcFacts DEF ProcType, Steps, Checked, Writing
  <2> HIDE DEF r
  <2>5. /\ dir' \in [Names -> Inodes \cup {NoInode}] /\ dir'["new"] = i
        /\ dir'["target"] = dir["target"] /\ dir'["old"] = dir["old"]
        BY <2>1, <2>2, DiskFacts DEF Names
  <2>6. ino' \in [Inodes -> InodeType] /\ \A j \in Inodes : j # i => ino'[j] = ino[j]
    <3>1. (There("new") /\ ino[i].exec) \in BOOLEAN
          OBVIOUS
    <3>2. [file |-> Lost, synced |-> FALSE, exec |-> There("new") /\ ino[i].exec] \in InodeType
          BY <3>1 DEF InodeType
    <3> QED
          BY <2>1, <2>2, <3>2, DiskFacts
  <2>7. ASSUME Alone PROVE DirOK(dir)' /\ DirOK(kept)' /\ Fresh' /\ ProcOK(proc[p])'
    <3>1. i \notin {dir["target"], dir["old"], kept["target"], kept["old"]}
      <4>1. CASE There("new")
            BY <2>1, <2>7, <4>1, DiskFacts DEF There, DirOK, Fresh
      <4>2. CASE ~There("new")
        <5>1. i \in Unused
              BY <2>1, <4>2
        <5>2. DOMAIN dir = Names
              BY DiskFacts
        <5> QED
              BY <5>1, <5>2 DEF Unused, Names
      <4> QED
            BY <4>1, <4>2
    <3>2. DirOK(dir)' /\ DirOK(kept)' /\ Fresh'
          BY <1>0, <2>2, <2>5, <2>6, <2>7, <3>1, StagingKeeps
    <3>3. proc'[p] = r
          BY <2>3, ProcFacts
    <3>4. i # NoInode
          BY <2>2, DiskFacts
    <3>5. ProcOK(proc[p])'
          BY <1>0, <2>4, <2>5, <2>7, <3>3, <3>4, ProcFacts DEF ProcOK, Steps, Writing, Staged, Checked
    <3> QED
          BY <3>2, <3>5
  <2> QED
        BY Zenon, <1>0, <2>3, <2>4, <2>5, <2>6, <2>7, DiskStep
<1> QED
    BY <1>1, <1>2

(* The three steps on the file that was created.                           *)
LEMMA HeldFacts ==
    ASSUME UpdateInv, NEW p \in Updates, Alone, proc[p].pc \in Writing
    PROVE  /\ proc[p].held \in Inodes /\ dir["new"] = proc[p].held
           /\ proc[p].held \notin {dir["target"], dir["old"], kept["target"], kept["old"]}
<1>1. proc[p].held # NoInode /\ dir["new"] = proc[p].held /\ proc[p] \in ProcType
    BY ProcFacts DEF ProcOK
<1>2. DirOK(dir) /\ Fresh
    BY DiskFacts
<1> QED
    BY SMTT(40), <1>1, <1>2 DEF ProcType, DirOK, Fresh

LEMMA WriteKeeps == ASSUME UpdateInv, NEW p \in Updates, write(p) PROVE UpdateInv'
<1>0. proc[p].pc = "write" /\ UNCHANGED <<dir, kept, latest>>
    BY DEF write
<1>1. CASE Goto(p, "discard") /\ UNCHANGED ino
    BY SMTT(40), <1>0, <1>1, LeavingKeeps
<1>2. CASE ino' = [ino EXCEPT ![proc[p].held].file = proc[p].file] /\ Goto(p, "sync")
  <2>1. PICK i : i = proc[p].held
        OBVIOUS
  <2>2. PICK r \in ProcType :
           /\ proc' = [proc EXCEPT ![p] = r] /\ r.pc = "sync" /\ r.out = proc[p].out /\ r.how = proc[p].how
           /\ r.file = proc[p].file /\ r.want = proc[p].want /\ r.held = i
    <3>1. "sync" \in Steps
          BY DEF Steps, Checked, Writing
    <3> QED
          BY <1>2, <2>1, <3>1, GotoFacts
  <2>3. /\ ino' \in [Inodes -> InodeType] /\ \A j \in Inodes : j # i => ino'[j] = ino[j]
        /\ i \in Inodes => ino'[i].file = proc[p].file
    <3>1. proc[p].file \in Candidates \cup {Lost, Original}
          BY ProcFacts DEF ProcType
    <3> QED
          BY Zenon, <1>2, <2>1, <3>1, DiskFacts DEF InodeType
  <2>4. ASSUME Alone PROVE DirOK(dir)' /\ DirOK(kept)' /\ Fresh' /\ ProcOK(proc[p])'
    <3>1. i \in Inodes /\ dir["new"] = i /\ i \notin {dir["target"], dir["old"], kept["target"], kept["old"]}
          BY <1>0, <2>1, <2>4, HeldFacts DEF Writing
    <3>2. DirOK(dir)' /\ DirOK(kept)' /\ Fresh'
          BY <1>0, <2>3, <2>4, <3>1, DiskFacts, StagingKeeps
    <3>3. proc'[p] = r
          BY SMTT(40), <2>2, ProcFacts
    <3>4. ProcOK(proc[p])'
          BY <1>0, <2>1, <2>2, <2>3, <2>4, <3>1, <3>3, ProcFacts DEF ProcOK, Steps, Writing, Staged, Checked
    <3> QED
          BY <3>2, <3>4
  <2> QED
        BY Zenon, <1>0, <2>2, <2>3, <2>4, DiskFacts, DiskStep
<1> QED
    BY <1>1, <1>2 DEF write

LEMMA SyncKeeps == ASSUME UpdateInv, NEW p \in Updates, sync(p) PROVE UpdateInv'
<1>0. proc[p].pc = "sync" /\ UNCHANGED <<dir, kept, latest>>
    BY DEF sync
<1>1. CASE Goto(p, "discard") /\ UNCHANGED ino
    BY <1>0, <1>1, LeavingKeeps
<1>2. CASE ino' = [ino EXCEPT ![proc[p].held].synced = TRUE] /\ Goto(p, "chmod")
  <2>1. PICK i : i = proc[p].held
        OBVIOUS
  <2>2. PICK r \in ProcType :
           /\ proc' = [proc EXCEPT ![p] = r] /\ r.pc = "chmod" /\ r.out = proc[p].out /\ r.how = proc[p].how
           /\ r.file = proc[p].file /\ r.want = proc[p].want /\ r.held = i
    <3>1. "chmod" \in Steps
          BY DEF Steps, Checked, Writing
    <3> QED
          BY <1>2, <2>1, <3>1, GotoFacts
  <2>3. /\ ino' \in [Inodes -> InodeType] /\ \A j \in Inodes : j # i => ino'[j] = ino[j]
        /\ i \in Inodes => ino'[i].synced /\ ino'[i].file = ino[i].file
        BY Zenon, <1>2, <2>1, DiskFacts DEF InodeType
  <2>4. ASSUME Alone PROVE DirOK(dir)' /\ DirOK(kept)' /\ Fresh' /\ ProcOK(proc[p])'
    <3>1. i \in Inodes /\ dir["new"] = i /\ i \notin {dir["target"], dir["old"], kept["target"], kept["old"]}
          BY <1>0, <2>1, <2>4, HeldFacts DEF Writing
    <3>2. DirOK(dir)' /\ DirOK(kept)' /\ Fresh'
          BY <1>0, <2>3, <2>4, <3>1, DiskFacts, StagingKeeps
    <3>3. proc'[p] = r
          BY SMTT(40), <2>2, ProcFacts
    <3>4. ProcOK(proc[p])'
          BY <1>0, <2>1, <2>2, <2>3, <2>4, <3>1, <3>3, ProcFacts DEF ProcOK, Steps, Writing, Staged, Checked
    <3> QED
          BY <3>2, <3>4
  <2> QED
        BY Zenon, <1>0, <2>2, <2>3, <2>4, DiskFacts, DiskStep
<1> QED
    BY <1>1, <1>2 DEF sync

LEMMA ExecutableKeeps == ASSUME UpdateInv, NEW p \in Updates, executable(p) PROVE UpdateInv'
<1>0. proc[p].pc = "chmod" /\ UNCHANGED <<dir, kept, latest>>
    BY DEF executable
<1>1. CASE Goto(p, "discard") /\ UNCHANGED ino
    BY <1>0, <1>1, LeavingKeeps
<1>2. CASE /\ There("new") /\ ino' = [ino EXCEPT ![dir["new"]].exec = TRUE]
           /\ proc' = [proc EXCEPT ![p].pc = "run", ![p].held = NoInode]
  <2>1. PICK i \in Inodes : i = dir["new"]
        BY <1>2, DiskFacts DEF There, Names
  <2> DEFINE r == [proc[p] EXCEPT !.pc = "run", !.held = NoInode]
  <2>2. proc' = [proc EXCEPT ![p] = r]
        BY Zenon, <1>2, ProcFacts
  <2>3. /\ r \in ProcType /\ r.pc = "run" /\ r.out = proc[p].out /\ r.how = proc[p].how
        /\ r.file = proc[p].file /\ r.want = proc[p].want
        BY ZenonT(60), ProcFacts DEF ProcType, Steps, Checked, Staged
  <2> HIDE DEF r
  <2>4. /\ ino' \in [Inodes -> InodeType] /\ \A j \in Inodes : j # i => ino'[j] = ino[j]
        /\ ino'[i].exec /\ ino'[i].file = ino[i].file /\ ino'[i].synced = ino[i].synced
        BY Zenon, <1>2, <2>1, DiskFacts DEF InodeType
  <2>5. ASSUME Alone PROVE DirOK(dir)' /\ DirOK(kept)' /\ Fresh' /\ ProcOK(proc[p])'
    <3>1. i = proc[p].held /\ i \notin {dir["target"], dir["old"], kept["target"], kept["old"]} /\ i # NoInode
          BY <1>0, <2>1, <2>5, HeldFacts, DiskFacts DEF Writing
    <3>2. DirOK(dir)' /\ DirOK(kept)' /\ Fresh'
          BY <1>0, <2>1, <2>4, <2>5, <3>1, DiskFacts, StagingKeeps
    <3>3. proc'[p] = r
          BY <2>2, ProcFacts
    <3>4. ProcOK(proc[p])'
          BY <1>0, <2>1, <2>3, <2>4, <2>5, <3>1, <3>3, ProcFacts DEF ProcOK, Steps, Writing, Staged, Checked
    <3> QED
          BY <3>2, <3>4
  <2> QED
        BY Zenon, <1>0, <2>2, <2>3, <2>4, <2>5, DiskFacts, DiskStep
<1> QED
    BY <1>1, <1>2 DEF executable

(* A rename within the directory.                                          *)
LEMMA RenameFacts ==
    ASSUME UpdateInv, NEW a \in Names, NEW b \in Names, a # b, Rename(a, b)
    PROVE  /\ dir' \in [Names -> Inodes \cup {NoInode}] /\ dir[a] # NoInode /\ dir'[a] = NoInode /\ dir'[b] = dir[a]
           /\ \A n \in Names \ {a, b} : dir'[n] = dir[n]
BY DiskFacts DEF Rename, There

LEMMA AsideKeeps == ASSUME UpdateInv, NEW p \in Updates, move_aside(p) PROVE UpdateInv'
<1>0. proc[p].pc = "aside" /\ UNCHANGED <<kept, ino, latest>>
    BY DEF move_aside
<1>1. CASE Goto(p, "discard") /\ UNCHANGED dir
    BY <1>0, <1>1, LeavingKeeps
<1>2. CASE Rename("target", "old") /\ Goto(p, "place")
  <2>1. PICK r \in ProcType :
           /\ proc' = [proc EXCEPT ![p] = r] /\ r.pc = "place" /\ r.out = proc[p].out /\ r.how = proc[p].how
           /\ r.file = proc[p].file /\ r.want = proc[p].want
    <3>1. "place" \in Steps
          BY DEF Steps, Checked, Staged
    <3> QED
          BY <1>2, <3>1, GotoFacts
  <2>2. /\ dir' \in [Names -> Inodes \cup {NoInode}] /\ dir["target"] # NoInode /\ dir'["target"] = NoInode
        /\ dir'["old"] = dir["target"] /\ dir'["new"] = dir["new"]
        BY <1>2, RenameFacts DEF Names
  <2>3. ASSUME Alone PROVE DirOK(dir)' /\ DirOK(kept)' /\ Fresh' /\ ProcOK(proc[p])'
    <3>1. DirOK(dir) /\ DirOK(kept) /\ Fresh
          BY <2>3, DiskFacts
    <3>2. DirOK(dir)' /\ DirOK(kept)' /\ Fresh'
          BY <1>0, <2>2, <3>1 DEF DirOK, Good, Fresh
    <3>3. proc'[p] = r
          BY <2>1, ProcFacts
    <3>4. ProcOK(proc[p])'
          BY <1>0, <2>1, <2>2, <2>3, <3>3, ProcFacts DEF ProcOK, Steps, Writing, Staged, Checked
    <3> QED
          BY <3>2, <3>4
  <2>4. ino' \in [Inodes -> InodeType]
        BY <1>0, DiskFacts
  <2> QED
        BY ZenonT(60), <1>0, <2>1, <2>2, <2>3, <2>4, DiskStep
<1> QED
    BY <1>1, <1>2 DEF move_aside

(* What is staged at the end was checked, synced and run.                  *)
LEMMA StagedIsGood ==
    ASSUME UpdateInv, NEW p \in Updates, Alone, proc[p].pc = "place"
    PROVE  /\ dir["new"] # NoInode /\ Good(dir["new"])
           /\ proc[p].how = "fetch" => Listed(Digest(ino[dir["new"]].file))
<1>1. ProcOK(proc[p])
    BY ProcFacts
<1>2. /\ dir["new"] # NoInode /\ ino[dir["new"]].file = proc[p].file /\ ino[dir["new"]].synced
      /\ ino[dir["new"]].exec /\ Works(proc[p].file) /\ proc[p].file \in Candidates
      /\ Sound(proc[p].file, proc[p].want)
      /\ proc[p].how = "fetch" => proc[p].want # None /\ Listed(proc[p].want)
    BY <1>1 DEF ProcOK, Staged, Checked
<1>3. Complete(proc[p].file)
    BY <1>2, UpdateAssumption DEF Sound, Complete
<1> QED
    BY <1>2, <1>3 DEF Good, Proven, Sound

LEMMA PlaceKeeps == ASSUME UpdateInv, NEW p \in Updates, place(p) PROVE UpdateInv'
<1>0. proc[p].pc = "place" /\ UNCHANGED <<kept, ino, latest>>
    BY DEF place
<1>1. CASE Goto(p, "put_back") /\ UNCHANGED dir
  <2>1. PICK r \in ProcType : proc' = [proc EXCEPT ![p] = r] /\ r.pc = "put_back" /\ r.out = proc[p].out
    <3>1. "put_back" \in Steps
          BY DEF Steps
    <3> QED
          BY <1>1, <3>1, GotoFacts
  <2>2. Alone => ProcOK(r)
        BY <1>0, <2>1, ProcFacts DEF ProcOK, Steps, Writing, Staged, Checked
  <2> QED
        BY Zenon, <1>0, <1>1, <2>1, <2>2, ProcStep
<1>2. CASE Rename("new", "target") /\ Return(p, "done")
  <2>1. /\ proc' = [proc EXCEPT ![p] = Ended(p, "done")] /\ Ended(p, "done") \in ProcType
        /\ Ended(p, "done").pc = "idle" /\ Ended(p, "done").how = proc[p].how
        BY <1>2, EndedType DEF Return
  <2>2. /\ dir' \in [Names -> Inodes \cup {NoInode}] /\ dir["new"] # NoInode /\ dir'["new"] = NoInode
        /\ dir'["target"] = dir["new"] /\ dir'["old"] = dir["old"]
        BY <1>2, RenameFacts DEF Names
  <2>3. ASSUME Alone PROVE DirOK(dir)' /\ DirOK(kept)' /\ Fresh' /\ ProcOK(proc[p])'
    <3>1. DirOK(dir) /\ DirOK(kept) /\ Fresh
          BY <2>3, DiskFacts
    <3>2. Good(dir["new"]) /\ (proc[p].how = "fetch" => Listed(Digest(ino[dir["new"]].file)))
          BY <1>0, <2>3, StagedIsGood
    <3>3. DirOK(dir)' /\ DirOK(kept)' /\ Fresh'
          BY <1>0, <2>2, <3>1, <3>2 DEF DirOK, Good, Fresh
    <3>4. proc'[p].pc = "idle" /\ proc'[p].how = proc[p].how
          BY <2>1, ProcFacts
    <3>5. ProcOK(proc[p])'
          BY <1>0, <2>2, <3>2, <3>4 DEF ProcOK, Steps, Writing, Staged, Checked
    <3> QED
          BY <3>3, <3>5
  <2>4. ino' \in [Inodes -> InodeType]
        BY <1>0, DiskFacts
  <2> QED
        BY Zenon, <1>0, <2>1, <2>2, <2>3, <2>4, DiskStep
<1> QED
    BY <1>1, <1>2 DEF place

LEMMA PutBackKeeps == ASSUME UpdateInv, NEW p \in Updates, put_back(p) PROVE UpdateInv'
<1>0. proc[p].pc = "put_back" /\ UNCHANGED <<kept, ino, latest>> /\ Goto(p, "discard")
    BY DEF put_back
<1>1. CASE UNCHANGED dir
    BY <1>0, <1>1, LeavingKeeps
<1>2. CASE Rename("old", "target")
  <2>1. PICK r \in ProcType : proc' = [proc EXCEPT ![p] = r] /\ r.pc = "discard" /\ r.out = proc[p].out
    <3>1. "discard" \in Steps
          BY DEF Steps
    <3> QED
          BY <1>0, <3>1, GotoFacts
  <2>2. /\ dir' \in [Names -> Inodes \cup {NoInode}] /\ dir["old"] # NoInode /\ dir'["old"] = NoInode
        /\ dir'["target"] = dir["old"] /\ dir'["new"] = dir["new"]
        BY <1>2, RenameFacts DEF Names
  <2>3. ASSUME Alone PROVE DirOK(dir)' /\ DirOK(kept)' /\ Fresh' /\ ProcOK(proc[p])'
    <3>1. DirOK(dir) /\ DirOK(kept) /\ Fresh
          BY <2>3, DiskFacts
    <3>2. DirOK(dir)' /\ DirOK(kept)' /\ Fresh'
          BY <1>0, <2>2, <3>1 DEF DirOK, Good, Fresh
    <3>3. proc'[p] = r
          BY <2>1, ProcFacts
    <3>4. ProcOK(proc[p])'
          BY SMTT(40), <1>0, <2>1, <2>3, <3>3, ProcFacts DEF ProcOK, Steps, Writing, Staged, Checked
    <3> QED
          BY <3>2, <3>4
  <2>4. ino' \in [Inodes -> InodeType]
        BY <1>0, DiskFacts
  <2> QED
        BY Zenon, <1>0, <2>1, <2>2, <2>3, <2>4, DiskStep
<1> QED
    BY <1>1, <1>2 DEF put_back

-----------------------------------------------------------------------------
(* The machine.                                                            *)

LEMMA FlushKeeps == ASSUME UpdateInv, flush PROVE UpdateInv'
<1>1. kept' = dir /\ UNCHANGED <<dir, ino, latest, proc>>
    BY DEF flush
<1>2. UpdateTypeOK'
    BY SMTT(40), <1>1 DEF UpdateInv, UpdateTypeOK
<1>3. Alone => AloneOK'
    BY <1>1 DEF UpdateInv, AloneOK, DirOK, Good, Fresh, ProcOK
<1> QED
    BY <1>2, <1>3 DEF UpdateInv, Alone

LEMMA PublishKeeps == ASSUME UpdateInv, publish PROVE UpdateInv'
<1>1. latest' \in Served /\ UNCHANGED <<dir, kept, ino, proc>>
    BY DEF publish
<1>2. UpdateTypeOK'
    BY SMTT(40), <1>1 DEF UpdateInv, UpdateTypeOK
<1>3. Alone => AloneOK'
    BY <1>1 DEF UpdateInv, AloneOK, DirOK, Good, Fresh, ProcOK
<1> QED
    BY <1>2, <1>3 DEF UpdateInv, Alone

(* What a power loss brings back was synced before it was given a name.    *)
LEMMA PowerLossKeeps == ASSUME UpdateInv, power_loss PROVE UpdateInv'
<1>1. dir' = kept /\ UNCHANGED <<kept, latest>> /\ proc' = [p \in Updates |-> Ended(p, "killed")]
    BY ZenonT(60) DEF power_loss
<1>2. PICK lost \in SUBSET {i \in Inodes : ~ino[i].synced} :
         ino' = [i \in Inodes |-> [ino[i] EXCEPT !.file = IF i \in lost THEN Lost ELSE @, !.synced = TRUE]]
    BY ZenonT(60) DEF power_loss
<1>3. \A i \in Inodes : /\ ino'[i] \in InodeType
                        /\ ino[i].synced => ino'[i].synced /\ ino'[i].file = ino[i].file /\ ino'[i].exec = ino[i].exec
    BY ZenonT(60), <1>2, DiskFacts DEF InodeType
<1>4. ino' \in [Inodes -> InodeType]
  <2>1. ino' = [i \in Inodes |-> ino'[i]]
        BY Zenon, <1>2
  <2> QED
        BY <1>3, <2>1
<1>5. proc' \in [Updates -> ProcType] /\ \A p \in Updates : proc'[p].pc = "idle" /\ proc'[p].out = "killed"
    BY <1>1, EndedType
<1>6. UpdateTypeOK'
    BY <1>1, <1>4, <1>5 DEF UpdateInv, UpdateTypeOK
<1>7. ASSUME Alone PROVE AloneOK'
  <2>1. DirOK(kept) /\ kept \in [Names -> Inodes \cup {NoInode}]
        BY <1>7, DiskFacts
  <2>2. \A i \in Inodes : Good(i) => Good(i)'
        BY <1>3 DEF Good, Proven
  <2>3. DirOK(kept)'
        BY <1>1, <2>1, <2>2 DEF DirOK, Names
  <2>4. DirOK(dir)' /\ Fresh'
        BY <1>1, <2>3 DEF DirOK, Fresh
  <2>5. \A p \in Updates : ProcOK(proc[p])'
        BY <1>5 DEF ProcOK, Steps, Writing, Staged, Checked
  <2> QED
        BY <2>3, <2>4, <2>5 DEF AloneOK
<1> QED
    BY SMTT(40), <1>6, <1>7 DEF UpdateInv, Alone

LEMMA UpdateInitInv == UpdateInit => UpdateInv
<1> SUFFICES ASSUME UpdateInit PROVE UpdateInv
    OBVIOUS
<1>1. PICK i \in Inodes :
         /\ dir = [n \in Names |-> IF n = "target" THEN i ELSE NoInode] /\ kept = dir
         /\ ino = [j \in Inodes |-> [file |-> Original, synced |-> TRUE, exec |-> TRUE]]
    BY DEF UpdateInit, Names
<1>2. latest \in Served /\ proc = [p \in Updates |-> NoUpdate]
    BY DEF UpdateInit
<1>3. dir["target"] = i /\ dir["old"] = NoInode /\ dir["new"] = NoInode /\ i # NoInode
    BY <1>1, UpdateAssumption DEF Names, NoInode
<1>4. UpdateTypeOK
  <2>1. ino \in [Inodes -> InodeType]
        BY <1>1 DEF InodeType
  <2>2. dir \in [Names -> Inodes \cup {NoInode}]
        BY <1>1
  <2> QED
        BY Zenon, <1>1, <1>2, <2>1, <2>2, NoUpdateType DEF UpdateTypeOK
<1>5. Good(i)
    BY <1>1, UpdateAssumption DEF Good, Proven
<1>6. DirOK(dir) /\ DirOK(kept) /\ Fresh
    BY <1>1, <1>3, <1>5 DEF DirOK, Fresh
<1>7. \A p \in Updates : ProcOK(proc[p])
    BY <1>2, NoUpdateType DEF ProcOK, Steps, Writing, Staged, Checked, None
<1> QED
    BY <1>4, <1>6, <1>7 DEF UpdateInv, AloneOK

LEMMA UpdateNextInv == UpdateInv /\ [UpdateNext]_updateVars => UpdateInv'
<1> SUFFICES ASSUME UpdateInv, [UpdateNext]_updateVars PROVE UpdateInv'
    OBVIOUS
<1>1. ASSUME NEW p \in Updates, update(p) \/ read_file(p) \/ Fetch(p) \/ install(p) PROVE UpdateInv'
    BY <1>1, UpdateKeeps, ReadFileKeeps, FetchLatestKeeps, GetSumsKeeps, GetSigKeeps, GetAssetKeeps, InstallKeeps
    DEF Fetch
<1>2. ASSUME NEW p \in Updates, Write(p) \/ version_of(p) \/ confirmed(p) PROVE UpdateInv'
    BY <1>2, ClearKeeps, CreateKeeps, WriteKeeps, SyncKeeps, ExecutableKeeps, VersionKeeps, ConfirmedKeeps DEF Write
<1>3. ASSUME NEW p \in Updates, Replace(p) PROVE UpdateInv'
    BY <1>3, ForgetKeeps, AsideKeeps, PlaceKeeps, PutBackKeeps, DiscardKeeps DEF Replace
<1>4. ASSUME NEW p \in Updates, kill(p) PROVE UpdateInv'
    BY <1>4, ReturnKeeps DEF kill, Quiet
<1>5. ASSUME publish \/ flush \/ power_loss PROVE UpdateInv'
    BY SMTT(40), <1>5, PublishKeeps, FlushKeeps, PowerLossKeeps
<1>6. ASSUME UNCHANGED updateVars PROVE UpdateInv'
    BY <1>6 DEF updateVars, UpdateInv, UpdateTypeOK, Alone, AloneOK, DirOK, Good, Fresh, ProcOK
<1> QED
    BY <1>1, <1>2, <1>3, <1>4, <1>5, <1>6 DEF UpdateNext, Step

LEMMA UpdateInductive == UpdateSpec => []UpdateInv
BY UpdateInitInv, UpdateNextInv, PTL DEF UpdateSpec

(* Whatever fails, whoever is killed and whenever the power is lost, an    *)
(* update that runs alone leaves a working program under its name or       *)
(* beside it, and nothing but a working program under its name: install()  *)
(* checks, syncs and runs the file before place() renames.                 *)
THEOREM ThereIsAlwaysAProgram == UpdateSpec => []InstalledWorks
<1>1. UpdateInv => InstalledWorks
    BY SMTT(40) DEF UpdateInv, AloneOK, DirOK, Good, InstalledWorks, There, FileAt
<1> QED
    BY <1>1, UpdateInductive, PTL

(* What a fetch reports as installed is what a list signed by the release  *)
(* key names, though list, signature and file are three requests and the   *)
(* release may change between them (fetch.rs: latest, verify_sums).        *)
THEOREM FetchedWasSigned == UpdateSpec => []FetchedIsSigned
<1>1. UpdateInv => FetchedIsSigned
    BY DEF UpdateInv, AloneOK, ProcOK, FetchedIsSigned, There, FileAt
<1> QED
    BY <1>1, UpdateInductive, PTL
=============================================================================
