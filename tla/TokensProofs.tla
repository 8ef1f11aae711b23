---------------------------- MODULE TokensProofs ----------------------------
(***************************************************************************)
(* Proofs about the token file, for any set of tokens, any number of edits *)
(* and any interleaving of them with a reload.                             *)
(***************************************************************************)
EXTENDS Tokens, TLAPS

FileType == [there : BOOLEAN, mtime : Nat, writable : BOOLEAN,
             tokens : SUBSET editor.grants, broken : BOOLEAN]

TokensTypeOK ==
    /\ file \in FileType /\ backup \in FileType /\ clock \in Nat \ {0}
    /\ srv \in [pc : {"idle", "stamp", "mode", "text", "return"}, accepted : SUBSET editor.grants,
                seen : Nat, stamp : Nat, result : {"unchanged", "failed", "loaded"}]

(* Everything that could be loaded was in the file once.                   *)
Remembered == TextOf(file) \subseteq ever /\ TextOf(backup) \subseteq ever /\ AcceptedWasWhole

(* What the call under way may find is what the file held during it.       *)
Witnessed == srv.pc # "idle" => TextOf(file) \subseteq during

(* Where every change has a time of its own, the time names the text: the  *)
(* file cannot show the remembered time with another text behind it.       *)
TimesNameTexts ==
    ~editor.sameTick /\ ~editor.restores =>
        /\ file.mtime <= clock /\ srv.seen <= clock /\ srv.stamp <= clock
        /\ file.there /\ file.mtime = srv.seen => ~file.broken /\ file.tokens = srv.accepted

TokensInv == TokensTypeOK /\ Remembered /\ Witnessed /\ TimesNameTexts /\ ReloadIsCurrent

LEMMA TokensInitInv == TokensInit => TokensInv
<1> SUFFICES ASSUME TokensInit PROVE TokensInv
    OBVIOUS
<1>1. PICK ts \in SUBSET editor.grants :
         /\ file = [there |-> TRUE, mtime |-> 1, writable |-> FALSE, tokens |-> ts, broken |-> FALSE]
         /\ srv = [pc |-> "idle", accepted |-> ts, seen |-> 1, stamp |-> NoTime, result |-> "loaded"]
         /\ during = {} /\ ever = {ts}
    BY Zenon DEF TokensInit
<1>2. backup = file /\ clock = 1
    BY DEF TokensInit
<1>3. TokensTypeOK
    BY <1>1, <1>2 DEF TokensTypeOK, FileType, NoTime
<1>4. Remembered /\ Witnessed /\ ReloadIsCurrent
    BY <1>1, <1>2 DEF Remembered, Witnessed, ReloadIsCurrent, AcceptedWasWhole, TextOf
<1>5. TimesNameTexts
    BY <1>1, <1>2 DEF TimesNameTexts, NoTime
<1> QED
    BY <1>3, <1>4, <1>5 DEF TokensInv

(* A change of the file outside the server.                                *)
LEMMA ChangeKeeps ==
    ASSUME TokensInv, NEW f \in FileType, Changed(f), UNCHANGED <<editor, backup, srv>>,
           clock' \in Nat, clock <= clock',
           ~editor.sameTick /\ ~editor.restores =>
              /\ f.mtime <= clock'
              /\ f.there /\ f.mtime = srv.seen => ~f.broken /\ f.tokens = srv.accepted
    PROVE  TokensInv'
<1>1. TokensTypeOK'
    BY DEF TokensInv, TokensTypeOK, FileType, Changed
<1>2. Remembered'
    BY DEF TokensInv, Remembered, AcceptedWasWhole, Changed, TextOf
<1>3. Witnessed' /\ ReloadIsCurrent'
    BY DEF TokensInv, TokensTypeOK, Witnessed, ReloadIsCurrent, Changed, TextOf
<1>4. TimesNameTexts'
  <2>1. srv.seen \in Nat /\ srv.stamp \in Nat /\ clock \in Nat /\ file' = f
        BY DEF TokensInv, TokensTypeOK, Changed
  <2> QED
        BY <2>1 DEF TokensInv, TimesNameTexts
<1> QED
    BY <1>1, <1>2, <1>3, <1>4 DEF TokensInv

LEMMA TokensNextInv == TokensInv /\ [TokensNext]_tokenVars => TokensInv'
<1> SUFFICES ASSUME TokensInv, [TokensNext]_tokenVars PROVE TokensInv'
    OBVIOUS
<1>t. TokensTypeOK /\ clock \in Nat \ {0} /\ file \in FileType /\ backup \in FileType
    BY DEF TokensInv, TokensTypeOK
<1>1. CASE edit
  <2>1. PICK now \in clock..(clock + 1), ts \in SUBSET editor.grants, broken \in BOOLEAN :
            /\ editor.sameTick \/ now > clock
            /\ clock' = now
            /\ Changed([there |-> TRUE, mtime |-> now, writable |-> file.writable,
                        tokens |-> ts, broken |-> broken])
            /\ UNCHANGED <<editor, backup, srv>>
        BY Zenon, <1>1 DEF edit
  <2> DEFINE f == [there |-> TRUE, mtime |-> now, writable |-> file.writable,
                   tokens |-> ts, broken |-> broken]
  <2>2. f \in FileType /\ f.mtime = now /\ now \in Nat
        BY <1>t DEF FileType
  <2>3. ~editor.sameTick /\ ~editor.restores => f.mtime # srv.seen
        BY <2>1, <2>2, <1>t DEF TokensInv, TimesNameTexts, TokensTypeOK
  <2> HIDE DEF f
  <2> QED
        BY <2>1, <2>2, <2>3, <1>t, ChangeKeeps DEF f
<1>2. CASE remove
  <2> DEFINE f == [file EXCEPT !.there = FALSE, !.mtime = NoTime]
  <2>1. f \in FileType /\ ~f.there /\ f.mtime = 0
        BY Zenon, <1>t DEF FileType, NoTime
  <2>2. Changed(f) /\ UNCHANGED <<editor, clock, backup, srv>>
        BY <1>2 DEF remove
  <2> HIDE DEF f
  <2> QED
        BY <2>1, <2>2, <1>t, ChangeKeeps
<1>3. CASE chmod
  <2> DEFINE f == [file EXCEPT !.writable = ~@]
  <2>1. /\ f \in FileType /\ f.there = file.there /\ f.mtime = file.mtime
        /\ f.broken = file.broken /\ f.tokens = file.tokens
        BY Zenon, <1>t DEF FileType
  <2>2. Changed(f) /\ UNCHANGED <<editor, clock, backup, srv>>
        BY <1>3 DEF chmod
  <2> HIDE DEF f
  <2> QED
        BY <2>1, <2>2, <1>t, ChangeKeeps DEF TokensInv, TimesNameTexts
<1>4. CASE copy_aside
    BY <1>4 DEF copy_aside, TokensInv, TokensTypeOK, FileType, Remembered, AcceptedWasWhole,
                Witnessed, TimesNameTexts, ReloadIsCurrent, TextOf
<1>5. CASE restore
    BY <1>5, <1>t, ChangeKeeps DEF restore
<1>6. CASE reload_if_changed
  <2>1. srv.pc = "idle" /\ during' = TextOf(file) /\ UNCHANGED <<editor, file, clock, backup, ever>>
        BY <1>6 DEF reload_if_changed
  <2>2. CASE modified = srv.seen /\ modified # NoTime
    <3>1. srv' = [srv EXCEPT !.pc = "return", !.result = "unchanged"]
          BY <1>6, <2>2 DEF reload_if_changed
    <3>2. file.there /\ file.mtime = srv.seen
          BY <2>2 DEF modified
    <3>3. ReloadIsCurrent'
          BY <2>1, <3>1, <3>2, <1>t DEF TokensInv, TokensTypeOK, TimesNameTexts, ReloadIsCurrent, TextOf
    <3> QED
          BY Zenon, <2>1, <3>1, <3>3, <1>t DEF TokensInv, TokensTypeOK, FileType, Remembered, AcceptedWasWhole,
                Witnessed, TimesNameTexts, TextOf
  <2>3. CASE ~(modified = srv.seen /\ modified # NoTime)
    <3>1. srv' = [srv EXCEPT !.pc = "stamp"]
          BY <1>6, <2>3 DEF reload_if_changed
    <3> QED
          BY <2>1, <3>1, <1>t DEF TokensInv, TokensTypeOK, FileType, Remembered, AcceptedWasWhole,
                Witnessed, TimesNameTexts, TextOf, ReloadIsCurrent
  <2> QED
        BY <2>2, <2>3
<1>7. CASE read_stamp
  <2>1. modified \in Nat /\ (~editor.sameTick /\ ~editor.restores => modified <= clock)
        BY <1>t DEF modified, FileType, NoTime, TokensInv, TimesNameTexts
  <2> QED
        BY Zenon, <1>7, <2>1, <1>t DEF read_stamp, TokensInv, TokensTypeOK, FileType, Remembered,
                AcceptedWasWhole, Witnessed, TimesNameTexts, TextOf, ReloadIsCurrent
<1>8. CASE refuse_if_writable
    BY Zenon, <1>8, <1>t DEF refuse_if_writable, TokensInv, TokensTypeOK, FileType, Remembered,
                AcceptedWasWhole, Witnessed, TimesNameTexts, TextOf, ReloadIsCurrent
<1>9. CASE read
  <2>1. srv.pc = "text" /\ UNCHANGED <<editor, file, clock, backup, during, ever>>
        BY <1>9 DEF read
  <2>2. CASE ~file.there \/ file.broken
    <3>1. srv' = [srv EXCEPT !.pc = "return", !.result = "failed"]
          BY <1>9, <2>2 DEF read
    <3> QED
          BY Zenon, <2>1, <3>1, <1>t DEF TokensInv, TokensTypeOK, FileType, Remembered, AcceptedWasWhole,
                Witnessed, TimesNameTexts, TextOf, ReloadIsCurrent
  <2>3. CASE file.there /\ ~file.broken
    <3>1. srv' = [srv EXCEPT !.pc = "return", !.result = "loaded",
                             !.accepted = file.tokens, !.seen = srv.stamp]
          BY <1>9, <2>3 DEF read
    <3>2. TextOf(file) = {file.tokens}
          BY <2>3 DEF TextOf
    <3>3. ReloadIsCurrent' /\ Remembered'
          BY <2>1, <3>1, <3>2, <1>t DEF TokensInv, TokensTypeOK, Witnessed, ReloadIsCurrent,
                Remembered, AcceptedWasWhole, TextOf
    <3> QED
          BY Zenon, <2>1, <2>3, <3>1, <3>3, <1>t DEF TokensInv, TokensTypeOK, FileType, Witnessed,
                TimesNameTexts, TextOf
  <2> QED
        BY <2>2, <2>3
<1>10. CASE return
  <2>1. srv' = [srv EXCEPT !.pc = "idle", !.stamp = 0] /\ UNCHANGED <<editor, file, clock, backup, ever>>
        BY <1>10 DEF return, NoTime
  <2>2. /\ srv'.pc = "idle" /\ srv'.stamp = 0 /\ srv'.seen = srv.seen /\ srv'.accepted = srv.accepted
        BY <2>1, <1>t DEF TokensTypeOK
  <2>3. TokensTypeOK'
        BY Zenon, <2>1, <1>t DEF TokensTypeOK, FileType
  <2>4. TimesNameTexts' /\ Remembered' /\ Witnessed' /\ ReloadIsCurrent'
        BY <2>1, <2>2, <1>t DEF TokensInv, TimesNameTexts, Remembered, AcceptedWasWhole, TextOf,
                Witnessed, ReloadIsCurrent
  <2> QED
        BY <2>3, <2>4 DEF TokensInv
<1>11. CASE UNCHANGED tokenVars
    BY <1>11 DEF tokenVars, TokensInv, TokensTypeOK, FileType, Remembered, AcceptedWasWhole,
                Witnessed, TimesNameTexts, TextOf, ReloadIsCurrent
<1> QED
    BY <1>1, <1>2, <1>3, <1>4, <1>5, <1>6, <1>7, <1>8, <1>9, <1>10, <1>11 DEF TokensNext

(* A reload that does not fail leaves in force a set the file held during  *)
(* that very call, however often the file is edited, removed or locked     *)
(* between its four system calls, as long as no two changes share a        *)
(* modification time (TokenFile::reload_if_changed).                       *)
THEOREM ReloadsAreCurrent == TokensSpec => []ReloadIsCurrent
<1>1. TokensInv => ReloadIsCurrent
    BY DEF TokensInv
<1> QED
    BY TokensInitInv, TokensNextInv, <1>1, PTL DEF TokensSpec

(* Whatever the editor does, equal times and restored copies included, the *)
(* accepted set is one the file held whole (TokenSet::parse under read).   *)
THEOREM AcceptedSetsWereWhole == TokensSpec => []AcceptedWasWhole
<1>1. TokensInv => AcceptedWasWhole
    BY DEF TokensInv, Remembered
<1> QED
    BY TokensInitInv, TokensNextInv, <1>1, PTL DEF TokensSpec
=============================================================================
