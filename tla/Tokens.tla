------------------------------- MODULE Tokens -------------------------------
(***************************************************************************)
(* The token file (tokens.rs) and whoever edits it.  A reload stats the    *)
(* file, stats it again, looks at its mode and reads it: four calls to the *)
(* operating system, and the file may change between any two.              *)
(*                                                                         *)
(* A token is its hash; a text is the set of tokens of its whole lines and *)
(* whether a line of it is malformed.                                      *)
(***************************************************************************)
EXTENDS Naturals

CONSTANTS Editors     \* who edits the file: [grants, sameTick, restores, ticks], the
                      \* tokens that are ever granted, whether changes can share a
                      \* modification time, whether an older copy can be put back
                      \* with its old time, and as a bound the last such time

VARIABLES editor,     \* one of Editors
          file,       \* [there, mtime, writable, tokens, broken]
          clock,      \* when the file was last changed
          backup,     \* a copy kept aside
          srv,        \* [pc, accepted, seen, stamp, result]
          during,     \* token sets the file held since the call began
          ever        \* token sets the file ever held

tokenVars == <<editor, file, clock, backup, srv, during, ever>>

NoTime == 0      \* no modification time

TextOf(f) == IF f.there /\ ~f.broken THEN {f.tokens} ELSE {}

(* The server starts with a file it could load.                            *)
TokensInit ==
    /\ editor \in Editors /\ clock = 1
    /\ \E ts \in SUBSET editor.grants :
         /\ file = [there |-> TRUE, mtime |-> 1, writable |-> FALSE, tokens |-> ts, broken |-> FALSE]
         /\ srv = [pc |-> "idle", accepted |-> ts, seen |-> 1, stamp |-> NoTime, result |-> "loaded"]
         /\ during = {} /\ ever = {ts}
    /\ backup = file

-----------------------------------------------------------------------------
(* Whoever edits the file.                                                 *)

Changed(f) ==
    /\ file' = f
    /\ during' = IF srv.pc = "idle" THEN {} ELSE during \cup TextOf(f)
    /\ ever' = ever \cup TextOf(f)

(* A new text, whole, cut short or malformed, in place or by a rename.     *)
edit ==
    \E now \in clock..(clock + 1), ts \in SUBSET editor.grants, broken \in BOOLEAN :
        /\ now <= editor.ticks /\ (editor.sameTick \/ now > clock)
        /\ clock' = now
        /\ Changed([there |-> TRUE, mtime |-> now, writable |-> file.writable,
                    tokens |-> ts, broken |-> broken])
        /\ UNCHANGED <<editor, backup, srv>>

remove ==
    /\ file.there
    /\ Changed([file EXCEPT !.there = FALSE, !.mtime = NoTime])
    /\ UNCHANGED <<editor, clock, backup, srv>>

chmod ==
    /\ file.there
    /\ Changed([file EXCEPT !.writable = ~@])
    /\ UNCHANGED <<editor, clock, backup, srv>>

copy_aside ==
    /\ editor.restores /\ file.there /\ ~file.broken
    /\ backup' = file
    /\ UNCHANGED <<editor, file, clock, srv, during, ever>>

restore ==
    /\ editor.restores /\ file # backup
    /\ Changed(backup)
    /\ UNCHANGED <<editor, clock, backup, srv>>

-----------------------------------------------------------------------------
(* The server, whenever a token is presented.                              *)

modified == IF file.there THEN file.mtime ELSE NoTime

reload_if_changed ==
    /\ srv.pc = "idle"
    /\ IF modified = srv.seen /\ modified # NoTime
       THEN srv' = [srv EXCEPT !.pc = "return", !.result = "unchanged"]
       ELSE srv' = [srv EXCEPT !.pc = "stamp"]
    /\ during' = TextOf(file)
    /\ UNCHANGED <<editor, file, clock, backup, ever>>

read_stamp ==
    /\ srv.pc = "stamp"
    /\ srv' = [srv EXCEPT !.pc = "mode", !.stamp = modified]
    /\ UNCHANGED <<editor, file, clock, backup, during, ever>>

refuse_if_writable ==
    /\ srv.pc = "mode"
    /\ srv' = IF ~file.there \/ file.writable THEN [srv EXCEPT !.pc = "return", !.result = "failed"]
              ELSE [srv EXCEPT !.pc = "text"]
    /\ UNCHANGED <<editor, file, clock, backup, during, ever>>

(* read(): the text, and with it the set and the time of the first stat.   *)
read ==
    /\ srv.pc = "text"
    /\ srv' = IF ~file.there \/ file.broken THEN [srv EXCEPT !.pc = "return", !.result = "failed"]
              ELSE [srv EXCEPT !.pc = "return", !.result = "loaded",
                               !.accepted = file.tokens, !.seen = srv.stamp]
    /\ UNCHANGED <<editor, file, clock, backup, during, ever>>

(* Mutant: the time is taken when the call is over. *)
return_stamped ==
    /\ srv.pc = "return"
    /\ srv' = [srv EXCEPT !.pc = "idle", !.stamp = NoTime,
                          !.seen = IF srv.result = "loaded" THEN modified ELSE @]
    /\ during' = {}
    /\ UNCHANGED <<editor, file, clock, backup, ever>>

return ==
    /\ srv.pc = "return"
    /\ srv' = [srv EXCEPT !.pc = "idle", !.stamp = NoTime]
    /\ during' = {}
    /\ UNCHANGED <<editor, file, clock, backup, ever>>

TokensNext == edit \/ remove \/ chmod \/ copy_aside \/ restore
        \/ reload_if_changed \/ read_stamp \/ refuse_if_writable \/ read \/ return

TokensSpec == TokensInit /\ [][TokensNext]_tokenVars

-----------------------------------------------------------------------------
(* Properties.                                                             *)

(* A reload that reports no failure leaves in force what the file held at  *)
(* some moment of the call: a line that was deleted before it is not       *)
(* accepted after it, as long as every change has a time of its own        *)
(* (TokenFile::reload_if_changed, read).                                   *)
ReloadIsCurrent ==
    ~editor.sameTick /\ ~editor.restores =>
        (srv.pc = "return" /\ srv.result # "failed" => srv.accepted \in during)

(* The accepted set is always one the file held whole: never the lines     *)
(* before a malformed one, never a mixture of two versions.                *)
AcceptedWasWhole == srv.accepted \in ever
=============================================================================
