---------------------------- MODULE SettingsFile ----------------------------
(***************************************************************************)
(* One settings file of the portable profile (user.js) through launches:    *)
(* read, staged in a private directory and put in place of the old one      *)
(* (hardening.rs, fs_safety.rs), with the user's lines in it.  On Windows   *)
(* the replacement moves the old file to a backup name first, and may stop  *)
(* or fail there.  Launches of a folder are serialised by its lock; the     *)
(* user and a running browser are not.                                      *)
(***************************************************************************)
EXTENDS Integers

CONSTANTS MaxSaves,       \* times the user's lines change
          MaxFileFaults   \* failed calls and deaths

Missing == [user |-> 0, managed |-> FALSE]      \* a file with no line at all is no file
Torn == [user |-> -1, managed |-> FALSE]
Whole == [user : 0..MaxSaves, managed : BOOLEAN]
Contents == Whole \cup {Torn}

VARIABLES
    file,     \* what is at its path
    own,      \* the private directory of this launch: [there, replacement, previous]
    left,     \* the files called previous in directories that were left behind
    host,     \* [readonly, linked]: attribute of the file, a link on its path
    write,    \* [step, enabled, target]: the launch under way
    saved,    \* the last of the user's lines
    raced,    \* someone wrote the file between a launch's read and its replacement
    spent     \* failed calls and deaths so far

fileVars == <<file, own, left, host, write, saved, raced, spent>>

NoDirectory == [there |-> FALSE, replacement |-> Missing, previous |-> Missing]
NoWrite == [step |-> "idle", enabled |-> FALSE, target |-> Missing]

FileInit ==
    /\ file = Missing /\ own = NoDirectory /\ left = {} /\ host = [readonly |-> FALSE, linked |-> FALSE]
    /\ write = NoWrite /\ saved = 0 /\ raced = FALSE /\ spent = 0

At(step) == write.step = step
Goto(step) == write' = [write EXCEPT !.step = step]
Fault == spent < MaxFileFaults /\ spent' = spent + 1

\* StagedFile is dropped: its directory goes, as far as that works.
Drop == own' = NoDirectory /\ UNCHANGED left
Leave == own' = NoDirectory /\ left' = left \cup ({own.previous} \ {Missing})

\* required_setting: an error ends the launch, also one the user forces.
Refuse == Goto("idle") /\ UNCHANGED <<saved, host>>

-----------------------------------------------------------------------------
(* The user.                                                                *)

\* Lines of the user's own, from an editor or saved by the browser.
Save ==
    /\ file # Torn /\ saved < MaxSaves
    /\ file' = [file EXCEPT !.user = saved + 1] /\ saved' = saved + 1
    /\ raced' = (raced \/ ~(At("idle") \/ At("spawn")))
    /\ UNCHANGED <<own, left, host, write, spent>>

Rearrange ==
    /\ At("idle")
    /\ host' \in [readonly : BOOLEAN, linked : BOOLEAN]
    /\ UNCHANGED <<file, own, left, write, saved, raced, spent>>

-----------------------------------------------------------------------------
(* A launch.                                                                *)

\* write_user_js and remove_managed_user_js: the file with the managed lines
\* in it, or without them and gone when nothing is left.
Target(content, enabled) == [content EXCEPT !.managed = enabled]

\* ensure: no link on the path, a file at its end.
Ordinary == ~host.linked

Read ==
    /\ At("idle")
    /\ \E enabled \in BOOLEAN :
          IF ~Ordinary THEN UNCHANGED write
          ELSE write' = [step |-> IF Target(file, enabled) = file THEN "spawn"
                                  ELSE IF Target(file, enabled) = Missing THEN "remove" ELSE "stage",
                         enabled |-> enabled, target |-> Target(file, enabled)]
    /\ UNCHANGED <<file, own, left, host, saved, raced, spent>>

\* remove_file of a file that has only managed lines.
Remove ==
    /\ At("remove")
    /\ \/ Goto("spawn") /\ file' = Missing /\ UNCHANGED <<spent, host, saved>>
       \/ Fault /\ Refuse /\ UNCHANGED file
    /\ UNCHANGED <<own, left, raced>>

\* Mutant: the file itself is truncated and written.
StageInPlace ==
    /\ At("stage")
    /\ \/ Goto("spawn") /\ file' = write.target /\ UNCHANGED spent
       \/ Goto("idle") /\ file' = Torn /\ Fault
    /\ UNCHANGED <<own, left, host, saved, raced>>

\* StagedFile::new and write_new.
Stage ==
    /\ At("stage")
    /\ \/ /\ own' = [NoDirectory EXCEPT !.there = TRUE, !.replacement = write.target]
          /\ Goto("commit") /\ UNCHANGED <<left, spent, host, saved>>
       \/ Fault /\ Drop /\ Refuse
    /\ UNCHANGED <<file, raced>>

\* Mutant: a read-only file is left as it is and the launch goes on.
CommitSkip ==
    /\ At("commit")
    /\ \/ host.readonly /\ file # Missing /\ Goto("spawn") /\ Drop /\ UNCHANGED file
       \/ ~(host.readonly /\ file # Missing) /\ Goto("spawn") /\ Drop /\ file' = own.replacement
    /\ UNCHANGED <<host, saved, raced, spent>>

\* commit: a new file is renamed into place, a read-only one refused.
Commit ==
    /\ At("commit")
    /\ \/ /\ file = Missing /\ file' = own.replacement
          /\ Goto("spawn") /\ Drop /\ UNCHANGED <<spent, host, saved>>
       \/ file # Missing /\ host.readonly /\ Refuse /\ Drop /\ UNCHANGED <<file, spent>>
       \/ /\ file # Missing /\ ~host.readonly
          /\ own' = [own EXCEPT !.previous = file] /\ file' = Missing
          /\ Goto("replace") /\ UNCHANGED <<left, spent, host, saved>>
       \/ Fault /\ Refuse /\ Drop /\ UNCHANGED file
    /\ UNCHANGED raced

\* Mutant: after a failure nothing is renamed back.
ReplaceNoRollback ==
    /\ At("replace")
    /\ \/ file' = own.replacement /\ Goto("spawn") /\ Drop /\ UNCHANGED spent
       \/ Fault /\ Goto("idle") /\ Drop /\ UNCHANGED file
    /\ UNCHANGED <<host, saved, raced>>

\* ReplaceFileW after its first rename: done, or failed with the old file at
\* the backup name.
Replace ==
    /\ At("replace")
    /\ \/ file' = own.replacement /\ Goto("spawn") /\ Drop /\ UNCHANGED spent
       \/ Fault /\ Goto("rollback") /\ UNCHANGED <<file, own, left>>
    /\ UNCHANGED <<host, saved, raced>>

\* Mutant: the private directory goes although the old file is in it.
RollbackDrop ==
    /\ At("rollback")
    /\ \/ file' = own.previous /\ UNCHANGED spent
       \/ Fault /\ UNCHANGED file
    /\ Drop /\ Goto("idle")
    /\ UNCHANGED <<host, saved, raced>>

\* The old file is renamed back, over one made meanwhile; if that fails the
\* directory with it is retained.
Rollback ==
    /\ At("rollback")
    /\ Refuse
    /\ \/ file' = own.previous /\ Drop /\ UNCHANGED spent
       \/ Fault /\ Leave /\ UNCHANGED file
    /\ UNCHANGED raced

Spawn ==
    /\ At("spawn") /\ write' = NoWrite
    /\ UNCHANGED <<file, own, left, host, saved, raced, spent>>

Die ==
    /\ ~At("idle") /\ Fault
    /\ write' = NoWrite /\ Leave
    /\ UNCHANGED <<file, host, saved, raced>>

FileNext ==
    \/ Save \/ Rearrange
    \/ Read \/ Remove \/ Stage \/ Commit \/ Replace \/ Rollback \/ Spawn \/ Die

-----------------------------------------------------------------------------
(* Properties.                                                              *)

\* Through failures and deaths at any call, the user's lines are whole in the
\* file or in a directory nothing removes; unless they were saved while a
\* launch was between its read and its replacement.
LinesNeverLost ==
    ~raced => \E content \in {file, own.previous} \cup left : content.user = saved

\* No launch, however it ends, leaves a file of which a part is missing.
NeverTorn == file # Torn

\* A browser is only started with the managed lines in its file when the
\* configuration of this launch asks for them, and without them when not.
StartedAsConfigured == At("spawn") /\ ~raced => file.managed = write.enabled

-----------------------------------------------------------------------------
(* The abstract specification this one implements.                          *)

\* The file as one that is never away: while a replacement has moved it to
\* its backup name, and nobody has made another, it is the one there.
Content ==
    IF (At("replace") \/ At("rollback")) /\ file = Missing THEN own.previous ELSE file
=============================================================================
