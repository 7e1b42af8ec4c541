-------------------------- MODULE SafeReplacement ---------------------------
(***************************************************************************)
(* What the launcher promises about a settings file it shares with the      *)
(* user, without saying how: a launch puts its managed lines in, or takes   *)
(* them out, in one step that leaves the user's lines alone; a failure can  *)
(* at worst leave the path empty, with the whole old file kept where        *)
(* nothing removes it.  Only what the user saves between a launch's read    *)
(* and its replacement is not covered, and even then no part is missing.    *)
(* SettingsFile implements this specification with a private directory, a   *)
(* backup name, two renames and a rollback.                                 *)
(***************************************************************************)
EXTENDS Integers

CONSTANT MaxSaves   \* times the user's lines change

VARIABLES
    content,    \* the file, as one that is never away
    kept,       \* old files that were left behind
    saved,      \* the last of the user's lines
    raced,      \* has the user saved in the middle of a launch
    failures    \* failed calls and deaths so far

Whole == [user : 0..MaxSaves, managed : BOOLEAN]
Empty == [user |-> 0, managed |-> FALSE]

Init == content = Empty /\ kept = {} /\ saved = 0 /\ raced = FALSE /\ failures = 0

\* The user's next lines; the managed ones stay unless it meets a launch.
Save ==
    /\ content' \in Whole /\ content'.user = saved + 1 /\ saved' = saved + 1
    /\ raced' \in {raced, TRUE}
    /\ ~raced' => content'.managed = content.managed
    /\ UNCHANGED <<kept, failures>>

Manage ==
    /\ \E managed \in BOOLEAN : content' = [content EXCEPT !.managed = managed]
    /\ UNCHANGED <<kept, saved, raced, failures>>

Fail ==
    /\ failures' = failures + 1
    /\ \/ UNCHANGED <<content, kept>>
       \/ content' = Empty /\ kept' = kept \cup {content}
    /\ UNCHANGED <<saved, raced>>

\* After a race a launch may put an older file back over the user's.
Overtake ==
    /\ raced /\ content' \in Whole /\ kept \subseteq kept'
    /\ failures' \in {failures, failures + 1}
    /\ UNCHANGED <<saved, raced>>

Next == Save \/ Manage \/ Fail \/ Overtake

Spec == Init /\ [][Next]_<<content, kept, saved, raced, failures>>
=============================================================================
