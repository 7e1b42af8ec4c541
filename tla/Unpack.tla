------------------------------- MODULE Unpack -------------------------------
(***************************************************************************)
(* From a reply of a server to the files of a stage: the download of a      *)
(* package and its extraction by a 7-Zip of its own, which is watched,      *)
(* stopped and outlives the launcher if that dies (core/src/downloader.rs,  *)
(* core/src/extract.rs).  The stage is module Install's: one attempt at a   *)
(* time has it, under the lock, which the death of a launcher frees.        *)
(***************************************************************************)
EXTENDS Integers, Sequences, SequencesExt

CONSTANTS MaxBytes,     \* limit of a download and of what is extracted
          MaxAttempts   \* attempts made

-----------------------------------------------------------------------------
(* One folder's stage.                                                      *)

Attempts == 1..MaxAttempts
Installers == 1..MaxBytes + 1   \* how much a package unpacks to

VARIABLES
    attempt,   \* the attempt under way
    at,        \* where it is
    stage,     \* the stage directory: there, its download, its package, whose files are unpacked
    reply,     \* the transfer: what it declares, what has come, whether it has ended
    child,     \* the 7-Zip of each attempt
    size,      \* how much the package of each attempt unpacks to
    written,   \* how much each 7-Zip has unpacked
    unkilled   \* history: attempts whose 7-Zip could not be stopped

unpackVars == <<attempt, at, stage, reply, child, size, written, unkilled>>

NoStage == [there |-> FALSE, tmp |-> "none", package |-> "none", raw |-> <<>>]
NewStage == [NoStage EXCEPT !.there = TRUE]
NoReply == [declared |-> -1, length |-> 0, come |-> 0]

UnpackInit ==
    /\ attempt = 1 /\ at = "recover"
    /\ stage = NoStage /\ reply = NoReply
    /\ child = [a \in Attempts |-> "none"]
    /\ size = [a \in Attempts |-> 1]
    /\ written = [a \in Attempts |-> 0]
    /\ unkilled = {}

Running == {a \in Attempts : child[a] = "running"}

\* Mutant: 7-Zip is started from the folder for temporary files.
HeldByElsewhere == {}

\* stage_seven_zip puts the programs into the stage: Windows removes no
\* program that runs.
HeldBy == Running

\* recover_staging_locked, and create_dir of a stage that must be new.
Recover ==
    /\ at = "recover"
    /\ IF HeldBy = {} THEN stage' = NewStage /\ at' = "request"
       ELSE at' = "failed" /\ stage' \in {stage, [stage EXCEPT !.raw = <<>>, !.package = "none", !.tmp = "none"]}
    /\ reply' = NoReply
    /\ UNCHANGED <<attempt, child, size, written, unkilled>>

\* download_to_tmp: a reply that declares too much is not read; the file it
\* goes to is created, and must be new.
Request ==
    /\ at = "request"
    /\ \/ \E declared \in {-1} \cup 1..MaxBytes + 1, length \in 1..MaxBytes + 1 :
             /\ reply' = [declared |-> declared, length |-> length, come |-> 0]
             /\ IF declared > MaxBytes \/ stage.tmp # "none" THEN at' = "failed" /\ UNCHANGED stage
                ELSE at' = "stream" /\ stage' = [stage EXCEPT !.tmp = "part"]
       \/ at' = "failed" /\ UNCHANGED <<stage, reply>>
    /\ UNCHANGED <<attempt, child, size, written, unkilled>>

\* Mutant: a failed transfer is renamed with the others.
BrokenOffKept == [stage EXCEPT !.tmp = "none", !.package = "part"]

\* A failed transfer removes the file it made.
BrokenOff == [stage EXCEPT !.tmp = "none"]

\* The next chunk; too much, or a transfer that breaks off, fails.
Stream ==
    /\ at = "stream"
    /\ \/ /\ reply.come < reply.length /\ reply.come < MaxBytes
          /\ reply' = [reply EXCEPT !.come = @ + 1]
          /\ UNCHANGED <<at, stage>>
       \/ stage' = BrokenOff /\ at' = "failed" /\ UNCHANGED reply
    /\ UNCHANGED <<attempt, child, size, written, unkilled>>

\* The end of the transfer: a declared length has been reached.
Arrive ==
    /\ at = "stream" /\ reply.come = reply.length
    /\ reply.declared # -1 => reply.declared = reply.come
    /\ stage' = [stage EXCEPT !.tmp = "none", !.package = "whole"]
    /\ at' = "spawn"
    /\ UNCHANGED <<attempt, reply, child, size, written, unkilled>>

\* extract_nsis_with_7zip after verify_package: an empty directory to unpack
\* to, and a 7-Zip of its own.
Spawn ==
    /\ at = "spawn"
    /\ \/ /\ child' = [child EXCEPT ![attempt] = "running"]
          /\ size' \in {[size EXCEPT ![attempt] = n] : n \in Installers}
          /\ stage' = [stage EXCEPT !.raw = <<>>]
          /\ at' = "poll"
       \/ at' = "failed" /\ UNCHANGED <<child, size, stage>>
    /\ UNCHANGED <<attempt, reply, written, unkilled>>

WithinBudget == Len(stage.raw) <= MaxBytes

\* run_bounded_extractor: the tree is measured, then the child is looked at.
\* A tree too large or odd, or the deadline, stop the child.
Poll ==
    /\ at = "poll"
    /\ \/ WithinBudget /\ at' = "look"
       \/ at' = "stop"
    /\ UNCHANGED <<attempt, stage, reply, child, size, written, unkilled>>

\* Mutant: the tree is not measured after the exit.
LookOnce ==
    /\ at = "look"
    /\ at' = IF child[attempt] = "ok" THEN "flatten" ELSE IF child[attempt] = "bad" THEN "stop" ELSE "poll"
    /\ UNCHANGED <<attempt, stage, reply, child, size, written, unkilled>>

\* try_wait; after an exit the tree is measured once more.
Look ==
    /\ at = "look"
    /\ at' = IF child[attempt] = "ok" THEN IF WithinBudget THEN "flatten" ELSE "stop"
             ELSE IF child[attempt] = "bad" THEN "stop" ELSE "poll"
    /\ UNCHANGED <<attempt, stage, reply, child, size, written, unkilled>>

\* Mutant: the error is returned, and the child left.
StopNot ==
    /\ at = "stop" /\ at' = "failed"
    /\ UNCHANGED <<attempt, stage, reply, child, size, written, unkilled>>

\* kill and wait, before anything of the stage goes; a child that has ended
\* by itself is as good, one that can be neither is left.
Stop ==
    /\ at = "stop" /\ at' = "failed"
    /\ \/ child' = [child EXCEPT ![attempt] = IF @ = "running" THEN "bad" ELSE @] /\ UNCHANGED unkilled
       \/ child[attempt] = "running" /\ unkilled' = unkilled \cup {attempt} /\ UNCHANGED child
    /\ UNCHANGED <<attempt, stage, reply, size, written>>

\* ensure_tree, flatten_into: the directory with the browser becomes the
\* stage, which is finished and promoted by module Install.
Flattened ==
    /\ at = "flatten" /\ at' = "done"
    /\ stage' = [stage EXCEPT !.package = "none"]
    /\ UNCHANGED <<attempt, reply, child, size, written, unkilled>>

\* The next launch, after an end or a death at any point.
Again ==
    /\ attempt < MaxAttempts
    /\ attempt' = attempt + 1 /\ at' = "recover"
    /\ stage' = IF at = "done" THEN NoStage ELSE stage
    /\ UNCHANGED <<reply, child, size, written, unkilled>>

-----------------------------------------------------------------------------
(* The processes of 7-Zip: each writes to the same path.                    *)

Write(a) ==
    /\ child[a] = "running" /\ stage.there /\ written[a] < size[a]
    /\ at \notin {"done"}
    /\ stage' = [stage EXCEPT !.raw = Append(@, a)]
    /\ written' = [written EXCEPT ![a] = @ + 1]
    /\ UNCHANGED <<attempt, at, reply, child, size, unkilled>>

Exit(a) ==
    /\ child[a] = "running"
    /\ child' \in {[child EXCEPT ![a] = so] : so \in (IF written[a] = size[a] THEN {"ok", "bad"} ELSE {"bad"})}
    /\ UNCHANGED <<attempt, at, stage, reply, size, written, unkilled>>

Attempting == Recover \/ Request \/ Stream \/ Arrive \/ Spawn \/ Poll \/ Look \/ Stop \/ Flattened

UnpackNext ==
    \/ Attempting
    \/ Again
    \/ \E a \in Attempts : Write(a) \/ Exit(a)

-----------------------------------------------------------------------------

\* What is promoted is all of one package, within the budget, and was written
\* by the 7-Zip of this attempt alone: not by one that an earlier launcher
\* left behind when it died (run_bounded_extractor, stage_seven_zip).
UnpackedAlone ==
    at = "done" => /\ \A i \in DOMAIN stage.raw : stage.raw[i] = attempt
                   /\ Len(stage.raw) = size[attempt]

\* What is promoted is within the limit, whenever 7-Zip wrote it: it may write
\* on after a measurement (run_bounded_extractor).
WithinLimit == at = "done" => Len(stage.raw) <= MaxBytes

\* An attempt that failed leaves no 7-Zip behind that it could stop
\* (run_bounded_extractor).
NoneLeftRunning == at = "failed" => \A a \in {attempt} \ unkilled : child[a] # "running"

\* The name of the package stands for a transfer that came to its end; a
\* failed one leaves no file for the next to trip over (download_with_client).
PackageIsWhole ==
    /\ stage.package # "part"
    /\ stage.package = "whole" => reply.come = reply.length \/ at = "recover" \/ at = "failed"
    /\ at = "failed" => stage.tmp = "none" \/ HeldBy # {}
=============================================================================
