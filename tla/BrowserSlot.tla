---------------------------- MODULE BrowserSlot ----------------------------
(***************************************************************************)
(* What the updater promises about a portable folder, without saying how:  *)
(* the folder holds at most one working browser, which changes only by     *)
(* being replaced, in one atomic step, by a different build that is not    *)
(* older, and a managed extension carried by it is never dropped.          *)
(* Install implements this specification with three directories, a file    *)
(* lock and renames.                                                       *)
(***************************************************************************)
EXTENDS Integers

CONSTANTS Versions,   \* stable release numbers, in their order
          Targets,    \* package targets (x64, x86, arm64)
          NoTarget    \* the target of a legacy marker, or of no browser

VARIABLE copy         \* the working browser: its version, target, extension

Copy == [ver : Versions \cup {0}, tgt : Targets \cup {NoTarget}, ext : BOOLEAN]

NoCopy == [ver |-> 0, tgt |-> NoTarget, ext |-> FALSE]

Init == copy = NoCopy \/ copy \in [ver : Versions, tgt : Targets \cup {NoTarget}, ext : BOOLEAN]

\* A verified build that is not older takes the place of the copy at once.
Replace(v, t) ==
    /\ copy.ver <= v
    /\ <<copy.ver, copy.tgt>> # <<v, t>>
    /\ copy' = [ver |-> v, tgt |-> t, ext |-> copy.ext]

\* The managed extension is staged into the working browser.
Provision ==
    /\ copy # NoCopy
    /\ copy' = [ver |-> copy.ver, tgt |-> copy.tgt, ext |-> TRUE]

Next == Provision \/ \E v \in Versions, t \in Targets : Replace(v, t)

Spec == Init /\ [][Next]_copy
=============================================================================
