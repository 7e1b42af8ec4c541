----------------------------- MODULE Extensions -----------------------------
(***************************************************************************)
(* The uBlock extension a launcher manages.  For Chromium builds it is an   *)
(* unpacked directory in the install directory, replaced through a stage    *)
(* and a backup and carried into new bundles (extensions.rs, ungoogled.rs); *)
(* for Gecko builds one XPI file in the launcher's own directory            *)
(* (browsers/mod.rs).  The launch attempt holds the install lock, so one    *)
(* job runs at a time; it may fail or die at every call.                    *)
(***************************************************************************)
EXTENDS VersionCache

CONSTANTS MaxExtension,   \* extension releases published
          MaxFaults       \* failures and deaths

Absent  == 0
Damaged == -1             \* a directory that does not validate
Releases == 1..MaxExtension
Contents == {Absent, Damaged} \cup Releases

VARIABLES
    managed,    \* how the adapter manages it: "zip", "xpi"
    tree,       \* uBlock0, uBlock0.backup and uBlock0.stage of the bundle
    xpi,        \* the XPI file and its legacy version marker
    cache,      \* nomad-version-cache.toml
    newest,     \* the extension release published last
    job,        \* what the attempt is doing to the extension
    settled,    \* the release the last finished check vouches for
    faults

extension == <<tree, xpi, job, settled>>

Steps == {"none", "check", "recover", "sweep", "create", "extract", "setAside",
          "promote", "dropBackup", "dropStage", "record", "copy", "swap"}

ExtensionTypeOK ==
    /\ managed \in {"zip", "xpi"}
    /\ tree \in [current : Contents, backup : Contents, stage : Contents]
    /\ xpi \in [file : {Absent} \cup Releases, marker : {Absent} \cup Releases]
    /\ newest \in Releases
    /\ job \in [step : Steps, version : {Absent} \cup Releases, preserve : BOOLEAN, copied : Contents]
    /\ settled \in {Absent} \cup Releases
    /\ faults \in 0..MaxFaults

NoTree == [current |-> Absent, backup |-> Absent, stage |-> Absent]
Idle == [step |-> "none", version |-> Absent, preserve |-> FALSE, copied |-> Absent]

ExtensionInit ==
    /\ managed \in {"zip", "xpi"}
    /\ tree = NoTree
    /\ xpi = [file |-> Absent, marker |-> Absent]
    /\ newest = 1
    /\ job = Idle
    /\ settled = Absent
    /\ faults = 0

Fault == faults < MaxFaults /\ faults' = faults + 1
Goto(step) == job' = [job EXCEPT !.step = step]
Working(step) == job.step = step

\* staged_ubo_dir: the first of the two directories that validates.
Loaded == IF tree.current \in Releases THEN tree.current
          ELSE IF tree.backup \in Releases THEN tree.backup ELSE Absent

-----------------------------------------------------------------------------
(* The check of a launch.                                                   *)

\* Mutant: the record alone decides.
UpToDateRecorded == cache.ubo = newest

\* Up to date needs the recorded version and something that loads.
UpToDate ==
    IF managed = "zip" THEN cache.ubo = newest /\ Loaded # Absent
    ELSE /\ (IF cache.found /\ cache.ubo # 0 THEN cache.ubo ELSE xpi.marker) = newest
         /\ xpi.file # Absent

\* Release lookup: current, deferred by auto_download = FALSE, or to be
\* fetched. Without an answer, or when the asset is missing, was uploaded
\* late, has no digest, or the tag or the bytes do not verify, it ends here.
Check(auto) ==
    /\ Working("check")
    /\ \/ UpToDate /\ job' = Idle /\ settled' = newest /\ UNCHANGED faults
       \/ ~UpToDate /\ ~auto /\ job' = Idle /\ settled' = Absent /\ UNCHANGED faults
       \/ ~UpToDate /\ auto /\ UNCHANGED <<settled, faults>>
          /\ job' = [job EXCEPT !.step = IF managed = "zip" THEN "recover" ELSE "promote",
                                !.version = newest]
       \/ Fault /\ job' = Idle /\ settled' = Absent
    /\ UNCHANGED <<tree, xpi, cache>>

-----------------------------------------------------------------------------
(* The directories. A removal that fails may leave a part behind.           *)

Part(dir) == {tree[dir], Damaged}

\* Ending with an error: a staging job gives up, a preservation fails the
\* whole browser update (Failed in the module that composes).
GiveUp == job' = [Idle EXCEPT !.preserve = job.preserve] /\ settled' = Absent

\* lock_extension_root and the backup part of recover_extension.
RecoverBackup ==
    /\ Working("recover")
    /\ \/ /\ tree.backup = Absent
          /\ Goto("sweep") /\ UNCHANGED <<tree, settled, faults>>
       \/ /\ tree.backup # Absent /\ tree.current \in Releases
          /\ tree' = [tree EXCEPT !.backup = Absent]
          /\ Goto("sweep") /\ UNCHANGED <<settled, faults>>
       \/ /\ tree.backup \in Releases /\ tree.current = Absent
          /\ tree' = [tree EXCEPT !.current = tree.backup, !.backup = Absent]
          /\ Goto("sweep") /\ UNCHANGED <<settled, faults>>
       \/ /\ tree.backup # Absent /\ (IF tree.current = Absent THEN tree.backup ELSE tree.current) = Damaged
          /\ GiveUp /\ UNCHANGED <<tree, faults>>
       \/ /\ tree.backup # Absent /\ tree.current \in Releases /\ Fault
          /\ \E left \in Part("backup") : tree' = [tree EXCEPT !.backup = left]
          /\ GiveUp
       \/ Fault /\ GiveUp /\ UNCHANGED tree
    /\ UNCHANGED <<xpi, cache>>

\* The stage part of recover_extension; then a preservation copies, if there
\* is something to copy and it validates, and a staging job goes on.
SweepExtension ==
    /\ Working("sweep")
    /\ \/ /\ tree' = [tree EXCEPT !.stage = Absent]
          /\ UNCHANGED <<settled, faults>>
          /\ Goto(IF job.preserve THEN "copy" ELSE "create")
       \/ /\ tree.stage # Absent /\ Fault /\ GiveUp
          /\ \E left \in Part("stage") : tree' = [tree EXCEPT !.stage = left]
    /\ UNCHANGED <<xpi, cache>>

CreateExtension ==
    /\ Working("create")
    /\ \/ tree' = [tree EXCEPT !.stage = Damaged] /\ Goto("extract") /\ UNCHANGED <<settled, faults>>
       \/ Fault /\ GiveUp /\ UNCHANGED tree
    /\ UNCHANGED <<xpi, cache>>

\* extract_zip_into and validate_extension.
ExtractExtension ==
    /\ Working("extract")
    /\ \/ tree' = [tree EXCEPT !.stage = job.version] /\ Goto("setAside") /\ UNCHANGED faults
       \/ Fault /\ Goto("dropStage") /\ UNCHANGED tree
    /\ UNCHANGED <<xpi, cache, settled>>

\* Mutant: the working copy is removed instead of renamed.
SetExtensionAsideRemove ==
    /\ Working("setAside")
    /\ tree' = [tree EXCEPT !.current = Absent]
    /\ Goto("promote")
    /\ UNCHANGED <<xpi, cache, settled, faults>>

SetExtensionAside ==
    /\ Working("setAside")
    /\ \/ /\ tree.backup # Absent
          /\ Goto("dropStage") /\ UNCHANGED <<tree, faults>>
       \/ /\ tree.backup = Absent
          /\ tree' = [tree EXCEPT !.backup = tree.current, !.current = Absent]
          /\ Goto("promote") /\ UNCHANGED faults
       \/ Fault /\ Goto("dropStage") /\ UNCHANGED tree
    /\ UNCHANGED <<xpi, cache, settled>>

\* The second rename; when it fails the first is undone, if that works.
\* For an XPI, the atomic replacement of the file.
PromoteExtension ==
    /\ Working("promote")
    /\ \/ /\ managed = "xpi"
          /\ \/ xpi' = [xpi EXCEPT !.file = job.version] /\ Goto("record") /\ UNCHANGED <<settled, faults>>
             \/ Fault /\ GiveUp /\ UNCHANGED xpi
          /\ UNCHANGED tree
       \/ /\ managed = "zip" /\ UNCHANGED <<xpi, settled>>
          /\ \/ /\ tree' = [tree EXCEPT !.current = tree.stage, !.stage = Absent]
                /\ Goto("dropBackup") /\ UNCHANGED faults
             \/ /\ Fault /\ Goto("dropStage")
                /\ \/ UNCHANGED tree
                   \/ tree' = [tree EXCEPT !.current = tree.backup, !.backup = Absent]
    /\ UNCHANGED cache

DropExtensionBackup ==
    /\ Working("dropBackup")
    /\ Goto("record")
    /\ \/ tree' = [tree EXCEPT !.backup = Absent] /\ UNCHANGED faults
       \/ tree.backup # Absent /\ Fault /\ \E left \in Part("backup") : tree' = [tree EXCEPT !.backup = left]
    /\ UNCHANGED <<xpi, cache, settled>>

\* The stage of a failed job is removed, best effort.
DropExtensionStage ==
    /\ Working("dropStage")
    /\ GiveUp
    /\ \/ tree' = [tree EXCEPT !.stage = Absent] /\ UNCHANGED faults
       \/ Fault /\ \E left \in Part("stage") : tree' = [tree EXCEPT !.stage = left]
    /\ UNCHANGED <<xpi, cache>>

\* update_ubo_version, silent when it fails, and the legacy marker.
RecordExtension ==
    /\ Working("record")
    /\ job' = Idle
    /\ settled' = job.version
    /\ \/ cache' = UpdateUbo(cache, job.version) /\ UNCHANGED faults
       \/ Fault /\ UNCHANGED cache
    /\ xpi' = IF managed = "xpi" THEN [xpi EXCEPT !.marker = job.version] ELSE xpi
    /\ UNCHANGED tree

-----------------------------------------------------------------------------
(* preserve_chromium_ubo: the working copy goes into the new bundle.        *)

\* Mutant: the new bundle comes without the extension.
CopyNoExtension ==
    /\ Working("copy")
    /\ Goto("swap")
    /\ UNCHANGED <<tree, xpi, cache, settled, faults>>

CopyExtension ==
    /\ Working("copy")
    /\ \/ tree.current # Damaged /\ job' = [job EXCEPT !.step = "swap", !.copied = tree.current] /\ UNCHANGED <<settled, faults>>
       \/ tree.current = Damaged /\ GiveUp /\ UNCHANGED faults
       \/ Fault /\ GiveUp
    /\ UNCHANGED <<tree, xpi, cache>>

ExtensionStep ==
    \/ RecoverBackup \/ SweepExtension \/ CreateExtension \/ ExtractExtension
    \/ SetExtensionAside \/ PromoteExtension \/ DropExtensionBackup
    \/ DropExtensionStage \/ RecordExtension \/ CopyExtension
=============================================================================
