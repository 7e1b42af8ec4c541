---------------------------- MODULE UpkeepProofs ----------------------------
(***************************************************************************)
(* Proofs about Upkeep: for any ages of caches, releases, targets, clock    *)
(* and number of failures.                                                 *)
(***************************************************************************)
EXTENDS Upkeep, TLAPS

-----------------------------------------------------------------------------
(* The invariant.                                                           *)

\* What was published was published by now, and nothing above what a lookup
\* answers with is on offer.
Published ==
    \A v \in Versions : births[v] <= now /\ (births[v] # 0 => v <= upstream)

Future == Epoch + Span + 1

\* A release a lifetime old is not above this version.
CoversOld(version) == \A v \in Versions : births[v] # 0 /\ births[v] + TTL <= now => version >= v

\* A cached answer is not younger than the clock, unless the clock was set back
\* for good; and it is no older than what was on offer before it was given.
Answered ==
    /\ cache.at <= now \/ cache.at = Future
    /\ cache.sound /\ cache.at <= now =>
          \A v \in Versions : births[v] # 0 /\ births[v] < cache.at => v <= cache.version

\* An attempt that checked, and was neither offline nor told not to.
Checked == run.check /\ ~run.offline /\ ~run.declined /\ ~run.anyway

\* What is about to be installed, or has been found in place.
Resolved ==
    /\ run.phase \in {"prompt", "download", "replace"} =>
          run.latest >= installed.version /\ CoversOld(run.latest)
    /\ Checked /\ run.phase \in {"extend", "extensions", "prepare", "running"} =>
          installed.target = arch /\ CoversOld(installed.version)

\* A link does not check, and so comes by no phase that changes anything.
Linked == run.link => ~run.check /\ run.phase \in {"check", "prepare", "running", "error"}

StagingSteps == {"recover", "sweep", "create", "extract", "setAside", "promote", "dropBackup", "dropStage", "record"}
KeepingSteps == {"none", "recover", "sweep", "copy", "swap"}

\* A job belongs to a phase: a preservation to the replacement, a staging of
\* the newest release to the extension check.
Assigned ==
    /\ job.preserve <=> run.phase = "replace"
    /\ job.step # "none" => run.phase \in {"extensions", "replace"}
    /\ job.preserve => job.step \in KeepingSteps /\ job.version = Absent
    /\ ~job.preserve => job.step \in StagingSteps \cup {"none", "check"}
    /\ job.step \in {"none", "check"} => job.version = Absent
    /\ ~job.preserve /\ job.step \in StagingSteps => job.version = newest
    /\ managed = "xpi" => job.step \in {"none", "check", "promote", "record", "swap"}

\* The directories at each step of a job on an unpacked extension.
Staged ==
    managed = "zip" =>
        /\ job.step \in {"sweep", "create", "extract", "setAside", "copy", "swap"} => tree.backup = Absent
        /\ job.step \in {"setAside", "promote"} => tree.stage = job.version
        /\ job.step = "promote" => tree.current = Absent
        /\ job.step \in {"dropBackup", "record"} => tree.current = job.version
        /\ job.step = "swap" => job.copied = tree.current

\* No copy is newer than the last release, and the record not newer than what
\* loads, if anything does.
Dated ==
    /\ \A dir \in {"current", "backup", "stage"} : tree[dir] <= newest
    /\ xpi.file <= newest /\ job.copied <= newest /\ cache.ubo <= newest
    /\ xpi.marker <= xpi.file
    /\ managed = "zip" /\ Loaded # Absent => cache.ubo <= Loaded
    /\ managed = "xpi" => cache.ubo <= xpi.file
    /\ managed = "xpi" /\ job.step = "record" => xpi.file = job.version

\* A check that ended well is the last thing an attempt does to the extension.
Ended ==
    settled # Absent => job.step = "none" /\ run.phase \in {"extensions", "prepare", "running", "error", "off"}

-----------------------------------------------------------------------------
(* Types.                                                                   *)

Trees == [current : Contents, backup : Contents, stage : Contents]
Jobs == [step : Steps, version : {Absent} \cup Releases, preserve : BOOLEAN, copied : Contents]
Runs == [phase : Phases, link : BOOLEAN, check : BOOLEAN, auto : BOOLEAN, latest : {0} \cup Versions,
         offline : BOOLEAN, declined : BOOLEAN, anyway : BOOLEAN, fallback : BOOLEAN]
Caches == [found : BOOLEAN, target : Targets \cup {"none"}, at : {0} \cup Clock \cup {Future},
           version : {0} \cup Versions, sound : BOOLEAN, ubo : {Absent} \cup Releases]

\* The numbers of the model are numbers.
LEMMA Numbers ==
    /\ Releases \subseteq Nat /\ Versions \subseteq Nat /\ Clock \subseteq Nat /\ Future \in Nat
    /\ TTL \in Nat \ {0} /\ 1 \in Releases /\ 1 \in Versions /\ Epoch \in Clock
    /\ Absent = 0 /\ Damaged = -1 /\ 0 \notin Releases /\ -1 \notin Releases
    /\ \A t \in Clock : t < Future
  BY UpkeepAssumption, AgesAssumption DEF Releases, Versions, Clock, Future, Absent, Damaged

\* The records a step makes are of their types.
LEMMA Records ==
    /\ NoTree \in Trees /\ Idle \in Jobs /\ Off \in Runs
    /\ NoCache \in Caches
  BY Numbers DEF Trees, Jobs, Runs, Caches, NoTree, Idle, Off, NoCache, Contents, Steps, Phases

\* Where an answer, and the end of a check, lead to.
LEMMA Resolving ==
    ASSUME NEW version, Resolve(version)
    PROVE  /\ \E phase \in {"extend", "download", "prompt"} : run' = [run EXCEPT !.latest = version, !.phase = phase]
           /\ NeedsUpdate(installed, version, arch) \/ run' = [run EXCEPT !.latest = version, !.phase = "extend"]
  <1>1. CASE ~NeedsUpdate(installed, version, arch)
    BY <1>1 DEF Resolve
  <1>2. CASE NeedsUpdate(installed, version, arch) /\ run.auto
    BY <1>2 DEF Resolve
  <1>3. CASE NeedsUpdate(installed, version, arch) /\ ~run.auto
    BY <1>3 DEF Resolve
  <1>4. QED
    BY <1>1, <1>2, <1>3

\* A failure, with or without a browser to go on with.
LEMMA Failing == Fail => \E b \in BOOLEAN : run' = [run EXCEPT !.phase = "error", !.fallback = b]
  <1>1. HasBrowser \in BOOLEAN
    BY DEF HasBrowser
  <1>2. QED
    BY <1>1 DEF Fail

\* On the way to a launch, by the extension when checks are on.
LEMMA Extending ==
    Extend => run' = [run EXCEPT !.phase = "extend"] \/ run' = [run EXCEPT !.phase = "prepare"]
  <1>1. CASE run.check
    BY <1>1 DEF Extend, To
  <1>2. CASE ~run.check
    BY <1>2 DEF Extend, To
  <1>3. QED
    BY <1>1, <1>2

\* A folder at first.
LEMMA InitTyped == Init => TypeOK
  <1> SUFFICES ASSUME Init PROVE TypeOK
    OBVIOUS
  <1>1. ExtensionTypeOK
    BY Records, Numbers, UpkeepAssumption DEF Init, ExtensionInit, ExtensionTypeOK, Trees, Jobs, Contents
  <1>2. cache \in Caches
    BY Records, Numbers DEF Init, Caches, FromVersionInfo, Future, Absent
  <1>3. /\ now \in Clock /\ upstream \in Versions /\ births \in [Versions -> {0} \cup Clock]
        /\ installed \in [version : {0} \cup Versions, target : Targets \cup {"none"}]
        /\ arch \in Targets /\ run \in Runs
    BY Records, Numbers DEF Init, NotInstalled
  <1>4. QED
    BY <1>1, <1>2, <1>3 DEF TypeOK, Runs, Caches, Future

\* The types of what a step leaves alone, and of what it changes.
Typed ==
    /\ managed \in {"zip", "xpi"} /\ tree \in Trees /\ job \in Jobs
    /\ xpi \in [file : {Absent} \cup Releases, marker : {Absent} \cup Releases]
    /\ newest \in Releases /\ settled \in {Absent} \cup Releases /\ faults \in 0..MaxFaults
    /\ cache \in Caches
    /\ now \in Clock /\ upstream \in Versions /\ births \in [Versions -> {0} \cup Clock]
    /\ installed \in [version : {0} \cup Versions, target : Targets \cup {"none"}]
    /\ arch \in Targets /\ run \in Runs

\* The type invariant with its records named, in this state and in the next.
LEMMA TypedIs == TypeOK <=> Typed
  BY DEF TypeOK, ExtensionTypeOK, Typed, Trees, Jobs, Runs, Caches, Future

LEMMA TypedIs2 == TypeOK' <=> Typed'
  BY DEF TypeOK, ExtensionTypeOK, Typed, Trees, Jobs, Runs, Caches, Future

\* What is of a type with numbers is a number.
LEMMA Counts ==
    ASSUME Typed
    PROVE  /\ cache.at \in Nat /\ cache.version \in Nat /\ cache.ubo \in Nat
           /\ cache.at \in Clock \cup {0, Future}
           /\ installed.version \in Nat /\ run.latest \in {0} \cup Versions /\ run.latest \in Nat
           /\ now \in Nat /\ now < Future /\ upstream \in Nat /\ newest \in Nat
           /\ \A v \in Versions : births[v] \in Nat
  <1>1. /\ cache.at \in {0} \cup Clock \cup {Future} /\ cache.version \in {0} \cup Versions
        /\ installed.version \in {0} \cup Versions /\ now \in Clock /\ cache.ubo \in {0} \cup Releases
        /\ \A v \in Versions : births[v] \in {0} \cup Clock
        /\ run.latest \in {0} \cup Versions /\ upstream \in Versions /\ newest \in Releases
    BY DEF Typed, Caches, Runs, Absent
  <1>2. \A n : n \in Versions \/ n \in Releases \/ n \in Clock \/ n = Future \/ n = 0 => n \in Nat
    BY UpkeepAssumption, AgesAssumption DEF Versions, Releases, Clock, Future
  <1>3. \A v \in Versions : births[v] \in Nat
    BY <1>1, <1>2
  <1>4. now < Future
    BY <1>1, Numbers
  <1>5. QED
    BY <1>1, <1>2, <1>3, <1>4

\* A fault stays within the bound.
LEMMA Faults == ASSUME faults \in 0..MaxFaults PROVE Fault => faults' \in 0..MaxFaults
  BY UpkeepAssumption DEF Fault

\* Between launches.
LEMMA TypedBetween == Typed /\ (Tick \/ Publish \/ Withdraw \/ Edit) => Typed'
  <1> SUFFICES ASSUME Typed, Tick \/ Publish \/ Withdraw \/ Edit PROVE Typed'
    OBVIOUS
  <1>1. CASE Tick
    BY <1>1 DEF Tick, Typed, extension
  <1>2. CASE Publish
    BY <1>2, Numbers DEF Publish, Typed, extension
  <1>3. CASE Withdraw
    <2>1. upstream - 1 \in Versions
      BY <1>3, UpkeepAssumption DEF Withdraw, Typed, Versions
    <2>2. QED
      BY <1>3, <2>1 DEF Withdraw, Typed, extension
  <1>4. CASE Edit
    BY <1>4, Records, Numbers DEF Edit, Typed, world, extension, NotInstalled
  <1>5. QED
    BY <1>1, <1>2, <1>3, <1>4

\* Updates.
LEMMA TypedUpdate == Typed /\ (Begin \/ CheckCache \/ Lookup \/ Decide \/ Download \/ Replace) => Typed'
  <1> SUFFICES ASSUME Typed, Begin \/ CheckCache \/ Lookup \/ Decide \/ Download \/ Replace PROVE Typed'
    OBVIOUS
  <1>1. CASE Begin
    BY <1>1, Records, Numbers DEF Begin, Typed, Runs, Phases, Off, Effective, world
  <1>2. CASE CheckCache
    <2>1. cache.version \in {0} \cup Versions /\ run \in Runs
      BY DEF Typed, Caches
    <2>2. run' \in Runs
      <3>1. CASE Extend
        BY <2>1, <3>1, Extending DEF Runs, Phases
      <3>2. CASE Resolve(cache.version)
        <4>1. PICK phase \in {"extend", "download", "prompt"} : run' = [run EXCEPT !.latest = cache.version, !.phase = phase]
          BY <3>2, Resolving
        <4>2. QED
          BY <2>1, <4>1 DEF Runs, Phases
      <3>3. CASE To("network")
        BY <2>1, <3>3 DEF Runs, Phases, To
      <3>4. QED
        BY <1>2, <3>1, <3>2, <3>3 DEF CheckCache
    <2>3. QED
      BY <1>2, <2>2 DEF CheckCache, Typed, world, extension
  <1>3. CASE Lookup
    <2>1. run' \in Runs
      <3>1. run \in Runs /\ upstream \in {0} \cup Versions
        BY DEF Typed
      <3>2. CASE Resolve(upstream)
        <4>1. PICK phase \in {"extend", "download", "prompt"} : run' = [run EXCEPT !.latest = upstream, !.phase = phase]
          BY <3>2, Resolving
        <4>2. QED
          BY <3>1, <4>1 DEF Runs, Phases
      <3>3. CASE Fail
        BY <3>1, <3>3, Failing DEF Runs, Phases
      <3>4. CASE run' = [run EXCEPT !.offline = TRUE, !.fallback = FALSE, !.phase = IF HasBrowser THEN "extend" ELSE "error"]
        BY <3>1, <3>4 DEF Runs, Phases
      <3>5. QED
        BY <1>3, <3>2, <3>3, <3>4 DEF Lookup
    <2>2. cache' \in Caches
      BY <1>3 DEF Lookup, Typed, Caches, Refreshed, FromVersionInfo
    <2>3. faults' \in 0..MaxFaults
      BY <1>3, Faults DEF Lookup, Typed
    <2>4. QED
      BY <1>3, <2>1, <2>2, <2>3 DEF Lookup, Typed, world, extension
  <1>4. CASE Decide
    BY <1>4, Records DEF Decide, Typed, Runs, Phases, To, world, extension
  <1>5. CASE Download
    <2>1. run' \in Runs
      BY <1>5, Failing DEF Download, Typed, Runs, Phases, To
    <2>2. job' \in Jobs /\ settled' = settled
      BY <1>5, Numbers DEF Download, Typed, Jobs, Steps, Idle, Contents
    <2>3. faults' \in 0..MaxFaults
      BY <1>5, Faults DEF Download, Typed
    <2>4. QED
      BY <1>5, <2>1, <2>2, <2>3 DEF Download, Typed, world
  <1>6. CASE Replace
    <2>1. run' \in Runs
      BY <1>6, Failing DEF Replace, Typed, Runs, Phases, To
    <2>2. job' \in Jobs /\ tree' \in Trees
      BY <1>6, Records DEF Replace, Typed, Jobs, Trees
    <2>3. faults' \in 0..MaxFaults
      BY <1>6, Faults DEF Replace, Typed
    <2>4. installed' \in [version : {0} \cup Versions, target : Targets \cup {"none"}]
      BY <1>6 DEF Replace, Typed, Runs
    <2>5. QED
      BY <1>6, <2>1, <2>2, <2>3, <2>4 DEF Replace, Typed, world
  <1>7. QED
    BY <1>1, <1>2, <1>3, <1>4, <1>5, <1>6

\* The extension check, and the end of an attempt.
LEMMA TypedEnd == Typed /\ (ExtensionsBegin \/ ExtensionsEnd \/ Launch \/ Answer \/ Exit \/ Die) => Typed'
  <1> SUFFICES ASSUME Typed, ExtensionsBegin \/ ExtensionsEnd \/ Launch \/ Answer \/ Exit \/ Die PROVE Typed'
    OBVIOUS
  <1>1. run' \in Runs
    <2>1. run \in Runs /\ \A b \in BOOLEAN : b \in {TRUE, FALSE}
      BY DEF Typed
    <2>2. [Off EXCEPT !.phase = "check", !.link = run.link, !.check = run.check, !.auto = run.auto] \in Runs
      BY <2>1, Records DEF Runs, Phases
    <2>3. CASE ExtensionsBegin \/ ExtensionsEnd
      BY <2>1, <2>3 DEF ExtensionsBegin, ExtensionsEnd, To, Runs, Phases
    <2>4. CASE Launch
      BY <2>1, <2>4, Failing DEF Launch, To, Runs, Phases
    <2>5. CASE Answer
      <3>1. CASE run' = [run EXCEPT !.phase = "prepare", !.anyway = TRUE]
        BY <2>1, <3>1 DEF Runs, Phases
      <3>2. QED
        BY <2>2, <2>5, <3>1, Records DEF Answer
    <2>6. CASE Exit \/ Die
      BY <2>6, Records DEF Exit, Die
    <2>7. QED
      BY <2>3, <2>4, <2>5, <2>6
  <1>2. job' \in Jobs
    BY Records
       DEF ExtensionsBegin, ExtensionsEnd, Launch, Answer, Exit, Die, Typed, Jobs, Steps, Idle, extension
  <1>3. faults' \in 0..MaxFaults
    BY Faults DEF ExtensionsBegin, ExtensionsEnd, Launch, Answer, Exit, Die, Typed
  <1>4. settled' \in {Absent} \cup Releases
    BY DEF ExtensionsBegin, ExtensionsEnd, Launch, Answer, Exit, Die, Typed, extension
  <1>5. UNCHANGED <<world, installed, arch, cache, tree, xpi>>
    BY DEF ExtensionsBegin, ExtensionsEnd, Launch, Answer, Exit, Die, extension
  <1>6. QED
    BY <1>1, <1>2, <1>3, <1>4, <1>5 DEF Typed, world

\* What a check and the steps of a job never touch.
ExtensionSame == UNCHANGED <<world, installed, arch, run>>

\* The check, and each step of a job.
LEMMA TypedCheck == Typed /\ ExtensionsCheck => Typed'
  <1> SUFFICES ASSUME Typed, ExtensionsCheck PROVE Typed'
    OBVIOUS
  <1>1. job' \in Jobs
    <2>1. \/ job' = Idle
          \/ job' = [job EXCEPT !.step = "recover", !.version = newest]
          \/ job' = [job EXCEPT !.step = "promote", !.version = newest]
      BY DEF ExtensionsCheck, Check
    <2>2. QED
      BY <2>1, Records DEF Typed, Jobs, Steps
  <1>2. faults' \in 0..MaxFaults /\ settled' \in {Absent} \cup Releases
    BY Faults DEF ExtensionsCheck, Check, Typed
  <1>3. UNCHANGED <<tree, xpi, cache, world, installed, arch, run>>
    BY DEF ExtensionsCheck, Check
  <1>4. QED
    BY <1>1, <1>2, <1>3 DEF Typed, world

\* A step of a job on the extension.
LEMMA TypedSteps == Typed /\ ExtensionsWork => Typed'
  <1> SUFFICES ASSUME Typed, ExtensionsWork PROVE Typed'
    OBVIOUS
  <1>1. ExtensionStep /\ ExtensionSame
    BY DEF ExtensionsWork, ExtensionSame
  <1>2. GiveUp => job' \in Jobs /\ settled' \in {Absent} \cup Releases
    BY DEF GiveUp, Typed, Jobs, Idle, Steps, Contents
  <1>3. \A step \in Steps : Goto(step) => job' \in Jobs
    BY DEF Goto, Typed, Jobs
  <1>4. job' \in Jobs
    <2>1. CASE CopyExtension \/ RecordExtension
      BY <2>1, <1>2, Records DEF CopyExtension, RecordExtension, Typed, Jobs, Trees, Steps
    <2>2. CASE RecoverBackup \/ SweepExtension \/ CreateExtension \/ ExtractExtension
      BY <2>2, <1>2, <1>3 DEF RecoverBackup, SweepExtension, CreateExtension, ExtractExtension, Steps
    <2>3. CASE SetExtensionAside \/ PromoteExtension \/ DropExtensionBackup \/ DropExtensionStage
      BY <2>3, <1>2, <1>3
         DEF SetExtensionAside, PromoteExtension, DropExtensionBackup, DropExtensionStage, Steps
    <2>4. QED
      BY <1>1, <2>1, <2>2, <2>3 DEF ExtensionStep
  <1>5. settled' \in {Absent} \cup Releases /\ faults' \in 0..MaxFaults
    BY <1>1, <1>2, Faults DEF ExtensionStep, RecoverBackup, SweepExtension, CreateExtension,
       ExtractExtension, SetExtensionAside, PromoteExtension, DropExtensionBackup, DropExtensionStage,
       RecordExtension, CopyExtension, Typed, Jobs
  <1>6. tree' \in Trees
    BY <1>1 DEF ExtensionStep, RecoverBackup, SweepExtension, CreateExtension,
       ExtractExtension, SetExtensionAside, PromoteExtension, DropExtensionBackup, DropExtensionStage,
       RecordExtension, CopyExtension, Typed, Trees, Jobs, Contents, Part
  <1>7. /\ xpi' \in [file : {Absent} \cup Releases, marker : {Absent} \cup Releases]
        /\ cache' \in Caches
    BY <1>1 DEF ExtensionStep, RecoverBackup, SweepExtension, CreateExtension,
       ExtractExtension, SetExtensionAside, PromoteExtension, DropExtensionBackup, DropExtensionStage,
       RecordExtension, CopyExtension, Typed, Jobs, UpdateUbo, Caches
  <1>8. QED
    BY <1>1, <1>4, <1>5, <1>6, <1>7 DEF Typed, ExtensionSame, world

\* Every step keeps the types.
LEMMA TypedStep == Typed /\ [Next]_vars => Typed'
  <1>1. Typed /\ UNCHANGED vars => Typed'
    BY DEF vars, world, extension, Typed
  <1>2. QED
    BY <1>1, TypedBetween, TypedUpdate, TypedEnd, TypedCheck, TypedSteps DEF Next, Attempt

\* What a folder holds keeps its type: releases, versions, times and failures
\* within their bounds, through every launch.
THEOREM Typing == Spec => []TypeOK
<1>1. Init => TypeOK
  BY InitTyped
<1>2. TypeOK /\ [Next]_vars => TypeOK'
  BY TypedIs, TypedIs2, TypedStep
<1>3. QED
  BY <1>1, <1>2, PTL DEF Spec

-----------------------------------------------------------------------------
(* What is looked up and installed.                                         *)

TimedInv == Typed /\ Published /\ Answered /\ Resolved /\ Linked

\* While a launch is under way the clock and what is on offer stay.
Still == UNCHANGED <<now, upstream, births>>

\* With clock and releases as they were, what is known of them holds on.
LEMMA StillAnswers ==
    ASSUME Still, Published PROVE Published' /\ (UNCHANGED cache /\ Answered => Answered')
  BY DEF Still, Published, Answered

LEMMA StillCovers ==
    ASSUME Still PROVE \A version : CoversOld(version) <=> CoversOld(version)'
  BY DEF Still, CoversOld

\* A cached answer covers what is a lifetime old.
LEMMA HitCovers ==
    ASSUME TimedInv, Hit(cache, installed, arch, now)
    PROVE  CoversOld(cache.version) /\ cache.version >= installed.version
  <1>1. /\ cache.sound /\ cache.at <= now /\ now - cache.at < TTL /\ ~(cache.version < installed.version)
    BY DEF Hit, IsFresh, IsOlder
  <1>2. /\ now \in Nat /\ cache.at \in Nat /\ cache.version \in Nat /\ installed.version \in Nat
        /\ \A v \in Versions : births[v] \in Nat
    BY Counts DEF TimedInv
  <1>3. \A v \in Versions : births[v] # 0 /\ births[v] < cache.at => v <= cache.version
    BY <1>1 DEF TimedInv, Answered
  <1>4. ASSUME NEW v \in Versions, births[v] # 0, births[v] + TTL <= now PROVE cache.version >= v
    <2>1. births[v] < cache.at
      BY <1>1, <1>2, <1>4, Numbers
    <2>2. QED
      BY <1>2, <1>3, <1>4, <2>1, Numbers
  <1>5. QED
    BY <1>1, <1>2, <1>4 DEF CoversOld

\* A lookup's answer covers whatever was published.
LEMMA LookupCovers == ASSUME TimedInv PROVE CoversOld(upstream)
  BY Numbers DEF TimedInv, Typed, Published, CoversOld

\* A saved lookup is a true answer.
LEMMA RefreshedAnswers ==
    ASSUME TimedInv, Still, cache' = Refreshed(cache, upstream, arch, now)
    PROVE  Answered'
  <1>1. cache'.at = now /\ cache'.version = upstream
    BY DEF Refreshed, FromVersionInfo
  <1>2. now' = now /\ now \in Nat /\ births' = births
    BY Numbers DEF Still, TimedInv, Typed
  <1>3. QED
    BY <1>1, <1>2 DEF Answered, TimedInv, Published

\* Where a release that has been found to be covered leads to.
LEMMA ResolveKeeps ==
    ASSUME TimedInv, Still, UNCHANGED <<installed, arch>>, NEW version, Resolve(version),
           CoversOld(version), version >= installed.version
    PROVE  Resolved'
  <1>1. PICK phase \in {"extend", "download", "prompt"} :
            /\ run' = [run EXCEPT !.latest = version, !.phase = phase]
            /\ phase = "extend" => ~NeedsUpdate(installed, version, arch)
    <2>1. CASE ~NeedsUpdate(installed, version, arch)
      BY <2>1 DEF Resolve
    <2>2. CASE NeedsUpdate(installed, version, arch) /\ run.auto
      BY <2>2 DEF Resolve
    <2>3. CASE NeedsUpdate(installed, version, arch) /\ ~run.auto
      BY <2>3 DEF Resolve
    <2>4. QED
      BY <2>1, <2>2, <2>3
  <1>2. run'.phase = phase /\ run'.latest = version
    BY <1>1 DEF TimedInv, Typed, Runs
  <1>3. CoversOld(version)'
    BY StillCovers
  <1>4. phase = "extend" => installed'.target = arch' /\ installed'.version = version
    BY <1>1 DEF NeedsUpdate
  <1>5. QED
    BY <1>2, <1>3, <1>4 DEF Resolved

\* Between launches: time passes, releases come and go, the user edits.
LEMMA TimedBetween == TimedInv /\ (Tick \/ Publish \/ Withdraw \/ Edit) => TimedInv'
  <1> SUFFICES ASSUME TimedInv, Tick \/ Publish \/ Withdraw \/ Edit PROVE TimedInv'
    OBVIOUS
  <1>1. Typed'
    BY TypedBetween DEF TimedInv
  <1>2. run' = run /\ run.phase = "off" /\ cache' = cache
    BY DEF Tick, Publish, Withdraw, Edit, At, extension
  <1>3. Resolved' /\ Linked'
    BY <1>2 DEF Resolved, Linked, TimedInv
  <1>4. /\ now \in Clock /\ now' \in Clock /\ upstream \in Versions /\ upstream' \in Versions
        /\ \A v \in Versions : births[v] \in Nat
        /\ births \in [Versions -> {0} \cup Clock]
        /\ cache.at \in Nat /\ now \in Nat /\ now' \in Nat /\ now < Future /\ now' < Future
    <2>1. now' \in Nat /\ now' < Future
      BY <1>1, Numbers DEF Typed
    <2>2. QED
      BY <1>1, <2>1, Counts DEF TimedInv, Typed
  <1>5. CASE Tick
    <2>1. now' = now + 1 /\ births' = births /\ upstream' = upstream
      BY <1>5 DEF Tick
    <2>2. Published'
      BY <1>4, <2>1, Numbers DEF TimedInv, Published
    <2>3. Answered'
      BY <1>2, <1>4, <2>1, Numbers DEF TimedInv, Answered
    <2>4. QED
      BY <1>1, <1>3, <2>2, <2>3 DEF TimedInv
  <1>6. CASE Publish
    <2>1. CASE UNCHANGED <<upstream, births>>
      <3>1. Still
        BY <1>6, <2>1 DEF Publish, Still
      <3>2. QED
        BY <1>1, <1>2, <1>3, <3>1, StillAnswers DEF TimedInv
    <2>2. CASE upstream + 1 \in Versions /\ upstream' = upstream + 1 /\ births' = [births EXCEPT ![upstream + 1] = now]
      <3>1. now' = now
        BY <1>6 DEF Publish
      <3>2. Published'
        BY <1>4, <2>2, <3>1, Numbers DEF TimedInv, Published
      <3>3. Answered'
        BY <1>2, <1>4, <2>2, <3>1, Numbers DEF TimedInv, Answered
      <3>4. QED
        BY <1>1, <1>3, <3>2, <3>3 DEF TimedInv
    <2>3. QED
      BY <1>6, <2>1, <2>2 DEF Publish
  <1>7. CASE Withdraw
    <2>1. now' = now /\ upstream' = upstream - 1 /\ births' = [births EXCEPT ![upstream] = 0]
      BY <1>7 DEF Withdraw
    <2>2. Published'
      BY <1>4, <2>1, Numbers DEF TimedInv, Published
    <2>3. Answered'
      BY <1>2, <1>4, <2>1, Numbers DEF TimedInv, Answered
    <2>4. QED
      BY <1>1, <1>3, <2>2, <2>3 DEF TimedInv
  <1>8. CASE Edit
    <2>1. Still
      BY <1>8 DEF Edit, Still, world
    <2>2. QED
      BY <1>1, <1>2, <1>3, <2>1, StillAnswers DEF TimedInv
  <1>9. QED
    BY <1>5, <1>6, <1>7, <1>8

\* A step that only moves the attempt on has to see to two things.
LEMMA StillTimed ==
    ASSUME TimedInv, Typed', Still, cache' = cache, Resolved', Linked'
    PROVE  TimedInv'
  BY StillAnswers DEF TimedInv

\* A launch begins without an answer.
LEMMA TimedBegin == TimedInv /\ Begin => TimedInv'
  <1> SUFFICES ASSUME TimedInv, Begin PROVE TimedInv'
    OBVIOUS
  <1>1. Still /\ cache' = cache
    BY DEF Begin, Still, world
  <1>2. PICK link \in BOOLEAN, check \in BOOLEAN, auto \in BOOLEAN :
            run' = [Off EXCEPT !.phase = "check", !.link = link,
                               !.check = Effective(check, link), !.auto = Effective(auto, link)]
    BY DEF Begin
  <1>3. run'.phase = "check" /\ (run'.link <=> link) /\ (run'.check <=> Effective(check, link))
    BY <1>2 DEF Off
  <1>4. Resolved' /\ Linked'
    BY <1>3 DEF Resolved, Linked, Effective
  <1>5. QED
    BY <1>1, <1>4, StillTimed, TypedUpdate DEF TimedInv

\* A cached answer that is used covers what a lifetime ago was on offer.
LEMMA TimedCheckCache == TimedInv /\ CheckCache => TimedInv'
  <1> SUFFICES ASSUME TimedInv, CheckCache PROVE TimedInv'
    OBVIOUS
  <1>1. Still /\ cache' = cache /\ UNCHANGED <<installed, arch>> /\ run \in Runs
    BY DEF CheckCache, Still, world, TimedInv, Typed
  <1>2. CASE ~run.check /\ Extend
    <2>1. run' = [run EXCEPT !.phase = "prepare"]
      BY <1>2 DEF Extend, To
    <2>2. Resolved' /\ Linked'
      BY <1>1, <1>2, <2>1 DEF Resolved, Linked, Checked, Runs
    <2>3. QED
      BY <1>1, <2>2, StillTimed, TypedUpdate DEF TimedInv
  <1>3. CASE run.check /\ Hit(cache, installed, arch, now) /\ Resolve(cache.version)
    <2>1. Resolved'
      BY <1>1, <1>3, HitCovers, ResolveKeeps
    <2>2. ~run'.link
      <3>1. PICK phase \in {"extend", "download", "prompt"} :
               run' = [run EXCEPT !.latest = cache.version, !.phase = phase]
        BY <1>3, Resolving
      <3>2. QED
        BY <1>1, <1>3, <3>1 DEF Runs, TimedInv, Linked
    <2>3. Linked'
      BY <2>2 DEF Linked
    <2>4. QED
      BY <1>1, <2>1, <2>3, StillTimed, TypedUpdate DEF TimedInv
  <1>4. CASE run.check /\ To("network")
    <2>1. Resolved' /\ Linked'
      BY <1>1, <1>4 DEF Resolved, Linked, Checked, Runs, To, TimedInv
    <2>2. QED
      BY <1>1, <2>1, StillTimed, TypedUpdate DEF TimedInv
  <1>5. QED
    BY <1>2, <1>3, <1>4 DEF CheckCache

\* And so does the answer of a lookup, which is kept.
LEMMA TimedLookup == TimedInv /\ Lookup => TimedInv'
  <1> SUFFICES ASSUME TimedInv, Lookup PROVE TimedInv'
    OBVIOUS
  <1>1. /\ Still /\ UNCHANGED <<installed, arch>> /\ run \in Runs /\ run.phase = "network"
        /\ Typed' /\ ~run.link
    BY TypedUpdate DEF Lookup, Still, world, TimedInv, Typed, At, Linked
  <1>2. Published' /\ Answered'
    <2>1. cache' = cache \/ cache' = Refreshed(cache, upstream, arch, now)
      BY DEF Lookup
    <2>2. QED
      BY <1>1, <2>1, StillAnswers, RefreshedAnswers DEF TimedInv
  <1>3. CASE ~IsOlder(installed, upstream) /\ Resolve(upstream)
    <2>1. upstream >= installed.version
      BY <1>3, Counts DEF IsOlder, TimedInv
    <2>2. Resolved'
      BY <1>1, <1>3, <2>1, LookupCovers, ResolveKeeps
    <2>3. PICK phase \in {"extend", "download", "prompt"} :
             run' = [run EXCEPT !.latest = upstream, !.phase = phase]
      BY <1>3, Resolving
    <2>4. Linked'
      BY <1>1, <2>3 DEF Linked, Runs
    <2>5. QED
      BY <1>1, <1>2, <2>2, <2>4 DEF TimedInv
  <1>4. CASE Fail
    <2>1. PICK b \in BOOLEAN : run' = [run EXCEPT !.phase = "error", !.fallback = b]
      BY <1>4, Failing
    <2>2. Resolved' /\ Linked'
      BY <1>1, <2>1 DEF Resolved, Linked, Runs
    <2>3. QED
      BY <1>1, <1>2, <2>2 DEF TimedInv
  <1>5. CASE run' = [run EXCEPT !.offline = TRUE, !.fallback = FALSE,
                                !.phase = IF HasBrowser THEN "extend" ELSE "error"]
    <2>1. run'.offline /\ run'.phase \in {"extend", "error"} /\ (run'.link <=> run.link)
      BY <1>1, <1>5 DEF Runs
    <2>2. Resolved' /\ Linked'
      BY <1>1, <2>1 DEF Resolved, Linked, Checked
    <2>3. QED
      BY <1>1, <1>2, <2>2 DEF TimedInv
  <1>6. QED
    BY <1>3, <1>4, <1>5 DEF Lookup

\* What was resolved is what is installed.
LEMMA TimedInstall == TimedInv /\ (Decide \/ Download \/ Replace) => TimedInv'
  <1> SUFFICES ASSUME TimedInv, Decide \/ Download \/ Replace PROVE TimedInv'
    OBVIOUS
  <1>1. /\ Still /\ cache' = cache /\ arch' = arch /\ run \in Runs
        /\ Typed' /\ ~run.link /\ run.phase \in {"prompt", "download", "replace"}
    BY TypedUpdate DEF Decide, Download, Replace, Still, world, TimedInv, Typed, At, Linked
  <1>2. run.latest >= installed.version /\ CoversOld(run.latest)
    BY <1>1 DEF TimedInv, Resolved
  <1>3. CASE Fail
    <2>1. PICK b \in BOOLEAN : run' = [run EXCEPT !.phase = "error", !.fallback = b]
      BY <1>3, Failing
    <2>2. Resolved' /\ Linked'
      BY <1>1, <2>1 DEF Resolved, Linked, Runs
    <2>3. QED
      BY <1>1, <2>2, StillTimed
  <1>4. CASE \E phase \in {"download", "replace"} : To(phase) /\ installed' = installed
    <2>1. /\ run'.phase \in {"download", "replace"} /\ run'.latest = run.latest
          /\ installed' = installed /\ (run'.link <=> run.link)
      BY <1>1, <1>4 DEF To, Runs
    <2>2. Resolved' /\ Linked'
      BY <1>1, <1>2, <2>1, StillCovers DEF Resolved, Linked
    <2>3. QED
      BY <1>1, <2>2, StillTimed
  <1>5. CASE installed' = [version |-> run.latest, target |-> arch] /\ To("extend")
    <2>1. /\ run'.phase = "extend" /\ installed'.version = run.latest /\ installed'.target = arch'
          /\ (run'.link <=> run.link)
      BY <1>1, <1>5 DEF To, Runs
    <2>2. Resolved' /\ Linked'
      BY <1>1, <1>2, <2>1, StillCovers DEF Resolved, Linked
    <2>3. QED
      BY <1>1, <2>2, StillTimed
  <1>6. CASE run' = [run EXCEPT !.phase = "extend", !.declined = TRUE]
    <2>1. run'.phase = "extend" /\ run'.declined /\ (run'.link <=> run.link)
      BY <1>1, <1>6 DEF Runs
    <2>2. Resolved' /\ Linked'
      BY <1>1, <2>1 DEF Resolved, Linked, Checked
    <2>3. QED
      BY <1>1, <2>2, StillTimed
  <1>7. CASE run' = Off
    BY <1>1, <1>7, StillTimed DEF Off, Resolved, Linked
  <1>8. QED
    BY <1>3, <1>4, <1>5, <1>6, <1>7 DEF Decide, Download, Replace

\* The extension check leaves browser, target and answers alone.
LEMMA TimedExtension ==
    TimedInv /\ (ExtensionsBegin \/ ExtensionsCheck \/ ExtensionsWork \/ ExtensionsEnd) => TimedInv'
  <1> SUFFICES ASSUME TimedInv, ExtensionsBegin \/ ExtensionsCheck \/ ExtensionsWork \/ ExtensionsEnd
               PROVE  TimedInv'
    OBVIOUS
  <1>1. Still /\ UNCHANGED <<installed, arch>> /\ run \in Runs /\ Typed'
    BY TypedEnd, TypedCheck, TypedSteps
    DEF ExtensionsBegin, ExtensionsCheck, ExtensionsWork, ExtensionsEnd, Still, world, TimedInv, Typed
  <1>2. run.phase \in {"extend", "extensions", "replace"} /\ ~run.link
    BY DEF ExtensionsBegin, ExtensionsCheck, ExtensionsWork, ExtensionsEnd, At, TimedInv, Linked
  <1>3. CASE run' = run
    <2>1. Resolved' /\ Linked'
      BY <1>1, <1>3, StillCovers DEF TimedInv, Resolved, Linked, Checked
    <2>2. cache' = cache \/ \E version : cache' = UpdateUbo(cache, version)
      BY
         DEF ExtensionsBegin, ExtensionsCheck, ExtensionsWork, ExtensionsEnd, Check, ExtensionStep, RecoverBackup,
         SweepExtension, CreateExtension, ExtractExtension, SetExtensionAside, PromoteExtension,
         DropExtensionBackup, DropExtensionStage, RecordExtension, CopyExtension
    <2>3. cache'.at = cache.at /\ cache'.version = cache.version /\ cache'.sound = cache.sound
      BY <2>2 DEF UpdateUbo, TimedInv, Typed, Caches
    <2>4. Published' /\ Answered'
      BY <1>1, <2>3 DEF Still, TimedInv, Published, Answered
    <2>5. QED
      BY <1>1, <2>1, <2>4 DEF TimedInv
  <1>4. CASE cache' = cache /\ \E phase \in {"extensions", "prepare"} : To(phase) /\ run.phase \in {"extend", "extensions"}
    <2>1. /\ run'.phase \in {"extensions", "prepare"} /\ run.phase \in {"extend", "extensions"}
          /\ ~run'.link
          /\ run'.check = run.check /\ run'.offline = run.offline
          /\ run'.declined = run.declined /\ run'.anyway = run.anyway
      BY <1>1, <1>2, <1>4 DEF To, Runs
    <2>2. Checked' <=> Checked
      BY <2>1 DEF Checked
    <2>3. Resolved' /\ Linked'
      BY <1>1, <2>1, <2>2, StillCovers DEF TimedInv, Resolved, Linked
    <2>4. QED
      BY <1>1, <1>4, <2>3, StillTimed
  <1>5. QED
    BY <1>3, <1>4 DEF ExtensionsBegin, ExtensionsCheck, ExtensionsWork, ExtensionsEnd, At, extension

\* The end of an attempt.
LEMMA TimedEnd == TimedInv /\ (Launch \/ Answer \/ Exit \/ Die) => TimedInv'
  <1> SUFFICES ASSUME TimedInv, Launch \/ Answer \/ Exit \/ Die PROVE TimedInv'
    OBVIOUS
  <1>1. Still /\ UNCHANGED <<installed, arch, cache>> /\ run \in Runs /\ Typed'
    BY TypedEnd DEF Launch, Answer, Exit, Die, Still, world, TimedInv, Typed
  <1>2. CASE Launch
    <2>1. CASE To("running")
      <3>1. /\ run'.phase = "running" /\ run.phase = "prepare" /\ (run'.link <=> run.link)
            /\ run'.check = run.check /\ run'.offline = run.offline
            /\ run'.declined = run.declined /\ run'.anyway = run.anyway
        BY <1>1, <1>2, <2>1 DEF To, Runs, Launch, At
      <3>2. Checked' <=> Checked
        BY <3>1 DEF Checked
      <3>3. Resolved'
        BY <1>1, <3>1, <3>2, StillCovers DEF TimedInv, Resolved
      <3>4. Linked'
        BY <3>1 DEF TimedInv, Linked
      <3>5. QED
        BY <1>1, <3>3, <3>4, StillTimed
    <2>2. CASE \E b \in BOOLEAN : run' = [run EXCEPT !.phase = "error", !.fallback = b]
      <3>1. run'.phase = "error" /\ (run'.link <=> run.link) /\ run'.check = run.check
        BY <1>1, <2>2 DEF Runs
      <3>2. Resolved' /\ Linked'
        BY <3>1 DEF TimedInv, Resolved, Linked
      <3>3. QED
        BY <1>1, <3>2, StillTimed
    <2>3. QED
      BY <1>2, <2>1, <2>2, Failing DEF Launch
  <1>3. CASE Answer
    <2>1. CASE run' = [Off EXCEPT !.phase = "check", !.link = run.link, !.check = run.check, !.auto = run.auto]
      <3>1. run'.phase = "check" /\ (run'.link <=> run.link) /\ run'.check = run.check
        BY <1>1, <2>1 DEF Off, Runs
      <3>2. Resolved' /\ Linked'
        BY <3>1 DEF TimedInv, Resolved, Linked
      <3>3. QED
        BY <1>1, <3>2, StillTimed
    <2>2. CASE run' = [run EXCEPT !.phase = "prepare", !.anyway = TRUE]
      <3>1. run'.phase = "prepare" /\ run'.anyway /\ (run'.link <=> run.link) /\ run'.check = run.check
        BY <1>1, <2>2 DEF Runs
      <3>2. Resolved' /\ Linked'
        BY <3>1 DEF TimedInv, Resolved, Linked, Checked
      <3>3. QED
        BY <1>1, <3>2, StillTimed
    <2>3. CASE run' = Off
      BY <1>1, <2>3, StillTimed DEF Off, Resolved, Linked
    <2>4. QED
      BY <1>3, <2>1, <2>2, <2>3 DEF Answer
  <1>4. CASE Exit \/ Die
    <2>1. run' = Off
      BY <1>4 DEF Exit, Die
    <2>2. QED
      BY <1>1, <2>1, StillTimed DEF Off, Resolved, Linked
  <1>5. QED
    BY <1>2, <1>3, <1>4

\* A folder at first has no answer, or one of the future.
LEMMA TimedInit == Init => TimedInv
  <1> SUFFICES ASSUME Init PROVE TimedInv
    OBVIOUS
  <1>1. Typed
    BY InitTyped, TypedIs
  <1>2. Published
    BY Numbers DEF Init, Published
  <1>3. Answered
    BY Numbers DEF Init, Answered, NoCache, FromVersionInfo, Future
  <1>4. Resolved /\ Linked
    BY DEF Init, Off, Resolved, Linked
  <1>5. QED
    BY <1>1, <1>2, <1>3, <1>4 DEF TimedInv

\* Every step keeps it.
LEMMA TimedStep == TimedInv /\ [Next]_vars => TimedInv'
  <1>1. TimedInv /\ UNCHANGED vars => TimedInv'
    <2> SUFFICES ASSUME TimedInv, UNCHANGED vars PROVE TimedInv'
      OBVIOUS
    <2>1. Still /\ UNCHANGED <<cache, run, installed, arch>> /\ Typed'
      BY TypedStep DEF vars, world, extension, Still, TimedInv
    <2>2. Resolved' /\ Linked'
      BY <2>1, StillCovers DEF TimedInv, Resolved, Linked, Checked
    <2>3. QED
      BY <2>1, <2>2, StillTimed
  <1>2. QED
    BY <1>1, TimedBetween, TimedBegin, TimedCheckCache, TimedLookup, TimedInstall, TimedExtension, TimedEnd
    DEF Next, Attempt

\* An attempt that ran through has installed or found what it resolved.
LEMMA TimedTimely == TimedInv => Timely
  BY DEF TimedInv, Resolved, Checked, CoversOld, Timely, At

-----------------------------------------------------------------------------
(* The extension.                                                           *)

LoadedInv == Typed /\ Assigned /\ Staged /\ Dated /\ Ended /\ Vouched

\* What loads, by what is in the two directories.
LEMMA Loading ==
    ASSUME Typed
    PROVE  /\ Loaded \in {Absent} \cup Releases /\ Loaded \in Nat
           /\ tree.current \in Releases => Loaded = tree.current
           /\ tree.current \notin Releases /\ tree.backup \in Releases => Loaded = tree.backup
           /\ tree.current \notin Releases /\ tree.backup \notin Releases => Loaded = Absent
           /\ tree = NoTree => Loaded = Absent
           /\ \A dir \in {"current", "backup", "stage"} : tree[dir] \in Contents
  <1>1. /\ tree.current \in Releases => Loaded = tree.current
        /\ tree.current \notin Releases /\ tree.backup \in Releases => Loaded = tree.backup
        /\ tree.current \notin Releases /\ tree.backup \notin Releases => Loaded = Absent
    BY DEF Loaded
  <1>2. Loaded \in {Absent} \cup Releases
    BY <1>1
  <1>3. Loaded \in Nat
    BY <1>2 DEF Absent, Releases
  <1>4. Absent \notin Releases
    BY DEF Absent, Releases
  <1>5. tree = NoTree => Loaded = Absent
    BY <1>1, <1>4 DEF NoTree
  <1>6. \A dir \in {"current", "backup", "stage"} : tree[dir] \in Contents
    BY DEF Typed, Trees
  <1>7. QED
    BY <1>1, <1>2, <1>3, <1>5, <1>6

\* Versions and contents are integers.
LEMMA Integral ==
    ASSUME Typed
    PROVE  /\ tree.current \in Int /\ tree.backup \in Int /\ tree.stage \in Int
           /\ xpi.file \in Nat /\ xpi.marker \in Nat /\ job.version \in Nat /\ job.copied \in Int
           /\ newest \in Nat /\ newest # Absent /\ cache.ubo \in Nat /\ settled \in Nat
  <1>1. \A n : n \in Contents \/ n \in {Absent} \cup Releases => n \in Int
    BY DEF Contents, Releases, Absent, Damaged
  <1>2. \A n : n \in {Absent} \cup Releases => n \in Nat
    BY DEF Releases, Absent
  <1>3. newest # Absent
    BY DEF Typed, Releases, Absent
  <1>4. QED
    BY <1>1, <1>2, <1>3 DEF Typed, Trees, Jobs, Caches

\* The extension as it was, at a place where there is nothing to do for it.
ExtensionKept == UNCHANGED <<managed, newest, tree, xpi, job, cache>>

\* With the extension as it was, so is what loads.
LEMMA KeptLoaded == ASSUME ExtensionKept, LoadedInv PROVE Staged' /\ Dated' /\ Loaded' = Loaded
  BY DEF ExtensionKept, LoadedInv, Staged, Dated, Loaded

\* A phase that is no step of the extension's, between two of them.
LEMMA KeptPhase ==
    ASSUME ExtensionKept, LoadedInv, Typed', job.step = "none", ~job.preserve,
           run'.phase # "replace", settled' \in {settled, Absent},
           settled' # Absent => run'.phase \in {"extensions", "prepare", "running", "error", "off"}
    PROVE  LoadedInv'
  <1>1. Assigned' /\ Ended' /\ Vouched'
    BY KeptLoaded DEF ExtensionKept, LoadedInv, Assigned, Ended, Vouched
  <1>2. QED
    BY <1>1, KeptLoaded DEF LoadedInv

\* Outside its phases nothing is done to the extension.
LEMMA Unemployed ==
    ASSUME LoadedInv, run.phase \notin {"extensions", "replace"}
    PROVE  job.step = "none" /\ ~job.preserve /\ job.version = Absent
  BY DEF LoadedInv, Assigned

\* Between launches only the user removes the extension.
LEMMA LoadedBetween == LoadedInv /\ (Tick \/ Publish \/ Withdraw \/ Edit) => LoadedInv'
  <1> SUFFICES ASSUME LoadedInv, Tick \/ Publish \/ Withdraw \/ Edit PROVE LoadedInv'
    OBVIOUS
  <1>1. /\ Typed' /\ run' = run /\ run.phase = "off" /\ UNCHANGED <<managed, xpi, job, cache>>
        /\ job.step = "none" /\ ~job.preserve /\ job.version = Absent
    BY TypedBetween, Unemployed DEF LoadedInv, Tick, Publish, Withdraw, Edit, At, extension, world
  <1>2. CASE UNCHANGED <<newest, tree, settled>>
    BY <1>1, <1>2, KeptPhase DEF ExtensionKept
  <1>3. CASE newest' = newest + 1 /\ UNCHANGED <<tree, settled>>
    <2>1. Loaded' = Loaded
      BY <1>3 DEF Loaded
    <2>2. Assigned' /\ Staged' /\ Ended' /\ Vouched'
      BY <1>1, <1>3, <2>1 DEF LoadedInv, Assigned, Staged, Ended, Vouched, StagingSteps
    <2>3. Dated'
      BY <1>1, <1>3, <2>1, Integral DEF LoadedInv, Dated
    <2>4. QED
      BY <1>1, <2>2, <2>3 DEF LoadedInv
  <1>4. CASE tree' = NoTree /\ settled' = Absent /\ newest' = newest
    <2>1. Loaded' = Absent /\ \A dir \in {"current", "backup", "stage"} : tree'[dir] = Absent
      BY <1>1, <1>4, Loading DEF NoTree, Loaded
    <2>2. Assigned' /\ Staged' /\ Ended' /\ Vouched'
      BY <1>1, <1>4, <2>1 DEF LoadedInv, Assigned, Staged, Ended, Vouched
    <2>3. Dated'
      BY <1>1, <1>4, <2>1, Integral DEF LoadedInv, Dated, Absent
    <2>4. QED
      BY <1>1, <2>2, <2>3 DEF LoadedInv
  <1>5. QED
    BY <1>2, <1>3, <1>4 DEF Tick, Publish, Withdraw, Edit, extension, world

\* A launch up to its download does nothing for the extension.
LEMMA LoadedLookup == LoadedInv /\ (Begin \/ CheckCache \/ Lookup \/ Decide) => LoadedInv'
  <1> SUFFICES ASSUME LoadedInv, Begin \/ CheckCache \/ Lookup \/ Decide PROVE LoadedInv'
    OBVIOUS
  <1>1. /\ Typed' /\ run \in Runs /\ run.phase \in {"off", "check", "network", "prompt"}
        /\ UNCHANGED <<managed, newest, tree, xpi, job>>
        /\ job.step = "none" /\ ~job.preserve
    BY TypedUpdate, Unemployed DEF LoadedInv, Typed, Begin, CheckCache, Lookup, Decide, At, extension, world
  <1>2. CASE Begin
    <2>1. run'.phase = "check" /\ settled' = Absent
      BY <1>2 DEF Begin, Off
    <2>2. cache' = cache
      BY <1>2 DEF Begin
    <2>3. QED
      BY <1>1, <2>1, <2>2, KeptPhase DEF ExtensionKept
  <1>3. CASE CheckCache \/ Lookup \/ Decide
    <2>1. settled' = settled
      BY <1>3 DEF CheckCache, Lookup, Decide, extension
    <2>2. settled = Absent
      BY <1>1, <1>3 DEF LoadedInv, Ended, CheckCache, Lookup, Decide, At
    <2>3. run'.phase # "replace"
      <3>1. CASE \E version : Resolve(version)
        <4>1. PICK version : Resolve(version)
          BY <3>1
        <4>2. PICK phase \in {"extend", "download", "prompt"} :
                 run' = [run EXCEPT !.latest = version, !.phase = phase]
          BY <4>1, Resolving
        <4>3. QED
          BY <1>1, <4>2 DEF Runs
      <3>2. CASE Fail
        BY <1>1, <3>2, Failing DEF Runs
      <3>3. CASE Extend
        BY <1>1, <3>3, Extending DEF Runs
      <3>4. CASE run' = Off \/ run' = [run EXCEPT !.phase = "extend", !.declined = TRUE]
        <4>1. CASE run' = Off
          BY <4>1 DEF Off
        <4>2. CASE run' = [run EXCEPT !.phase = "extend", !.declined = TRUE]
          BY <1>1, <4>2 DEF Runs
        <4>3. QED
          BY <3>4, <4>1, <4>2
      <3>5. CASE run' = [run EXCEPT !.offline = TRUE, !.fallback = FALSE,
                                    !.phase = IF HasBrowser THEN "extend" ELSE "error"]
        BY <1>1, <3>5 DEF Runs
      <3>6. CASE To("network") \/ To("download")
        BY <1>1, <3>6 DEF Runs, To
      <3>7. QED
        BY <1>3, <3>1, <3>2, <3>3, <3>4, <3>5, <3>6 DEF CheckCache, Lookup, Decide
    <2>4. cache'.ubo = cache.ubo
      <3>1. cache' = cache \/ cache' = Refreshed(cache, upstream, arch, now)
        BY <1>3 DEF CheckCache, Lookup, Decide
      <3>2. QED
        BY <3>1 DEF Refreshed, FromVersionInfo
    <2>5. Loaded' = Loaded
      BY <1>1 DEF Loaded
    <2>6. Assigned' /\ Staged' /\ Ended' /\ Vouched'
      BY <1>1, <2>1, <2>2, <2>3, <2>5 DEF LoadedInv, Assigned, Staged, Ended, Vouched
    <2>7. Dated'
      BY <1>1, <2>4, <2>5 DEF LoadedInv, Dated
    <2>8. QED
      BY <1>1, <2>6, <2>7 DEF LoadedInv
  <1>4. QED
    BY <1>2, <1>3

\* The browser's replacement, with the copy of the extension or without one.
LEMMA LoadedInstall == LoadedInv /\ (Download \/ Replace) => LoadedInv'
  <1> SUFFICES ASSUME LoadedInv, Download \/ Replace PROVE LoadedInv'
    OBVIOUS
  <1>1. /\ Typed' /\ run \in Runs /\ UNCHANGED <<managed, newest, xpi, cache>> /\ settled' = settled
        /\ settled = Absent
    BY TypedUpdate DEF LoadedInv, Typed, Download, Replace, At, world, Ended
  <1>2. ASSUME Fail PROVE run'.phase = "error"
    BY <1>1, <1>2, Failing DEF Runs
  <1>3. CASE Download
    <2>1. tree' = tree /\ job.step = "none" /\ ~job.preserve /\ Loaded' = Loaded
      BY <1>3, Unemployed DEF Download, At, Loaded
    <2>2. CASE Fail /\ job' = job
      BY <1>1, <1>2, <2>1, <2>2, KeptPhase DEF ExtensionKept
    <2>3. CASE To("replace") /\ job' = [Idle EXCEPT !.preserve = TRUE,
                   !.step = IF managed = "zip" /\ tree # NoTree THEN "recover" ELSE "swap"]
      <3>1. /\ run'.phase = "replace" /\ job'.preserve /\ job'.version = Absent /\ job'.copied = Absent
            /\ job'.step = IF managed = "zip" /\ tree # NoTree THEN "recover" ELSE "swap"
        BY <1>1, <2>3 DEF To, Runs, Idle
      <3>2. Assigned' /\ Ended' /\ Vouched'
        BY <1>1, <3>1 DEF Assigned, KeepingSteps, Ended, Vouched
      <3>3. Staged'
        BY <1>1, <2>1, <3>1 DEF Staged, NoTree
      <3>4. Dated'
        BY <1>1, <2>1, <3>1, Integral DEF LoadedInv, Dated, Absent
      <3>5. QED
        BY <1>1, <3>2, <3>3, <3>4 DEF LoadedInv
    <2>4. QED
      BY <1>3, <2>2, <2>3 DEF Download
  <1>4. CASE Replace
    <2>1. job' = Idle /\ job'.step = "none" /\ ~job'.preserve /\ job'.version = Absent /\ job'.copied = Absent
      BY <1>4 DEF Replace, Idle
    <2>2. run'.phase \in {"error", "extend"}
      BY <1>1, <1>2, <1>4 DEF Replace, To, Runs
    <2>3. Assigned' /\ Staged' /\ Ended' /\ Vouched'
      BY <1>1, <2>1, <2>2 DEF Assigned, StagingSteps, Staged, Ended, Vouched
    <2>4. CASE tree' = tree
      <3>1. Loaded' = Loaded
        BY <2>4 DEF Loaded
      <3>2. Dated'
        BY <1>1, <2>1, <2>4, <3>1, Integral DEF LoadedInv, Dated, Absent
      <3>3. QED
        BY <1>1, <2>3, <3>2 DEF LoadedInv
    <2>5. CASE tree' = [NoTree EXCEPT !.current = job.copied] /\ job.step = "swap"
      <3>1. tree'.current = job.copied /\ tree'.backup = Absent /\ tree'.stage = Absent
        BY <2>5 DEF NoTree
      <3>2. managed = "zip" => Loaded' = Loaded
        BY <1>1, <2>5, <3>1 DEF LoadedInv, Staged, Loaded
      <3>3. Dated'
        BY <1>1, <2>1, <3>1, <3>2, Integral DEF LoadedInv, Dated, Absent
      <3>4. QED
        BY <1>1, <2>3, <3>3 DEF LoadedInv
    <2>6. QED
      BY <1>4, <2>4, <2>5 DEF Replace, Working
  <1>5. QED
    BY <1>3, <1>4

\* The extension check begins and ends, and so does the attempt.
LEMMA LoadedEnd ==
    LoadedInv /\ (ExtensionsBegin \/ ExtensionsEnd \/ Launch \/ Answer \/ Exit \/ Die) => LoadedInv'
  <1> SUFFICES ASSUME LoadedInv, ExtensionsBegin \/ ExtensionsEnd \/ Launch \/ Answer \/ Exit \/ Die
               PROVE  LoadedInv'
    OBVIOUS
  <1>1. Typed' /\ run \in Runs /\ UNCHANGED <<managed, newest, tree, xpi, cache>> /\ Loaded' = Loaded
    BY TypedEnd
       DEF LoadedInv, Typed, ExtensionsBegin, ExtensionsEnd, Launch, Answer, Exit, Die, extension, world, Loaded
  <1>2. CASE ExtensionsBegin
    <2>1. /\ run'.phase = "extensions" /\ job'.step = "check" /\ ~job'.preserve
          /\ job'.version = Absent /\ job'.copied = Absent
      BY <1>1, <1>2 DEF ExtensionsBegin, To, Runs, Idle
    <2>2. settled' = Absent
      BY <1>2 DEF ExtensionsBegin, At, LoadedInv, Ended
    <2>3. Assigned' /\ Staged' /\ Ended' /\ Vouched'
      BY <1>1, <2>1, <2>2 DEF Assigned, StagingSteps, Staged, Ended, Vouched
    <2>4. Dated'
      BY <1>1, <2>1, Integral DEF LoadedInv, Dated, Absent
    <2>5. QED
      BY <1>1, <2>3, <2>4 DEF LoadedInv
  <1>3. CASE ExtensionsEnd
    <2>1. run'.phase = "prepare" /\ UNCHANGED <<job, settled>> /\ job.step = "none" /\ ~job.preserve
      BY <1>1, <1>3 DEF ExtensionsEnd, At, To, Runs, Working, extension, LoadedInv, Assigned
    <2>2. QED
      BY <1>1, <2>1, KeptPhase DEF ExtensionKept
  <1>4. CASE Die
    <2>1. /\ run'.phase = "off" /\ job'.step = "none" /\ ~job'.preserve
          /\ job'.version = Absent /\ job'.copied = Absent /\ settled' = Absent
      BY <1>4 DEF Die, Off, Idle
    <2>2. Assigned' /\ Staged' /\ Ended' /\ Vouched'
      BY <1>1, <2>1 DEF Assigned, StagingSteps, Staged, Ended, Vouched
    <2>3. Dated'
      BY <1>1, <2>1, Integral DEF LoadedInv, Dated, Absent
    <2>4. QED
      BY <1>1, <2>2, <2>3 DEF LoadedInv
  <1>5. CASE Launch \/ Answer \/ Exit
    <2>1. job' = job /\ job.step = "none" /\ ~job.preserve /\ settled' \in {settled, Absent}
      BY <1>5, Unemployed DEF Launch, Answer, Exit, At, extension
    <2>2. run'.phase # "replace" /\ (settled' # Absent => run'.phase \in {"prepare", "running", "error", "off"})
      <3>1. CASE Launch
        <4>1. run'.phase \in {"running", "error"}
          BY <1>1, <3>1, Failing DEF Launch, To, Runs
        <4>2. QED
          BY <4>1
      <3>2. CASE Answer
        <4>1. CASE run' = [run EXCEPT !.phase = "prepare", !.anyway = TRUE]
          BY <1>1, <4>1 DEF Runs
        <4>2. CASE run' = Off
          BY <4>2 DEF Off
        <4>3. CASE run' = [Off EXCEPT !.phase = "check", !.link = run.link, !.check = run.check, !.auto = run.auto]
                   /\ settled' = Absent
          BY <4>3 DEF Off
        <4>4. QED
          BY <3>2, <4>1, <4>2, <4>3 DEF Answer
      <3>3. CASE Exit
        BY <3>3 DEF Exit, Off
      <3>4. QED
        BY <1>5, <3>1, <3>2, <3>3
    <2>3. QED
      BY <1>1, <2>1, <2>2, KeptPhase DEF ExtensionKept
  <1>6. QED
    BY <1>2, <1>3, <1>4, <1>5

\* What a step on the extension must not do, besides: unload it, or forget it.
Onward == LoadedInv' /\ (managed = "zip" => Loaded' >= Loaded) /\ cache'.ubo >= cache.ubo

\* A step that changes neither what loads nor the record.
LEMMA Onwards ==
    ASSUME LoadedInv, Typed', ExtensionSame, UNCHANGED <<xpi, cache>>, Loaded' = Loaded,
           settled' = Absent, Assigned', Staged', job'.step # "record",
           tree'.current <= newest, tree'.backup <= newest, tree'.stage <= newest, job'.copied <= newest
    PROVE  Onward
  <1>1. managed' = managed /\ newest' = newest /\ run' = run
    BY DEF ExtensionSame, world
  <1>2. Ended' /\ Vouched'
    BY DEF Ended, Vouched
  <1>3. Dated'
    BY <1>1 DEF LoadedInv, Dated
  <1>4. Loaded \in Nat /\ cache.ubo \in Nat
    BY Loading, Integral DEF LoadedInv
  <1>5. QED
    BY <1>1, <1>2, <1>3, <1>4 DEF Onward, LoadedInv

\* A job goes on to a step of its kind.
LEMMA Moving ==
    ASSUME LoadedInv, ExtensionSame, NEW step \in StagingSteps \cup KeepingSteps,
           job.step \notin {"none", "check"}, Goto(step), step # "none",
           IF job.preserve THEN step \in KeepingSteps ELSE step \in StagingSteps,
           managed = "xpi" => step = "record"
    PROVE  /\ Assigned' /\ job'.step = step /\ job'.copied = job.copied /\ job'.version = job.version
           /\ (job'.preserve <=> job.preserve)
  <1>1. managed' = managed /\ newest' = newest /\ run' = run
    BY DEF ExtensionSame, world
  <1>2. /\ job'.step = step /\ job'.copied = job.copied /\ job'.version = job.version
        /\ (job'.preserve <=> job.preserve)
    BY DEF Goto, LoadedInv, Typed, Jobs
  <1>3. Assigned'
    BY <1>1, <1>2 DEF LoadedInv, Assigned, StagingSteps, KeepingSteps
  <1>4. QED
    BY <1>2, <1>3

\* A job gives up: what it worked on stays, and so does what loads.
LEMMA Giving ==
    ASSUME LoadedInv, Typed', ExtensionSame, UNCHANGED <<xpi, cache>>, Loaded' = Loaded, GiveUp,
           tree'.current <= newest, tree'.backup <= newest, tree'.stage <= newest, job.step # "none"
    PROVE  Onward
  <1>1. managed' = managed /\ newest' = newest /\ run' = run
    BY DEF ExtensionSame, world
  <1>2. /\ job'.step = "none" /\ (job'.preserve <=> job.preserve) /\ job'.version = Absent
        /\ job'.copied = Absent /\ settled' = Absent
    BY DEF GiveUp, Idle, LoadedInv, Typed, Jobs
  <1>3. Assigned' /\ Staged'
    BY <1>1, <1>2 DEF LoadedInv, Assigned, Staged, StagingSteps, KeepingSteps
  <1>4. job'.copied <= newest
    BY <1>2, Integral DEF LoadedInv, Absent
  <1>5. QED
    BY <1>2, <1>3, <1>4, Onwards

\* The releases in the directories, where a job is at work.
LEMMA AtWork ==
    ASSUME LoadedInv, ExtensionsWork, ExtensionStep
    PROVE  /\ Typed' /\ ExtensionSame /\ settled = Absent /\ job.step \notin {"none", "check"}
           /\ tree.current <= newest /\ tree.backup <= newest /\ tree.stage <= newest
           /\ job.copied <= newest /\ job.version <= newest /\ Damaged <= newest /\ Absent <= newest
           /\ \A dir \in {"current", "backup", "stage"} : \A left \in Part(dir) : left <= newest
  <1>1. Typed' /\ ExtensionSame
    BY TypedSteps DEF ExtensionsWork, ExtensionSame, LoadedInv
  <1>2. job.step \notin {"none", "check"}
    BY DEF ExtensionStep, RecoverBackup, SweepExtension, CreateExtension,
       ExtractExtension, SetExtensionAside, PromoteExtension, DropExtensionBackup, DropExtensionStage,
       RecordExtension, CopyExtension, Working
  <1>3. settled = Absent
    BY <1>2 DEF LoadedInv, Ended
  <1>4. /\ tree["current"] <= newest /\ tree["backup"] <= newest /\ tree["stage"] <= newest
        /\ job.copied <= newest /\ job.version \in {Absent, newest}
    BY <1>2 DEF LoadedInv, Dated, Assigned
  <1>5. Damaged <= newest /\ Absent <= newest /\ newest <= newest
    BY Integral DEF LoadedInv, Damaged, Absent
  <1>6. QED
    BY <1>1, <1>2, <1>3, <1>4, <1>5 DEF Part

\* An interrupted job is undone: the backup comes back, or goes.
LEMMA RecoverOnward == LoadedInv /\ ExtensionsWork /\ RecoverBackup => Onward
  <1> SUFFICES ASSUME LoadedInv, ExtensionsWork, RecoverBackup PROVE Onward
    OBVIOUS
  <1>1. /\ Typed' /\ ExtensionSame /\ settled = Absent /\ tree.current <= newest /\ tree.backup <= newest
        /\ tree.stage <= newest /\ job.copied <= newest /\ Absent <= newest
        /\ \A left \in Part("backup") : left <= newest
    BY AtWork DEF ExtensionStep
  <1>2. /\ UNCHANGED <<xpi, cache>> /\ job.step = "recover" /\ managed = "zip" /\ tree \in Trees
    BY DEF RecoverBackup, Working, LoadedInv, Typed, Assigned
  <1>3. CASE GiveUp /\ UNCHANGED tree
    <2>1. Loaded' = Loaded
      BY <1>3 DEF Loaded
    <2>2. QED
      BY <1>1, <1>2, <1>3, <2>1, Giving
  <1>4. CASE GiveUp /\ tree.current \in Releases /\ \E left \in Part("backup") : tree' = [tree EXCEPT !.backup = left]
    <2>1. /\ tree'.current = tree.current /\ tree'.stage = tree.stage /\ tree'.backup <= newest
      BY <1>1, <1>2, <1>4 DEF Trees
    <2>2. Loaded' = Loaded
      BY <1>4, <2>1 DEF Loaded
    <2>3. QED
      BY <1>1, <1>2, <1>4, <2>1, <2>2, Giving
  <1>5. CASE /\ Goto("sweep") /\ settled' = settled
             /\ \/ tree.backup = Absent /\ tree' = tree
                \/ tree.current \in Releases /\ tree' = [tree EXCEPT !.backup = Absent]
                \/ /\ tree.backup \in Releases /\ tree.current = Absent
                   /\ tree' = [tree EXCEPT !.current = tree.backup, !.backup = Absent]
    <2>1. /\ tree'.backup = Absent /\ tree'.stage = tree.stage
          /\ \/ tree'.current = tree.current /\ (tree.backup = Absent \/ tree.current \in Releases)
             \/ tree'.current = tree.backup /\ tree.backup \in Releases /\ tree.current = Absent
      BY <1>2, <1>5 DEF Trees
    <2>2. Absent \notin Releases
      BY DEF Absent, Releases
    <2>3. Loaded' = Loaded
      BY <2>1, <2>2 DEF Loaded
    <2>4. /\ Assigned' /\ job'.step = "sweep" /\ job'.copied = job.copied
      BY <1>1, <1>2, <1>5, Moving DEF StagingSteps, KeepingSteps
    <2>5. Staged'
      BY <2>1, <2>4 DEF Staged
    <2>6. QED
      BY <1>1, <1>2, <1>5, <2>1, <2>3, <2>4, <2>5, Onwards
  <1>6. QED
    BY <1>3, <1>4, <1>5 DEF RecoverBackup

\* What is left of a stage goes.
LEMMA SweepOnward == LoadedInv /\ ExtensionsWork /\ SweepExtension => Onward
  <1> SUFFICES ASSUME LoadedInv, ExtensionsWork, SweepExtension PROVE Onward
    OBVIOUS
  <1>1. /\ Typed' /\ ExtensionSame /\ settled = Absent /\ tree.current <= newest /\ tree.backup <= newest
        /\ job.copied <= newest /\ Absent <= newest /\ \A left \in Part("stage") : left <= newest
    BY AtWork DEF ExtensionStep
  <1>2. /\ UNCHANGED <<xpi, cache>> /\ job.step = "sweep" /\ managed = "zip" /\ tree \in Trees /\ tree.backup = Absent
    BY DEF SweepExtension, Working, LoadedInv, Typed, Assigned, Staged
  <1>3. tree'.current = tree.current /\ tree'.backup = tree.backup /\ tree'.stage <= newest
    BY <1>1, <1>2 DEF SweepExtension, Trees
  <1>4. Loaded' = Loaded
    BY <1>3 DEF Loaded
  <1>5. CASE GiveUp
    BY <1>1, <1>2, <1>3, <1>4, <1>5, Giving
  <1>6. CASE Goto(IF job.preserve THEN "copy" ELSE "create") /\ settled' = settled
    <2>1. Assigned' /\ job'.step \in {"copy", "create"} /\ job'.copied = job.copied
      <3>1. CASE job.preserve
        BY <1>1, <1>2, <1>6, <3>1, Moving DEF StagingSteps, KeepingSteps
      <3>2. CASE ~job.preserve
        BY <1>1, <1>2, <1>6, <3>2, Moving DEF StagingSteps, KeepingSteps
      <3>3. QED
        BY <3>1, <3>2
    <2>2. Staged'
      BY <1>2, <1>3, <2>1 DEF Staged
    <2>3. QED
      BY <1>1, <1>2, <1>3, <1>4, <1>6, <2>1, <2>2, Onwards
  <1>7. QED
    BY <1>5, <1>6 DEF SweepExtension

\* A new stage does not load.
LEMMA CreateOnward == LoadedInv /\ ExtensionsWork /\ CreateExtension => Onward
  <1> SUFFICES ASSUME LoadedInv, ExtensionsWork, CreateExtension PROVE Onward
    OBVIOUS
  <1>1. /\ Typed' /\ ExtensionSame /\ settled = Absent /\ tree.current <= newest /\ tree.backup <= newest
        /\ tree.stage <= newest /\ job.copied <= newest /\ Damaged <= newest
    BY AtWork DEF ExtensionStep
  <1>2. /\ UNCHANGED <<xpi, cache>> /\ job.step = "create" /\ managed = "zip" /\ tree \in Trees /\ tree.backup = Absent
        /\ ~job.preserve
    BY DEF CreateExtension, Working, LoadedInv, Typed, Assigned, Staged, KeepingSteps
  <1>3. tree'.current = tree.current /\ tree'.backup = tree.backup /\ tree'.stage <= newest
    BY <1>1, <1>2 DEF CreateExtension, Trees
  <1>4. Loaded' = Loaded
    BY <1>3 DEF Loaded
  <1>5. CASE GiveUp
    BY <1>1, <1>2, <1>3, <1>4, <1>5, Giving
  <1>6. CASE Goto("extract") /\ settled' = settled
    <2>1. Assigned' /\ job'.step = "extract" /\ job'.copied = job.copied
      BY <1>1, <1>2, <1>6, Moving DEF StagingSteps, KeepingSteps
    <2>2. Staged'
      BY <1>2, <1>3, <2>1 DEF Staged
    <2>3. QED
      BY <1>1, <1>2, <1>3, <1>4, <1>6, <2>1, <2>2, Onwards
  <1>7. QED
    BY <1>5, <1>6 DEF CreateExtension

\* Nor does a full one.
LEMMA ExtractOnward == LoadedInv /\ ExtensionsWork /\ ExtractExtension => Onward
  <1> SUFFICES ASSUME LoadedInv, ExtensionsWork, ExtractExtension PROVE Onward
    OBVIOUS
  <1>1. /\ Typed' /\ ExtensionSame /\ settled = Absent /\ tree.current <= newest /\ tree.backup <= newest
        /\ tree.stage <= newest /\ job.copied <= newest /\ job.version <= newest
    BY AtWork DEF ExtensionStep
  <1>2. /\ UNCHANGED <<xpi, cache, settled>> /\ job.step = "extract" /\ managed = "zip" /\ tree \in Trees
        /\ tree.backup = Absent /\ ~job.preserve
    BY DEF ExtractExtension, Working, LoadedInv, Typed, Assigned, Staged, KeepingSteps
  <1>3. tree'.current = tree.current /\ tree'.backup = tree.backup /\ tree'.stage <= newest
    BY <1>1, <1>2 DEF ExtractExtension, Trees
  <1>4. Loaded' = Loaded
    BY <1>3 DEF Loaded
  <1>5. CASE Goto("dropStage")
    <2>1. Assigned' /\ job'.step = "dropStage" /\ job'.copied = job.copied
      BY <1>1, <1>2, <1>5, Moving DEF StagingSteps, KeepingSteps
    <2>2. Staged'
      BY <2>1 DEF Staged
    <2>3. QED
      BY <1>1, <1>2, <1>3, <1>4, <2>1, <2>2, Onwards
  <1>6. CASE Goto("setAside") /\ tree' = [tree EXCEPT !.stage = job.version]
    <2>1. /\ Assigned' /\ job'.step = "setAside" /\ job'.copied = job.copied /\ job'.version = job.version
      BY <1>1, <1>2, <1>6, Moving DEF StagingSteps, KeepingSteps
    <2>2. tree'.stage = job.version
      BY <1>2, <1>6 DEF Trees
    <2>3. Staged'
      BY <1>2, <1>3, <2>1, <2>2 DEF Staged
    <2>4. QED
      BY <1>1, <1>2, <1>3, <1>4, <2>1, <2>3, Onwards
  <1>7. QED
    BY <1>5, <1>6 DEF ExtractExtension

\* The backup loads while the working copy is set aside.
LEMMA SetAsideOnward == LoadedInv /\ ExtensionsWork /\ SetExtensionAside => Onward
  <1> SUFFICES ASSUME LoadedInv, ExtensionsWork, SetExtensionAside PROVE Onward
    OBVIOUS
  <1>1. /\ Typed' /\ ExtensionSame /\ settled = Absent /\ tree.current <= newest /\ tree.backup <= newest
        /\ tree.stage <= newest /\ job.copied <= newest /\ Absent <= newest
    BY AtWork DEF ExtensionStep
  <1>2. /\ UNCHANGED <<xpi, cache, settled>> /\ job.step = "setAside" /\ managed = "zip" /\ tree \in Trees
        /\ tree.backup = Absent /\ tree.stage = job.version /\ ~job.preserve
    BY DEF SetExtensionAside, Working, LoadedInv, Typed, Assigned, Staged, KeepingSteps
  <1>3. CASE Goto("dropStage") /\ tree' = tree
    <2>1. Assigned' /\ job'.step = "dropStage" /\ job'.copied = job.copied
      BY <1>1, <1>2, <1>3, Moving DEF StagingSteps, KeepingSteps
    <2>2. Staged' /\ Loaded' = Loaded
      BY <1>3, <2>1 DEF Staged, Loaded
    <2>3. QED
      BY <1>1, <1>2, <1>3, <2>1, <2>2, Onwards
  <1>4. CASE Goto("promote") /\ tree' = [tree EXCEPT !.backup = tree.current, !.current = Absent]
    <2>1. tree'.current = Absent /\ tree'.backup = tree.current /\ tree'.stage = tree.stage
      BY <1>2, <1>4 DEF Trees
    <2>2. Absent \notin Releases
      BY DEF Absent, Releases
    <2>3. Loaded' = Loaded
      BY <1>2, <2>1, <2>2 DEF Loaded
    <2>4. /\ Assigned' /\ job'.step = "promote" /\ job'.copied = job.copied /\ job'.version = job.version
      BY <1>1, <1>2, <1>4, Moving DEF StagingSteps, KeepingSteps
    <2>5. Staged'
      BY <1>2, <2>1, <2>4 DEF Staged
    <2>6. QED
      BY <1>1, <1>2, <2>1, <2>3, <2>4, <2>5, Onwards
  <1>5. QED
    BY <1>3, <1>4 DEF SetExtensionAside

\* The stage takes its place, or the backup returns; an XPI is replaced at once.
LEMMA PromoteOnward == LoadedInv /\ ExtensionsWork /\ PromoteExtension => Onward
  <1> SUFFICES ASSUME LoadedInv, ExtensionsWork, PromoteExtension PROVE Onward
    OBVIOUS
  <1>1. /\ Typed' /\ ExtensionSame /\ settled = Absent /\ tree.current <= newest /\ tree.backup <= newest
        /\ tree.stage <= newest /\ job.copied <= newest /\ Absent <= newest
    BY AtWork DEF ExtensionStep
  <1>2. /\ UNCHANGED cache /\ job.step = "promote" /\ tree \in Trees /\ ~job.preserve
        /\ job.version = newest /\ newest \in Releases
        /\ managed' = managed /\ newest' = newest
    BY <1>1
       DEF PromoteExtension, Working, LoadedInv, Typed, Assigned, KeepingSteps, StagingSteps, ExtensionSame, world
  <1>3. newest \in Nat /\ cache.ubo \in Nat /\ cache.ubo <= newest /\ Loaded \in Nat
    BY Integral, Loading DEF LoadedInv, Dated
  <1>4. CASE managed = "xpi"
    <2>1. tree' = tree /\ Loaded' = Loaded
      BY <1>2, <1>4 DEF PromoteExtension, Loaded
    <2>2. CASE GiveUp /\ UNCHANGED xpi
      BY <1>1, <1>2, <2>1, <2>2, Giving
    <2>3. CASE xpi' = [xpi EXCEPT !.file = job.version] /\ Goto("record") /\ settled' = settled
      <3>1. xpi'.file = newest /\ xpi'.marker = xpi.marker
        BY <1>2, <2>3 DEF LoadedInv, Typed
      <3>2. xpi.marker <= newest
        BY Integral DEF LoadedInv, Dated
      <3>3. Assigned' /\ job'.copied = job.copied /\ job'.version = newest /\ job'.step = "record"
        BY <1>1, <1>2, <2>3, Moving DEF StagingSteps, KeepingSteps
      <3>4. Dated'
        BY <1>1, <1>2, <1>3, <1>4, <2>1, <3>1, <3>2, <3>3 DEF Dated
      <3>5. Staged' /\ Ended' /\ Vouched'
        BY <1>1, <1>2, <1>4, <2>3 DEF Staged, Ended, Vouched
      <3>6. QED
        BY <1>1, <1>2, <1>3, <1>4, <2>1, <3>3, <3>4, <3>5 DEF Onward, LoadedInv
    <2>4. QED
      BY <1>4, <2>2, <2>3 DEF PromoteExtension
  <1>5. CASE managed = "zip"
    <2>1. UNCHANGED <<xpi, settled>> /\ tree.current = Absent /\ tree.stage = newest /\ Absent \notin Releases
      BY <1>2, <1>5 DEF PromoteExtension, LoadedInv, Staged, Absent, Releases
    <2>2. CASE Goto("dropStage") /\ (tree' = tree \/ tree' = [tree EXCEPT !.current = tree.backup, !.backup = Absent])
      <3>1. /\ tree'.stage = tree.stage
            /\ \/ tree'.current = tree.current /\ tree'.backup = tree.backup
               \/ tree'.current = tree.backup /\ tree'.backup = Absent
        BY <1>2, <2>2 DEF Trees
      <3>2. Loaded' = Loaded
        BY <2>1, <3>1 DEF Loaded
      <3>3. Assigned' /\ job'.step = "dropStage" /\ job'.copied = job.copied
        BY <1>1, <1>2, <1>5, <2>2, Moving DEF StagingSteps, KeepingSteps
      <3>4. Staged'
        BY <3>3 DEF Staged
      <3>5. QED
        BY <1>1, <1>2, <2>1, <3>1, <3>2, <3>3, <3>4, Onwards
    <2>3. CASE Goto("dropBackup") /\ tree' = [tree EXCEPT !.current = tree.stage, !.stage = Absent]
      <3>1. tree'.current = newest /\ tree'.backup = tree.backup /\ tree'.stage = Absent
        BY <1>2, <2>1, <2>3 DEF Trees
      <3>2. Loaded' = newest
        BY <1>2, <3>1 DEF Loaded
      <3>3. Loaded <= newest
        BY <1>1, Loading DEF LoadedInv
      <3>4. Assigned' /\ job'.step = "dropBackup" /\ job'.copied = job.copied /\ job'.version = newest
        BY <1>1, <1>2, <1>5, <2>3, Moving DEF StagingSteps, KeepingSteps
      <3>5. Staged' /\ Ended' /\ Vouched'
        BY <1>1, <2>1, <3>1, <3>4 DEF Staged, Ended, Vouched
      <3>6. Dated'
        BY <1>1, <1>2, <1>3, <1>5, <2>1, <3>1, <3>2, <3>4 DEF Dated, LoadedInv
      <3>7. QED
        BY <1>1, <1>2, <1>3, <3>2, <3>3, <3>4, <3>5, <3>6 DEF Onward, LoadedInv
    <2>4. QED
      BY <1>5, <2>2, <2>3 DEF PromoteExtension
  <1>6. QED
    BY <1>4, <1>5 DEF LoadedInv, Typed

\* The backup is no longer needed.
LEMMA DropBackupOnward == LoadedInv /\ ExtensionsWork /\ DropExtensionBackup => Onward
  <1> SUFFICES ASSUME LoadedInv, ExtensionsWork, DropExtensionBackup PROVE Onward
    OBVIOUS
  <1>1. /\ Typed' /\ ExtensionSame /\ settled = Absent /\ tree.current <= newest /\ tree.stage <= newest
        /\ job.copied <= newest /\ Absent <= newest /\ \A left \in Part("backup") : left <= newest
    BY AtWork DEF ExtensionStep
  <1>2. /\ UNCHANGED <<xpi, cache, settled>> /\ job.step = "dropBackup" /\ managed = "zip" /\ tree \in Trees
        /\ ~job.preserve /\ tree.current = job.version /\ job.version = newest /\ newest \in Releases
        /\ managed' = managed /\ newest' = newest
    BY <1>1 DEF DropExtensionBackup, Working, LoadedInv, Typed, Assigned, Staged, KeepingSteps, StagingSteps,
       ExtensionSame, world
  <1>3. tree'.current = tree.current /\ tree'.stage = tree.stage /\ tree'.backup <= newest
    <2>1. tree' = [tree EXCEPT !.backup = Absent] \/ \E left \in Part("backup") : tree' = [tree EXCEPT !.backup = left]
      BY DEF DropExtensionBackup
    <2>2. QED
      BY <1>1, <1>2, <2>1 DEF Trees
  <1>4. Loaded' = Loaded
    BY <1>2, <1>3 DEF Loaded
  <1>5. /\ Assigned' /\ job'.step = "record" /\ job'.copied = job.copied /\ job'.version = job.version
    BY <1>1, <1>2, Moving DEF DropExtensionBackup, StagingSteps, KeepingSteps
  <1>6. Staged' /\ Ended' /\ Vouched'
    BY <1>1, <1>2, <1>3, <1>5 DEF Staged, Ended, Vouched
  <1>7. Dated'
    BY <1>1, <1>2, <1>3, <1>4, <1>5 DEF Dated, LoadedInv
  <1>8. Loaded \in Nat /\ cache.ubo \in Nat
    BY Integral, Loading DEF LoadedInv
  <1>9. QED
    BY <1>1, <1>2, <1>4, <1>5, <1>6, <1>7, <1>8 DEF Onward, LoadedInv

\* Nor is the stage of a job that failed.
LEMMA DropStageOnward == LoadedInv /\ ExtensionsWork /\ DropExtensionStage => Onward
  <1> SUFFICES ASSUME LoadedInv, ExtensionsWork, DropExtensionStage PROVE Onward
    OBVIOUS
  <1>1. /\ Typed' /\ ExtensionSame /\ tree.current <= newest /\ tree.backup <= newest /\ Absent <= newest
        /\ \A left \in Part("stage") : left <= newest
    BY AtWork DEF ExtensionStep
  <1>2. UNCHANGED <<xpi, cache>> /\ job.step # "none" /\ tree \in Trees /\ GiveUp
    BY DEF DropExtensionStage, Working, LoadedInv, Typed
  <1>3. tree'.current = tree.current /\ tree'.backup = tree.backup /\ tree'.stage <= newest
    <2>1. tree' = [tree EXCEPT !.stage = Absent] \/ \E left \in Part("stage") : tree' = [tree EXCEPT !.stage = left]
      BY DEF DropExtensionStage
    <2>2. QED
      BY <1>1, <1>2, <2>1 DEF Trees
  <1>4. Loaded' = Loaded
    BY <1>3 DEF Loaded
  <1>5. QED
    BY <1>1, <1>2, <1>3, <1>4, Giving

\* What was put in place is recorded and vouched for.
LEMMA RecordOnward == LoadedInv /\ ExtensionsWork /\ RecordExtension => Onward
  <1> SUFFICES ASSUME LoadedInv, ExtensionsWork, RecordExtension PROVE Onward
    OBVIOUS
  <1>1. /\ Typed' /\ ExtensionSame
    BY AtWork DEF ExtensionStep
  <1>2. /\ job.step = "record" /\ tree' = tree /\ ~job.preserve /\ run.phase = "extensions"
        /\ job.version = newest /\ newest \in Releases
        /\ managed' = managed /\ newest' = newest /\ run' = run /\ managed \in {"zip", "xpi"}
    BY <1>1 DEF RecordExtension, Working, LoadedInv, Typed, Assigned, Staged, KeepingSteps, StagingSteps,
       ExtensionSame, world
  <1>3. /\ job'.step = "none" /\ ~job'.preserve /\ job'.version = Absent /\ job'.copied = Absent /\ settled' = newest
    BY <1>2 DEF RecordExtension, Idle
  <1>4. /\ newest \in Nat /\ cache.ubo \in Nat /\ cache.ubo <= newest /\ Loaded \in Nat
        /\ xpi.file <= newest /\ xpi.marker <= xpi.file
    BY Integral, Loading DEF LoadedInv, Dated
  <1>5. cache'.ubo \in {cache.ubo, newest}
    BY <1>2 DEF RecordExtension, UpdateUbo, LoadedInv, Typed, Caches
  <1>6. /\ managed = "xpi" => xpi.file = newest /\ xpi'.file = newest /\ xpi'.marker = newest
        /\ managed = "zip" => xpi' = xpi
    BY <1>2 DEF RecordExtension, LoadedInv, Dated, Typed
  <1>7. managed = "zip" => Loaded = newest
    BY <1>2 DEF LoadedInv, Staged, Loaded
  <1>8. Loaded' = Loaded
    BY <1>2 DEF Loaded
  <1>9. Assigned' /\ Staged' /\ Ended' /\ Vouched'
    BY <1>2, <1>3, <1>6, <1>7, <1>8 DEF Assigned, StagingSteps, Staged, Ended, Vouched
  <1>10. Dated'
    <2>1. \A dir \in {"current", "backup", "stage"} : tree'[dir] <= newest'
      BY <1>2 DEF LoadedInv, Dated
    <2>2. xpi'.file <= newest /\ xpi'.marker <= xpi'.file
      BY <1>2, <1>4, <1>6
    <2>3. QED
      BY <1>2, <1>3, <1>4, <1>5, <1>6, <1>7, <1>8, <2>1, <2>2 DEF Dated, Absent
  <1>11. QED
    BY <1>1, <1>4, <1>5, <1>8, <1>9, <1>10 DEF Onward, LoadedInv

\* What is copied into the new bundle is what loads.
LEMMA CopyOnward == LoadedInv /\ ExtensionsWork /\ CopyExtension => Onward
  <1> SUFFICES ASSUME LoadedInv, ExtensionsWork, CopyExtension PROVE Onward
    OBVIOUS
  <1>1. /\ Typed' /\ ExtensionSame /\ settled = Absent /\ tree.current <= newest /\ tree.backup <= newest
        /\ tree.stage <= newest
    BY AtWork DEF ExtensionStep
  <1>2. /\ UNCHANGED <<tree, xpi, cache>> /\ job.step = "copy" /\ job.preserve /\ Loaded' = Loaded
        /\ tree.backup = Absent /\ managed = "zip" /\ run' = run /\ managed' = managed /\ newest' = newest
    BY <1>1
       DEF CopyExtension, Working, LoadedInv, Typed, Assigned, Staged, StagingSteps, Loaded, ExtensionSame, world
  <1>3. CASE GiveUp
    BY <1>1, <1>2, <1>3, Giving
  <1>4. CASE job' = [job EXCEPT !.step = "swap", !.copied = tree.current] /\ settled' = settled
    <2>1. /\ job'.step = "swap" /\ job'.copied = tree.current /\ (job'.preserve <=> job.preserve)
          /\ job'.version = job.version
      BY <1>4 DEF LoadedInv, Typed, Jobs
    <2>2. Assigned' /\ Staged'
      BY <1>2, <2>1 DEF LoadedInv, Assigned, Staged, StagingSteps, KeepingSteps
    <2>3. QED
      BY <1>1, <1>2, <1>4, <2>1, <2>2, Onwards
  <1>5. QED
    BY <1>3, <1>4 DEF CopyExtension

\* The two ends of a check: the job is over, or it starts on the newest release.
Stopping == job' = Idle /\ (settled' = Absent \/ (UpToDate /\ settled' = newest))
Starting ==
    /\ job' = [job EXCEPT !.step = IF managed = "zip" THEN "recover" ELSE "promote", !.version = newest]
    /\ settled' = settled

\* A check stops or starts a job.
LEMMA Checks == Check(run.auto) => Stopping \/ Starting
  <1> SUFFICES ASSUME Check(run.auto) PROVE Stopping \/ Starting
    OBVIOUS
  <1>1. \/ UpToDate /\ job' = Idle /\ settled' = newest
        \/ job' = Idle /\ settled' = Absent
        \/ Starting
    BY Zenon DEF Check, Starting
  <1>2. QED
    BY <1>1, Zenon DEF Stopping

\* The check: what is up to date is the newest release, and it loads.
LEMMA CheckOnward == LoadedInv /\ ExtensionsCheck => Onward
  <1> SUFFICES ASSUME LoadedInv, ExtensionsCheck PROVE Onward
    OBVIOUS
  <1>1. /\ Typed' /\ ExtensionSame /\ UNCHANGED <<tree, xpi, cache>> /\ job.step = "check" /\ ~job.preserve
        /\ run.phase = "extensions"
        /\ run' = run /\ managed' = managed /\ newest' = newest /\ Loaded' = Loaded
    BY TypedCheck DEF ExtensionsCheck, Check, Working, ExtensionSame, LoadedInv, Assigned, At, world, Loaded
  <1>2. /\ Loaded \in Nat /\ cache.ubo \in Nat /\ newest \in Nat /\ job.copied <= newest /\ Absent <= newest
        /\ xpi.file \in Nat /\ xpi.marker \in Nat
    BY Loading, Integral DEF LoadedInv, Dated, Absent
  <1>3. job'.step # "record" /\ job'.copied <= newest => Dated'
    BY <1>1 DEF LoadedInv, Dated
  <1>4. CASE Stopping
    <2>1. job'.step = "none" /\ ~job'.preserve /\ job'.version = Absent /\ job'.copied = Absent
      BY <1>4 DEF Idle, Stopping
    <2>2. Assigned' /\ Staged' /\ Ended'
      BY <1>1, <2>1 DEF Assigned, StagingSteps, Staged, Ended
    <2>3. CASE UpToDate /\ settled' = newest
      <3>1. ASSUME managed = "zip" PROVE Vouched'
        <4>1. Loaded <= newest
          <5>1. tree["current"] <= newest /\ tree["backup"] <= newest
            BY DEF LoadedInv, Dated
          <5>2. QED
            BY <1>2, <5>1 DEF Loaded, Absent
        <4>2. Loaded = newest
          BY <1>2, <2>3, <3>1, <4>1 DEF UpToDate, LoadedInv, Dated
        <4>3. QED
          BY <1>1, <2>3, <3>1, <4>2 DEF Vouched
      <3>2. ASSUME managed = "xpi" PROVE Vouched'
        <4>1. xpi.file = newest
          <5>1. cache.ubo = newest \/ xpi.marker = newest
            BY <2>3, <3>2 DEF UpToDate
          <5>2. QED
            BY <1>2, <3>2, <5>1 DEF LoadedInv, Dated
        <4>2. QED
          BY <1>1, <2>3, <3>2, <4>1 DEF Vouched
      <3>3. Vouched'
        BY <3>1, <3>2 DEF LoadedInv, Typed
      <3>4. QED
        BY <1>1, <1>2, <1>3, <2>1, <2>2, <3>3 DEF Onward, LoadedInv
    <2>4. CASE settled' = Absent
      BY <1>1, <1>2, <1>3, <2>1, <2>2, <2>4 DEF Onward, LoadedInv, Vouched
    <2>5. QED
      BY <1>4, <2>3, <2>4 DEF Stopping
  <1>5. CASE Starting
    <2>1. /\ job'.step = (IF managed = "zip" THEN "recover" ELSE "promote") /\ job'.version = newest
          /\ job'.copied = job.copied /\ (job'.preserve <=> job.preserve)
      BY <1>5 DEF Starting, LoadedInv, Typed, Jobs
    <2>2. settled' = Absent
      BY <1>1, <1>5 DEF Starting, LoadedInv, Ended
    <2>3. Assigned' /\ Staged' /\ Ended' /\ Vouched'
      BY <1>1, <2>1, <2>2 DEF LoadedInv, Assigned, StagingSteps, Staged, Ended, Vouched
    <2>4. QED
      BY <1>1, <1>2, <1>3, <2>1, <2>3 DEF Onward, LoadedInv
  <1>6. Stopping \/ Starting
    BY Checks DEF ExtensionsCheck
  <1>7. QED
    BY <1>4, <1>5, <1>6

\* A folder at first has no extension, and none on record.
LEMMA LoadedInit == Init => LoadedInv
  <1> SUFFICES ASSUME Init PROVE LoadedInv
    OBVIOUS
  <1>1. Typed
    BY InitTyped, TypedIs
  <1>2. /\ run.phase = "off" /\ tree = NoTree /\ tree.current = Absent /\ tree.backup = Absent /\ tree.stage = Absent
        /\ job.step = "none" /\ ~job.preserve /\ job.version = Absent /\ job.copied = Absent
        /\ settled = Absent /\ xpi.file = Absent /\ xpi.marker = Absent /\ newest = 1
    BY DEF Init, ExtensionInit, Off, NoTree, Idle
  <1>3. cache.ubo = Absent
    BY DEF Init, NoCache, FromVersionInfo, Absent
  <1>4. Loaded = Absent
    BY <1>1, <1>2, Loading
  <1>5. Assigned /\ Staged /\ Ended /\ Vouched
    BY <1>2 DEF Assigned, StagingSteps, Staged, Ended, Vouched
  <1>6. Dated
    <2>1. \A dir \in {"current", "backup", "stage"} : tree[dir] <= newest
      BY <1>2 DEF Absent
    <2>2. QED
      BY <1>2, <1>3, <1>4, <2>1 DEF Dated, Absent
  <1>7. QED
    BY <1>1, <1>5, <1>6 DEF LoadedInv

\* Every step on the extension is onward.
LEMMA StepsOnward == LoadedInv /\ (ExtensionsCheck \/ ExtensionsWork) => Onward
  BY CheckOnward, RecoverOnward, SweepOnward, CreateOnward, ExtractOnward, SetAsideOnward, PromoteOnward,
     DropBackupOnward, DropStageOnward, RecordOnward, CopyOnward
     DEF ExtensionsWork, ExtensionStep

\* Every step keeps it.
LEMMA LoadedStep == LoadedInv /\ [Next]_vars => LoadedInv'
  <1> SUFFICES ASSUME LoadedInv, [Next]_vars PROVE LoadedInv'
    OBVIOUS
  <1>1. CASE Tick \/ Publish \/ Withdraw \/ Edit
    BY <1>1, LoadedBetween
  <1>2. CASE Begin \/ CheckCache \/ Lookup \/ Decide
    BY <1>2, LoadedLookup
  <1>3. CASE Download \/ Replace
    BY <1>3, LoadedInstall
  <1>4. CASE ExtensionsBegin \/ ExtensionsEnd \/ Launch \/ Answer \/ Exit \/ Die
    BY <1>4, LoadedEnd
  <1>5. CASE ExtensionsCheck \/ ExtensionsWork
    BY <1>5, StepsOnward DEF Onward
  <1>6. CASE UNCHANGED vars
    BY <1>6 DEF vars, world, extension, LoadedInv, Typed, Assigned, Staged, Dated, Ended, Vouched, Loaded
  <1>7. QED
    BY <1>1, <1>2, <1>3, <1>4, <1>5, <1>6 DEF Next, Attempt

\* A browser that was started is of its target and as new as what was on offer
\* a lifetime of the cache ago, and a finished check names the extension that
\* loads: the update phases of run_core, over any number of launches.
THEOREM Current == Spec => []KeptCurrent
  <1>1. Init => TimedInv /\ LoadedInv
    BY TimedInit, LoadedInit
  <1>2. TimedInv /\ LoadedInv /\ [Next]_vars => (TimedInv /\ LoadedInv)'
    BY TimedStep, LoadedStep
  <1>3. TimedInv /\ LoadedInv => KeptCurrent
    BY TimedTimely, TypedIs DEF KeptCurrent, TimedInv, LoadedInv
  <1>4. QED
    BY <1>1, <1>2, <1>3, PTL DEF Spec

-----------------------------------------------------------------------------
(* What a step may never do.                                                *)

\* The two that change which browser is installed.
LEMMA Installing ==
    Next => \/ installed' = installed \/ Edit
            \/ Replace /\ installed' = [version |-> run.latest, target |-> arch]
  <1> SUFFICES ASSUME Next, ~Edit, installed' # installed
               PROVE  Replace /\ installed' = [version |-> run.latest, target |-> arch]
    OBVIOUS
  <1>1. Replace
    BY
       DEF Next, Attempt, Tick, Publish, Withdraw, Begin, CheckCache, Lookup, Decide, Download, ExtensionsBegin,
       ExtensionsCheck, ExtensionsWork, ExtensionsEnd, Launch, Answer, Exit, Die
  <1>2. QED
    BY <1>1 DEF Replace

\* What replaces the browser is no older than what an attempt found in place.
LEMMA NextForward == TimedInv /\ Next => Forward
  <1> SUFFICES ASSUME TimedInv, Next, ~Edit PROVE installed'.version >= installed.version
    BY DEF Forward
  <1>1. installed.version \in Nat
    BY Counts DEF TimedInv
  <1>2. CASE installed' = installed
    BY <1>1, <1>2
  <1>3. CASE Replace /\ installed' = [version |-> run.latest, target |-> arch]
    BY <1>3 DEF Replace, At, TimedInv, Resolved
  <1>4. QED
    BY <1>2, <1>3, Installing

\* The browser's replacement carries over what loads.
LEMMA NextLoaded == LoadedInv /\ Next => NeverUnloaded
  <1> SUFFICES ASSUME LoadedInv, Next, managed = "zip", ~Edit PROVE Loaded' >= Loaded
    BY DEF NeverUnloaded
  <1>1. Loaded \in Nat
    BY Loading DEF LoadedInv
  <1>2. CASE tree' = tree
    BY <1>1, <1>2 DEF Loaded
  <1>3. CASE ExtensionsCheck \/ ExtensionsWork
    BY <1>3, StepsOnward DEF Onward
  <1>4. CASE Replace /\ tree' = [NoTree EXCEPT !.current = job.copied] /\ job.step = "swap"
    <2>1. tree'.current = job.copied /\ tree'.backup = Absent
      BY <1>4 DEF NoTree
    <2>2. Loaded' = Loaded
      BY <1>4, <2>1 DEF LoadedInv, Staged, Loaded
    <2>3. QED
      BY <1>1, <2>2
  <1>5. tree' = tree \/ ExtensionsCheck \/ ExtensionsWork \/ Replace
    BY
       DEF Next, Attempt, Tick, Publish, Withdraw, Begin, CheckCache, Lookup, Decide, Download, ExtensionsBegin,
       ExtensionsEnd, Launch, Answer, Exit, Die, extension
  <1>6. QED
    BY <1>2, <1>3, <1>4, <1>5 DEF Replace, Working

\* A refreshed answer and a finished job keep the record or raise it.
LEMMA NextRemembered == LoadedInv /\ Next => Remembered
  <1> SUFFICES ASSUME LoadedInv, Next PROVE cache'.ubo >= cache.ubo
    BY DEF Remembered
  <1>1. cache.ubo \in Nat
    BY Integral DEF LoadedInv
  <1>2. CASE cache' = cache
    BY <1>1, <1>2
  <1>3. CASE cache' = Refreshed(cache, upstream, arch, now)
    BY <1>1, <1>3 DEF Refreshed, FromVersionInfo
  <1>4. CASE ExtensionsCheck \/ ExtensionsWork
    BY <1>4, StepsOnward DEF Onward
  <1>5. QED
    BY <1>2, <1>3, <1>4 DEF Next, Attempt, Tick, Publish, Withdraw, Edit, Begin, CheckCache, Lookup, Decide,
       Download, Replace, ExtensionsBegin, ExtensionsEnd, Launch, Answer, Exit, Die

\* A link is in no phase that installs, downloads or records.
LEMMA NextLink == TimedInv /\ Next => LinksOnlyOpen
  <1> SUFFICES ASSUME TimedInv, Next, run.link PROVE UNCHANGED <<installed, tree, xpi, cache>>
    BY DEF LinksOnlyOpen
  <1>1. run.phase \in {"check", "prepare", "running", "error"}
    BY DEF TimedInv, Linked
  <1>2. CheckCache \/ Launch \/ Answer \/ Exit \/ Die
    BY <1>1 DEF Next, Attempt, At, Tick, Publish, Withdraw, Edit, Begin, Lookup, Decide,
       Download, Replace, ExtensionsBegin, ExtensionsCheck, ExtensionsWork, ExtensionsEnd
  <1>3. QED
    BY <1>2 DEF CheckCache, Launch, Answer, Exit, Die, extension

\* Whatever the caches say, whatever fails and whatever the service withdraws,
\* no step leaves the folder with an older browser, with an older extension or
\* none, or without the record of it, and a link's steps change none of them:
\* the downgrade checks, the staging and the preservation of a launch.
THEOREM NeverBackwards == Spec => NeverBack
  <1>1. Init => TimedInv /\ LoadedInv
    BY TimedInit, LoadedInit
  <1>2. TimedInv /\ LoadedInv /\ [Next]_vars => (TimedInv /\ LoadedInv)'
    BY TimedStep, LoadedStep
  <1>3. TimedInv /\ LoadedInv /\ [Next]_vars => [Forward /\ NeverUnloaded /\ Remembered /\ LinksOnlyOpen]_vars
    BY NextForward, NextLoaded, NextRemembered, NextLink
  <1>4. QED
    BY <1>1, <1>2, <1>3, PTL DEF Spec, NeverBack
=============================================================================
