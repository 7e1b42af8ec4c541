------------------------------- MODULE Upkeep -------------------------------
(***************************************************************************)
(* Launch after launch of one portable folder: what a launch looks up, what *)
(* it takes from the caches, what it installs, how the managed extension    *)
(* goes along, and when the browser is started (the update phases of        *)
(* core/src/lib.rs over version_cache.rs and module Extensions).  Module    *)
(* Install has the inside of the transaction that replaces the browser and  *)
(* the lock that keeps launches apart; here a replacement is one step.      *)
(***************************************************************************)
EXTENDS Extensions

CONSTANTS Targets,      \* package targets of the adapter
          MaxVersion,   \* browser releases published
          Epoch, Span   \* the clock goes from Epoch to Epoch + Span

ASSUME UpkeepAssumption ==
    /\ "none" \notin Targets
    /\ MaxVersion \in Nat \ {0} /\ MaxExtension \in Nat \ {0} /\ MaxFaults \in Nat
    /\ Epoch \in Nat /\ Span \in Nat /\ Epoch > Week

VARIABLES
    now,        \* the host's clock
    upstream,   \* the browser release a lookup answers with
    births,     \* when each release was published, 0 if it is not
    installed,  \* the version marker of the install directory
    arch,       \* the configured target
    run         \* the launch attempt

world == <<now, upstream, births, newest, managed>>
vars == <<world, installed, arch, run, cache, extension, faults>>

Versions == 1..MaxVersion
Clock == Epoch..Epoch + Span
NotInstalled == [version |-> 0, target |-> "none"]

Phases == {"off", "check", "network", "prompt", "download", "replace", "extend",
           "extensions", "prepare", "error", "running"}

Off == [phase |-> "off", link |-> FALSE, check |-> FALSE, auto |-> FALSE, latest |-> 0,
        offline |-> FALSE, declined |-> FALSE, anyway |-> FALSE, fallback |-> FALSE]

TypeOK ==
    /\ ExtensionTypeOK
    /\ cache \in [found : BOOLEAN, target : Targets \cup {"none"}, at : {0} \cup Clock \cup {Epoch + Span + 1},
                  version : {0} \cup Versions, sound : BOOLEAN, ubo : {Absent} \cup Releases]
    /\ now \in Clock /\ upstream \in Versions /\ births \in [Versions -> {0} \cup Clock]
    /\ installed \in [version : {0} \cup Versions, target : Targets \cup {"none"}]
    /\ arch \in Targets
    /\ run \in [phase : Phases, link : BOOLEAN, check : BOOLEAN, auto : BOOLEAN, latest : {0} \cup Versions,
                offline : BOOLEAN, declined : BOOLEAN, anyway : BOOLEAN, fallback : BOOLEAN]

\* A new folder, one of an old launcher whose marker names no target, or one
\* whose cache was written on a host with a clock that is far ahead.
Init ==
    /\ ExtensionInit
    /\ now = Epoch /\ upstream = 1
    /\ births = [v \in Versions |-> IF v = 1 THEN Epoch ELSE 0]
    /\ installed \in {NotInstalled, [version |-> 1, target |-> "none"]}
    /\ arch \in Targets
    /\ cache \in {NoCache, [FromVersionInfo(1, arch, 0) EXCEPT !.at = Epoch + Span + 1]}
    /\ run = Off

At(phase) == run.phase = phase
To(phase) == run' = [run EXCEPT !.phase = phase]
HasBrowser == installed.version # 0

-----------------------------------------------------------------------------
(* Between launches.                                                        *)

Tick ==
    /\ At("off") /\ now + 1 \in Clock /\ now' = now + 1
    /\ UNCHANGED <<upstream, births, newest, managed, installed, arch, run, cache, extension, faults>>

Publish ==
    /\ At("off")
    /\ \/ /\ upstream + 1 \in Versions /\ upstream' = upstream + 1
          /\ births' = [births EXCEPT ![upstream + 1] = now]
          /\ UNCHANGED newest
       \/ /\ newest + 1 \in Releases /\ newest' = newest + 1
          /\ UNCHANGED <<upstream, births>>
    /\ UNCHANGED <<now, managed, installed, arch, run, cache, extension, faults>>

\* A release is withdrawn, and a lookup answers with the one before.
Withdraw ==
    /\ At("off") /\ upstream > 1
    /\ upstream' = upstream - 1
    /\ births' = [births EXCEPT ![upstream] = 0]
    /\ UNCHANGED <<now, newest, managed, installed, arch, run, cache, extension, faults>>

\* The user edits nomad.toml, or deletes the install directory.
Edit ==
    /\ At("off")
    /\ \/ arch' \in Targets \ {arch} /\ UNCHANGED <<installed, extension>>
       \/ /\ HasBrowser /\ installed' = NotInstalled /\ tree' = NoTree /\ settled' = Absent
          /\ UNCHANGED <<xpi, job, arch>>
    /\ UNCHANGED <<world, run, cache, faults>>

-----------------------------------------------------------------------------
(* Update check.                                                            *)

\* Mutant: a link updates like a start by hand.
EffectiveAlways(update, link) == update

\* effective_update_options: a link neither checks nor downloads.
Effective(update, link) == update /\ ~link

\* A link is refused when nothing is installed; what the user configured may
\* have changed since the last launch.
Begin ==
    /\ At("off")
    /\ \E link, check, auto \in BOOLEAN :
          /\ link => HasBrowser
          /\ run' = [Off EXCEPT !.phase = "check", !.link = link,
                                !.check = Effective(check, link), !.auto = Effective(auto, link)]
    /\ settled' = Absent
    /\ UNCHANGED <<world, installed, arch, cache, tree, xpi, job, faults>>

\* resolve_check_action.
Resolve(version) ==
    run' = [run EXCEPT !.latest = version,
                       !.phase = IF ~NeedsUpdate(installed, version, arch) THEN "extend"
                                 ELSE IF run.auto THEN "download" ELSE "prompt"]

\* The extension is looked at on the way to a launch when checks are on.
Extend == To(IF run.check THEN "extend" ELSE "prepare")

CheckCache ==
    /\ At("check")
    /\ \/ ~run.check /\ Extend
       \/ run.check /\ Hit(cache, installed, arch, now) /\ Resolve(cache.version)
       \/ run.check /\ ~Hit(cache, installed, arch, now) /\ To("network")
    /\ UNCHANGED <<world, installed, arch, cache, extension, faults>>

Fail == run' = [run EXCEPT !.phase = "error", !.fallback = HasBrowser]

\* fetch_latest_version: an answer is kept before it is acted upon, unless it
\* is older than what is installed; the launcher goes on without a network.
Lookup ==
    /\ At("network")
    /\ \/ /\ ~IsOlder(installed, upstream)
          /\ \/ cache' = Refreshed(cache, upstream, arch, now) /\ UNCHANGED faults
             \/ Fault /\ UNCHANGED cache
          /\ Resolve(upstream)
       \/ /\ IsOlder(installed, upstream)
          /\ Fail /\ UNCHANGED <<cache, faults>>
       \/ /\ run' = [run EXCEPT !.offline = TRUE, !.fallback = FALSE,
                                !.phase = IF HasBrowser THEN "extend" ELSE "error"]
          /\ UNCHANGED <<cache, faults>>
       \/ Fault /\ Fail /\ UNCHANGED cache
    /\ UNCHANGED <<world, installed, arch, extension>>

\* Without an answer from the user the window was closed, which is a no.
Decide ==
    /\ At("prompt")
    /\ \/ To("download")
       \/ run' = IF HasBrowser THEN [run EXCEPT !.phase = "extend", !.declined = TRUE] ELSE Off
    /\ UNCHANGED <<world, installed, arch, cache, extension, faults>>

-----------------------------------------------------------------------------
(* Installing, with the extension preserved, and the extension check.       *)

\* Download, verification and layout; then preserve_state_across_update.
Download ==
    /\ At("download")
    /\ \/ /\ To("replace") /\ UNCHANGED <<faults, settled>>
          /\ job' = [Idle EXCEPT !.preserve = TRUE,
                                 !.step = IF managed = "zip" /\ tree # NoTree THEN "recover" ELSE "swap"]
       \/ Fault /\ Fail /\ UNCHANGED <<job, settled>>
    /\ UNCHANGED <<world, installed, arch, cache, tree, xpi>>

\* Marker and swap: the new bundle, with the copy of the extension in it.
Replace ==
    /\ At("replace")
    /\ \/ /\ Working("swap")
          /\ installed' = [version |-> run.latest, target |-> arch]
          /\ tree' = [NoTree EXCEPT !.current = job.copied]
          /\ job' = Idle /\ To("extend") /\ UNCHANGED faults
       \/ /\ Working("swap") /\ Fault
          /\ job' = Idle /\ Fail /\ UNCHANGED <<installed, tree>>
       \/ /\ Working("none")
          /\ job' = Idle /\ Fail /\ UNCHANGED <<installed, tree, faults>>
    /\ UNCHANGED <<world, arch, cache, xpi, settled>>

\* fetch_extension_updates; whatever comes of it, the launch goes on.
ExtensionsBegin ==
    /\ At("extend")
    /\ job' = [Idle EXCEPT !.step = "check"]
    /\ To("extensions")
    /\ UNCHANGED <<world, installed, arch, cache, tree, xpi, settled, faults>>

ExtensionsCheck ==
    /\ At("extensions") /\ Check(run.auto)
    /\ UNCHANGED <<world, installed, arch, run>>

ExtensionsWork ==
    /\ At("extensions") \/ At("replace")
    /\ ExtensionStep
    /\ UNCHANGED <<world, installed, arch, run>>

\* Mutant: an extension check is repeated until it succeeds.
ExtensionsEndRetry ==
    /\ At("extensions") /\ Working("none")
    /\ To(IF settled = Absent THEN "extend" ELSE "prepare")
    /\ UNCHANGED <<world, installed, arch, cache, extension, faults>>

ExtensionsEnd ==
    /\ At("extensions") /\ Working("none")
    /\ To("prepare")
    /\ UNCHANGED <<world, installed, arch, cache, extension, faults>>

-----------------------------------------------------------------------------
(* Launch, error screen and death.                                          *)

\* Preparation and spawn: a failed preparation leaves no way around it.
Launch ==
    /\ At("prepare")
    /\ \/ To("running") /\ UNCHANGED faults
       \/ Fault /\ Fail
       \/ Fault /\ run' = [run EXCEPT !.phase = "error", !.fallback = FALSE]
    /\ UNCHANGED <<world, installed, arch, cache, extension>>

Answer ==
    /\ At("error")
    /\ \/ run' = [Off EXCEPT !.phase = "check", !.link = run.link, !.check = run.check, !.auto = run.auto]
          /\ settled' = Absent
       \/ run.fallback /\ run' = [run EXCEPT !.phase = "prepare", !.anyway = TRUE] /\ UNCHANGED settled
       \/ run' = Off /\ UNCHANGED settled
    /\ UNCHANGED <<world, installed, arch, cache, tree, xpi, job, faults>>

Exit ==
    /\ At("running") /\ run' = Off
    /\ UNCHANGED <<world, installed, arch, cache, extension, faults>>

Die ==
    /\ ~At("off") /\ ~At("running") /\ Fault
    /\ run' = Off /\ job' = Idle /\ settled' = Absent
    /\ UNCHANGED <<world, installed, arch, cache, tree, xpi>>

Attempt ==
    \/ CheckCache \/ Lookup \/ Download \/ Replace \/ ExtensionsBegin \/ ExtensionsCheck
    \/ ExtensionsWork \/ ExtensionsEnd \/ Launch

Next ==
    \/ Tick \/ Publish \/ Withdraw \/ Edit \/ Begin
    \/ Attempt \/ Decide \/ Answer \/ Exit \/ Die

Spec == Init /\ [][Next]_vars

-----------------------------------------------------------------------------
(* Properties.                                                              *)

\* A browser started by hand with checks on is at least as new as anything
\* published a cache lifetime ago, and built for the configured target,
\* unless the network was away or the user said no: no mix of caches, failed
\* saves, crashes and changed targets holds an update back for longer.
Timely ==
    At("running") /\ run.check /\ ~run.offline /\ ~run.declined /\ ~run.anyway =>
        /\ installed.target = arch
        /\ \A v \in Versions : births[v] # 0 /\ births[v] + TTL <= now => installed.version >= v

\* The installed browser never becomes an older one, whatever a cache says
\* or upstream withdraws; only the user removes it.
Forward == installed'.version >= installed.version \/ Edit

\* A link opens what is there: from its start to its end no step changes the
\* browser, the extension or the answers kept for later checks.
LinksOnlyOpen == run.link => UNCHANGED <<installed, tree, xpi, cache>>

\* At no moment, failed renames, deaths and browser updates included, would
\* a start of the browser load no extension or an older one than before.
NeverUnloaded == managed = "zip" => (Loaded' >= Loaded \/ Edit)

\* When a check ends well the release it names is the one that loads.
Vouched == settled # Absent => settled = (IF managed = "zip" THEN Loaded ELSE xpi.file)

\* The record of the installed extension survives refreshed lookups.
Remembered == cache'.ubo >= cache.ubo

\* What there is to start is current: type, age of the browser, and extension.
KeptCurrent == TypeOK /\ Timely /\ Vouched

\* No step takes the browser, its extension or the record of it backwards,
\* and none of a link's changes anything.
NeverBack == [][Forward /\ NeverUnloaded /\ Remembered /\ LinksOnlyOpen]_vars

\* A started attempt comes to a browser, a question, an error or its end.
FairSpec == Spec /\ WF_vars(Attempt)

Progress == At("check") ~> (At("running") \/ At("prompt") \/ At("error") \/ At("off"))
=============================================================================
