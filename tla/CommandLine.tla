---------------------------- MODULE CommandLine ----------------------------
(***************************************************************************)
(* What a launcher makes of its command line, and the command line it       *)
(* makes for the browser and for the cleanup watcher (core/src/lib.rs).     *)
(* Arguments are tokens: what matters is which flag of the launcher they    *)
(* are, and whether a browser would take them for a switch.                 *)
(***************************************************************************)
EXTENDS Integers, Sequences, SequencesExt

Separator == "--"
Register == "--register-default"
Unregister == "--unregister-default"
CleanupPid == "--nomad-cleanup-pid"
CleanupExe == "--nomad-cleanup-exe"
ScrubThumbs == "--nomad-scrub-thumbcache"
RecoverMissed == "--nomad-recover-cleanup"
ScrubPrefetch == "--nomad-scrub-prefetch"

Flags == {Register, Unregister, CleanupPid, CleanupExe, ScrubThumbs, RecoverMissed, ScrubPrefetch}

\* Arguments a browser reads as a switch once whitespace is trimmed, blank
\* ones, numbers, and everything else: URLs, files, paths of executables.
Switches == Flags \cup {Separator, "-switch", " -switch", "/switch"}
Blanks == {"", " "}
Numbers == {"7"}
Targets == {"url", "exe"}
Tokens == Switches \cup Blanks \cup Numbers \cup Targets

Has(args, flag) == \E i \in DOMAIN args : args[i] = flag
First(args, flag) == SelectInSeq(args, LAMBDA a : a = flag)

-----------------------------------------------------------------------------
(* Arguments of the launcher.                                               *)

\* Mutant: what follows the target is not looked at.
ValidForwardedFirst(forwarded) ==
    Len(forwarded) > 0 /\ forwarded[1] \notin Blanks \cup Switches

\* Keep the target of a link as one positional argument, never as a switch.
ValidForwarded(forwarded) ==
    /\ Len(forwarded) = 1
    /\ forwarded[1] \notin Blanks \cup Switches

Own(argv) == IF Has(argv, Separator) THEN SubSeq(argv, 1, First(argv, Separator) - 1) ELSE argv

Forwarded(argv) ==
    IF Has(argv, Separator) THEN SubSeq(argv, First(argv, Separator) + 1, Len(argv)) ELSE <<>>

NotCleanup == [op |-> "none"]

After(args, flag) == IF First(args, flag) \in 1..Len(args) - 1 THEN args[First(args, flag) + 1] ELSE "none"

\* The watcher's arguments; a missing or unreadable pid means it is none.
ParseCleanup(own) ==
    IF ~Has(own, CleanupPid) \/ After(own, CleanupPid) \notin Numbers THEN NotCleanup
    ELSE [op |-> "cleanup", pid |-> After(own, CleanupPid),
          exe |-> IF Has(own, CleanupExe) THEN After(own, CleanupExe) ELSE "none",
          thumbs |-> Has(own, ScrubThumbs), recover |-> Has(own, RecoverMissed)]

\* What run does: refuse first, then the launcher's own operations, then launch.
Dispatch(argv) ==
    LET own == Own(argv) IN
    IF Has(argv, Separator) /\ ~ValidForwarded(Forwarded(argv)) THEN [op |-> "refuse"]
    ELSE IF Has(own, Register) THEN [op |-> "register"]
    ELSE IF Has(own, Unregister) THEN [op |-> "unregister"]
    ELSE IF ParseCleanup(own) # NotCleanup THEN ParseCleanup(own)
    ELSE IF Has(own, ScrubPrefetch) THEN [op |-> "prefetch"]
    ELSE [op |-> "launch", target |-> Forwarded(argv)]

\* Mutant: the path goes where the pid is looked for.
WatcherArgsSwapped(pid, exe, config) ==
    <<CleanupExe, CleanupPid, pid, exe>>
    \o (IF config.thumbs THEN <<ScrubThumbs>> ELSE <<>>)
    \o (IF config.recover THEN <<RecoverMissed>> ELSE <<>>)

\* The same flags made into arguments for the watcher of a browser.
WatcherArgs(pid, exe, config) ==
    <<CleanupPid, pid, CleanupExe, exe>>
    \o (IF config.thumbs THEN <<ScrubThumbs>> ELSE <<>>)
    \o (IF config.recover THEN <<RecoverMissed>> ELSE <<>>)

\* A link is an invocation with a target: it launches and never updates.
EffectiveUpdate(update, link) ==
    [check |-> update.check /\ ~link, auto |-> update.auto /\ ~link]

-----------------------------------------------------------------------------
(* Arguments of the browser: switches with a value, the last of which wins, *)
(* and the target.                                                          *)

Switch(name, value) == [switch |-> name, value |-> value]

\* Mutant: a second switch instead of a longer first one.
WithFeatureAppended(args, feature) == Append(args, Switch("features", {feature}))

\* Add a feature to the one --enable-features switch that counts.
WithFeature(args, feature) ==
    LET at == SelectInSeq(args, LAMBDA a : a.switch = "features") IN
    IF at = 0 THEN Append(args, Switch("features", {feature}))
    ELSE [args EXCEPT ![at].value = @ \cup {feature}]

When(condition, args) == IF condition THEN args ELSE <<>>

\* Mutant: what the user adds comes first and is overridden.
BuildLaunchArgsUserFirst(browser, config) ==
    config.extra
    \o When(config.enabled /\ browser.engine = "chromium", browser.flags)
    \o When(config.language # "", <<Switch("lang", {config.language})>>)

\* Engines: "chromium", "gecko"; noise: a browser with fingerprint noise.
BuildLaunchArgs(browser, config) ==
    LET chromium == browser.engine = "chromium"
        flags == When(config.enabled /\ chromium, browser.flags)
        cleared == IF config.enabled /\ config.clearData /\ chromium
                   THEN WithFeature(flags, "ClearDataOnExit") ELSE flags
        reduced == IF config.enabled /\ config.reduceInfo /\ chromium /\ ~browser.noise
                   THEN WithFeature(cleared, "ReducedSystemInfo") ELSE cleared
    IN  reduced
        \o When(config.enabled /\ config.noWebrtc /\ chromium,
                <<Switch("webrtc", {"disabled"})>>)
        \o When(chromium /\ config.language # "", <<Switch("lang", {config.language})>>)
        \o config.extra
        \o When(chromium /\ config.incognito, <<Switch("incognito", {"on"})>>)

CommandArgs(browser, config, target) ==
    BuildLaunchArgs(browser, config) \o [i \in DOMAIN target |-> Switch("target", {target[i]})]

\* How a browser reads its switches (Chromium honours the last of a name).
Effective(args, name) ==
    LET at == SelectLastInSeq(args, LAMBDA a : a.switch = name) IN
    IF at = 0 THEN {} ELSE args[at].value

-----------------------------------------------------------------------------
(* What is to be shown of every input.                                      *)

Named(args) == {args[i].switch : i \in 1..Len(args)}

\* An adapter states its features in one switch.
Once(args) == \A i, j \in 1..Len(args) : args[i].switch = "features" /\ args[j].switch = "features" => i = j

\* A browser honours only the last switch of a name: of the features, all that
\* the adapter and the configuration ask for are in effect, unless the user
\* asks for others.
AllInEffect(browser, config, target) ==
    LET asked == IF config.enabled /\ browser.engine = "chromium"
                 THEN Effective(browser.flags, "features")
                      \cup (IF config.clearData THEN {"ClearDataOnExit"} ELSE {})
                      \cup (IF config.reduceInfo /\ ~browser.noise THEN {"ReducedSystemInfo"} ELSE {})
                 ELSE {}
    IN  Effective(CommandArgs(browser, config, target), "features")
            = IF "features" \in Named(config.extra) THEN Effective(config.extra, "features") ELSE asked

\* A switch of the user's own is the one in effect, whatever the adapter and
\* the hardening set for it: all but the two that come last.
UsersInEffect(browser, config, target) ==
    \A name \in Named(config.extra) \ {"incognito", "target"} :
        Effective(CommandArgs(browser, config, target), name) = Effective(config.extra, name)

\* What a link is given after the separator never becomes an operation of the
\* launcher (registration, cleanup), and what it opens is one argument that no
\* browser takes for a switch.
OpensOneTarget(argv) ==
    LET does == Dispatch(argv) IN
    /\ does.op \in {"refuse", "launch"}
    /\ does.op = "launch" => Len(does.target) = 1 /\ does.target[1] \notin Switches \cup Blanks
=============================================================================
