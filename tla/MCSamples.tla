----------------------------- MODULE MCSamples ------------------------------
(***************************************************************************)
(* The launcher's algorithms: a step draws one input, and the invariants    *)
(* say what is made of it.  Module MCParts draws.                           *)
(***************************************************************************)
EXTENDS Integers, Sequences, SequencesExt, FiniteSets

CL == INSTANCE CommandLine
ST == INSTANCE Settings
VC == INSTANCE VersionCache WITH TTL <- 2, Day <- 2, Week <- 3
RL == INSTANCE Releases WITH MaxPart <- 2, MaxParts <- 2
AR == INSTANCE Archive
OC == INSTANCE OpenCommands
SL == INSTANCE ShellLink
CF == INSTANCE Config
SG == INSTANCE Signatures
RP == INSTANCE Replies WITH MaxRedirects <- 2
OV == INSTANCE Overlay WITH Stride <- 2

VARIABLE sample   \* the input drawn, and its kind

NoSample == [kind |-> "none"]
Of(kind) == sample.kind = kind

Flag == {TRUE, FALSE}
UpTo(set, n) == UNION {[1..k -> set] : k \in 0..n}

-----------------------------------------------------------------------------
(* Inputs: command lines.                                                   *)

\* What Windows may start for a link: the registered command, its target
\* possibly split where the link holds a quote, and possibly none.
LinkCommands == {<<CL!Separator>> \o rest : rest \in UpTo(CL!Tokens, 2)}

WatcherConfigs == [thumbs : Flag, recover : Flag]

BrowserLines == [engine : {"chromium", "gecko"}, noise : Flag,
                 flags : {<<>>, <<CL!Switch("webrtc", {"proxied"})>>,
                          <<CL!Switch("features", {"A"}), CL!Switch("webrtc", {"proxied"})>>}]

LaunchConfigs == [enabled : Flag, clearData : Flag, reduceInfo : Flag, noWebrtc : Flag, incognito : Flag,
                  language : {"", "en"},
                  extra : {<<>>, <<CL!Switch("features", {"U"})>>, <<CL!Switch("webrtc", {"default"})>>}]

DrawLink == \E argv \in LinkCommands : sample' = [kind |-> "link", argv |-> argv]

DrawWatcher == \E config \in WatcherConfigs, exe \in CL!Targets :
    sample' = [kind |-> "watcher", config |-> config, exe |-> exe]

DrawLaunch == \E browser \in BrowserLines, config \in LaunchConfigs, target \in UpTo({"url"}, 1) :
    sample' = [kind |-> "launch", browser |-> browser, config |-> config, target |-> target]

-----------------------------------------------------------------------------
(* Inputs: settings files.                                                  *)

\* Lines of a user.js, with a fence the user may have moved or broken.
Lines == {"mine", ST!FenceBegin, ST!FenceEnd}

Leaves == {ST!Scalar(0), ST!Scalar(1)}
Flags == {ST!Array(<<>>), ST!Array(<<[name |-> "f", option |-> 1]>>)}
Documents == UNION {[paths -> Leaves] : paths \in
                {{}, {<<"safe">>}, {<<"dns">>}, {<<"dns", "mode">>}, {<<"dns", "mode", "x">>},
                 {<<"safe">>, <<"mine">>}, {<<"dns", "mode">>, <<"theme", "dark">>}, {<<"theme">>}}}
             \cup {[p \in {<<"labs">>, <<"safe">>} |-> IF p = <<"safe">> THEN ST!Scalar(1) ELSE flags] : flags \in Flags}
Defaults == {<<>>,
             [p \in {<<"safe">>, <<"theme", "dark">>} |-> ST!Scalar(0)],
             [p \in {<<"dns", "mode">>, <<"mine">>} |-> ST!Scalar(0)],
             [p \in {<<"labs">>} |-> ST!Array(<<[name |-> "f", option |-> 2], [name |-> "g", option |-> 1]>>)]}
Files == {[state |-> "missing"], [state |-> "bad"]} \cup [state : {"there"}, doc : Documents]

Prepared == [userJs : UpTo({"mine"}, 1) \cup {ST!WriteUserJs(t, <<"managed", "old">>) : t \in UpTo({"mine"}, 1)},
             localState : {[state |-> "missing"], [state |-> "bad"],
                           [state |-> "there", doc |-> [p \in {<<"safe">>} |-> ST!Scalar(1)]]},
             preferences : {[state |-> "missing"]}, policies : {"none", "vendor", "managed"},
             pointer : Flag, cfg : Flag, initial : {"none"}, xpi : Flag]
Adapters == [engine : {"chromium"}, userJs : {FALSE}, policies : {FALSE}, autoconfig : {FALSE},
             localState : {[p \in {<<"safe">>} |-> ST!Scalar(0)]}, preferences : {<<>>}]
            \cup [engine : {"gecko"}, userJs : Flag, policies : Flag, autoconfig : Flag,
                  localState : {<<>>}, preferences : {<<>>}]
SettingConfigs == [enabled : Flag, sanitize : Flag, noWebrtc : {FALSE}]
Failures == {"fence", "withdraw", "policies", "pointer", "cfg", "drop pointer", "drop cfg", "local state", "none"}

DrawFence == \E text \in UpTo(Lines, 4) : sample' = [kind |-> "fence", text |-> text]

DrawDocument == \E found \in Files, defaults \in Defaults :
    sample' = [kind |-> "json", file |-> found, defaults |-> defaults]

DrawPreparation == \E files \in Prepared, adapter \in Adapters, config \in SettingConfigs, old \in SettingConfigs,
                      failing \in Failures :
    sample' = [kind |-> "prepare", files |-> files, adapter |-> adapter, config |-> config, old |-> old,
               failing |-> failing]

-----------------------------------------------------------------------------
(* Inputs: what a link finds in the caches.                                 *)

Now == 5
Times == {0, 2, 3, 4, 5, 7}
Caches == {VC!NoCache} \cup [found : {TRUE}, target : {"x64", "none"}, at : Times, version : 0..2, sound : Flag, ubo : 0..1]

DrawReminder == \E cache \in Caches, check \in [at : Times, version : 0..1], ack \in Times, managed \in Flag,
                   installed \in [version : 1..2, target : {"x64", "none"}] :
    sample' = [kind |-> "reminder", cache |-> cache, check |-> check, ack |-> ack, managed |-> managed,
               installed |-> installed]

-----------------------------------------------------------------------------
(* Inputs: releases, versions and archives.                                 *)

Versions == [label : {""}, release : UpTo(0..1, 2) \ {<<>>}, revision : {<<>>, <<1>>}]
            \cup [label : {"beta", "v"}, release : {<<1>>}, revision : {<<>>}]
            \cup [label : {""}, release : {<<3>>, <<-1>>, <<0, 0, 0>>}, revision : {<<>>}]

DrawVersions == \E a, b, c \in Versions : sample' = [kind |-> "versions", a |-> a, b |-> b, c |-> c]

\* Packages of two targets, the installer and the portable archive of each,
\* with the signatures and the hash file that go with them.
Targets == {"x64", "arm64"}
Genuine == {RL!InstallerName(t) : t \in Targets} \cup {RL!PortableName(t) : t \in Targets}
Packages == Genuine \cup {RL!Package("x64", "zip", TRUE)}
Asset(name, digest, signs) == [name |-> name, digest |-> digest, signs |-> signs]
PackageAssets == {Asset(p, d, RL!None) : p \in Packages, d \in {RL!None, RL!Garbage}}
                 \cup {Asset(p, p, RL!None) : p \in Packages}
SignatureAssets == UNION {{Asset(RL!SignatureName(p, t), RL!None, s) : t \in {"sig", "asc"}, s \in {RL!Garbage, p}} :
                            p \in Genuine}
Line(name, hash) == [name |-> name, hash |-> hash]
HashFiles == {[reached |-> FALSE, lines |-> <<>>], [reached |-> TRUE, lines |-> <<>>]}
             \cup {[reached |-> TRUE, lines |-> <<Line(p, RL!Garbage), Line(q, q), Line(p, p)>>] : p, q \in {RL!InstallerName(t) : t \in Targets}}
             \cup {[reached |-> TRUE, lines |-> <<Line(RL!PortableName(t), RL!PortableName(t))>>] : t \in Targets}

\* Waterfox has one hash file for each package.
DrawRelease ==
    \E vendor \in RL!Families, arch \in Targets, first \in PackageAssets,
       second \in PackageAssets \cup SignatureAssets, listed \in UpTo({Asset(RL!HashList, RL!None, RL!None)}, 1), hashes \in HashFiles, came \in Genuine :
        /\ vendor = "waterfox" /\ hashes.lines # <<>> => Last(hashes.lines).name = RL!InstallerName(arch)
        /\ sample' = [kind |-> "release", family |-> vendor, arch |-> arch,
                      assets |-> <<first, second>> \o listed,
                      hashes |-> IF vendor = "waterfox" THEN [hashes EXCEPT !.lines = SelectSeq(@, LAMBDA l : l = Last(hashes.lines))] ELSE hashes,
                      came |-> came]

EntryNames == {<<"a">>, <<"b", "a">>, <<"b", "c">>, <<"b", "">>, <<"b">>, <<"b", AR!Drive, "a">>,
               <<"", "a">>, <<"b", "", "a">>, <<AR!Parent, "a">>, <<"b", AR!Parent, "a">>, <<AR!Drive, "a">>}
Entries == [name : EntryNames, size : {1}] \cup [name : {<<"b", "c">>}, size : {3}]

DrawArchive == \E entries \in UpTo(Entries, 3) : sample' = [kind |-> "archive", entries |-> entries]

\* What 7-Zip leaves: the browser beside or below other things.
RawPaths == {<<"core">> \o p : p \in {<<"browser.exe">>, <<"updater.exe">>} \cup AR!GeckoRuntime}
            \cup {<<"setup.exe">>, <<"setup", "browser.exe">>, <<"core", "sub", "browser.exe">>}

DrawRaw == \E paths \in SUBSET RawPaths :
    sample' = [kind |-> "raw", tree |-> [p \in paths |-> [kind |-> "file", from |-> p]]]

-----------------------------------------------------------------------------
(* Inputs: open commands and shortcuts.                                     *)

CommandKeys == {<<"classes", "x">>, <<"classes", ".html">>, <<"classes", "nomadportable.x">>, <<"classes", "applications">>,
                <<"classes", "applications", "x.exe">>, <<"classes", "x", "y">>, <<"clients", "x">>, <<"clients", "x", "y">>}
Executables == {OC!Launcher, OC!Install, <<OC!Drive, OC!Spaced, "x">>, <<"browser", "x">>}
               \cup {OC!Install \o p : p \in {<<"x">>, <<OC!Spaced>>, <<"link", "x">>, <<OC!Parent, "x">>, <<"name.", "x">>, <<"a|b">>}}
Commands == [kind : {"REG_SZ", "REG_EXPAND_SZ", "REG_BINARY"}, quoted : Flag, exe : Executables,
             args : UpTo({"%1", "%L", "--", "-osint", "--other"}, 2)]

DrawCommand == \E key \in CommandKeys, command \in Commands :
    sample' = [kind |-> "command", key |-> key, command |-> command]

In(names) == SL!Root \o names
Stated == {In(<<"f">>), In(<<"alias">>), In(<<SL!Parent, "f">>), In(<<"x">>)}
IdLists == {<<SL!Item("computer", ""), SL!Item("drive", SL!Drive), SL!Item("file", "users"), SL!Item("file", "nomad"), SL!Item("file", "f")>>,
            <<SL!Item("user files", ""), SL!Item("child", "nomad"), SL!Item("file", "f")>>,
            <<SL!Item("user files", ""), SL!Item("child", "nomad"), SL!Item("file", "g")>>,
            <<SL!Item("network", ""), SL!Item("drive", SL!Drive), SL!Item("file", "f")>>}
FolderBlock(offset, folder) == [kind |-> "anchor", offset |-> offset, folder |-> folder]
OldBlock(legacy) == [kind |-> "special", offset |-> 2, legacy |-> legacy]
Blocks == {<<>>, <<[kind |-> "tracker"]>>, <<[kind |-> "tracker"], [kind |-> "tracker"]>>, <<[kind |-> "other"]>>,
           <<FolderBlock(2, "profile")>>, <<FolderBlock(2, "downloads")>>, <<FolderBlock(3, "profile")>>,
           <<FolderBlock(2, "elsewhere")>>, <<OldBlock(40), FolderBlock(2, "profile")>>, <<OldBlock(5), FolderBlock(2, "profile")>>,
           <<OldBlock(40)>>}
Shortcuts == [plain : Flag, ids : {<<>>} \cup {<<i>> : i \in IdLists}, blocks : Blocks,
              info : {<<>>} \cup [1..1 -> [ansi : Stated, unicode : UpTo({In(<<"f">>), In(<<"g">>)}, 1), local : Flag]],
              relative : {<<>>, <<<<SL!Parent, "nomad", "f">>>>, <<<<SL!Parent, "nomad", "g">>>>, <<In(<<"f">>)>>},
              untracked : Flag, terminated : Flag, windows : {SL!Nowhere, In(<<"f">>), In(<<"g">>)}]
Plausible(link) == link.plain \/ link.relative = <<>>   \* one refusal at a time is enough

DrawShortcut == \E link \in Shortcuts : Plausible(link) /\ sample' = [kind |-> "shortcut", link |-> link]

-----------------------------------------------------------------------------
(* Inputs: configuration, signatures, replies.                              *)

DrawName == \E name \in UpTo(CF!Words \cup CF!Chars, 3) : sample' = [kind |-> "name", name |-> name]

DrawConfig == \E text \in CF!LeftBehind : sample' = [kind |-> "config", file |-> text]

Bytes == {"p", "q"}
Keys == {"k1", "k2", "k3"}
DrawSignature ==
    \E package \in Bytes \cup {"unreadable"}, key \in [primary : {"k1"}, subkeys : SUBSET {"k2"}],
       signature \in [by : Keys, over : Bytes, coding : {"armored", "binary", "other", "unreadable"}] :
        sample' = [kind |-> "signature", package |-> package, key |-> key, signature |-> signature]

DrawExecutable ==
    \E program \in [signed : Flag, trusted : Flag, revoked : Flag, subject : {"", "V", "W"}], expected \in {"", "V"}, online \in Flag :
        sample' = [kind |-> "executable", program |-> program, expected |-> expected, online |-> online]

DrawReply == \E chunks \in UpTo(1..3, 3), declared \in -1..5, limit \in 0..5 :
    sample' = [kind |-> "reply", chunks |-> chunks, declared |-> declared, limit |-> limit]

DrawRedirects == \E chain \in UpTo({"http", "https"}, 5) \ {<<>>} : sample' = [kind |-> "redirects", chain |-> chain]

-----------------------------------------------------------------------------
(* Inputs: PAK archives and icons.                                          *)

Image(dims, shows, coding) == [dims |-> dims, shows |-> shows, coding |-> coding]
Text == Image(0, "text", "none")
Cells == {Text, Image(3, "up", "rgba"), Image(1, "up", "indexed"), Image(1, "odd", "rgba"), Image(1, "up", "rgb")}
         \cup {Image(d, s, "rgba") : d \in {1, 2}, s \in {"up", "own"}}
LogoPatch(dims) == [expected |-> <<Image(dims, "up", "rgba")>>, png |-> <<Image(dims, "own", "rgba")>>]

\* One cell to a resource; and small tables of all kinds over few cells.
Plain(body, aliases) ==
    LET head == OV!DataStart(Len(body), Len(aliases))
    IN  [whole |-> TRUE, version |-> 5, aliases |-> aliases, body |-> body, end |-> head + Len(body),
         entries |-> [i \in DOMAIN body |-> [id |-> i, off |-> head + i - 1]]]
Aliases == {<<>>, <<[id |-> 9, of |-> 0]>>, <<[id |-> 9, of |-> 1]>>}
PlainPaks == {Plain(body, aliases) : body \in UpTo(Cells, 3), aliases \in Aliases}
OddPaks == [whole : {TRUE}, version : {5}, aliases : Aliases, entries : UpTo([id : 0..2, off : 1..5], 2), end : 2..6,
            body : {<<>>, <<Image(1, "up", "rgba")>>, <<Text, Image(1, "own", "rgba")>>}]
           \cup {[Plain(<<Image(1, "up", "rgba")>>, <<>>) EXCEPT !.whole = w, !.version = v] : w \in Flag, v \in 4..6}

\* A program's own icon, under an id below the reserved ones, and whatever
\* else it has; icons of up to three frames for up to two groups.
Programs == {[key \in {OV!Icon(0)} |-> <<"theirs">>],
             [key \in {OV!Icon(0), OV!Icon(2), OV!Group(7), OV!Group(8)} |->
                IF key.type = "icon" THEN <<"theirs">> ELSE <<[frame |-> "theirs", id |-> 0]>>],
             [key \in {OV!Icon(0), [OV!Group(7) EXCEPT !.lang = "de"]} |->
                IF key.type = "icon" THEN <<"theirs">> ELSE <<[frame |-> "theirs", id |-> 0]>>]}
Ico(frames) == [count |-> Len(frames), length |-> Len(frames),
                entries |-> [i \in DOMAIN frames |-> [off |-> i - 1, size |-> 1, frame |-> frames[i]]]]
Icos == {Ico(frames) : frames \in UpTo({"f", "g"}, 3)}
        \cup {[Ico(<<"f">>) EXCEPT !.count = 2], [Ico(<<"f", "g">>) EXCEPT !.length = 1]}

DrawPak ==
    \/ \E pak \in PlainPaks : sample' = [kind |-> "pak", pak |-> pak, patches |-> <<LogoPatch(1), LogoPatch(2)>>]
    \/ \E pak \in PlainPaks \cup OddPaks : sample' = [kind |-> "pak", pak |-> pak, patches |-> <<LogoPatch(1)>>]

DrawIcons == \E program \in Programs, icons \in UpTo([group : {7, 9}, ico : Icos], 2) :
    sample' = [kind |-> "icons", program |-> program, icons |-> icons]

-----------------------------------------------------------------------------
Draw ==
    \/ DrawLink
    \/ DrawWatcher
    \/ DrawLaunch
    \/ DrawFence
    \/ DrawDocument
    \/ DrawPreparation
    \/ DrawReminder
    \/ DrawVersions
    \/ DrawRelease
    \/ DrawArchive
    \/ DrawRaw
    \/ DrawCommand
    \/ DrawShortcut
    \/ DrawName
    \/ DrawConfig
    \/ DrawSignature
    \/ DrawExecutable
    \/ DrawReply
    \/ DrawRedirects
    \/ DrawPak
    \/ DrawIcons

-----------------------------------------------------------------------------
(* Command lines.                                                           *)

\* However a link is split into arguments, the command Nomad registers never
\* becomes one of the launcher's own operations (registration, cleanup), and
\* what it opens is one argument that no browser takes for a switch.
LinkOpensOneTarget ==
    Of("link") =>
        /\ CL!OpensOneTarget(sample.argv)
        /\ Len(sample.argv) = 2 /\ sample.argv[2] \in CL!Targets \cup CL!Numbers => CL!Dispatch(sample.argv).op = "launch"

\* The launcher started as a watcher understands what the launcher that
\* started it wrote: the pid and the executable it is to watch, what to clear.
WatcherUnderstood ==
    Of("watcher") =>
        CL!Dispatch(CL!WatcherArgs("7", sample.exe, sample.config)) =
            [op |-> "cleanup", pid |-> "7", exe |-> sample.exe,
             thumbs |-> sample.config.thumbs, recover |-> sample.config.recover]

\* Every feature that is asked for is in effect, and none else
\* (CommandLine!AllInEffect).
FeaturesAddUp == Of("launch") => CL!AllInEffect(sample.browser, sample.config, sample.target)

\* A switch of the user's own is the one in effect
\* (CommandLine!UsersInEffect); the target stays the target.
UserSwitchWins ==
    Of("launch") =>
        /\ CL!UsersInEffect(sample.browser, sample.config, sample.target)
        /\ LET args == CL!CommandArgs(sample.browser, sample.config, sample.target)
           IN  Len(SelectSeq(args, LAMBDA a : a.switch = "target")) = Len(sample.target)

-----------------------------------------------------------------------------
(* Settings files.                                                          *)

\* The lines of the user's own (Settings!LinesKept).
UserLinesKept ==
    Of("fence") => \A old \in {<<"managed">>, <<"old", "older">>} : ST!LinesKept(sample.text, old, <<"managed">>)

\* JSON documents, after a launch that merged into them
\* (Settings!LockedHold, UserSettingsKept and OneOptionPerFlag).
LockedHold == Of("json") => ST!LockedHold(sample.file, sample.defaults)
UserSettingsKept == Of("json") => ST!UserSettingsKept(sample.file, sample.defaults)
OneOptionPerFlag == Of("json") => ST!OneOptionPerFlag(sample.file, sample.defaults)

\* What a launch that goes on finds in the browser's folder depends on the
\* configuration of that launch alone: not on an earlier launch with another
\* configuration, nor on the step it failed in.
SettingsConverge ==
    Of("prepare") =>
        LET before == ST!Prepare(sample.files, sample.adapter, sample.old, sample.failing).doc
            so == ST!Prepare(before, sample.adapter, sample.config, "none")
            hardened == sample.config.enabled /\ sample.adapter.engine = "gecko"
            fence == IF hardened /\ sample.adapter.userJs
                     THEN <<ST!FenceBegin>> \o ST!UserJsPayload(sample.config) \o <<ST!FenceEnd>> ELSE <<>>
            Managed(text) == SelectSeq(text, LAMBDA line : line \notin {"mine", ST!Blank})
        IN  so.ok /\ sample.adapter.engine = "gecko" =>
              /\ Managed(so.doc.userJs) = fence
              /\ SelectSeq(so.doc.userJs, LAMBDA line : line = "mine")
                    = SelectSeq(sample.files.userJs, LAMBDA line : line = "mine")
              /\ sample.adapter.autoconfig => so.doc.pointer = hardened /\ so.doc.cfg = hardened
              /\ hardened /\ sample.adapter.policies =>
                    so.doc.policies = IF sample.files.xpi THEN "with xpi" ELSE "managed"

-----------------------------------------------------------------------------
(* Reminders.                                                               *)

\* A link opens without a question only if the user answered one within the
\* last day, or if within the last week, by a clock that has not been set back
\* since, the browser installed was found to be the newest for its target and
\* a managed extension to be the newest one.
QuietLinksAreCurrent ==
    Of("reminder") =>
        LET s == sample
            Within(at, age) == at # 0 /\ at \in (Now - age + 1)..Now
        IN  VC!Silent(s.cache, s.check, s.ack, s.installed, "x64", s.managed, Now) =>
              \/ Within(s.ack, 2)
              \/ /\ Within(s.cache.at, 3) /\ s.installed = [version |-> s.cache.version, target |-> "x64"]
                 /\ s.managed => Within(s.check.at, 3) /\ s.cache.ubo = s.check.version

-----------------------------------------------------------------------------
(* Releases, versions and archives.                                         *)

\* No chain of updates leads to an older version (Releases!NoDowngrade).
NoDowngradeThrough == Of("versions") => RL!NoDowngrade(sample.a, sample.b, sample.c)

\* The bytes that pass are the package that was chosen, whatever the release of
\* a vendor lists (Releases!ChosenTrusted); the releases drawn are a sincere
\* vendor's.
TrustedIsChosen ==
    Of("release") =>
        LET release == [tag |-> <<1>>, assets |-> sample.assets] IN
        /\ RL!Sincere(sample.family, release, sample.arch, sample.hashes)
        /\ RL!ChosenTrusted(sample.family, release, sample.arch, sample.hashes, sample.came)

\* An archive's files land inside the stage, within the budget; an archive of
\* ordinary names loses no file of them, only the directory they all share.
ExtractedInside ==
    Of("archive") =>
        LET zip == AR!ExtractZip(sample.entries, 3)
            names == {sample.entries[i].name : i \in DOMAIN sample.entries}
            files == {name \in names : ~AR!IsDirectory(name)}
            Ordinary(name) == /\ ToSet(AR!Path(name)) \cap {AR!Parent, AR!Drive} = {}
                              /\ name \in {AR!Path(name), Append(AR!Path(name), AR!Empty)}
                              /\ ~\E other \in names : IsStrictPrefix(name, other)
            shared == \E c \in {"a", "b"} : \A name \in names : name[1] = c /\ Len(name) > 1
        IN  /\ AR!Landed(sample.entries, 3)
            /\ zip.ok /\ (\A name \in names : Ordinary(name)) =>
                  {path \in DOMAIN zip.tree : zip.tree[path].kind = "file"}
                      = IF shared THEN {Tail(name) : name \in files} ELSE files

\* The stage made from an installer is valid when the browser's directory has
\* all of its runtime, wherever the installer keeps it, and a stage that is
\* valid has the runtime of one directory, beside its executable.
StageIsOneBuild ==
    Of("raw") =>
        LET raw == sample.tree
            whole(dir) == \A p \in {<<"browser.exe">>} \cup AR!GeckoRuntime : dir \o p \in DOMAIN raw
        IN  /\ \A stage \in AR!UnpackInstaller(raw, "browser.exe") :
                  AR!ValidLayout(stage, <<"browser.exe">>, "gecko") =>
                     \E dir \in {<<>>, <<"core">>, <<"setup">>} : \A p \in DOMAIN stage : stage[p].from = dir \o p
            /\ \A dir \in AR!MarkerDirs(raw, "browser.exe") : whole(dir) =>
                  \E stage \in AR!UnpackInstaller(raw, "browser.exe") : AR!ValidLayout(stage, <<"browser.exe">>, "gecko")

-----------------------------------------------------------------------------
(* Open commands and shortcuts.                                             *)

Plainly(path) == FoldLeft(LAMBDA so, name : IF name = OC!Parent THEN Front(so) ELSE Append(so, name), <<>>, path)

\* A command taken for the browser's own starts nothing but a file inside the
\* install, however Windows reads it: an unquoted path with a space in it may
\* be two paths.  And what is taken was looked for, and is never a key that
\* unregistering deletes (original_allowed, command_key).
OnlyOwnCommands ==
    Of("command") =>
        LET c == sample.command
            tries == {c.exe, OC!CommandExe(c)}
        IN  /\ OC!OriginalAllowed(sample.key, c) =>
                  /\ \A path \in tries : IsStrictPrefix(OC!Install, Plainly(path)) /\ "link" \notin ToSet(path)
                  /\ OC!Swept({sample.key}) # {}
            /\ OC!Swept({sample.key}) # {} => OC!CommandKey(sample.key) # "no" /\ ~OC!NomadOwned(sample.key)

\* A rerouted command opens what the browser's own would have opened: the link
\* it is given, or a window; and it is not taken for the browser's own again,
\* so that a sweep of what a sweep left changes nothing (replacement).
RoutedAsBefore ==
    Of("command") /\ OC!OriginalAllowed(sample.key, sample.command) =>
        LET new == OC!Replacement(sample.key)
            link == SelectSeq(sample.command.args, LAMBDA a : a \in OC!Placeholders)
            given == [i \in DOMAIN new.args |-> IF new.args[i] \in OC!Placeholders THEN "url" ELSE new.args[i]]
        IN  /\ CL!Dispatch(given) = [op |-> "launch", target |-> [i \in DOMAIN link |-> "url"]]
            /\ ~OC!OriginalAllowed(sample.key, new)

Real(path) == IF SL!Behind(path) THEN SL!Nowhere ELSE SL!LexicalPath(path)

\* A shortcut is one of this folder's only if everything it states, and what
\* Windows would open, is the same existing file in it; one that was written
\* in full for such a file is recognised, in each of its forms (owned_target,
\* ShellLink!OneFile).
LinkNamesOneFile ==
    Of("shortcut") =>
        LET link == sample.link
            target == SL!OwnedTarget(link)
        IN  /\ SL!OneFile(link)
            /\ /\ link.plain /\ link.ids \in {<<i>> : i \in IdLists} /\ link.windows \in SL!Files
               /\ \A path \in SL!Stated(link) : Real(path) = link.windows
               /\ \A i \in DOMAIN link.info : link.info[i].local
               /\ link.blocks = <<>> \/ (link.terminated /\ link.blocks = <<[kind |-> "tracker"]>>)
               => target = link.windows

-----------------------------------------------------------------------------
(* Configuration, signatures, replies.                                      *)

\* The browser's folder, as Windows takes its name, is a folder of its own in
\* the portable one: not the launcher's, the profile's or a device
\* (valid_install_dir_name).
FolderIsAChild ==
    Of("name") /\ CF!ValidInstallDirName(sample.name) =>
        LET taken == CF!TrimEnd(sample.name, {".", " "})
            device == \E n \in 1..Len(taken) :
                          /\ n = Len(taken) \/ taken[n + 1] = "."
                          /\ CF!TrimEnd(SubSeq(taken, 1, n), {" "}) \in {<<d>> : d \in CF!Devices}
        IN  /\ taken # <<>> /\ ToSet(taken) \cap CF!Separators = {}
            /\ taken \notin {<<"Data">>, <<"data">>, <<"Nomad">>}
            /\ ~device

\* The file of a first run is not written in one piece.  What a death leaves
\* of it is refused, or means what the whole would have: but for the language
\* (load_or_init, the defaults of each field and each section).
TornDefaultsAgree ==
    Of("config") =>
        LET whole == CF!Parse(CF!DefaultText)
            so == CF!LoadOrInit(sample.file)
        IN  so.ok => [so.settings EXCEPT !.launch.language = "en-US"] = whole.settings

\* A package passes with a signature over it that the vendor's key made, or a
\* subkey of it, and every such signature passes, in text or in bytes: a vendor
\* that signs with a subkey is not locked out (verify_bytes).
SignedByKey ==
    Of("signature") =>
        LET s == sample IN
        SG!Verify(s.package, s.signature, s.key) <=>
            /\ s.package = s.signature.over /\ s.signature.by \in {s.key.primary} \cup s.key.subkeys
            /\ s.signature.coding \in {"armored", "binary"}

\* Being offline excuses a missing answer about revocation and nothing else
\* (win_verify_trust, verify_signed_by).
RevokedRefused ==
    Of("executable") =>
        LET s == sample IN
        SG!VerifySignedBy(s.program, s.expected, s.online) <=>
            /\ s.program.signed /\ s.program.trusted /\ s.program.subject = s.expected /\ s.expected # ""
            /\ s.program.revoked => ~s.online

\* Replies are cut off at their limit (Replies).
RepliesBounded ==
    Of("reply") => RP!Bounded(sample.chunks, sample.declared, sample.limit)

\* Redirects are followed up to their limit and never into the clear (Replies).
RedirectsFollowed == Of("redirects") => RP!Followed(sample.chain)

-----------------------------------------------------------------------------
(* Overlays.                                                                *)

\* An archive that is called complete is one that can be read, with every logo
\* once in it and each other resource and alias as it was, whatever number a
\* logo has; done again, nothing changes: an overlay that a death broke off
\* can be applied once more.  One that is not complete is not changed in part
\* (rebuild_pak_with, apply_logo_patches, encode_pak).
OnlyLogosChange ==
    Of("pak") =>
        LET so == OV!RebuildPak(sample.pak, sample.patches)
            again == OV!RebuildPak(so.pak, sample.patches)
            renumbered == OV!RebuildPak([sample.pak EXCEPT !.entries = [i \in DOMAIN sample.pak.entries |->
                                             [id |-> 5 * sample.pak.entries[i].id, off |-> sample.pak.entries[i].off]]], sample.patches)
            old == OV!Resources(sample.pak)
            new == OV!Resources(so.pak)
            Logo(data) == \E k \in DOMAIN sample.patches, dims \in {1, 2} :
                             /\ sample.patches[k].png[1].dims = dims /\ data # <<>>
                             /\ data[1] \in [dims : {dims}, shows : {"up", "own"}, coding : {"rgb", "rgba"}]
        IN  /\ so.ok => /\ OV!Valid(so.pak) /\ so.pak.aliases = sample.pak.aliases
                        /\ [i \in DOMAIN new |-> new[i].id] = [i \in DOMAIN old |-> old[i].id]
                        /\ \A i \in DOMAIN old : new[i] # old[i] => so.complete /\ Logo(old[i].data)
            /\ so.ok /\ so.complete =>
                  /\ \A k \in DOMAIN sample.patches :
                        Cardinality({i \in DOMAIN new : Logo(new[i].data) /\ new[i].data = sample.patches[k].png}) = 1
                  /\ again.ok /\ again.complete /\ again.pak = so.pak
            /\ renumbered.complete = so.complete

\* A program that is said to carry the icons shows, for each group, the frames
\* of its icon in their order; icons that can be read, and do not outgrow the
\* ids reserved for a group, always come to that.  Everything else in the
\* program is as it was (patch_pe_icons, verify_pe_icons).
IconsReadBack ==
    Of("icons") =>
        LET so == OV!PatchPeIcons(sample.program, sample.icons)
            icons == sample.icons
            Frames(k) == [i \in DOMAIN icons[k].ico.entries |-> <<icons[k].ico.entries[i].frame>>]
            Shown(group) == [i \in DOMAIN so.resources[group] |-> so.resources[OV!Icon(so.resources[group][i].id)]]
            sound == \A k \in DOMAIN icons : \E ico \in Icos : ico = icons[k].ico /\ ico.count = Len(ico.entries)
                                             /\ ico.length = ico.count /\ ico.count > 0
        IN  /\ so.ok => \A k \in DOMAIN icons : Shown(OV!Group(icons[k].group)) = Frames(k)
            /\ sound /\ (\A k \in DOMAIN icons : icons[k].ico.count < 3)
                    /\ (\A j, k \in DOMAIN icons : j # k => icons[j].group # icons[k].group) => so.ok
            /\ \A key \in DOMAIN sample.program :
                  \/ key.type = "icon" /\ key.name > 0
                  \/ key.type = "group" /\ key.lang = "en" /\ \E k \in DOMAIN icons : icons[k].group = key.name
                  \/ so.resources[key] = sample.program[key]
=============================================================================
