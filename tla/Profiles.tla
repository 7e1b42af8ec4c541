------------------------------ MODULE Profiles ------------------------------
(***************************************************************************)
(* A portable profile through launches with changing settings, builds and   *)
(* sessions: what each family puts on the command line                      *)
(* (browsers/*.rs), what preparation writes into the profile before the     *)
(* browser opens it, and what the browser does with both.                   *)
(***************************************************************************)
EXTENDS CommandLine

VARIABLES
    family,    \* of the launcher
    settings,  \* [enabled, extra]: nomad.toml
    build,     \* [reviewed, layout]: the installed browser
    initial,   \* [there, updates]: initial_preferences beside it
    profile,   \* [prefs, updates, devmode, fresh, apps]: Data
    start      \* [phase, args, updates, reviewed]: the launch under way

profileVars == <<family, settings, build, initial, profile, start>>

-----------------------------------------------------------------------------
(* Command lines.                                                           *)

Lone(name, value) == Switch(name, {value})

\* How Chromium stores a profile: never a matter of hardening.
PortabilityFlags == <<Lone("machine-id", "off"), Lone("encryption", "off"),
                      Switch("disable-features", {"DeviceBoundSessions"})>>

UngoogledFlags == <<Lone("component-update", "off"),
                    Switch("disable-features", {"JumpList", "DeviceBoundSessions"}),
                    Lone("webrtc", "public"), Switch("features", {"MinimalReferrers"})>>

HeliumFlags == Tail(UngoogledFlags)

Browser == [engine |-> IF family = "gecko" THEN "gecko" ELSE "chromium",
            noise  |-> family = "helium",
            flags  |-> CASE family = "ungoogled" -> UngoogledFlags
                         [] family = "helium"    -> HeliumFlags
                         [] OTHER                -> <<>>]

Config == [enabled |-> settings.enabled, clearData |-> FALSE, reduceInfo |-> FALSE, noWebrtc |-> FALSE,
           incognito |-> FALSE, language |-> "", extra |-> settings.extra]

\* component_updates_supported: an unreviewed build, or one with parts missing.
ComponentsSupported == build.reviewed /\ build.layout

\* Mutant: Nomad's own file is taken for a first run that is over.
FirstRunOverSeeded == profile.prefs # "none"

\* The browser has been through its first run: only it writes Secure
\* Preferences, and only Helium's default apps end in state 3.
FirstRunOver == IF family = "helium" THEN profile.apps ELSE ~profile.fresh

\* Mutant: storage switches are left to the hardening toggle (issue 38).
StorageArgsToggled == When(settings.enabled, PortabilityFlags)

StorageArgs == PortabilityFlags

GeckoCommand(args) == <<Lone("profile", "Data")>> \o args

UngoogledCommand(args) ==
    <<Lone("profile", "Data")>> \o StorageArgs
    \o When(FirstRunOver, <<Lone("first-run", "off")>>) \o args

HeliumCommand(args) ==
    <<Lone("profile", "Data")>> \o StorageArgs
    \o When(~ComponentsSupported, <<Lone("component-update", "off")>>)
    \o When(FirstRunOver, <<Lone("first-run", "off")>>) \o args

LaunchCommand(args) ==
    CASE family = "gecko"     -> GeckoCommand(args)
      [] family = "ungoogled" -> UngoogledCommand(args)
      [] family = "helium"    -> HeliumCommand(args)

-----------------------------------------------------------------------------

NoInitial == [there |-> FALSE, updates |-> "absent"]
NewProfile == [prefs |-> "none", updates |-> "absent", devmode |-> FALSE, fresh |-> TRUE, apps |-> FALSE]
NoStart == [phase |-> "off", args |-> <<>>, updates |-> "absent", reviewed |-> FALSE]

\* Extra arguments a user may have configured; the last is for the profile
\* store, and the user's word on it is final.
Extras == {<<>>, <<Switch("features", {"U"})>>, <<Switch("disable-features", {"U"})>>}

ProfilesInit ==
    /\ family \in {"gecko", "ungoogled", "helium"}
    /\ settings \in [enabled : BOOLEAN, extra : Extras]
    /\ build = [reviewed |-> FALSE, layout |-> TRUE]
    /\ initial = NoInitial
    /\ profile = NewProfile
    /\ start = NoStart

At(phase) == start.phase = phase
Goto(phase) == start' = [start EXCEPT !.phase = phase]

-----------------------------------------------------------------------------
(* Between launches.                                                        *)

Configure ==
    /\ At("off")
    /\ settings' \in [enabled : BOOLEAN, extra : {settings.extra}]
    /\ UNCHANGED <<family, build, initial, profile, start>>

\* A new bundle takes the place of the old one, and initial_preferences goes.
Update ==
    /\ At("off")
    /\ \E reviewed \in BOOLEAN : build' = [reviewed |-> reviewed, layout |-> TRUE]
    /\ initial' = NoInitial
    /\ UNCHANGED <<family, settings, profile, start>>

\* A file of the bundle goes missing; or the user starts a new profile, or
\* brings one without the preference or with one of another shape.
Disturb ==
    /\ At("off")
    /\ \/ build' = [build EXCEPT !.layout = FALSE] /\ UNCHANGED profile
       \/ profile' = NewProfile /\ UNCHANGED build
       \/ /\ ~profile.fresh /\ UNCHANGED build
          /\ \E updates \in {"odd", "absent"} : profile' = [profile EXCEPT !.updates = updates]
    /\ UNCHANGED <<family, settings, initial, start>>

-----------------------------------------------------------------------------
(* Preparation: any step may fail, and the launch is refused.               *)

Refuse == start' = NoStart

Begin ==
    /\ At("off") /\ Goto("seed")
    /\ UNCHANGED <<family, settings, build, initial, profile>>

\* write_chromium_state creates Default/Preferences when hardening is on.
Seed ==
    /\ At("seed")
    /\ \/ Refuse /\ UNCHANGED profile
       \/ /\ Goto("initial")
          /\ profile' = IF settings.enabled /\ family # "gecko" THEN [profile EXCEPT !.prefs = "there"] ELSE profile
    /\ UNCHANGED <<family, settings, build, initial>>

\* The template of new profiles is written again on every launch; Helium's
\* says whether the browser may update.
WriteInitial ==
    /\ At("initial")
    /\ \/ Refuse /\ UNCHANGED initial
       \/ /\ ~(family = "helium" /\ build.reviewed /\ ~build.layout)
          /\ Goto("existing")
          /\ initial' = CASE family = "gecko"     -> initial
                          [] family = "ungoogled" -> [there |-> TRUE, updates |-> "absent"]
                          [] OTHER -> [there |-> TRUE, updates |-> IF ComponentsSupported THEN "on" ELSE "off"]
    /\ UNCHANGED <<family, settings, build, profile>>

\* Mutant: a profile without the setting is left as it is.
ConfigureExistingPresent ==
    /\ At("existing")
    /\ Goto("spawn")
    /\ profile' = IF family = "helium" /\ ~ComponentsSupported /\ profile.updates # "absent"
                  THEN [profile EXCEPT !.updates = "off"] ELSE profile
    /\ UNCHANGED <<family, settings, build, initial>>

\* Mutant: a reviewed build has its updates turned on.
ConfigureExistingEnabled ==
    /\ At("existing")
    /\ Goto("spawn")
    /\ profile' = IF family # "helium" \/ profile.prefs = "none" THEN profile
                  ELSE [profile EXCEPT !.updates = IF ComponentsSupported THEN "on" ELSE "off"]
    /\ UNCHANGED <<family, settings, build, initial>>

\* configure_existing_profile_updates: blocked builds have the preference
\* turned off, reviewed ones leave every byte of the user's choice alone.
ConfigureExisting ==
    /\ At("existing")
    /\ LET there == family = "helium" /\ profile.prefs # "none" IN
       \/ Refuse /\ UNCHANGED profile
       \/ ~there /\ Goto("spawn") /\ UNCHANGED profile
       \/ there /\ ComponentsSupported /\ profile.updates # "odd" /\ Goto("spawn") /\ UNCHANGED profile
       \/ there /\ ~ComponentsSupported /\ Goto("spawn") /\ profile' = [profile EXCEPT !.updates = "off"]
    /\ UNCHANGED <<family, settings, build, initial>>

-----------------------------------------------------------------------------
(* The browser. In the first run of a profile, if it is not suppressed, it  *)
(* takes over initial_preferences, and Helium its default apps.             *)

Spawn ==
    /\ At("spawn")
    /\ LET args == LaunchCommand(BuildLaunchArgs(Browser, Config))
           pipeline == Effective(args, "first-run") = {}
           takes == profile.fresh /\ pipeline /\ initial.there
           updates == IF takes /\ profile.updates = "absent" THEN initial.updates ELSE profile.updates
       IN  /\ start' = [phase |-> "running", args |-> args, updates |-> updates, reviewed |-> ComponentsSupported]
           /\ \E apps \in {profile.apps, profile.apps \/ pipeline} :
                profile' = [prefs |-> "there", updates |-> updates, devmode |-> profile.devmode \/ takes,
                            fresh |-> FALSE, apps |-> apps]
    /\ UNCHANGED <<family, settings, build, initial>>

\* In the running browser the user says whether it may update.
Choose ==
    /\ At("running") /\ family = "helium"
    /\ \E updates \in {"on", "off"} : profile' = [profile EXCEPT !.updates = updates]
    /\ UNCHANGED <<family, settings, build, initial, start>>

Close ==
    /\ At("running") /\ Refuse
    /\ UNCHANGED <<family, settings, build, initial, profile>>

ProfilesNext ==
    \/ Configure \/ Update \/ Disturb
    \/ Begin \/ Seed \/ WriteInitial \/ ConfigureExisting
    \/ Spawn \/ Choose \/ Close

-----------------------------------------------------------------------------
(* Properties.                                                              *)

\* Every launch opens the portable profile, and stores it the same way,
\* whatever was toggled since the last one: cookies and extensions of one
\* launch are readable in the next. Only the user's own switch changes that.
StorageStable ==
    At("running") =>
        /\ Effective(start.args, "profile") = {"Data"}
        /\ family # "gecko" /\ (\A i \in DOMAIN settings.extra : settings.extra[i].switch # "disable-features") =>
              /\ Effective(start.args, "machine-id") = {"off"}
              /\ Effective(start.args, "encryption") = {"off"}
              /\ "DeviceBoundSessions" \in Effective(start.args, "disable-features")

\* A Helium that was not reviewed starts with its updater off and without
\* component access, whatever the profile allowed under an earlier build, and
\* whether the profile is new, seeded or the user's old one.
NoUnreviewedUpdater ==
    At("running") /\ family = "helium" /\ ~start.reviewed =>
        /\ start.updates = "off"
        /\ Effective(start.args, "component-update") = {"off"}

\* What the user said no to is only allowed again by the user, or with a new
\* profile.
ConsentKept ==
    [][profile.updates = "off" /\ profile'.updates = "on" => Choose]_profileVars

\* A profile that has been through its first run got what Nomad prepared for
\* new profiles: no launch, complete or not, uses that run up.
FirstRunSeeded == ~profile.fresh /\ family # "gecko" => profile.devmode
=============================================================================
