---------------------------- MODULE OpenCommands ----------------------------
(***************************************************************************)
(* Which open commands of the registry a sweep takes for those of its own   *)
(* browser, and what it writes in their place (core/src/registry.rs,        *)
(* core/src/registry/repair_journal.rs).  Paths are sequences of names; a   *)
(* command is a path, perhaps in quotes, and arguments.                     *)
(***************************************************************************)
EXTENDS Integers, Sequences, SequencesExt

Parent == ".."
Drive == "C:"
Spaced == "my app"      \* a name with a space, and what stands before it
BeforeSpace == "my"
Odd == {"name.", "a|b"} \* trailing dot or space, characters no file name has

Launcher == <<Drive, "nomad", "launcher.exe">>
Install == <<Drive, "nomad", "browser">>

Quoted(path, args) == [kind |-> "REG_SZ", quoted |-> TRUE, exe |-> path, args |-> args]

-----------------------------------------------------------------------------
(* Keys.                                                                    *)

Dotted == {".html", "."}
NomadKeys == {"nomadportable.x"}
IsDotted(name) == name \in Dotted

\* repair_classes_commands, repair_applications_commands and the clients of
\* repair_self_registration: the keys a sweep visits, of those that are there.
Swept(keys) ==
    {key \in keys :
        \/ key[1] = "classes" /\ Len(key) = 2 /\ ~IsDotted(key[2]) /\ key[2] \notin NomadKeys \cup {"applications"}
        \/ key[1] = "classes" /\ Len(key) = 3 /\ key[2] = "applications"
        \/ key[1] = "clients" /\ Len(key) = 2}

\* command_key: the surface a recorded key belongs to.
CommandKey(key) ==
    IF "." \in ToSet(key) THEN "no"
    ELSE IF key[1] = "classes" /\ Len(key) = 2 /\ ~IsDotted(key[2]) /\ key[2] \notin NomadKeys \cup {"applications"} THEN "class"
    ELSE IF key[1] = "classes" /\ Len(key) = 3 /\ key[2] = "applications" THEN "class"
    ELSE IF key[1] = "clients" /\ Len(key) = 2 THEN "menu"
    ELSE "no"

\* is_nomad_owned_key: the keys unregistering may delete whole.
NomadOwned(key) == key[1] = "classes" /\ Len(key) >= 2 /\ key[2] \in NomadKeys

-----------------------------------------------------------------------------
(* Commands.                                                                *)

\* Command::decode: text, whether or not it holds variables.
Decodes(command) == command.kind \in {"REG_SZ", "REG_EXPAND_SZ"}

SpaceAt(path) == SelectInSeq(path, LAMBDA name : name = Spaced)

\* command_exe: the quoted path, or all up to the first space.
CommandExe(command) ==
    IF command.quoted \/ SpaceAt(command.exe) = 0 THEN command.exe
    ELSE Append(SubSeq(command.exe, 1, SpaceAt(command.exe) - 1), BeforeSpace)

CommandTail(command) ==
    IF CommandExe(command) = command.exe THEN command.args ELSE <<"the rest">> \o command.args

Absolute(path) == path # <<>> /\ path[1] = Drive

\* Mutant: names are compared, whatever they mean.
PathIsUnderText(root, path) == Absolute(root) /\ Absolute(path) /\ IsStrictPrefix(root, path)

\* path_is_under: strictly inside, name by name, without names that mean
\* another place than they say.
PathIsUnder(root, path) ==
    /\ Absolute(root) /\ Absolute(path)
    /\ (ToSet(root) \cup ToSet(path)) \cap ({Parent} \cup Odd) = {}
    /\ IsStrictPrefix(root, path)

Placeholders == {"%1", "%L"}
Known == {"--", "--single-argument", "-osint", "-url", "-requestpending"}
Count(args, set) == Len(SelectSeq(args, LAMBDA a : a \in set))

\* original_allowed: a browser's own command, in a form it is known to write.
\* ensure_file refuses what is no ordinary file or lies behind a link.
OriginalAllowed(key, command) ==
    LET path == CommandExe(command)
        args == CommandTail(command)
    IN  /\ CommandKey(key) # "no" /\ Decodes(command)
        /\ PathIsUnder(Install, path) /\ ~\E i \in DOMAIN path : path[i] = "link"
        /\ IF CommandKey(key) = "menu" THEN args = <<>>
           ELSE ToSet(args) \subseteq Placeholders \cup Known /\ Count(args, Placeholders) = 1

\* Mutant: the two surfaces are mixed up.
ReplacementSwapped(key) ==
    IF CommandKey(key) = "menu" THEN Quoted(Launcher, <<"--", "%1">>) ELSE Quoted(Launcher, <<>>)

\* replacement: the launcher, with the link as the one thing after "--".
Replacement(key) ==
    IF CommandKey(key) = "menu" THEN Quoted(Launcher, <<>>) ELSE Quoted(Launcher, <<"--", "%1">>)
=============================================================================
