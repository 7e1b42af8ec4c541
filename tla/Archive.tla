------------------------------ MODULE Archive ------------------------------
(***************************************************************************)
(* From a downloaded archive to the tree of a staged browser (extract.rs,   *)
(* the extension's archive in extensions.rs, browsers/staged.rs).           *)
(*                                                                          *)
(* The name of an entry is a sequence of components; a name that starts at  *)
(* the root starts with the empty component, and an entry for a directory   *)
(* ends with it.  A tree is a function from paths to [kind, from]: a file   *)
(* with something in it, an empty one, a directory or a link, and where it  *)
(* came from.                                                               *)
(***************************************************************************)
EXTENDS Integers, Sequences, SequencesExt, FiniteSets

Parent == ".."
Drive == "c:"
Empty == ""

IsDirectory(name) == name # <<>> /\ Last(name) = Empty
Path(name) == FoldLeft(LAMBDA so, c : IF c = Empty THEN so ELSE Append(so, c), <<>>, name)

\* Where files of a tree are below path, and the tree without them.
Under(tree, path) == {p \in DOMAIN tree : IsPrefix(path, p)}
Without(tree, paths) == [p \in DOMAIN tree \ paths |-> tree[p]]

-----------------------------------------------------------------------------
(* Zip archives.  An entry is [name, size].                                 *)

\* The first component all names share; it also may be that of a lone file.
CommonTopDir(names) ==
    IF names = <<>> \/ names[1] = <<>> \/ Empty = names[1][1]
       \/ \E i \in DOMAIN names : names[i] = <<>> \/ names[i][1] # names[1][1]
    THEN <<>> ELSE <<names[1][1]>>

Stripped(name, prefix) ==
    IF prefix # <<>> /\ Len(name) > 1 /\ IsPrefix(prefix, name)
    THEN SubSeq(name, Len(prefix) + 1, Len(name)) ELSE name

\* Mutant: only names that climb are skipped.
SkippedClimbing(name, prefix) == Parent \in ToSet(name)

\* Entries of the archive that are not extracted: names that climb or start at
\* the root, and, once the prefix is gone, names with a drive or nothing left.
Skipped(name, prefix) ==
    \/ Parent \in ToSet(name)
    \/ name[1] = Empty
    \/ Path(Stripped(name, prefix)) = <<>>
    \/ Path(Stripped(name, prefix))[1] = Drive

\* The tree once an entry is written. A later file of the same path replaces
\* the earlier one; a file where a directory is needed, a directory where a
\* file is, and the first byte past the budget (copy_entry_capped) fail.
Written(so, entry, path) ==
    LET kind == IF IsDirectory(entry.name) THEN "dir" ELSE "file"
        Dirs(q) == q \in DOMAIN so.tree => so.tree[q].kind = "dir"
        clash == \/ \E q \in DOMAIN so.tree : IsStrictPrefix(q, path) /\ ~Dirs(q)
                 \/ kind = "dir" /\ ~Dirs(path)
                 \/ kind = "file" /\ Under(so.tree, path) \ {path} # {}
                 \/ kind = "file" /\ path \in DOMAIN so.tree /\ Dirs(path)
    IN  IF clash \/ (kind = "file" /\ entry.size > so.left) THEN [so EXCEPT !.ok = FALSE]
        ELSE [so EXCEPT !.tree = [q \in DOMAIN @ \cup {path} |->
                                     IF q = path THEN [kind |-> kind, from |-> entry.name] ELSE @[q]],
                        !.left = IF kind = "file" THEN @ - entry.size ELSE @]

Extract(entries, prefix, budget, Skip(_)) ==
    LET Take(so, entry) == IF ~so.ok \/ Skip(entry.name) THEN so
                           ELSE Written(so, entry, Path(Stripped(entry.name, prefix)))
    IN  FoldLeft(Take, [ok |-> TRUE, tree |-> <<>>, left |-> budget], entries)

Names(entries) == [i \in DOMAIN entries |-> entries[i].name]

ExtractZip(entries, budget) ==
    LET prefix == CommonTopDir(Names(entries)) IN
    Extract(entries, prefix, budget, LAMBDA name : Skipped(name, prefix))

-----------------------------------------------------------------------------
(* Installers.  7-Zip leaves a raw tree; the directory that holds the       *)
(* browser becomes the stage.                                               *)

Junk == {"uninstall.exe"}
Extras == {"updater.exe", "pingsender.exe"}

\* find_marker_dir: a directory that holds the executable and has no directory
\* above it that does; which of two is a matter of listing order.
MarkerDirs(raw, marker) ==
    LET holds == {Front(p) : p \in {q \in DOMAIN raw : Last(q) = marker}} IN
    {d \in holds : ~\E e \in holds : IsStrictPrefix(e, d)}

\* Mutant: only the files beside the executable are moved.
FlattenFiles(raw, dir) ==
    LET moved == {p \in Under(raw, dir) : Len(p) = Len(dir) + 1} IN
    [p \in {SubSeq(q, Len(dir) + 1, Len(q)) : q \in moved} |-> raw[dir \o p]]

\* flatten_into an empty stage; what is left of the raw tree is removed.
Flatten(raw, dir) ==
    [p \in {SubSeq(q, Len(dir) + 1, Len(q)) : q \in Under(raw, dir)} |-> raw[dir \o p]]

Strip(tree, names) == Without(tree, {p \in DOMAIN tree : p[1] \in names})

\* extract_nsis_with_7zip and strip_mozilla_runtime_extras, once 7-Zip is done.
UnpackInstaller(raw, marker) ==
    {Strip(Flatten(raw, dir), Junk \cup Extras) : dir \in MarkerDirs(raw, marker)}

\* promote_subdir: entries whose name is taken at the root stay behind.
Promote(tree, subdir) ==
    LET taken == {p[1] : p \in DOMAIN tree \ Under(tree, <<subdir>>)} \cup {subdir}
        moved == {p \in Under(tree, <<subdir>>) : Len(p) > 1 /\ p[2] \notin taken}
    IN  [p \in (DOMAIN tree \ moved) \cup {Tail(q) : q \in moved} |->
            IF p \in DOMAIN tree /\ p \notin moved THEN tree[p] ELSE tree[<<subdir>> \o p]]

\* LibreWolf's portable archive: the wrappers go, the nested browser comes up.
UnpackPortable(tree) ==
    Strip(Promote(Strip(tree, {"wrapper.exe", "Profiles"}), "LibreWolf"), Extras)

-----------------------------------------------------------------------------
(* Layout of a staged browser.                                              *)

GeckoRuntime == {<<"xul.dll">>, <<"browser", "omni.ja">>}
ChromiumRuntime == {<<"chrome.dll">>, <<"resources.pak">>}

Runtime(engine) == IF engine = "gecko" THEN GeckoRuntime ELSE ChromiumRuntime

\* An adapter names its executable: one component, no separator.
DeclaredExecutable(executable) == Len(executable) = 1 /\ executable[1] \notin {Empty, Parent, Drive}

\* Every critical file is an ordinary one with something in it, and its
\* parents ordinary directories; links are refused on the way.
ValidLayout(tree, executable, engine) ==
    /\ DeclaredExecutable(executable)
    /\ \A path \in {executable} \cup Runtime(engine) :
          /\ path \in DOMAIN tree
          /\ tree[path].kind = "file"
          /\ \A p \in DOMAIN tree : IsStrictPrefix(p, path) => tree[p].kind = "dir"

-----------------------------------------------------------------------------
(* The extension's archive.                                                 *)

\* detect_top_prefix: like CommonTopDir, but only when there is a slash.
ExtensionPrefix(names) ==
    IF \E i \in DOMAIN names : Len(names[i]) < 2 THEN <<>> ELSE CommonTopDir(names)

\* A second slash after the prefix is a name that starts at the root here.
ExtractExtensionZip(entries, budget) ==
    LET prefix == ExtensionPrefix(Names(entries)) IN
    Extract(entries, prefix, budget,
            LAMBDA name : Skipped(name, prefix) \/ Stripped(name, prefix)[1] = Empty)

-----------------------------------------------------------------------------
(* What extraction promises, of any archive.                                *)

\* Every path is inside the stage: it has components, none of which climbs,
\* and starts with no drive.
Inside(tree) ==
    \A path \in DOMAIN tree :
        /\ path # <<>> /\ path[1] # Drive
        /\ ToSet(path) \cap {Parent, Empty} = {}

\* What is above an entry is a directory.
Nested(tree) == \A p, q \in DOMAIN tree : IsStrictPrefix(p, q) => tree[p].kind = "dir"

\* Whatever names an archive has, and however its extraction ends, what is
\* written lands inside the stage, within the budget, and no file takes the
\* place of a directory with something in it (is_safe_zip_path,
\* copy_entry_capped).
Landed(entries, budget) ==
    \A so \in {ExtractZip(entries, budget), ExtractExtensionZip(entries, budget)} :
        Inside(so.tree) /\ Nested(so.tree) /\ so.left \in 0..budget
=============================================================================
