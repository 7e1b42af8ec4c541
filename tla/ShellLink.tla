------------------------------ MODULE ShellLink ------------------------------
(***************************************************************************)
(* Whose a shortcut in Recent is (core/src/shell_link.rs).  A shortcut      *)
(* states its target several times over: as a list of shell items, as local *)
(* paths in two encodings, relative to itself, as an offset from a known    *)
(* folder, and as what Windows makes of it all.  Paths are sequences of     *)
(* names; what need not be there is a sequence of at most one element.      *)
(***************************************************************************)
EXTENDS Integers, Sequences, SequencesExt, FiniteSets

Drive == "C:"
Parent == ".."
Profile == <<Drive, "users">>
Root == Append(Profile, "nomad")   \* this launcher's folder
Files == {Root \o <<"f">>, Root \o <<"g">>, Root \o <<"alias">>, Profile \o <<"f">>}
Aliases == {Root \o <<"alias">>}   \* reparse points, to a file elsewhere
LinkFolder == Append(Profile, "recent")

Nowhere == <<>>

-----------------------------------------------------------------------------
(* Paths.                                                                   *)

\* lexical_path: dots are taken away by name; a path above the drive, or one
\* that does not begin at a drive, is none.
LexicalPath(path) ==
    LET Walk(so, name) == IF so = Nowhere THEN Nowhere
                          ELSE IF name = Parent THEN Front(so) ELSE IF name = "." THEN so ELSE Append(so, name)
    IN  IF path = <<>> \/ path[1] # Drive THEN Nowhere ELSE FoldLeft(Walk, <<Drive>>, Tail(path))

Behind(path) == \E n \in DOMAIN path : SubSeq(path, 1, n) \in Aliases

\* existing_owned_path: strictly inside the folder by name, no reparse point
\* on the way, and there.
ExistingOwnedPath(path) ==
    LET plain == LexicalPath(path) IN
    IF IsStrictPrefix(Root, plain) /\ ~Behind(plain) /\ plain \in Files THEN plain ELSE Nowhere

\* Mutant: the first target decides.
CorroborateFirst(paths) == IF paths = <<>> THEN Nowhere ELSE ExistingOwnedPath(paths[1])

\* corroborate_paths: all targets are one and the same owned file.
Corroborate(paths) ==
    LET owned == {ExistingOwnedPath(paths[i]) : i \in DOMAIN paths} IN
    IF Cardinality(owned) = 1 THEN CHOOSE path \in owned : TRUE ELSE Nowhere

-----------------------------------------------------------------------------
(* What a shortcut may hold to be looked at at all.                         *)

Item(kind, name) == [kind |-> kind, name |-> name]

\* local_id_list: the computer or the user's files, then a drive or a child
\* of the user's files, then files and folders; no other provider is asked.
LocalIdList(items) ==
    /\ Len(items) >= 2
    /\ items[1].kind \in {"computer", "user files"}
    /\ \A i \in 2..Len(items) :
          \/ items[i].kind \in {"drive", "child"} /\ i = 2
          \/ items[i].kind = "file"

\* What Windows reads in such a list (SHGetPathFromIDListEx).
IdListPath(items) ==
    (IF items[1].kind = "user files" THEN Profile ELSE <<>>) \o [i \in 1..Len(items) - 1 |-> items[i + 1].name]

\* item_boundary: offsets are counted in half items, an odd one is inside one.
ItemBoundary(items, offset) == offset > 0 /\ offset % 2 = 0 /\ offset \div 2 <= Len(items)

Folders == {"documents", "downloads", "profile"}
NoLegacy == 99

\* known_folder_legacy: the older number of a known folder, if it has one.
KnownFolderLegacy(folder) == IF folder = "documents" THEN 5 ELSE IF folder = "profile" THEN 40 ELSE NoLegacy
FolderPath(folder) == IF folder = "profile" THEN Profile ELSE Append(Profile, folder)

\* local_info_paths: a local volume, the whole path in its base and none in
\* its suffix, in one or two encodings.
LocalInfoPaths(info) == IF info.unicode = <<>> THEN <<info.ansi>> ELSE <<info.ansi, info.unicode[1]>>

Special(blocks) == SelectSeq(blocks, LAMBDA b : b.kind = "special")
Anchor(blocks) == SelectSeq(blocks, LAMBDA b : b.kind = "anchor")

\* folder_records_agree: an older record needs a newer one that says the
\* same; none of them may be there if Windows is to ignore them.
FolderRecordsAgree(link) ==
    LET special == Special(link.blocks)
        anchor == Anchor(link.blocks)
    IN  /\ link.untracked => special = <<>> /\ anchor = <<>>
        /\ special # <<>> => /\ anchor # <<>>
                             /\ special[1].offset = anchor[1].offset
                             /\ special[1].legacy = KnownFolderLegacy(anchor[1].folder)

\* The blocks after the strings: known ones, each once, ended by a terminator.
BlocksRead(link) ==
    /\ \A i, j \in DOMAIN link.blocks : link.blocks[i].kind = link.blocks[j].kind => i = j
    /\ \A i \in DOMAIN link.blocks :
          LET block == link.blocks[i] IN
          /\ block.kind \in {"tracker", "special", "anchor", "properties"}
          /\ block.kind \in {"special", "anchor"} => link.ids # <<>> /\ ItemBoundary(link.ids[1], block.offset)
          /\ block.kind = "anchor" => block.folder \in Folders
    /\ link.blocks # <<>> => link.terminated

\* parse: size, class and flags are those of a plain link; every record in it
\* is one that is understood.
Parses(link) ==
    /\ link.plain /\ (link.ids # <<>> \/ link.info # <<>>)
    /\ link.ids # <<>> => LocalIdList(link.ids[1])
    /\ link.info # <<>> => link.info[1].local
    /\ BlocksRead(link) /\ FolderRecordsAgree(link)

NativeRequired(link) == link.ids # <<>> \/ link.blocks # <<>>

\* corroborate_folder_anchor: the items before the offset are the known folder
\* of this computer, compared by name.
AnchorHolds(link) ==
    \A i \in DOMAIN link.blocks : link.blocks[i].kind = "anchor" =>
        LexicalPath(IdListPath(SubSeq(link.ids[1], 1, link.blocks[i].offset \div 2)))
            = FolderPath(link.blocks[i].folder)

\* stored_paths: what Windows reads in the list and in the whole, without
\* looking for the target; it may refuse.
StoredPaths(link) ==
    (IF link.ids # <<>> THEN <<IdListPath(link.ids[1])>> ELSE <<>>) \o <<link.windows>>

-----------------------------------------------------------------------------

\* owned_target: the one file of this folder that everything in the shortcut
\* names, the path relative to the shortcut included.
OwnedTarget(link) ==
    LET text == IF link.info # <<>> THEN LocalInfoPaths(link.info[1]) ELSE <<>>
        all == IF NativeRequired(link) THEN text \o StoredPaths(link) ELSE text
        target == Corroborate(all)
    IN  IF /\ Parses(link)
           /\ NativeRequired(link) => link.windows # Nowhere /\ AnchorHolds(link)
           /\ \A i \in DOMAIN link.relative :
                 /\ link.relative[i][1] # Drive
                 /\ ExistingOwnedPath(LinkFolder \o link.relative[i]) = target
        THEN target ELSE Nowhere

\* What a shortcut states, each in its own way.
Stated(link) ==
    (IF link.info = <<>> THEN {} ELSE ToSet(LocalInfoPaths(link.info[1])))
    \cup (IF link.ids = <<>> THEN {} ELSE {IdListPath(link.ids[1])})
    \cup (IF NativeRequired(link) THEN {link.windows} ELSE {})
    \cup {LinkFolder \o link.relative[i] : i \in DOMAIN link.relative}

\* A shortcut is one of this folder's only if everything it states, and what
\* Windows would open, is the same file, which is there and inside the folder.
OneFile(link) ==
    LET target == OwnedTarget(link) IN
    target # Nowhere =>
        /\ target \in Files /\ IsStrictPrefix(Root, target) /\ ~Behind(target)
        /\ \A path \in Stated(link) : LexicalPath(path) = target
        /\ Stated(link) # {}
=============================================================================
