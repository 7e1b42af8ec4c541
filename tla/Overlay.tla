------------------------------- MODULE Overlay ------------------------------
(***************************************************************************)
(* What the overlay of a Chromium build writes: logos in its PAK archives,  *)
(* found by what they show, and icon groups in its programs, read back      *)
(* after the write (core/src/branding.rs).  A cell of a PAK stands for the  *)
(* bytes of one image or one other thing; tables count in cells.            *)
(***************************************************************************)
EXTENDS Integers, Sequences, SequencesExt, FiniteSets

CONSTANT Stride   \* RT_ICON ids reserved for a group (100 in the code)

-----------------------------------------------------------------------------
(* PAK archives: [whole, version, entries of [id, off], end, aliases, body]. *)

\* Cells before the first that data may be in: entries, sentinel, aliases.
DataStart(entries, aliases) == entries + 1 + aliases
FileSize(pak) == DataStart(Len(pak.entries), Len(pak.aliases)) + Len(pak.body)

\* Where the data of entry i ends: where the next begins.
EndOf(pak, i) == IF i < Len(pak.entries) THEN pak.entries[i + 1].off ELSE pak.end

\* The tables a rebuild accepts: known version, aliases of entries there are,
\* ids that rise, offsets that rise and lie behind the tables.
Valid(pak) ==
    LET n == Len(pak.entries)
        head == DataStart(n, Len(pak.aliases))
    IN  /\ pak.whole /\ pak.version = 5
        /\ pak.end \in head..FileSize(pak)
        /\ \A i \in DOMAIN pak.aliases : pak.aliases[i].of < n
        /\ \A i \in 1..n : /\ pak.entries[i].id > (IF i = 1 THEN 0 ELSE pak.entries[i - 1].id)
                           /\ head <= pak.entries[i].off
                           /\ pak.entries[i].off <= EndOf(pak, i)
                           /\ EndOf(pak, i) <= FileSize(pak)

Resources(pak) ==
    LET head == DataStart(Len(pak.entries), Len(pak.aliases))
    IN  [i \in DOMAIN pak.entries |->
           [id |-> pak.entries[i].id,
            data |-> SubSeq(pak.body, pak.entries[i].off - head + 1, EndOf(pak, i) - head)]]

\* The data before resource i, in cells.
Before(resources, i) == FoldLeft(LAMBDA sum, r : sum + Len(r.data), 0, SubSeq(resources, 1, i - 1))

\* encode_pak: every offset anew, aliases as they were.
EncodePak(aliases, resources) ==
    LET n == Len(resources)
        head == DataStart(n, Len(aliases))
    IN  [whole |-> TRUE, version |-> 5, aliases |-> aliases,
         entries |-> [i \in 1..n |-> [id |-> resources[i].id, off |-> head + Before(resources, i)]],
         end |-> head + Before(resources, n + 1),
         body |-> FoldLeft(LAMBDA body, r : body \o r.data, <<>>, resources)]

-----------------------------------------------------------------------------
(* Logos: an image is a cell [dims, shows, coding].                         *)

MaxLogo == 2   \* no larger image is decoded (64 pixels in the code)

\* png_dimensions: only the first bytes are looked at; 0 is no PNG.
PngDimensions(data) == IF data = <<>> \/ data[1].coding = "none" THEN 0 ELSE data[1].dims

\* logo_pixels: a small image in one of the codings that are read.
LogoPixels(data) ==
    IF PngDimensions(data) \in 1..MaxLogo /\ data[1].coding # "indexed" THEN <<data[1].shows>> ELSE <<>>

\* Mutant: an image as large as the logo is the logo.
MatchesBySize(resources, patch) ==
    {i \in DOMAIN resources : PngDimensions(resources[i].data) = PngDimensions(patch.expected)}

\* The resources that show the logo, upstream's or the one put in its place.
Matches(resources, patch) ==
    {i \in DOMAIN resources :
        /\ PngDimensions(resources[i].data) = PngDimensions(patch.expected)
        /\ LogoPixels(resources[i].data) \in {LogoPixels(patch.expected), LogoPixels(patch.png)}}

\* apply_logo_patches: all are found, each once, before one is written.
Resolved(resources, patches) ==
    \A k \in DOMAIN patches :
        /\ LogoPixels(patches[k].expected) # <<>> /\ LogoPixels(patches[k].png) # <<>>
        /\ PngDimensions(patches[k].expected) = PngDimensions(patches[k].png)
        /\ Cardinality(Matches(resources, patches[k])) = 1
        /\ \A j \in 1..k - 1 : Matches(resources, patches[j]) # Matches(resources, patches[k])

ApplyLogoPatches(resources, patches) ==
    IF ~Resolved(resources, patches) THEN resources
    ELSE [i \in DOMAIN resources |->
            LET mine == {k \in DOMAIN patches : i \in Matches(resources, patches[k])}
            IN  IF mine = {} THEN resources[i]
                ELSE [resources[i] EXCEPT !.data = patches[CHOOSE k \in mine : TRUE].png]]

\* rebuild_pak_with: whether it could be read, whether all logos were found,
\* and the archive that is written.
RebuildPak(pak, patches) ==
    IF ~Valid(pak) THEN [ok |-> FALSE, complete |-> FALSE, pak |-> pak]
    ELSE [ok |-> TRUE, complete |-> Resolved(Resources(pak), patches),
          pak |-> EncodePak(pak.aliases, ApplyLogoPatches(Resources(pak), patches))]

-----------------------------------------------------------------------------
(* Icons: an .ico is [count, entries of [off, size, frame], length].        *)

\* parse_ico: the frames, or none if the table or a frame is not all there.
ParseIco(ico) ==
    IF ico.count > Len(ico.entries) \/ \E i \in 1..ico.count : ico.entries[i].off + ico.entries[i].size > ico.length
    THEN <<>>
    ELSE [i \in 1..ico.count |-> ico.entries[i].frame]

Icon(id) == [type |-> "icon", name |-> id, lang |-> "en"]
Group(name) == [type |-> "group", name |-> name, lang |-> "en"]
FirstId(k) == 1 + (k - 1) * Stride   \* of the group written k-th

\* build_group_icon: what each frame is, and the id it is under.
BuildGroupIcon(frames, first) == [i \in DOMAIN frames |-> [frame |-> frames[i], id |-> first + i - 1]]

\* update_resource: a resource is added or replaced, in US English.
UpdateResource(resources, key, data) ==
    [k \in DOMAIN resources \cup {key} |-> IF k = key THEN data ELSE resources[k]]

\* patch_groups: group by group, its frames and then its list of them.
PatchGroups(resources, icons) ==
    FoldLeft(LAMBDA so, k :
        LET frames == ParseIco(icons[k].ico)
            shown == FoldLeft(LAMBDA res, i : UpdateResource(res, Icon(FirstId(k) + i - 1), <<frames[i]>>),
                              so, [i \in DOMAIN frames |-> i])
        IN  UpdateResource(shown, Group(icons[k].group), BuildGroupIcon(frames, FirstId(k))),
        resources, [k \in DOMAIN icons |-> k])

Reads(resources, key, data) == key \in DOMAIN resources /\ resources[key] = data

\* Mutant: only the lists are read back.
VerifyPeIconsListed(resources, icons) ==
    \A k \in DOMAIN icons :
        LET frames == ParseIco(icons[k].ico)
        IN  frames # <<>> /\ Reads(resources, Group(icons[k].group), BuildGroupIcon(frames, FirstId(k)))

\* verify_pe_icons: every list and every frame it names.
VerifyPeIcons(resources, icons) ==
    \A k \in DOMAIN icons :
        LET frames == ParseIco(icons[k].ico)
        IN  /\ frames # <<>>
            /\ Reads(resources, Group(icons[k].group), BuildGroupIcon(frames, FirstId(k)))
            /\ \A i \in DOMAIN frames : Reads(resources, Icon(FirstId(k) + i - 1), <<frames[i]>>)

\* patch_pe_icons: an .ico that cannot be read discards what was staged.
PatchPeIcons(resources, icons) ==
    IF \E k \in DOMAIN icons : ParseIco(icons[k].ico) = <<>> THEN [ok |-> FALSE, resources |-> resources]
    ELSE LET new == PatchGroups(resources, icons) IN [ok |-> VerifyPeIcons(new, icons), resources |-> new]

\* check_upstream_icon_groups: any language will do.
HasGroup(resources, name) == \E key \in DOMAIN resources : key.type = "group" /\ key.name = name
=============================================================================
