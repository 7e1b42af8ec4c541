------------------------------ MODULE Settings ------------------------------
(***************************************************************************)
(* The files a launch writes for the browser before it starts it, and how   *)
(* they are merged with what the user and the browser put there             *)
(* (hardening.rs, the required settings of core/src/lib.rs).                *)
(*                                                                          *)
(* A user.js is a sequence of lines.  A JSON document is a function from    *)
(* paths to leaves; objects are the paths that lead to them, and an empty   *)
(* object is no path at all.                                                *)
(***************************************************************************)
EXTENDS Integers, Sequences, SequencesExt, FiniteSets

-----------------------------------------------------------------------------
(* user.js: a fence of two markers around the managed lines.                *)

FenceBegin == "begin"
FenceEnd == "end"
Blank == "blank"

BeginAt(text) == SelectInSeq(text, LAMBDA line : line = FenceBegin)

\* The last line of the fence: to the end of the file without an end marker.
EndAt(text) ==
    LET ends == {i \in BeginAt(text)..Len(text) : text[i] = FenceEnd} IN
    IF ends = {} THEN Len(text) ELSE CHOOSE i \in ends : \A j \in ends : i <= j

Fenced(text) == BeginAt(text) # 0

\* Mutant: the first end marker of the file, wherever it is.
ReplaceFencedFirst(text, block) ==
    LET last == SelectInSeq(text, LAMBDA line : line = FenceEnd) IN
    SubSeq(text, 1, BeginAt(text) - 1) \o block
    \o SubSeq(text, (IF last = 0 THEN Len(text) ELSE last) + 1, Len(text))

ReplaceFenced(text, block) ==
    SubSeq(text, 1, BeginAt(text) - 1) \o block \o SubSeq(text, EndAt(text) + 1, Len(text))

StripFenced(text) == IF Fenced(text) THEN ReplaceFenced(text, <<>>) ELSE text

WriteUserJs(text, payload) ==
    LET block == <<FenceBegin>> \o payload \o <<FenceEnd>> IN
    IF Fenced(text) THEN ReplaceFenced(text, block)
    ELSE IF text = <<>> THEN block
    ELSE text \o <<Blank>> \o block

\* Without a fence the file is not touched; a file left with nothing is removed.
RemoveManagedUserJs(text) ==
    IF ~Fenced(text) THEN text
    ELSE IF \A i \in DOMAIN StripFenced(text) : StripFenced(text)[i] = Blank THEN <<>>
    ELSE StripFenced(text)

\* What is promised of any text: a launch leaves what it would have left had
\* there been no launch before it, with any other lines of its own; it keeps
\* all that is outside the fence as it was, wherever stray markers stand, and
\* taking the managed lines away gives it back (write_user_js).
LinesKept(text, old, payload) ==
    LET once == WriteUserJs(text, payload)
        kept == IF Fenced(text) \/ text = <<>> THEN StripFenced(text) ELSE Append(text, Blank)
    IN  /\ WriteUserJs(WriteUserJs(text, old), payload) = once
        /\ StripFenced(once) = kept
        /\ RemoveManagedUserJs(once) = IF \A i \in DOMAIN kept : kept[i] = Blank THEN <<>> ELSE kept

\* The managed lines for a configuration; an adapter may have none.
UserJsPayload(config) ==
    <<"managed">> \o (IF config.sanitize THEN <<>> ELSE <<"keep data">>)
                  \o (IF config.noWebrtc THEN <<"no webrtc">> ELSE <<>>)

-----------------------------------------------------------------------------
(* JSON documents.                                                          *)

Scalar(value) == [kind |-> "scalar", value |-> value]
Array(items) == [kind |-> "array", items |-> items]

\* Scalars that are set again on every launch.
LockedPaths == {<<"dns", "mode">>, <<"safe">>}

Below(doc, path) == {p \in DOMAIN doc : IsPrefix(path, p)}

\* get_by_path: an object or a leaf at the path.
Present(doc, path) == Below(doc, path) # {}

\* set_by_path: a leaf on the way makes it fail.
Blocked(doc, path) == \E p \in DOMAIN doc : IsStrictPrefix(p, path)

SetByPath(doc, path, leaf) ==
    [p \in (DOMAIN doc \ Below(doc, path)) \cup {path} |-> IF p = path THEN leaf ELSE doc[p]]

\* Mutant: a flag is compared with the option chosen for it.
MissingExact(key, existing, items) ==
    SelectSeq(items, LAMBDA entry : \A i \in DOMAIN existing : existing[i] # entry)

\* An entry is there already; one of chrome://flags under its name, whatever
\* option is chosen for it.
Holds(key, items, entry) ==
    \E i \in DOMAIN items : IF key = "labs" THEN items[i].name = entry.name ELSE items[i] = entry

\* merge_array_aware: entries of the defaults that are not there yet, so that
\* the user's option for a flag is kept.
Missing(key, existing, items) ==
    FoldLeft(LAMBDA so, entry :
                IF Holds(key, IF key = "labs" THEN existing ELSE existing \o so, entry)
                THEN so ELSE Append(so, entry),
             <<>>, items)

MergeLeaf(key, existing, default) ==
    IF existing.kind = "array" /\ default.kind = "array"
    THEN Array(existing.items \o Missing(key, existing.items, default.items))
    ELSE existing

\* Mutant: a scalar of the defaults wins over the user's.
MergeValueDefaults(existing, defaults) ==
    [p \in DOMAIN existing \cup {d \in DOMAIN defaults : ~Blocked(existing, d)} |->
        IF p \in DOMAIN defaults THEN defaults[p] ELSE existing[p]]

\* merge_value: what exists wins, also over a default of another shape.
MergeValue(existing, defaults) ==
    LET added == {p \in DOMAIN defaults : ~Present(existing, p) /\ ~Blocked(existing, p)} IN
    [p \in DOMAIN existing \cup added |->
        IF p \in added THEN defaults[p]
        ELSE IF p \in DOMAIN defaults THEN MergeLeaf(Last(p), existing[p], defaults[p])
        ELSE existing[p]]

Failed == [ok |-> FALSE]
Done(doc) == [ok |-> TRUE, doc |-> doc]

\* Mutant: locked scalars are defaults like all others.
MergeJsonFileUnlocked(file, defaults) ==
    IF file.state = "bad" THEN Failed
    ELSE Done(MergeValue(IF file.state = "missing" THEN <<>> ELSE file.doc, defaults))

\* set_by_path for each locked setting the defaults have; they lie apart, so
\* that their order does not matter.
Enforced(doc, locked, defaults) ==
    [p \in {q \in DOMAIN doc : \A path \in locked : ~IsPrefix(path, q)} \cup locked |->
        IF p \in locked THEN defaults[p] ELSE doc[p]]

\* A missing file is an empty object; an empty, unreadable or malformed one,
\* or one that is not an object, is an error.
MergeJsonFile(file, defaults) ==
    LET existing == IF file.state = "missing" THEN <<>> ELSE file.doc
        merged == MergeValue(existing, defaults)
        locked == LockedPaths \cap DOMAIN defaults
    IN  IF file.state = "bad" \/ \E path \in locked : Blocked(merged, path) THEN Failed
        ELSE Done(Enforced(merged, locked, defaults))

\* After a merge that succeeds the settings Nomad locks have its value,
\* whatever the browser or the user left in their place.
LockedHold(file, defaults) ==
    LET result == MergeJsonFile(file, defaults) IN
    result.ok => \A path \in LockedPaths \cap DOMAIN defaults :
                    path \in DOMAIN result.doc /\ result.doc[path] = defaults[path]

\* Every other setting the user chose is kept, through any number of launches:
\* a merge of what a merge wrote changes nothing.
UserSettingsKept(file, defaults) ==
    LET result == MergeJsonFile(file, defaults)
        Locked(path) == \E locked \in LockedPaths \cap DOMAIN defaults : IsPrefix(locked, path)
    IN  file.state = "there" /\ result.ok =>
          /\ MergeJsonFile([state |-> "there", doc |-> result.doc], defaults) = result
          /\ \A path \in DOMAIN file.doc : ~Locked(path) =>
                /\ path \in DOMAIN result.doc
                /\ IF file.doc[path].kind = "scalar" THEN result.doc[path] = file.doc[path]
                   ELSE IsPrefix(file.doc[path].items, result.doc[path].items)

\* An option the user chose for an experimental flag is not contradicted by a
\* second entry for the same flag.
Options(doc) == IF <<"labs">> \in DOMAIN doc /\ doc[<<"labs">>].kind = "array" THEN doc[<<"labs">>].items ELSE <<>>
OneEach(items) == \A i, j \in DOMAIN items : items[i].name = items[j].name => i = j

OneOptionPerFlag(file, defaults) ==
    LET result == MergeJsonFile(file, defaults) IN
    result.ok /\ OneEach(Options(IF file.state = "there" THEN file.doc ELSE <<>>)) /\ OneEach(Options(defaults))
        => OneEach(Options(result.doc))

\* initial_preferences of a new profile: the template wins.
InitialPreferences(template, preferences) == MergeValue(template, preferences)

-----------------------------------------------------------------------------
(* policies.json.                                                           *)

ExtensionSettings == <<"policies", "ExtensionSettings">>

\* The root has a policies entry, and it is an object.
ValidPolicies(doc) == Present(doc, <<"policies">>) /\ <<"policies">> \notin DOMAIN doc

\* The extension's entry, with its install URL, replaces the one that is there.
InjectUblock(doc, xpi) ==
    LET entry == Append(ExtensionSettings, "ublock") IN
    IF ~ValidPolicies(doc) \/ ExtensionSettings \in DOMAIN doc THEN Failed
    ELSE Done(SetByPath(doc, entry, Scalar(xpi)))

-----------------------------------------------------------------------------
(* Preparation of a launch.  files: userJs, the JSON files localState and   *)
(* preferences, policies, the autoconfig pair pointer and cfg, initial, and *)
(* whether the XPI is there.  adapter: its engine and what it declares.     *)
(* The first step that fails stops the launch with the rest left undone.    *)

\* Mutant: preference locks stay when hardening is turned off.
SettingStepsSticky(adapter, config) ==
    IF ~config.enabled /\ adapter.engine = "gecko" THEN <<"withdraw">>
    ELSE IF adapter.engine = "gecko" THEN <<"fence", "policies", "pointer", "cfg">>
    ELSE <<"local state", "preferences", "initial">>

\* What is written for an adapter and a configuration, in order.
SettingSteps(adapter, config) ==
    LET Declared(declared, steps) == IF declared THEN steps ELSE <<>> IN
    IF adapter.engine = "chromium"
    THEN Declared(config.enabled, <<"local state", "preferences">>) \o <<"initial">>
    ELSE IF config.enabled
    THEN (IF adapter.userJs THEN <<"fence">> ELSE <<"withdraw">>)
         \o Declared(adapter.policies, <<"policies">>)
         \o Declared(adapter.autoconfig, <<"pointer", "cfg">>)
    ELSE <<"withdraw">> \o Declared(adapter.autoconfig, <<"drop pointer", "drop cfg">>)

Merged(files, name, defaults) ==
    LET result == MergeJsonFile(files[name], defaults) IN
    IF ~result.ok THEN Failed
    ELSE Done([files EXCEPT ![name] = [state |-> "there", doc |-> result.doc]])

ApplyStep(files, step, adapter, config) ==
    CASE step = "fence"        -> Done([files EXCEPT !.userJs = WriteUserJs(@, UserJsPayload(config))])
      [] step = "withdraw"     -> Done([files EXCEPT !.userJs = RemoveManagedUserJs(@)])
      [] step = "policies"     -> Done([files EXCEPT !.policies = IF files.xpi THEN "with xpi" ELSE "managed"])
      [] step = "pointer"      -> Done([files EXCEPT !.pointer = TRUE])
      [] step = "cfg"          -> Done([files EXCEPT !.cfg = TRUE])
      [] step = "drop pointer" -> Done([files EXCEPT !.pointer = FALSE])
      [] step = "drop cfg"     -> Done([files EXCEPT !.cfg = FALSE])
      [] step = "local state"  -> Merged(files, "localState", adapter.localState)
      [] step = "preferences"  -> Merged(files, "preferences", adapter.preferences)
      [] step = "initial"      -> Done([files EXCEPT !.initial = IF config.enabled THEN "hardened" ELSE "template"])

\* The launch may go on when ok; a write that fails leaves its file alone.
Prepare(files, adapter, config, failing) ==
    FoldLeft(LAMBDA so, step :
                LET result == ApplyStep(so.doc, step, adapter, config) IN
                IF ~so.ok \/ step = failing \/ ~result.ok THEN [so EXCEPT !.ok = FALSE] ELSE result,
             Done(files), SettingSteps(adapter, config))
=============================================================================
