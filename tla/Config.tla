------------------------------- MODULE Config -------------------------------
(***************************************************************************)
(* nomad.toml (core/src/config.rs): which folder names are accepted for the *)
(* browser, what a file means that leaves settings out, and the file a      *)
(* first run writes.  A name is a sequence of words and characters, a text  *)
(* a sequence of lines.                                                     *)
(***************************************************************************)
EXTENDS Integers, Sequences, SequencesExt

-----------------------------------------------------------------------------
(* Folder names.                                                            *)

Words == {"Data", "data", "Nomad", "NUL", "COM1", "x"}
Separators == {"/", ":"}
Chars == {".", " "} \cup Separators

Fold(word) == IF word = "data" THEN "Data" ELSE word
Devices == {"NUL", "COM1"}   \* also CON, PRN, AUX, the other COM and LPT, superscripts

TrimEnd(name, chars) ==
    LET kept == {n \in DOMAIN name : name[n] \notin chars} IN
    IF kept = {} THEN <<>> ELSE SubSeq(name, 1, CHOOSE n \in kept : \A k \in kept : k <= n)

\* windows_device_name: up to the first dot, without the spaces before it.
WindowsDeviceName(name) ==
    LET dot == SelectInSeq(name, LAMBDA c : c = ".")
        stem == TrimEnd(IF dot = 0 THEN name ELSE SubSeq(name, 1, dot - 1), {" "})
    IN  Len(stem) = 1 /\ stem[1] \in Devices

SingleFolder(name) == name # <<>> /\ name \notin {<<".">>, <<".", ".">>} /\ ToSet(name) \cap Separators = {}

\* Mutant: names that end in a dot or a space are left to Windows.
ValidInstallDirNameTrailing(name) ==
    /\ SingleFolder(name)
    /\ ~(Len(name) = 1 /\ Fold(name[1]) \in {"Data", "Nomad"})
    /\ ~WindowsDeviceName(name)

\* valid_install_dir_name: one folder, whose name Windows takes as it is.
ValidInstallDirName(name) ==
    /\ SingleFolder(name)
    /\ Last(name) \notin {".", " "}
    /\ ~(Len(name) = 1 /\ Fold(name[1]) \in {"Data", "Nomad"})
    /\ ~WindowsDeviceName(name)

-----------------------------------------------------------------------------
(* Settings.                                                                *)

Section == "section"
Header(section) == [of |-> section, key |-> Section, value |-> ""]
Line(section, key, value) == [of |-> section, key |-> key, value |-> value]

\* What each section may hold, and what a key that is left out means.
FieldDefaults ==
    [browser |-> [install_dir |-> "required", arch |-> "x64"],
     update |-> [check_on_launch |-> "true", auto_download |-> "true", remind_on_protocol |-> "true"],
     launch |-> [language |-> "none", extra_args |-> "[]", incognito |-> "false"],
     hardening |-> [enabled |-> "true", sanitize_on_shutdown |-> "true", recover_missed_cleanup |-> "true",
                    scrub_thumbnail_cache |-> "false", clear_data_on_exit |-> "false",
                    disable_webrtc |-> "true", reduce_system_info |-> "true", scrub_prefetch |-> "false"]]

\* Mutant: a flag added without its default.
HardeningFieldsUnset == [FieldDefaults.hardening EXCEPT !.disable_webrtc = "false"]

\* The fields of [hardening] when the section is there and they are not.
HardeningFields == FieldDefaults.hardening

\* HardeningConfig::default: what a missing section means.
HardeningDefault ==
    [enabled |-> "true", sanitize_on_shutdown |-> "true", scrub_thumbnail_cache |-> "false",
     recover_missed_cleanup |-> "true", clear_data_on_exit |-> "false", disable_webrtc |-> "true",
     reduce_system_info |-> "true", scrub_prefetch |-> "false"]

\* UpdateConfig::default.
UpdateDefault == [check_on_launch |-> "true", auto_download |-> "true", remind_on_protocol |-> "true"]

Omitted(section) == IF section = "hardening" THEN HardeningFields ELSE FieldDefaults[section]
Absent(section) ==
    IF section = "hardening" THEN HardeningDefault ELSE IF section = "update" THEN UpdateDefault ELSE FieldDefaults[section]

DefaultText ==
    <<Header("browser"), Line("browser", "install_dir", "Browser"), Line("browser", "arch", "x64"),
      Header("update"), Line("update", "check_on_launch", "true"), Line("update", "auto_download", "true"),
      Line("update", "remind_on_protocol", "true"),
      Header("launch"), Line("launch", "language", "en-US"), Line("launch", "extra_args", "[]"),
      Line("launch", "incognito", "false"),
      Header("hardening"), Line("hardening", "enabled", "true"), Line("hardening", "sanitize_on_shutdown", "true"),
      Line("hardening", "recover_missed_cleanup", "true"), Line("hardening", "scrub_thumbnail_cache", "false"),
      Line("hardening", "clear_data_on_exit", "false"), Line("hardening", "disable_webrtc", "true"),
      Line("hardening", "reduce_system_info", "true")>>

Cut == [of |-> "cut", key |-> "cut", value |-> ""]   \* a line that ends in the middle
Failed == [ok |-> FALSE]

Values(text, section) ==
    LET lines == SelectSeq(text, LAMBDA l : l.of = section /\ l.key # Section) IN
    [key \in DOMAIN Omitted(section) |->
        IF \E i \in DOMAIN lines : lines[i].key = key
        THEN lines[SelectInSeq(lines, LAMBDA l : l.key = key)].value
        ELSE IF \E i \in DOMAIN text : text[i] = Header(section) THEN Omitted(section)[key] ELSE Absent(section)[key]]

\* Config::parse: every line is one that is known, and there once; the folder
\* is named, and validly.
Parse(text) ==
    LET known(l) == l.of \in DOMAIN FieldDefaults /\ l.key \in {Section} \cup DOMAIN FieldDefaults[l.of]
        once == \A i, j \in DOMAIN text : text[i].of = text[j].of /\ text[i].key = text[j].key => i = j
    IN  IF (\A i \in DOMAIN text : known(text[i])) /\ once /\ (\E i \in DOMAIN text : text[i].key = "install_dir")
        THEN [ok |-> TRUE, settings |-> [section \in DOMAIN FieldDefaults |-> Values(text, section)]]
        ELSE Failed

\* load_or_init: a file that is not there is written, not in one piece, and
\* the default holds; one that is there is read.
LoadOrInit(file) == Parse(IF file.there THEN file.text ELSE DefaultText)

\* What the death of the first launcher, or a look at the wrong moment, leaves
\* of the file it writes.
LeftBehind == {[there |-> TRUE, text |-> SubSeq(DefaultText, 1, n) \o cut] : n \in 0..Len(DefaultText), cut \in {<<>>, <<Cut>>}}
=============================================================================
