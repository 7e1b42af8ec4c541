----------------------------- MODULE HostTraces -----------------------------
(***************************************************************************)
(* What a cleaning removes from a computer once the browser is gone         *)
(* (core/src/cleanup.rs): shortcuts and error reports that name this        *)
(* folder's browser, and thumbnail caches.  The computer's other programs   *)
(* go on meanwhile: they file reports, rewrite and read them.  One cleaner  *)
(* works at a time (module Cleanup); it may die at any point, and a later   *)
(* session cleans again.                                                    *)
(***************************************************************************)
EXTENDS Naturals, Sequences, FiniteSets

CONSTANTS Reports,      \* directories of ReportQueue and ReportArchive
          Attachments,  \* files of a report beside its Report.wer
          Links,        \* shortcuts in Recent
          Thumbs,       \* thumbnail databases
          MaxEvents     \* how much the rest of the computer does

VARIABLES reports,  \* each directory: whether it is there, its files, its AppPath lines
          links,    \* what each shortcut names, or "none" if it is not there
          thumbs,   \* the databases that are there
          handles,  \* files other programs have open
          cleaner,  \* the cleaning: what it is at, what it holds open, what it has read
          owed,     \* reports and shortcuts found when it began, unchanged since
          doomed,   \* files of each report when its removal began, still there
          events   \* what others did so far

hostVars == <<reports, links, thumbs, handles, cleaner, owed, doomed, events>>

Metadata == "Report.wer"
Gone == [there |-> FALSE, files |-> {}, apps |-> <<>>]
Idle == [at |-> "off", entry |-> "none", todo |-> {}, held |-> {}, whole |-> TRUE]

\* report_application_path, report_matches_image: exactly one AppPath line,
\* and the file it names, which exists and is no alias, is the browser.
Attributed(apps) == Len(apps) = 1 /\ apps[1] = "ours"

HostInit ==
    /\ reports = [r \in Reports |-> [there |-> TRUE, files |-> Attachments \cup {Metadata}, apps |-> <<"ours">>]]
    /\ links = [l \in Links |-> "ours"]
    /\ thumbs = Thumbs
    /\ handles = {}
    /\ cleaner = Idle
    /\ owed = {}
    /\ doomed = [r \in Reports |-> {}]
    /\ events = 0

-----------------------------------------------------------------------------
(* The cleaning.                                                            *)

At(label) == cleaner.at = label
Of(r) == cleaner.entry = r
HasMetadata(r) == reports[r].there /\ Metadata \in reports[r].files
FilesOf(r) == {<<r, f>> : f \in reports[r].files}
Listed == {r \in Reports : reports[r].there} \cup {l \in Links : links[l] # "none"}
Ours == {r \in Reports : HasMetadata(r) /\ Attributed(reports[r].apps)} \cup {l \in Links : links[l] = "ours"}

\* scrub_host_traces_in, after Scope::new proved the instance: the listings of
\* Recent and of the report directories.  A root that cannot be listed leaves
\* its entries out and the cleaning incomplete.
Begin ==
    /\ At("off")
    /\ \E seen \in {Listed, Listed \ Links, Listed \ Reports} :
          cleaner' = [Idle EXCEPT !.at = "next", !.todo = seen, !.whole = (seen = Listed)]
    /\ owed' = Ours
    /\ UNCHANGED <<reports, links, thumbs, handles, doomed, events>>

Take(x, label) == [cleaner EXCEPT !.at = label, !.entry = x, !.todo = @ \ {x}]
Skip(x) == [cleaner EXCEPT !.at = "next", !.entry = "none", !.todo = @ \ {x}, !.held = {}]

\* Mutant: what cannot be cleaned now is passed over.
IncompleteNever(x) == Skip(x)

\* An entry that cannot be read or removed now is one for a later session.
Incomplete(x) == [Skip(x) EXCEPT !.whole = FALSE]

\* cleanup_recent: the shortcut is read, and attributed by what it states
\* (module ShellLink).
ReadLink(l) ==
    /\ At("next") /\ l \in cleaner.todo
    /\ \/ /\ links[l] # "none"
          /\ cleaner' = IF links[l] = "ours" THEN Take(l, "link") ELSE Skip(l)
       \/ /\ links[l] = "none" \/ <<l, "link">> \in handles
          /\ cleaner' = Incomplete(l)
    /\ UNCHANGED <<reports, links, thumbs, handles, owed, doomed, events>>

\* It is removed by its name: nothing keeps it as it was read.
RemoveLink(l) ==
    /\ At("link") /\ Of(l)
    /\ \/ /\ links[l] # "none" /\ <<l, "link">> \notin handles
          /\ links' = [links EXCEPT ![l] = "none"]
          /\ cleaner' = Skip(l)
       \/ /\ links[l] = "none" \/ <<l, "link">> \in handles
          /\ cleaner' = Incomplete(l)
          /\ UNCHANGED links
    /\ UNCHANGED <<reports, thumbs, handles, owed, doomed, events>>

\* cleanup_reports: the metadata is read, and closed again.  One that names
\* another program, or none, is left alone.
Scan(r) ==
    /\ At("next") /\ r \in cleaner.todo
    /\ \/ /\ HasMetadata(r)
          /\ cleaner' = IF Attributed(reports[r].apps) THEN Take(r, "preflight") ELSE Skip(r)
       \/ /\ ~HasMetadata(r) \/ <<r, Metadata>> \in handles
          /\ cleaner' = Incomplete(r)
    /\ UNCHANGED <<reports, links, thumbs, handles, owed, doomed, events>>

\* idle_report_files: every file of the report, opened so that no one else
\* reads or writes it; none if one is in use, or the name is ambiguous.
Idlers(r) == IF HasMetadata(r) /\ FilesOf(r) \cap handles = {} THEN FilesOf(r) ELSE {}

\* Mutant: the attribution of the scan is relied on.
PreflightScanned(r) ==
    /\ At("preflight") /\ Of(r)
    /\ IF Idlers(r) # {}
       THEN /\ cleaner' = [cleaner EXCEPT !.at = "remove", !.held = Idlers(r)]
            /\ doomed' = [doomed EXCEPT ![r] = reports[r].files]
       ELSE cleaner' = Incomplete(r) /\ UNCHANGED doomed
    /\ UNCHANGED <<reports, links, thumbs, handles, owed, events>>

\* remove_attributed_report: the metadata is read once more, through the
\* handle that is kept.
Preflight(r) ==
    /\ At("preflight") /\ Of(r)
    /\ IF Idlers(r) # {} /\ Attributed(reports[r].apps)
       THEN /\ cleaner' = [cleaner EXCEPT !.at = "remove", !.held = Idlers(r)]
            /\ doomed' = [doomed EXCEPT ![r] = reports[r].files]
       ELSE cleaner' = Incomplete(r) /\ UNCHANGED doomed
    /\ UNCHANGED <<reports, links, thumbs, handles, owed, events>>

\* Mutant: the files go in any order.
NextToGoAny(held) == held

\* The attachments first, the metadata last.
NextToGo(held) ==
    LET attached == {x \in held : x[2] # Metadata} IN IF attached = {} THEN held ELSE attached

\* remove_attributed_report: the next file goes and its handle is closed; or
\* it cannot be removed, all are closed and the rest stays.
RemoveFile(r) ==
    /\ At("remove") /\ Of(r)
    /\ \E x \in NextToGo(cleaner.held) :
          \/ /\ reports' = [reports EXCEPT ![r].files = @ \ {x[2]}]
             /\ doomed' = [doomed EXCEPT ![r] = @ \ {x[2]}]
             /\ cleaner' = [cleaner EXCEPT !.held = @ \ {x}, !.at = IF cleaner.held = {x} THEN "directory" ELSE @]
          \/ cleaner' = Incomplete(r) /\ UNCHANGED <<reports, doomed>>
    /\ UNCHANGED <<links, thumbs, handles, owed, events>>

\* remove_dir: only an empty directory goes.
RemoveDirectory(r) ==
    /\ At("directory") /\ Of(r)
    /\ IF reports[r].files = {}
       THEN reports' = [reports EXCEPT ![r] = Gone] /\ cleaner' = Skip(r)
       ELSE cleaner' = Incomplete(r) /\ UNCHANGED reports
    /\ UNCHANGED <<links, thumbs, handles, owed, doomed, events>>

\* scrub_thumbnail_cache, scrub_unlocked_thumbnail_cache: asked for by the
\* configuration, whether or not the rest is complete; a database someone
\* reads or writes stays.
Finish ==
    /\ At("next") /\ cleaner.todo = {}
    /\ cleaner' = [cleaner EXCEPT !.at = "done"]
    /\ \/ \E stay \in SUBSET thumbs : {t \in thumbs : <<t, "thumbs">> \in handles} \subseteq stay /\ thumbs' = stay
       \/ UNCHANGED thumbs
    /\ UNCHANGED <<reports, links, handles, owed, doomed, events>>

-----------------------------------------------------------------------------
(* The rest of the computer.                                                *)

Event == events < MaxEvents /\ events' = events + 1

\* The cleaner dies: its handles are closed.  Or a later session cleans again.
Die ==
    /\ ~At("off") /\ Event
    /\ cleaner' = Idle
    /\ UNCHANGED <<reports, links, thumbs, handles, owed, doomed>>

\* Mutant: the handles are shared with readers and writers.
DeniedNone == {}

\* The share mode of the handles: others can neither read nor write the file.
Denied == cleaner.held

\* Windows files a report, step by step.
FileReport(r) ==
    /\ ~reports[r].there /\ Event
    /\ reports' = [reports EXCEPT ![r] = [Gone EXCEPT !.there = TRUE]]
    /\ owed' = owed \ {r}
    /\ UNCHANGED <<links, thumbs, handles, cleaner, doomed>>

Attach(r) ==
    /\ reports[r].there /\ Event
    /\ \E f \in Attachments \ reports[r].files : reports' = [reports EXCEPT ![r].files = @ \cup {f}]
    /\ UNCHANGED <<links, thumbs, handles, cleaner, owed, doomed>>

\* What a report may name: this browser, another program, several, nothing.
Named == {<<"ours">>, <<"other">>, <<"other", "ours">>, <<>>}

Describe(r) ==
    /\ reports[r].there /\ <<r, Metadata>> \notin Denied /\ Event
    /\ \E apps \in Named :
          reports' = [reports EXCEPT ![r].files = @ \cup {Metadata}, ![r].apps = apps]
    /\ owed' = owed \ {r}
    /\ UNCHANGED <<links, thumbs, handles, cleaner, doomed>>

\* A file opened in some program: its shortcut is written anew.
Relink(l) ==
    /\ Event
    /\ \E what \in {"ours", "other"} : links' = [links EXCEPT ![l] = what]
    /\ owed' = owed \ {l}
    /\ UNCHANGED <<reports, thumbs, handles, cleaner, doomed>>

InUse == (UNION {FilesOf(r) : r \in Reports}) \cup {<<l, "link">> : l \in {k \in Links : links[k] # "none"}}
            \cup {<<t, "thumbs">> : t \in thumbs}

Open ==
    /\ Event
    /\ \E x \in InUse \ (Denied \cup handles) : handles' = handles \cup {x}
    /\ UNCHANGED <<reports, links, thumbs, cleaner, owed, doomed>>

Close ==
    /\ \E x \in handles : handles' = handles \ {x}
    /\ UNCHANGED <<reports, links, thumbs, cleaner, owed, doomed, events>>

CleanReport(r) == Scan(r) \/ Preflight(r) \/ RemoveFile(r) \/ RemoveDirectory(r)
CleanLink(l) == ReadLink(l) \/ RemoveLink(l)
Others == Open \/ Close \/ (\E r \in Reports : FileReport(r) \/ Attach(r) \/ Describe(r)) \/ (\E l \in Links : Relink(l))

HostNext ==
    \/ Begin
    \/ \E r \in Reports : CleanReport(r)
    \/ \E l \in Links : CleanLink(l)
    \/ Finish
    \/ Die
    \/ Others

-----------------------------------------------------------------------------

\* Nothing of a report is removed that names, at that moment, anything but
\* this browser: also if it was rewritten since the listing, or since an
\* earlier session that died (remove_attributed_report).
ForeignReportsKept ==
    \A r \in Reports : reports[r].files \subseteq reports'[r].files \/ Attributed(reports[r].apps)

\* A file another program has open is not removed under it (idle_report_files,
\* remove_unlocked_cache_file).
OpenFilesKept == \A x \in handles : x \in InUse => x \in InUse'

\* A report whose removal began is gone, or still says whose it is, or holds
\* nothing any more that it held then: a session that failed or died half way
\* leaves it to a later one (remove_attributed_report).
StillAttributed ==
    \A r \in Reports : doomed[r] \cap reports[r].files # {} => HasMetadata(r)

\* A cleaning that calls itself complete, and so lets the recovery record go,
\* left nothing of this browser that it could have found (scrub_host_traces_in).
CompleteIsClean ==
    At("done") /\ cleaner.whole =>
        \A x \in owed : IF x \in Reports THEN ~reports[x].there ELSE links[x] = "none"
=============================================================================
