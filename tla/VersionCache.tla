---------------------------- MODULE VersionCache ----------------------------
(***************************************************************************)
(* The answers of release lookups kept in the portable folder: the version  *)
(* cache, the record of extension checks and the acknowledged reminder      *)
(* (version_cache.rs, protocol_freshness.rs), and the decisions taken from  *)
(* them. Versions are numbers, 0 for none; times are hours of the host's    *)
(* clock. A file that is missing, torn or malformed reads as no file.       *)
(***************************************************************************)
EXTENDS Integers

CONSTANTS TTL, Day, Week   \* ages: a cached answer, a reminder, a check

ASSUME AgesAssumption == TTL \in Nat \ {0} /\ Day \in Nat \ {0} /\ Week \in Nat \ {0}

\* sound: the URL is plausible and something to verify the package is there.
NoCache == [found |-> FALSE, target |-> "none", at |-> 0, version |-> 0, sound |-> FALSE, ubo |-> 0]

\* Mutant: the time the answer expires is kept, not the time it was given.
FromVersionInfoExpiry(version, target, now) ==
    [found |-> TRUE, target |-> target, at |-> now + TTL, version |-> version, sound |-> TRUE, ubo |-> 0]

FromVersionInfo(version, target, now) ==
    [found |-> TRUE, target |-> target, at |-> now, version |-> version, sound |-> TRUE, ubo |-> 0]

\* Mutant: the extension's version is forgotten.
RefreshedAlone(cache, version, target, now) == FromVersionInfo(version, target, now)

\* A browser lookup replaces the record and keeps the extension's version.
Refreshed(cache, version, target, now) ==
    [FromVersionInfo(version, target, now) EXCEPT !.ubo = cache.ubo]

\* An extension update on a folder without a record leaves one that is stale.
UpdateUbo(cache, version) == [cache EXCEPT !.found = TRUE, !.ubo = version]

\* Mutant: a time in the future of this clock is recent.
RecentAlways(at, now, limit) == at # 0 /\ now - at < limit

\* Written less than limit ago, never in the future of this clock.
Recent(at, now, limit) == at # 0 /\ at <= now /\ now - at < limit

\* Mutant: an answer never gets old.
IsFreshForever(cache, now) == cache.at <= now

IsFresh(cache, now) == cache.at <= now /\ now - cache.at < TTL

\* Any other version string, and any other or unknown target, is an update.
NeedsUpdate(installed, version, target) ==
    installed.version # version \/ installed.target # target

\* Mutant: any release that differs is an update.
IsOlderNever(installed, version) == FALSE

IsOlder(installed, version) == version < installed.version

\* Whether the cached answer stands in for a lookup.
Hit(cache, installed, target, now) ==
    /\ cache.found /\ cache.sound /\ IsFresh(cache, now)
    /\ cache.target = target
    /\ ~IsOlder(installed, cache.version)

-----------------------------------------------------------------------------
(* Reminders of links. A check is [at, version]; at = 0 when there is none. *)

BrowserChecked(cache, installed, target, now) ==
    /\ cache.found /\ cache.sound /\ cache.target = target
    /\ cache.at # 0 /\ cache.at <= now
    /\ ~IsOlder(installed, cache.version)

Pending(cache, check, installed, target, managed, now) ==
    \/ BrowserChecked(cache, installed, target, now) /\ NeedsUpdate(installed, cache.version, target)
    \/ managed /\ check.at # 0 /\ check.at <= now /\ cache.ubo # check.version

\* TRUE when a link opens without a question.
Silent(cache, check, ack, installed, target, managed, now) ==
    \/ /\ BrowserChecked(cache, installed, target, now) /\ Recent(cache.at, now, Week)
       /\ managed => Recent(check.at, now, Week)
       /\ ~Pending(cache, check, installed, target, managed, now)
    \/ Recent(ack, now, Day)
=============================================================================
