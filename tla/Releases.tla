------------------------------ MODULE Releases ------------------------------
(***************************************************************************)
(* From the answer of a release server to a package that may be installed:  *)
(* what each browser family picks from a release, which versions may follow *)
(* which (version_order.rs), and what makes a package trusted (updater.rs,  *)
(* gpg.rs, browsers/*.rs).                                                  *)
(*                                                                          *)
(* Bytes are known by the asset they were published as; a digest or a       *)
(* signature is the bytes it was made for, or Garbage.                      *)
(***************************************************************************)
EXTENDS Integers, Sequences, SequencesExt

CONSTANTS MaxPart,    \* the largest number a version component may have (2^64 - 1)
          MaxParts    \* components of a version (16)

Package(arch, type, installer) == [arch |-> arch, type |-> type, installer |-> installer]
Garbage == Package("garbage", "", FALSE)
None == Package("none", "", FALSE)

-----------------------------------------------------------------------------
(* Version order. A version is [label, release, esr, revision]: release and *)
(* revision are sequences of components, revision empty when there is no    *)
(* dash; a component that is no number is -1.                               *)

NoVersion == [release |-> <<>>, revision |-> <<>>]

Readable(parts) ==
    /\ Len(parts) \in 1..MaxParts
    /\ \A i \in DOMAIN parts : parts[i] \in 0..MaxPart

\* One leading v or G and a trailing esr are dropped, other labels refused.
Parse(version) ==
    IF /\ version.label \in {"", "v", "G"}
       /\ Readable(version.release)
       /\ version.revision = <<>> \/ Readable(version.revision)
    THEN [release |-> version.release, revision |-> version.revision]
    ELSE NoVersion

Part(parts, i) == IF i \in DOMAIN parts THEN parts[i] ELSE 0

\* Mutant: components that only one of the versions has are not compared.
LessPartsShort(left, right) ==
    \E i \in DOMAIN left \cap DOMAIN right :
        left[i] < right[i] /\ \A j \in 1..i - 1 : left[j] = right[j]

\* Missing components count as zero.
LessParts(left, right) ==
    \E i \in DOMAIN left \cup DOMAIN right :
        /\ Part(left, i) < Part(right, i)
        /\ \A j \in 1..i - 1 : Part(left, j) = Part(right, j)

SameParts(left, right) == ~LessParts(left, right) /\ ~LessParts(right, left)

Older(left, right) ==
    \/ LessParts(left.release, right.release)
    \/ SameParts(left.release, right.release) /\ LessParts(left.revision, right.revision)

\* ensure_not_older: what cannot be ordered may not follow anything; without
\* an installed version the offered one must still be readable.
MayFollow(installed, offered) ==
    /\ Parse(offered) # NoVersion
    /\ installed # NoVersion => Parse(installed) # NoVersion /\ ~Older(Parse(offered), Parse(installed))

\* needs_update on texts: any other text or target is another build.
UpdateNeeded(marker, version, target) ==
    marker = NoVersion \/ marker.version # version \/ marker.target # target

\* The Chromium builds: a major version that is a number and not zero.
ChromiumMajor(version) == version.release # <<>> /\ version.release[1] \in 1..MaxPart

-----------------------------------------------------------------------------
(* Lookup. A release is [tag, assets]; an asset [name, digest, signs]; a    *)
(* name [arch, type, installer], type one of zip, exe, sig, asc, list.  A   *)
(* hash file is a sequence of lines [name, hash].                           *)

Families == {"ungoogled", "helium", "floorp", "librewolf", "mullvad", "waterfox"}
Signed == {"helium", "mullvad"}
Arches == {"x64", "x86", "arm64"}

\* The first asset that matches, 0 when there is none.
Find(release, Wanted(_)) == SelectInSeq(release.assets, LAMBDA a : Wanted(a.name))

ZipAsset(release, arch) ==
    Find(release, LAMBDA name : name.type = "zip" /\ name.arch = arch /\ ~name.installer)

NamedAsset(release, name) == Find(release, LAMBDA n : n = name)

InstallerName(arch) == Package(arch, "exe", TRUE)
PortableName(arch) == Package(arch, "zip", FALSE)
SignatureName(name, type) == [name EXCEPT !.type = type]
HashList == Package("any", "list", FALSE)

\* Only digests of the form sha256:... count.
Sha256(asset) == IF asset.digest \in {None, Garbage} THEN None ELSE asset.digest

Supported(family, arch) ==
    CASE family = "librewolf" -> arch # "x86"
      [] family = "mullvad"   -> arch = "x64"
      [] OTHER                -> TRUE

\* parse_sha256sums: the first line of exactly that name.
Listed(lines, name) ==
    LET at == SelectInSeq(lines, LAMBDA line : line.name = name) IN
    IF at = 0 THEN None ELSE lines[at].hash

\* parse_hashes_txt: the first such line whose hash has the form of one.
ListedHash(lines, name) ==
    LET at == SelectInSeq(lines, LAMBDA line : line.name = name /\ line.hash # Garbage) IN
    IF at = 0 THEN None ELSE lines[at].hash

\* fetch_sha512: the first word of a file that is about one package.
OnlyHash(lines) == IF lines = <<>> \/ lines[1].hash = Garbage THEN None ELSE lines[1].hash

LookupFails == [ok |-> FALSE]

\* What is to be downloaded, what it is signed by and what its hash must be.
Info(name, signature, sha256, sha512) ==
    [ok |-> TRUE, name |-> name, signature |-> signature, sha256 |-> sha256, sha512 |-> sha512]

\* The signature asset beside a package, when the release has one.
SignatureOf(release, name) ==
    IF NamedAsset(release, name) = 0 THEN None ELSE release.assets[NamedAsset(release, name)].signs

\* The families that publish portable archives with a digest beside them.
LookupUngoogled(release, arch) ==
    LET zip == ZipAsset(release, arch) IN
    IF zip = 0 THEN LookupFails
    ELSE Info(release.assets[zip].name, None, Sha256(release.assets[zip]), None)

LookupHelium(release, arch) ==
    LET zip == ZipAsset(release, arch)
        name == release.assets[zip].name
    IN  IF zip = 0 THEN LookupFails
        ELSE Info(name, SignatureOf(release, SignatureName(name, "sig")), Sha256(release.assets[zip]), None)

\* The families that publish installers.
LookupMullvad(release, arch) ==
    LET name == InstallerName(arch)
        exe == NamedAsset(release, name)
    IN  IF exe = 0 \/ ~Supported("mullvad", arch) THEN LookupFails
        ELSE Info(name, SignatureOf(release, SignatureName(name, "asc")), Sha256(release.assets[exe]), None)

\* hashes: the family's hash file. One the release names must be fetched.
LookupFloorp(release, arch, hashes) ==
    LET name == InstallerName(arch)
        listed == NamedAsset(release, HashList) # 0
    IN  IF NamedAsset(release, name) = 0 \/ (listed /\ ~hashes.reached) THEN LookupFails
        ELSE Info(name, None, IF listed THEN ListedHash(hashes.lines, name) ELSE None, None)

\* A hash file that cannot be fetched leaves no hash, and no trust.
LookupLibrewolf(arch, hashes) ==
    IF ~Supported("librewolf", arch) THEN LookupFails
    ELSE Info(PortableName(arch), None,
              IF hashes.reached THEN Listed(hashes.lines, PortableName(arch)) ELSE None, None)

LookupWaterfox(arch, hashes) ==
    Info(InstallerName(arch), None, None, IF hashes.reached THEN OnlyHash(hashes.lines) ELSE None)

Lookup(family, release, arch, hashes) ==
    CASE family = "ungoogled" -> LookupUngoogled(release, arch)
      [] family = "helium"    -> LookupHelium(release, arch)
      [] family = "mullvad"   -> LookupMullvad(release, arch)
      [] family = "floorp"    -> LookupFloorp(release, arch, hashes)
      [] family = "librewolf" -> LookupLibrewolf(arch, hashes)
      [] family = "waterfox"  -> LookupWaterfox(arch, hashes)

\* asset_provenance_suspect: an asset replaced after its upload, or uploaded
\* again long after the release; times that are missing are suspect.
ProvenanceSuspect(times, reupload, late) ==
    \/ 0 \in {times.created, times.updated, times.published}
    \/ times.updated - times.created > reupload
    \/ times.created - times.published > late

-----------------------------------------------------------------------------
(* Trust.                                                                   *)

HasKey(family) == family \in Signed

\* validate_verification_metadata: before anything is downloaded.
Material(family, info) ==
    IF HasKey(family) THEN info.signature # None ELSE info.sha256 # None \/ info.sha512 # None

\* Mutant: a signature that does not verify is no worse than none.
VerifiedEither(family, info, bytes) ==
    /\ Material(family, info)
    /\ bytes \in {info.signature, info.sha256, info.sha512}

\* verify_package over the bytes that came: a signature where the family has a
\* key, and the published hash too; SHA-256 is preferred.
Verified(family, info, bytes) ==
    /\ Material(family, info)
    /\ HasKey(family) => info.signature = bytes
    /\ info.sha256 # None => info.sha256 = bytes
    /\ info.sha256 = None /\ info.sha512 # None => info.sha512 = bytes

-----------------------------------------------------------------------------
(* What is to be shown of every input.                                      *)

\* No chain of updates, each of which looks like none backwards, leads to an
\* older version: also when versions have components the other lacks, or
\* revisions, or texts that mean the same version.
NoDowngrade(a, b, c) ==
    /\ MayFollow(a, b) /\ MayFollow(b, c) => MayFollow(a, c)
    /\ (MayFollow(a, b) \/ MayFollow(b, a)) <=> (MayFollow(NoVersion, a) /\ MayFollow(NoVersion, b))

\* The packages that vendors publish.
Genuine == {InstallerName(arch) : arch \in Arches} \cup {PortableName(arch) : arch \in Arches}

\* A vendor that is sincere: a digest, a signature or a line of a hash file is
\* of what its name says, or unreadable.  Waterfox has a hash file for each
\* package.
Sincere(family, release, arch, hashes) ==
    /\ \A i \in DOMAIN release.assets :
          /\ release.assets[i].digest \in {None, Garbage, release.assets[i].name}
          /\ release.assets[i].signs \in {None, Garbage}
                \cup {p \in Genuine : release.assets[i].name \in {SignatureName(p, "sig"), SignatureName(p, "asc")}}
    /\ \A i \in DOMAIN hashes.lines : hashes.lines[i].hash \in {Garbage, hashes.lines[i].name}
    /\ family = "waterfox" => \A i \in DOMAIN hashes.lines : hashes.lines[i].name = InstallerName(arch)

\* Whatever such a release lists, in whatever order, and whatever its hash file
\* says: bytes that pass are those of the package that was chosen, it was
\* published for the configured target, and a family with a key has its
\* signature over them.
ChosenTrusted(family, release, arch, hashes, came) ==
    LET info == Lookup(family, release, arch, hashes) IN
    info.ok /\ Verified(family, info, came) =>
        /\ info.name = came /\ came.arch = arch
        /\ HasKey(family) => info.signature = came
=============================================================================
