----------------------------- MODULE Signatures -----------------------------
(***************************************************************************)
(* Who made a file (core/src/gpg.rs, core/src/authenticode.rs): detached    *)
(* OpenPGP signatures and hashes of packages, and Windows' own signatures   *)
(* of executables.  Keys, bytes and subjects are values to be compared.     *)
(***************************************************************************)
EXTENDS Sequences

-----------------------------------------------------------------------------
(* OpenPGP: a public key has a primary key and subkeys, any of which may    *)
(* have made the signature.                                                 *)

\* The library checks one key (DetachedSignature::verify).
Made(signature, key, package) == signature.by = key /\ signature.over = package

\* Mutant: the primary key alone.
VerifyBytesPrimary(package, signature, key) ==
    signature.coding \in {"armored", "binary"} /\ Made(signature, key.primary, package)

\* verify_bytes: text or binary; the primary key, then each subkey.
VerifyBytes(package, signature, key) ==
    /\ signature.coding \in {"armored", "binary"}
    /\ \/ Made(signature, key.primary, package)
       \/ \E subkey \in key.subkeys : Made(signature, subkey, package)

\* verify: both files are read first.
Verify(package, signature, key) == package # "unreadable" /\ signature.coding # "unreadable" /\ VerifyBytes(package, signature, key)

\* sha256::verify, sha512::verify: upper or lower case; the longer hash may be
\* followed by the name of the file.
HashVerifies(package, expected, kind) ==
    /\ expected.hash = [of |-> package, kind |-> kind]
    /\ kind = "sha256" => expected.rest = <<>>

-----------------------------------------------------------------------------
(* Authenticode: Windows says what it finds, with or without asking whether *)
(* a certificate was revoked.                                               *)

Unknown == {"revocation failure", "revocation offline"}

\* WinVerifyTrust, as far as its answers are told apart here.
WinVerifyTrustWith(file, revocation, online) ==
    IF ~file.signed THEN "no signature"
    ELSE IF ~file.trusted THEN "untrusted"
    ELSE IF revocation = "none" THEN "ok"
    ELSE IF ~online THEN "revocation offline"
    ELSE IF file.revoked THEN "revoked" ELSE "ok"

\* Mutant: whatever the first answer was.
WinVerifyTrustAgain(file, online) ==
    \/ WinVerifyTrustWith(file, "whole chain", online) = "ok"
    \/ WinVerifyTrustWith(file, "none", online) = "ok"

\* win_verify_trust: without an answer about revocation the rest must hold.
WinVerifyTrust(file, online) ==
    LET first == WinVerifyTrustWith(file, "whole chain", online) IN
    first = "ok" \/ (first \in Unknown /\ WinVerifyTrustWith(file, "none", online) = "ok")

\* signer_subject: the name in the certificate the signature points to.
SignerSubject(file) == IF file.signed /\ file.subject # "" THEN <<file.subject>> ELSE <<>>

\* subject_matches: equal, apart from case and blanks around it.
SubjectMatches(found, expected) == found = expected

\* verify_signed_by.
VerifySignedBy(file, expected, online) ==
    /\ WinVerifyTrust(file, online)
    /\ SignerSubject(file) # <<>> /\ SubjectMatches(SignerSubject(file)[1], expected)
=============================================================================
