------------------------------ MODULE AptRelease ------------------------------
(* aptrepo: which Release documents are believed.  A source's Signed-By is a    *)
(* record [kind, keys]: "unset" (the default paths), "file", "dir" or           *)
(* "missing", and the keys found there; a document is a file with a signature   *)
(* "valid", "broken" or "none", always by the key Signer.                       *)
EXTENDS HttpClient

CONSTANT Signer

\* Of the default paths the readable ones count; a directory may hold no key, which is no error.
LoadKeyringForSource(signedBy) ==
    LET keys == IF signedBy.kind = "missing" THEN {} ELSE signedBy.keys
    IN  [keys |-> keys, err |-> keys = {} /\ signedBy.kind # "dir"]

CheckSignature(signature, keys) ==
    CASE Signer \notin keys                        -> "unknown"
      [] Signer \in keys /\ signature = "valid"    -> "ok"
      [] Signer \in keys /\ signature = "broken"   -> "invalid"

\* A document without armor is no clear-signed message, and not an unsigned one.
VerifyInRelease(file, signature, keys) ==
    IF signature = "none" \/ ~file.whole \/ file.gen = 0 THEN "invalid"
    ELSE CheckSignature(signature, keys)

\* Without a key and without an error the body is empty, and believed.
NoTrustAnchor(file, ring, allowUnverified) ==
    IF allowUnverified THEN [state |-> "accepted", file |-> file]
    ELSE [state |-> IF ring.err THEN "failed" ELSE "accepted", file |-> Absent]

Believed(file, verdict, allowUnverified) ==
    IF verdict = "ok" \/ (verdict \in {"unknown", "unsigned"} /\ allowUnverified)
    THEN [state |-> "accepted", file |-> file]
    ELSE [state |-> "failed", file |-> Absent]

VerifyInReleaseOrFallback(file, signature, ring, allowUnverified) ==
    IF ring.keys = {} THEN NoTrustAnchor(file, ring, allowUnverified)
    ELSE Believed(file, VerifyInRelease(file, signature, ring.keys), allowUnverified)

\* The signature is fetched after the body, and may be another generation's.
VerifyDetachedRelease(file, sig, signature, keys) ==
    CheckSignature(IF Sum(file) = Sum(sig) THEN signature ELSE "broken", keys)

VerifyDetachedOrFallback(file, answer, sig, signature, ring, allowUnverified) ==
    IF ~IsBody(answer) THEN Believed(file, "unsigned", allowUnverified)
    ELSE IF ring.keys = {} THEN NoTrustAnchor(file, ring, allowUnverified)
    ELSE IF sig.gen = 0 \/ ~sig.whole THEN Believed(file, "invalid", allowUnverified)
    ELSE Believed(file, VerifyDetachedRelease(file, sig, signature, ring.keys), allowUnverified)
===============================================================================
