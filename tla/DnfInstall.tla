------------------------------ MODULE DnfInstall ------------------------------
(* dnfinstall.InstallWithOptions: packages are resolved and downloaded without   *)
(* a lock; each is then verified, unpacked and recorded under the install lock,  *)
(* which is polled for thirty seconds.                                         *)
EXTENDS Installer

\* Names that cannot be resolved are only warned about.  The cache is kept, what
\* is installed is read from the rpmdb each time.
DnfResolve(i) ==
    /\ format = "rpm" /\ pc[i] = "load"
    /\ cache' = [cache EXCEPT ![i] = Loaded(i)]
    /\ LET installed == {p \in Package : native[p].state = "installed"}
       IN  Prepared(i, Resolve("rpm", plan[i], installed).plan)
    /\ UNCHANGED <<hostVars, diskVars, dbVars, nativeVars, at, snap, phase>>

DnfDone_OneEarly(i) ==
    /\ format = "rpm" /\ pc[i] = "install" /\ k[i] >= Len(plan[i])
    /\ Goto(i, "done")
    /\ UNCHANGED <<hostVars, diskVars, dbVars, nativeVars, lock, callVars, k, at, snap, phase>>

DnfDone(i) ==
    /\ format = "rpm" /\ pc[i] = "install" /\ k[i] > Len(plan[i])
    /\ Goto(i, "done")
    /\ UNCHANGED <<hostVars, diskVars, dbVars, nativeVars, lock, callVars, k, at, snap, phase>>

AcquireLock_Busy(i) ==
    /\ format = "rpm" /\ pc[i] = "install" /\ k[i] <= Len(plan[i])
    /\ lock' = i
    /\ Goto(i, "verify")
    /\ UNCHANGED <<hostVars, diskVars, dbVars, nativeVars, callVars, k, at, snap, phase>>

AcquireLock(i) ==
    /\ format = "rpm" /\ pc[i] = "install" /\ k[i] <= Len(plan[i])
    /\ lock = NoProcess
    /\ lock' = i
    /\ Goto(i, "verify")
    /\ UNCHANGED <<hostVars, diskVars, dbVars, nativeVars, callVars, k, at, snap, phase>>

\* Thirty seconds of polling, or the caller's context is cancelled.
LockTimesOut(i) ==
    /\ format = "rpm" /\ pc[i] = "install" /\ k[i] <= Len(plan[i])
    /\ lock # NoProcess
    /\ Fail(i)
    /\ UNCHANGED <<hostVars, diskVars, dbVars, nativeVars, callVars, k, at, snap, phase>>

\* What loadRPMKeyring finds: a directory's files that cannot be read are passed
\* over, a single file must be readable and hold a key.
LoadRPMKeyring(trust) ==
    IF trust.kind = "directory" THEN [error |-> "none", keys |-> UNION trust.files]
    ELSE IF trust.files = {} THEN [error |-> "unreadable", keys |-> {}]
    ELSE [error |-> IF UNION trust.files = {} THEN "noAnchor" ELSE "none",
          keys  |-> UNION trust.files]

\* The signer of the rpm is "nobody", or has a key; a damaged signature is nobody's.
VerifyRPMSignature(trust, signer, options) ==
    \/ "unverified" \in options
    \/ /\ trust.kind # "absent"
       /\ LoadRPMKeyring(trust).error = "none"
       /\ signer \in LoadRPMKeyring(trust).keys

TrustPaths ==
    {[kind |-> "absent", files |-> {}]} \cup
    [kind : {"file"}, files : {{}, {{}}, {{"fedora"}}}] \cup
    [kind : {"directory"}, files : {{}, {{"fedora"}}, {{"fedora"}, {"yap"}}}]

\* After the signature the rpm is parsed.
VerifySignature(i) ==
    /\ format = "rpm" /\ pc[i] = "verify"
    /\ \E trust \in TrustPaths, signer \in {"nobody", "fedora", "yap"}, parses \in {"yes", "no"} :
          IF VerifyRPMSignature(trust, signer, opts) /\ parses = "yes"
          THEN Goto(i, "pretrans") /\ UNCHANGED lock
          ELSE Fail(i)
    /\ UNCHANGED <<hostVars, diskVars, dbVars, nativeVars, callVars, k, at, snap, phase>>

Pretrans(i) == format = "rpm" /\ RunScript(i, "pretrans", "prein", "strict" \in opts)
Prein(i)    == format = "rpm" /\ RunScript(i, "prein", "extract", TRUE)
Postin(i)   == format = "rpm" /\ RunScript(i, "postin", "open", "strict" \in opts)

ExtractRPM(i) ==
    /\ format = "rpm"
    /\ Extract(i, RpmPlace(fs, P(i), cache[i].version, Contents[P(i)], at[i]), "postin")

Populated == \E p \in Package : native[p] # NotThere

\* OpenWriter after writeSystemRpmdb has found the file: an rpmdb without tables
\* gets them, one whose schema is cut or that has packages is refused.
OpenWriter(i) ==
    /\ format = "rpm" /\ pc[i] = "rpmdb" /\ "native" \in opts
    /\ \/ rpmdb = "new" /\ Goto(i, "rpmdbSchema") /\ UNCHANGED lock
       \/ rpmdb = "used" /\ ~Populated /\ Goto(i, "rpmdbInsert") /\ UNCHANGED lock
       \/ rpmdb \in {"missing", "cut"} /\ Fail(i)
       \/ rpmdb = "used" /\ Populated /\ Fail(i)
    /\ UNCHANGED <<hostVars, diskVars, dbVars, nativeVars, callVars, k, at, snap, phase>>

\* The tables are made by a script that is not a transaction.
InitRpmdbSchema(i) ==
    /\ format = "rpm" /\ pc[i] = "rpmdbSchema"
    /\ rpmdb' = IF rpmdb = "new" THEN "cut" ELSE "used"
    /\ Goto(i, IF rpmdb = "new" THEN "rpmdbSchema" ELSE "rpmdbInsert")
    /\ UNCHANGED <<hostVars, diskVars, dbVars, native, lost, lock, callVars, k, at, snap, phase>>

\* One transaction for the header and all the indexes.
WriterInstall(i) ==
    /\ format = "rpm" /\ pc[i] = "rpmdbInsert"
    /\ SetNative([native EXCEPT ![P(i)] =
                    [state |-> "installed", version |-> cache[i].version]], P(i))
    /\ Goto(i, "posttrans")
    /\ UNCHANGED <<hostVars, diskVars, dbVars, rpmdb, lock, callVars, k, at, snap, phase>>

NoSystemRpmdb(i) ==
    /\ format = "rpm" /\ pc[i] = "rpmdb" /\ "native" \notin opts
    /\ Goto(i, "posttrans")
    /\ UNCHANGED <<hostVars, diskVars, dbVars, nativeVars, lock, callVars, k, at, snap, phase>>

\* The last script, and release().
Posttrans(i) ==
    /\ format = "rpm" /\ pc[i] = "posttrans"
    /\ \/ /\ k' = [k EXCEPT ![i] = @ + 1]
          /\ Goto(i, "install") /\ lock' = NoProcess
       \/ /\ "strict" \in opts
          /\ Fail(i) /\ UNCHANGED k
    /\ UNCHANGED <<hostVars, diskVars, dbVars, nativeVars, callVars, at, snap, phase>>

DnfStep(i) ==
    \/ DnfResolve(i) \/ DnfDone(i) \/ AcquireLock(i) \/ LockTimesOut(i) \/ VerifySignature(i)
    \/ Pretrans(i) \/ Prein(i) \/ ExtractRPM(i) \/ Postin(i)
    \/ OpenWriter(i) \/ InitRpmdbSchema(i) \/ WriterInstall(i) \/ NoSystemRpmdb(i) \/ Posttrans(i)
================================================================================
