------------------------------ MODULE AptInstall ------------------------------
(* aptinstall.InstallWithOptions: one blocking flock for the whole call, then   *)
(* per package dpkg's own order: info files, preinst, data.tar, "unpacked",     *)
(* postinst, "installed".  X_Fault is X with a plausible bug, against which the *)
(* properties are measured.                                                    *)
EXTENDS Installer

\* The lock file can be opened: where it cannot, for a process that is not root,
\* the call goes on without a lock (status.go:514), which is left out.
AcquireDpkgLock(i) ==
    /\ format = "deb" /\ pc[i] = "lock" /\ lock = NoProcess
    /\ lock' = i
    /\ Goto(i, "load")
    /\ UNCHANGED <<hostVars, diskVars, dbVars, nativeVars, callVars, k, at, snap, phase>>

\* resolveAndPrepare: a name that cannot be resolved ends the call.
ResolveAndPrepare(i) ==
    /\ format = "deb" /\ pc[i] = "load"
    /\ cache' = [cache EXCEPT ![i] = Loaded(i)]
    /\ LET r == Resolve("deb", plan[i], cache'[i].installed) IN
       IF r.unresolved THEN Fail(i) /\ UNCHANGED <<plan, k>> ELSE Prepared(i, r.plan)
    /\ UNCHANGED <<hostVars, diskVars, dbVars, nativeVars, at, snap, phase>>

\* The next package, whose info files and scripts go to /var/lib/dpkg/info, or
\* the end: ldconfig runs, whatever it returns, and the lock is released.
AptNext(i) ==
    /\ format = "deb" /\ pc[i] = "install"
    /\ IF k[i] > Len(plan[i])
       THEN Goto(i, "done") /\ lock' = NoProcess
       ELSE \/ Goto(i, "preinst") /\ UNCHANGED lock
            \/ Fail(i)
    /\ phase' = [phase EXCEPT ![i] = "unpacking"]
    /\ UNCHANGED <<hostVars, diskVars, dbVars, nativeVars, callVars, k, at, snap>>

Preinst(i) == format = "deb" /\ RunScript(i, "preinst", "extract", TRUE)

\* A regular file is opened with O_TRUNC and then written, in place.
OpenForWriting(i) == LET e == Contents[P(i)][at[i]] IN
    /\ format = "deb" /\ pc[i] = "extract"
    /\ at[i] <= Len(Contents[P(i)])
    /\ IsData(e) /\ ~KeptByDpkg(fs, e)
    /\ fs' = [fs EXCEPT ![e.path] = Torn]
    /\ unrecorded' = unrecorded \cup {P(i)}
    /\ Goto(i, "write")
    /\ UNCHANGED <<hostVars, dbVars, nativeVars, lock, callVars, k, at, snap, phase>>

WriteFile(i) == LET e == Contents[P(i)][at[i]] IN
    /\ format = "deb" /\ pc[i] = "write"
    /\ fs' = [fs EXCEPT ![e.path] = File(P(i), cache[i].version)]
    /\ at' = [at EXCEPT ![i] = @ + 1]
    /\ Goto(i, "extract")
    /\ UNCHANGED <<hostVars, unrecorded, dbVars, nativeVars, lock, callVars, k, snap, phase>>

\* extractDataTarWithConffiles, for all entries that are not written.
ExtractDataTar(i) ==
    /\ format = "deb" /\ pc[i] = "extract"
    /\ LET n == at[i]
           e == Contents[P(i)][n] IN
       /\ n <= Len(Contents[P(i)]) =>
             /\ IsData(e) => KeptByDpkg(fs, e)
             /\ ~LinkBroken(fs, e)
       /\ Extract(i, DebLinks(fs, P(i), cache[i].version, e), "status")

\* updateDpkgStatusForPackage reads the status file first ...
ReadDpkgStatus(i) ==
    /\ format = "deb" /\ pc[i] = "status"
    /\ snap' = [snap EXCEPT ![i] = native]
    /\ Goto(i, "open")
    /\ UNCHANGED <<hostVars, diskVars, dbVars, nativeVars, lock, callVars, k, at, phase>>

WriteDpkgStatus_RawPhase(i) ==
    /\ format = "deb" /\ pc[i] = "writeStatus"
    /\ IF "native" \in opts
       THEN SetNative([snap[i] EXCEPT ![P(i)] =
                         [state |-> phase[i], version |-> cache[i].version]], P(i))
       ELSE UNCHANGED <<native, lost>>
    /\ \/ phase[i] = "unpacking" /\ Goto(i, "postinst") /\ UNCHANGED k
       \/ phase[i] # "unpacking" /\ Goto(i, "install") /\ k' = [k EXCEPT ![i] = @ + 1]
    /\ UNCHANGED <<hostVars, diskVars, dbVars, rpmdb, lock, callVars, at, snap, phase>>

\* ... records the package, and then, if the caller opted in, writes all entries
\* to a file that it renames into place.
WriteDpkgStatus(i) ==
    /\ format = "deb" /\ pc[i] = "writeStatus"
    /\ IF "native" \in opts
       THEN SetNative([snap[i] EXCEPT ![P(i)] =
                         [state |-> IF phase[i] = "installed" THEN "installed" ELSE "unpacked",
                          version |-> cache[i].version]], P(i))
       ELSE UNCHANGED <<native, lost>>
    /\ \/ phase[i] = "unpacking" /\ Goto(i, "postinst") /\ UNCHANGED k
       \/ phase[i] # "unpacking" /\ Goto(i, "install") /\ k' = [k EXCEPT ![i] = @ + 1]
    /\ UNCHANGED <<hostVars, diskVars, dbVars, rpmdb, lock, callVars, at, snap, phase>>

\* postinst may fail: the package then stays unpacked and the call goes on.
Postinst(i) ==
    /\ format = "deb" /\ pc[i] = "postinst"
    /\ \E s \in {"installed", "unconfigured"} : phase' = [phase EXCEPT ![i] = s]
    /\ Goto(i, "status")
    /\ UNCHANGED <<hostVars, diskVars, dbVars, nativeVars, lock, callVars, k, at, snap>>

AptStep(i) ==
    \/ AcquireDpkgLock(i) \/ ResolveAndPrepare(i) \/ AptNext(i) \/ Preinst(i)
    \/ OpenForWriting(i) \/ WriteFile(i) \/ ExtractDataTar(i)
    \/ ReadDpkgStatus(i) \/ WriteDpkgStatus(i) \/ Postinst(i)
================================================================================
