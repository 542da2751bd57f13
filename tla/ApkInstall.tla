------------------------------ MODULE ApkInstall ------------------------------
(* Index.InstallPackagesWithOptions: no script runs, no lock is taken, and the  *)
(* only record is a stanza of /lib/apk/db/installed.  The stanza is the         *)
(* package's .PKGINFO, which has no "P:" line: a reader of the file does not    *)
(* find the name, and writes the file without the stanza.                       *)
EXTENDS Installer

\* What both readers see.
Named(db) == [p \in Package |-> IF db[p].state = "installed" THEN db[p] ELSE NotThere]

\* The packages of a sequence that are not in S, in its order.
Without(packages, S) ==
    LET kept  == {n \in DOMAIN packages : packages[n] \notin S}
        UpTo(n) == {m \in kept : m <= n}
    IN  [n \in 1..Cardinality(kept) |->
            packages[CHOOSE m \in kept : Cardinality(UpTo(m)) = n]]

ApkResolve(i) ==
    /\ format = "apk" /\ pc[i] = "load"
    /\ cache' = [cache EXCEPT ![i] = Loaded(i)]
    /\ LET wanted == Resolve("apk", plan[i], {}).plan
       IN  Prepared(i, Without(wanted, {p \in Package : Named(native)[p] # NotThere}))
    /\ UNCHANGED <<hostVars, diskVars, dbVars, nativeVars, at, snap, phase>>

\* The next archive is opened and its .PKGINFO read from the first or the second
\* of its streams.
ReadPkgInfo(i) ==
    /\ format = "apk" /\ pc[i] = "install"
    /\ IF k[i] > Len(plan[i]) THEN Goto(i, "done") /\ UNCHANGED lock
       ELSE \/ Goto(i, "extract") /\ UNCHANGED lock
            \/ Fail(i)
    /\ at' = [at EXCEPT ![i] = 1]
    /\ UNCHANGED <<hostVars, diskVars, dbVars, nativeVars, callVars, k, snap, phase>>

ExtractAPKData(i) ==
    /\ format = "apk" /\ pc[i] = "extract"
    /\ LET n == at[i]
           e == Contents[P(i)][n] IN
       /\ n <= Len(Contents[P(i)]) => ~LinkBroken(fs, e)
       /\ Extract(i, ApkPlace(fs, P(i), cache[i].version, e), "stanzas")

ReadInstalledStanzas(i) ==
    /\ format = "apk" /\ pc[i] = "stanzas"
    /\ snap' = [snap EXCEPT ![i] = Named(native)]
    /\ Goto(i, "writeStanzas")
    /\ UNCHANGED <<hostVars, diskVars, dbVars, nativeVars, lock, callVars, k, at, phase>>

WriteInstalledStanzas_OwnOnly(i) ==
    /\ format = "apk" /\ pc[i] = "writeStanzas"
    /\ native' = [p \in Package |-> IF p = P(i)
                     THEN [state |-> "nameless", version |-> cache[i].version] ELSE NotThere]
    /\ lost' = lost \cup {p \in Package \ {P(i)} : native[p].state = "installed"}
    /\ unrecorded' = unrecorded \ {P(i)}
    /\ k' = [k EXCEPT ![i] = @ + 1]
    /\ Goto(i, "install")
    /\ UNCHANGED <<hostVars, fs, dbVars, rpmdb, lock, callVars, at, snap, phase>>

\* All stanzas read and the new one, renamed into place.  The new one is the archive's
\* .PKGINFO, which every archive here has, and has no P: line; the stanza that is written
\* field by field in its absence (install.go:510-523) would have one.
WriteInstalledStanzas(i) ==
    /\ format = "apk" /\ pc[i] = "writeStanzas"
    /\ native' = [snap[i] EXCEPT ![P(i)] = [state |-> "nameless", version |-> cache[i].version]]
    /\ lost' = lost \cup {p \in Package \ {P(i)} :
                            native[p].state = "installed" /\ native'[p] = NotThere}
    /\ unrecorded' = unrecorded \ {P(i)}
    /\ k' = [k EXCEPT ![i] = @ + 1]
    /\ Goto(i, "install")
    /\ UNCHANGED <<hostVars, fs, dbVars, rpmdb, lock, callVars, at, snap, phase>>

ApkStep(i) ==
    \/ ApkResolve(i) \/ ReadPkgInfo(i) \/ ExtractAPKData(i)
    \/ ReadInstalledStanzas(i) \/ WriteInstalledStanzas(i)
================================================================================
