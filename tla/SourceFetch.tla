------------------------------ MODULE SourceFetch ------------------------------
(* Builder.getSources: one errgroup worker per entry of a PKGBUILD's source    *)
(* array, each running Source.Get, over the files of the package's start       *)
(* directory, which outlive a run. Several entries may name one file, which a   *)
(* singleflight group keeps from being downloaded twice at once.               *)
(* A definition X_Fault is X with a plausible bug, against which the properties *)
(* are measured; nothing uses it.                                              *)
EXTENDS Naturals, FiniteSets

CONSTANTS
    NumSources,   \* length of source=()
    File,         \* the files these entries are downloaded to
    PathOf,       \* the file of each entry
    Kind,         \* what the URI of each file asks for
    Checked,      \* the entries with a checksum, neither SKIP nor --skip-hash-check
    MaxWorkers,   \* limit of the errgroup
    MaxRetries,   \* retries after the first attempt
    MaxRuns,      \* bound: runs of getSources on the same directory
    NoSource      \* leader of no flight

Source == 1..NumSources
Kinds  == {"http", "git", "file", "unsupported"}

ASSUME SourceAssumption ==
    /\ NumSources \in Nat /\ MaxRetries \in Nat /\ MaxRuns \in Nat
    /\ MaxWorkers \in Nat \ {0}
    /\ PathOf \in [Source -> File]
    /\ Kind \in [File -> Kinds]
    /\ Checked \subseteq Source
    /\ NoSource \notin Source

VARIABLES
    disk,       \* content of each file of the start directory
    link,       \* what the src directory has under the name of each file
    run,        \* getSources: not called, running, or what it returned
    runs,       \* runs started so far
    launched,   \* entries g.Go was called for, in order
    pc,         \* where the worker of each entry is
    gctx,       \* context of the errgroup: "live" or "cancelled"
    flight,     \* downloadGroup: the entry whose worker downloads each file
    attempt,    \* retryDownload's loop counter, per file
    missing     \* history: the files that did not exist when the run began

vars == <<disk, link, run, runs, launched, pc, gctx, flight, attempt, missing>>

runVars == <<run, runs, launched, missing>>
netVars == <<flight, attempt>>

\* "whole" is what the PKGBUILD asks for: the bytes its checksum names, or the
\* repository at the fragment's commit, branch or tag. "other" is complete but
\* different, "part" an unfinished download or clone, "bare" a git mirror.
Contents == {"none", "part", "whole", "other", "bare"}

Errors == {"noResponse", "broken", "badLength", "permanent"}

\* Errors that IsRetryableGrabError accepts. "broken" is a status 408, 429 or
\* 5xx or a connection that broke in mid-body; "noResponse" comes from a
\* connection that was never made, whose cause is not kept.
Retryable == {"broken", "badLength"}

FlightStates == {"recheck", "transfer"}
BusyStates   == {"start", "bare", "look", "join", "recheck", "transfer", "wait",
                 "validate", "readLink", "symlink", "extract"}
Busy == {i \in Source : pc[i] \in BusyStates}

Goto(i, l) == pc' = [pc EXCEPT ![i] = l]

\* A worker returns an error: the errgroup cancels gctx.
Fails(i) == Goto(i, "failed") /\ gctx' = "cancelled"

Init ==
    /\ disk \in [File -> {"none", "whole", "bare"}]
    /\ \A f \in File : disk[f] = "bare" => Kind[f] = "git"
    /\ link = [f \in File |-> "none"]
    /\ run = "idle" /\ runs = 0 /\ launched = 0
    /\ pc = [i \in Source |-> "off"]
    /\ gctx = "live"
    /\ flight = [f \in File |-> NoSource]
    /\ attempt = [f \in File |-> 0]
    /\ missing = {}

--------------------------------------------------------------------------------
(* getSources: the errgroup and its workers' life.                            *)

GetSources ==
    /\ run # "running" /\ runs < MaxRuns
    /\ run' = "running" /\ runs' = runs + 1
    /\ launched' = 0
    /\ pc' = [i \in Source |-> "off"]
    /\ gctx' = "live"
    /\ missing' = {f \in File : disk[f] = "none"}
    /\ UNCHANGED <<disk, link, netVars>>

\* g.Go: blocks while MaxWorkers workers run.
Launch ==
    /\ run = "running" /\ launched < NumSources
    /\ Cardinality(Busy) < MaxWorkers
    /\ launched' = launched + 1
    /\ Goto(launched + 1, "start")
    /\ UNCHANGED <<disk, link, run, runs, gctx, netVars, missing>>

\* The only look at gctx is the one before Get.
Start(i) ==
    /\ pc[i] = "start"
    /\ IF gctx = "cancelled" \/ Kind[PathOf[i]] = "unsupported"
       THEN Fails(i)
       ELSE /\ Goto(i, CASE Kind[PathOf[i]] = "git"  -> "bare"
                         [] Kind[PathOf[i]] = "http" -> "look"
                         [] OTHER                    -> "validate")
            /\ UNCHANGED gctx
    /\ UNCHANGED <<disk, link, runVars, netVars>>

\* g.Wait returns when every worker has.
Wait ==
    /\ run = "running" /\ launched = NumSources /\ Busy = {}
    /\ run' = IF \E i \in Source : pc[i] = "failed" THEN "failed" ELSE "ok"
    /\ UNCHANGED <<disk, link, runs, launched, pc, gctx, netVars, missing>>

\* The caller's context, from which gctx derives, is cancelled.
CallerCancels ==
    /\ run = "running" /\ gctx = "live"
    /\ gctx' = "cancelled"
    /\ UNCHANGED <<disk, link, runVars, pc, netVars>>

\* The process ends in the middle of a run; files stay as they are.
Crash ==
    /\ run = "running"
    /\ run' = "idle"
    /\ pc' = [i \in Source |-> "off"]
    /\ flight' = [f \in File |-> NoSource]
    /\ UNCHANGED <<disk, link, runs, launched, gctx, attempt, missing>>

\* Between runs the PKGBUILD is edited: another fragment or checksum, under the
\* same name. What is on disk is no longer what it asks for.
EditPkgbuild(f) ==
    /\ run # "running" /\ disk[f] = "whole"
    /\ disk' = [disk EXCEPT ![f] = "other"]
    /\ run' = "idle"
    /\ UNCHANGED <<link, runs, launched, pc, gctx, netVars, missing>>

--------------------------------------------------------------------------------
(* Source.Get up to the download.                                             *)

\* git.ExtractFromBare, if a mirror is there: a working copy in the src
\* directory is all the entry needs; on failure the mirror goes.
TryBare(i) == LET f == PathOf[i] IN
    /\ pc[i] = "bare"
    /\ \/ /\ disk[f] # "bare"
          /\ Goto(i, "look")
          /\ UNCHANGED <<disk, link>>
       \/ /\ disk[f] = "bare"
          /\ link' = [link EXCEPT ![f] = "copy"]
          /\ Goto(i, "done")
          /\ UNCHANGED disk
       \/ /\ disk[f] = "bare"
          /\ disk' = [disk EXCEPT ![f] = "none"]
          /\ link' = [link EXCEPT ![f] = "none"]
          /\ Goto(i, "look")
    /\ UNCHANGED <<runVars, gctx, netVars>>

Look(i) ==
    /\ pc[i] = "look"
    /\ Goto(i, IF disk[PathOf[i]] = "none" THEN "join" ELSE "validate")
    /\ UNCHANGED <<disk, link, runVars, gctx, netVars>>

Join_ByEntry(i) ==
    /\ pc[i] = "join"
    /\ flight' = [flight EXCEPT ![PathOf[i]] = i]
    /\ Goto(i, "recheck")
    /\ UNCHANGED <<disk, link, runVars, gctx, attempt>>

\* downloadGroup.Do: the first worker leads, the others wait for its result.
Join(i) == LET f == PathOf[i] IN
    /\ pc[i] = "join"
    /\ IF flight[f] = NoSource
       THEN flight' = [flight EXCEPT ![f] = i] /\ Goto(i, "recheck")
       ELSE UNCHANGED flight /\ Goto(i, "wait")
    /\ UNCHANGED <<disk, link, runVars, gctx, attempt>>

\* The error is dropped.
Landed_ErrorLost(i, ok) == LET f == PathOf[i] IN
    /\ flight' = [flight EXCEPT ![f] = NoSource]
    /\ pc' = [j \in Source |->
                IF j = i \/ (PathOf[j] = f /\ pc[j] = "wait") THEN "validate" ELSE pc[j]]
    /\ UNCHANGED gctx

\* Those who wait are forgotten.
Landed_NoWakeUp(i, ok) ==
    /\ flight' = [flight EXCEPT ![PathOf[i]] = NoSource]
    /\ Goto(i, IF ok THEN "validate" ELSE "failed")
    /\ gctx' = IF ok THEN gctx ELSE "cancelled"

\* The function given to Do returns: so do the Do of its leader and of all
\* who wait, and with an error they all fail.
Landed(i, ok) == LET f == PathOf[i]
                     crew == {i} \cup {j \in Source : PathOf[j] = f /\ pc[j] = "wait"} IN
    /\ flight' = [flight EXCEPT ![f] = NoSource]
    /\ pc' = [j \in Source |->
                IF j \in crew THEN IF ok THEN "validate" ELSE "failed" ELSE pc[j]]
    /\ gctx' = IF ok THEN gctx ELSE "cancelled"

Recheck_NotAgain(i) == LET f == PathOf[i] IN
    /\ pc[i] = "recheck"
    /\ Goto(i, "transfer")
    /\ attempt' = [attempt EXCEPT ![f] = 0]
    /\ UNCHANGED <<disk, link, runVars, gctx, flight>>

\* Within Do: another flight may have brought the file meanwhile.
Recheck(i) == LET f == PathOf[i] IN
    /\ pc[i] = "recheck"
    /\ IF disk[f] # "none"
       THEN Landed(i, TRUE) /\ UNCHANGED attempt
       ELSE /\ Goto(i, "transfer")
            /\ attempt' = [attempt EXCEPT ![f] = 0]
            /\ UNCHANGED <<gctx, flight>>
    /\ UNCHANGED <<disk, link, runVars>>

--------------------------------------------------------------------------------
(* The download itself: retryDownload over grab, which writes to the           *)
(* destination, and git.Clone.                                                *)

\* The first bytes of the file, or the directory of a clone, appear.
Appears(i) == LET f == PathOf[i] IN
    /\ pc[i] = "transfer" /\ disk[f] = "none"
    /\ disk' = [disk EXCEPT ![f] = "part"]
    /\ UNCHANGED <<link, runVars, pc, gctx, netVars>>

Completes(i) == LET f == PathOf[i] IN
    /\ pc[i] = "transfer"
    /\ \E c \in {"whole", "other"} :
          /\ Kind[f] = "git" => c = "whole"
          /\ disk' = [disk EXCEPT ![f] = c]
    /\ Landed(i, TRUE)
    /\ UNCHANGED <<link, runVars, attempt>>

\* One attempt too many.
AttemptFails_OneMore(i) == LET f == PathOf[i] IN
    /\ pc[i] = "transfer" /\ Kind[f] = "http"
    /\ IF attempt[f] <= MaxRetries
       THEN /\ attempt' = [attempt EXCEPT ![f] = @ + 1]
            /\ UNCHANGED <<pc, gctx, flight>>
       ELSE UNCHANGED attempt /\ Landed(i, FALSE)
    /\ UNCHANGED <<disk, link, runVars>>

\* One attempt fails: a retryable error is retried while attempts are left. A
\* length mismatch, which takes a partial file, removes the file first.
AttemptFails(i) == LET f == PathOf[i] IN
    /\ pc[i] = "transfer" /\ Kind[f] = "http"
    /\ \E e \in Errors :
          /\ e = "badLength" => disk[f] = "part"
          /\ disk' = IF e = "badLength" THEN [disk EXCEPT ![f] = "none"] ELSE disk
          /\ IF e \in Retryable /\ attempt[f] < MaxRetries
             THEN /\ attempt' = [attempt EXCEPT ![f] = @ + 1]
                  /\ UNCHANGED <<pc, gctx, flight>>
             ELSE UNCHANGED attempt /\ Landed(i, FALSE)
    /\ UNCHANGED <<link, runVars>>

\* git.Clone fails and leaves nothing, or its checkout of the requested commit
\* or reference fails and leaves the clone.
CloneFails(i) == LET f == PathOf[i] IN
    /\ pc[i] = "transfer" /\ Kind[f] = "git"
    /\ \E c \in {"none", "other"} : disk' = [disk EXCEPT ![f] = c]
    /\ Landed(i, FALSE)
    /\ UNCHANGED <<link, runVars, attempt>>

--------------------------------------------------------------------------------
(* Source.Get after the download.                                             *)

Acceptable_AnyFile(i) == disk[PathOf[i]] # "none"

\* A git directory and an unchecked file need only exist.
Acceptable(i) == LET f == PathOf[i] IN
    /\ disk[f] # "none"
    /\ i \in Checked /\ Kind[f] # "git" => disk[f] = "whole"

ValidateSource(i) ==
    /\ pc[i] = "validate"
    /\ \/ Acceptable(i) /\ Goto(i, "readLink") /\ UNCHANGED gctx
       \/ ~Acceptable(i) /\ Fails(i)
    /\ UNCHANGED <<disk, link, runVars, netVars>>

\* symlinkSources looks first; os.Remove does not remove a working copy.
ReadLink(i) == LET f == PathOf[i] IN
    /\ pc[i] = "readLink"
    /\ \/ link[f] = "link" /\ Goto(i, "extract") /\ UNCHANGED gctx
       \/ link[f] = "none" /\ Goto(i, "symlink") /\ UNCHANGED gctx
       \/ link[f] = "copy" /\ Fails(i)
    /\ UNCHANGED <<disk, link, runVars, netVars>>

\* os.Symlink fails if another worker made the link meanwhile.
Symlink(i) == LET f == PathOf[i] IN
    /\ pc[i] = "symlink"
    /\ \/ /\ link[f] = "none"
          /\ link' = [link EXCEPT ![f] = "link"]
          /\ Goto(i, "extract") /\ UNCHANGED gctx
       \/ /\ link[f] # "none"
          /\ Fails(i) /\ UNCHANGED link
    /\ UNCHANGED <<disk, runVars, netVars>>

\* Extraction fails on a damaged archive; a directory, a plain file and a file
\* in noextract need none.
Extract(i) ==
    /\ pc[i] = "extract"
    /\ \/ Goto(i, "done") /\ UNCHANGED gctx
       \/ Kind[PathOf[i]] # "git" /\ Fails(i)
    /\ UNCHANGED <<disk, link, runVars, netVars>>

--------------------------------------------------------------------------------

Get(i) ==
    \/ Start(i) \/ TryBare(i) \/ Look(i) \/ Join(i) \/ Recheck(i)
    \/ Appears(i) \/ Completes(i) \/ AttemptFails(i) \/ CloneFails(i)
    \/ ValidateSource(i) \/ ReadLink(i) \/ Symlink(i) \/ Extract(i)

Next ==
    \/ GetSources \/ Launch \/ Wait \/ CallerCancels \/ Crash
    \/ \E i \in Source : Get(i)
    \/ \E f \in File : EditPkgbuild(f)

Spec == Init /\ [][Next]_vars

\* The goroutines of a run are scheduled, and servers answer: grab sets no time
\* limit. Nobody need start another run, cancel one or crash.
FairSpec ==
    /\ Spec
    /\ WF_vars(Launch) /\ WF_vars(Wait)
    /\ \A i \in 1..NumSources : WF_vars(Get(i))

--------------------------------------------------------------------------------
(* Properties.                                                                *)

Complete(f) == disk[f] = "whole" \/ (disk[f] = "other" /\ Kind[f] # "git")

PCs == BusyStates \cup {"off", "done", "failed"}

\* Every variable stays in its type; the retry counter stays within its budget.
TypeOK ==
    /\ disk \in [File -> Contents]
    /\ link \in [File -> {"none", "link", "copy"}]
    /\ run \in {"idle", "running", "ok", "failed"}
    /\ runs \in 0..MaxRuns
    /\ launched \in 0..NumSources
    /\ pc \in [Source -> PCs]
    /\ gctx \in {"live", "cancelled"}
    /\ flight \in [File -> Source \cup {NoSource}]
    /\ attempt \in [File -> 0..MaxRetries]
    /\ missing \subseteq File

\* When getSources returns without an error, every file or download that has a
\* checksum is the one the checksum names and is linked into the src directory:
\* nothing that ran after its validation (a retry's os.Remove, another entry's
\* download) has changed it.
SuccessIsVerified ==
    run = "ok" => \A i \in Checked :
        Kind[PathOf[i]] # "git" => disk[PathOf[i]] = "whole" /\ link[PathOf[i]] = "link"

\* When getSources returns without an error, everything it had to fetch was
\* fetched completely, a repository at its reference, even for entries without
\* a checksum, whose workers may have taken the half-written file of another.
FetchedCompletely ==
    run = "ok" => \A i \in Source : PathOf[i] \in missing => Complete(PathOf[i])

\* downloadGroup: a file has one writer at a time.
OneWriter ==
    \A i, j \in Source :
        pc[i] = "transfer" /\ pc[j] = "transfer" /\ PathOf[i] = PathOf[j] => i = j

\* A file that is there is not downloaded again, however the workers that found
\* it absent are delayed: a download begins only when the file does not exist.
NothingFetchedTwice ==
    [][\A i \in Source : pc[i] # "transfer" /\ pc'[i] = "transfer" => disk[PathOf[i]] = "none"]_vars

\* While the errgroup runs, it returns: no worker is left waiting for a flight
\* that has landed, and no download is tried for ever.
RunReturns == (run = "running") ~> (run # "running")

\* builder.go's comment on the errgroup, "First error cancels in-flight
\* workers": once a worker has failed, no other tries its download again.
ErrorStopsDownloads ==
    [][\A f \in File : (\E i \in Source : pc[i] = "failed") => attempt'[f] <= attempt[f]]_vars

\* handleExistingRepo's comment, "handles the case where a git repository
\* already exists and potentially needs to checkout a specific branch or tag":
\* a run that succeeds leaves no repository at another reference than asked for.
RepositoryAtReference ==
    run = "ok" => \A i \in Source : Kind[PathOf[i]] = "git" => disk[PathOf[i]] # "other"
================================================================================
