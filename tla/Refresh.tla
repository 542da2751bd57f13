------------------------------- MODULE Refresh -------------------------------
(* GetUpdates and the downloads after it: aptrepo, dnfcache, apkindex and       *)
(* pacmandb fetch the indexes of the configured repositories while these are    *)
(* published and copied to mirrors file by file, over connections that fail,    *)
(* and into a directory that a crash leaves as it is; then packages are fetched *)
(* that the loaded indexes name.                                                *)
EXTENDS AptRelease

LOCAL INSTANCE SequencesExt

CONSTANTS
    Worlds,     \* configurations: see World in MCRefresh
    Indexes,    \* names of components (apt) or repositories (dnf, apk, pacman)
    Mirrors,    \* servers
    Answers,    \* sequences of answers, at most three: what the attempts of one request meet
    MaxGen,     \* bound: generations the origin publishes
    MaxRuns     \* bound: processes started

ASSUME RefreshBounds == MaxGen \in Nat \ {0} /\ MaxRuns \in Nat \ {0}

\* A repository has a server; the files of an index have the names 0..MaxGen, by
\* compression or by generation.
ASSUME WorldAssumption ==
    \A w \in Worlds :
        /\ w.format \in {"apt", "dnf", "apk", "pacman"}
        /\ w.indexes \subseteq Indexes
        /\ w.mirrors \in Seq(Mirrors) /\ w.mirrors # <<>>
        /\ w.variants \in 0..MaxGen

VARIABLES
    world,      \* the configuration
    origin,     \* the newest generation published
    mirror,     \* per mirror the generations it serves: of each index, of the release, of the pool
    lists,      \* the files of the indexes on disk, by index and name
    cached,     \* per index the repomd.xml on disk and when it was written
    baseurl,    \* per index the mirror last used
    phase,      \* of the process: "idle", "updating", "ready", "failed"
    release,    \* the Release document of this update
    job,        \* per index how far its fetch is
    loaded,     \* per index the newest generation of its package that the cache offers, 0 for none
    download,   \* per index how far the download of its package is
    vouched,    \* the generations of Release or repomd.xml that this host has believed
    canceled,   \* the context's end
    runs        \* processes started

vars == <<world, origin, mirror, lists, cached, baseurl, phase, release, job, loaded, download,
          vouched, canceled, runs>>
servers == <<origin, mirror>>
files == <<lists, cached, baseurl>>

Todo == [state |-> "todo", next |-> 1, file |-> Absent]
\* A world may have fewer indexes: nothing is done for another.
NoJobs == [i \in Indexes |-> IF i \in world.indexes THEN Todo ELSE [Todo EXCEPT !.state = "unused"]]
NoRelease == [state |-> "none", file |-> Absent]

\* pacman.conf: the Server lines of a repository and those of the mirror lists it
\* includes.  A list that cannot be read is taken for another pacman.conf, which
\* cannot be read either.
ParseConfig(lines) ==
    [servers |-> FlattenSeq([n \in DOMAIN lines |-> IF lines[n].there THEN lines[n].servers ELSE <<>>]),
     err     |-> \E n \in DOMAIN lines : lines[n].key = "Include" /\ ~lines[n].there]

\* maxMirrors
MaxMirrors == 5
ResolveRepoCandidates ==
    IF Len(world.mirrors) > MaxMirrors THEN SubSeq(world.mirrors, 1, MaxMirrors) ELSE world.mirrors
Candidates == IF world.format = "pacman" THEN ParseConfig(world.config).servers ELSE ResolveRepoCandidates

\* Under a canceled context no request is answered.
Asked == IF canceled THEN {<<"canceled">>} ELSE Answers
Fetched(scheme) == {HttpFetch(scheme, a, b) : a \in Asked, b \in Asked}
Retried == {WithRetry(a) : a \in Asked}

\* The name of a dnf index: its repository puts the generation into it or not.
HrefOf(gen) == IF world.hashed THEN gen ELSE 0
\* What a mirror serves under the name of generation gen.
Served(has, gen, answer) ==
    IF world.hashed /\ has # gen /\ answer = "sent" THEN "denied" ELSE answer

Init ==
    /\ world \in Worlds
    /\ origin = 1
    /\ mirror = [m \in Mirrors |-> [index |-> [i \in Indexes |-> 1], release |-> 1, pool |-> 1]]
    /\ lists = [i \in Indexes |-> [n \in 0..MaxGen |-> Absent]]
    /\ cached = [i \in Indexes |-> [file |-> Absent, time |-> 0]]
    /\ baseurl = [i \in Indexes |-> world.mirrors[1]]
    /\ phase = "idle"
    /\ release = NoRelease
    /\ job = NoJobs
    /\ loaded = [i \in Indexes |-> 0]
    /\ download = NoJobs
    /\ vouched = {}
    /\ canceled = FALSE
    /\ runs = 1

-------------------------------------------------------------------------------
(* The repositories.  A mirror takes over the origin's files one by one, in any *)
(* order.                                                                       *)

Publish ==
    /\ origin < MaxGen
    /\ origin' = origin + 1
    /\ UNCHANGED <<world, mirror, files, phase, release, job, loaded, download, vouched, canceled, runs>>

Synchronise(m) ==
    /\ m \in {world.mirrors[n] : n \in DOMAIN world.mirrors} \ world.lagging
    /\ \/ \E i \in world.indexes : /\ mirror[m].index[i] < origin
                             /\ mirror' = [mirror EXCEPT ![m].index[i] = origin]
       \/ /\ mirror[m].release < origin
          /\ mirror' = [mirror EXCEPT ![m].release = origin]
       \/ /\ mirror[m].pool < origin
          /\ mirror' = [mirror EXCEPT ![m].pool = origin]
    /\ UNCHANGED <<world, origin, files, phase, release, job, loaded, download, vouched, canceled, runs>>

-------------------------------------------------------------------------------
(* apt.  The Release document is fetched once for all the sources that name it. *)

AptServer == mirror[world.mirrors[1]]
Ring == LoadKeyringForSource(world.signedBy)

Believe(decision) ==
    /\ release' = decision
    /\ vouched' = vouched \cup (IF decision.state = "accepted" THEN {decision.file.gen} ELSE {})

FetchRelease ==
    /\ world.format = "apt" /\ phase = "updating"
    /\ \/ /\ release.state = "none"
          /\ \E answer \in Fetched(world.scheme) :
                IF IsBody(answer) /\ world.inline
                THEN Believe(VerifyInReleaseOrFallback(Truncated(answer, Whole(AptServer.release)),
                                world.signature, Ring, world.allowUnverified))
                ELSE /\ release' = [release EXCEPT !.state = "plain"]
                     /\ UNCHANGED vouched
       \/ /\ release.state = "plain"
          /\ \E answer \in Fetched(world.scheme) :
                release' = IF IsBody(answer)
                           THEN [state |-> "unsigned", file |-> Truncated(answer, Whole(AptServer.release))]
                           ELSE [release EXCEPT !.state = "failed"]
          /\ UNCHANGED vouched
       \/ /\ release.state = "unsigned"
          /\ \E answer \in Fetched(world.scheme) :
                Believe(VerifyDetachedOrFallback(release.file,
                    IF world.signature = "none" THEN "denied" ELSE answer,
                    Truncated(answer, Whole(AptServer.release)), world.signature, Ring, world.allowUnverified))
    /\ UNCHANGED <<world, servers, files, phase, job, loaded, download, canceled, runs>>

ReadMatchingFile_BySize(file, entry) == Size(file) = Size(entry)
ReadMatchingFile(file, entry) == Size(file) = Size(entry) /\ Sum(file) = Sum(entry)

End(i, state) == job' = [job EXCEPT ![i].state = state]
NextCandidate(i) == job' = [job EXCEPT ![i].next = @ + 1]

\* A page that is no Release lists nothing; a torn one is parsed as far as it goes.
Listed == IF release.file.gen = 0 THEN 0 ELSE world.variants

\* One compression after the other, the number next: the mirror has both of one generation.
FetchComponentIndex(i) ==
    LET n     == job[i].next
        entry == Whole(release.file.gen)
    IN  /\ world.format = "apt" /\ phase = "updating"
        /\ release.state = "accepted"
        /\ job[i].state = "todo"
        /\ \/ /\ n > Listed
              /\ End(i, "failed") /\ UNCHANGED lists
           \/ /\ n <= Listed /\ ReadMatchingFile(lists[i][n], entry)
              /\ End(i, "done") /\ UNCHANGED lists
           \/ /\ n <= Listed /\ ~ReadMatchingFile(lists[i][n], entry)
              /\ \E answer \in Fetched(world.scheme) :
                    LET body == Truncated(answer, Whole(AptServer.index[i]))
                    IN  CASE ~IsBody(answer) -> NextCandidate(i) /\ UNCHANGED lists
                          [] IsBody(answer) /\ ~(Size(body) = Size(entry) /\ Sum(body) = Sum(entry)) ->
                                End(i, "failed") /\ UNCHANGED lists
                          [] OTHER -> /\ End(i, "writing")
                                      /\ lists' = [lists EXCEPT ![i][n] = Torn(body.gen)]
        /\ UNCHANGED <<world, servers, cached, baseurl, phase, release, loaded, download, vouched, canceled, runs>>

\* os.WriteFile is not atomic, and may fail half way.
WriteList(i) ==
    /\ world.format = "apt" /\ job[i].state = "writing"
    /\ \/ /\ lists' = [lists EXCEPT ![i][job[i].next] = Whole(lists[i][job[i].next].gen)]
          /\ End(i, "done")
       \/ End(i, "failed") /\ UNCHANGED lists
    /\ UNCHANGED <<world, servers, cached, baseurl, phase, release, loaded, download, vouched, canceled, runs>>

-------------------------------------------------------------------------------
(* dnf.  repomd.xml and the primary it names come from one mirror; when either  *)
(* cannot be had the next mirror is tried.                                      *)

Source(i) == mirror[Candidates[job[i].next]]

\* A status of 4xx, that of a server which limits the rate included, even after the
\* last attempt.
IsNonFatalRepoError(answer) == IsClientError(answer)
Unfetched(answer) == IF IsNonFatalRepoError(answer) THEN "refused" ELSE "failed"

\* Only the last mirror's answer is told.
TryNext(i, answer) ==
    job' = [job EXCEPT ![i] =
        IF job[i].next < Len(Candidates) /\ ~canceled
        THEN [Todo EXCEPT !.next = job[i].next + 1]
        ELSE [@ EXCEPT !.state = Unfetched(answer)]]

ResolveMirrors(i) ==
    /\ world.format = "dnf" /\ phase = "updating"
    /\ world.mirrorList /\ job[i] = Todo
    /\ \E a \in Asked, b \in Asked :
          \* b: the same list of the major version
          LET answer == IF IsBody(FetchBytes(a)) \/ ~world.dotted THEN FetchBytes(a)
                        ELSE IF IsBody(FetchBytes(b)) THEN FetchBytes(b) ELSE FetchBytes(a)
          IN  job' = [job EXCEPT ![i].state = IF answer = "sent" THEN "resolved" ELSE Unfetched(answer)]
    /\ UNCHANGED <<world, servers, files, phase, release, loaded, download, vouched, canceled, runs>>

\* The file is written before it is parsed, and its time is the time of writing.
ParseRepoMD(i) ==
    /\ world.format = "dnf" /\ phase = "updating"
    /\ job[i].state = IF world.mirrorList /\ job[i].next = 1 THEN "resolved" ELSE "todo"
    /\ \E a \in Asked :
          LET modified == Source(i).release
              answer   == FetchBytesConditional(a, modified, cached[i].time)
              body     == IF answer = "not_modified" THEN cached[i].file ELSE Truncated(answer, Whole(modified))
          IN  /\ IF IsBody(answer)
                 THEN \/ cached' = [cached EXCEPT ![i] = [file |-> body, time |-> origin]]
                      \/ cached' = [cached EXCEPT ![i] = [file |-> Torn(body.gen), time |-> origin]]
                 ELSE UNCHANGED cached
              /\ IF (IsBody(answer) \/ answer = "not_modified") /\ body.whole /\ body.gen # 0
                 THEN /\ job' = [job EXCEPT ![i] = [state |-> "primary", next |-> job[i].next, file |-> body]]
                      /\ vouched' = vouched \cup {body.gen}
                 ELSE TryNext(i, answer) /\ UNCHANGED vouched
    /\ UNCHANGED <<world, servers, lists, baseurl, phase, release, loaded, download, canceled, runs>>

FileMatchesSHA256(file, wanted) == world.sums /\ Sum(file) = Sum(wanted)

\* downloadVerified: what is at the name is compared after the rename, and removed.
FetchPrimary(i) ==
    LET wanted == job[i].file
        n      == HrefOf(wanted.gen)
    IN  /\ world.format = "dnf" /\ phase = "updating" /\ job[i].state = "primary"
        /\ baseurl' = [baseurl EXCEPT ![i] = Candidates[job[i].next]]
        /\ IF FileMatchesSHA256(lists[i][n], wanted)
           THEN End(i, "done") /\ UNCHANGED lists
           ELSE \E a \in Retried :
                   LET answer == Served(Source(i).index[i], wanted.gen, a)
                       file   == AtomicWrite(lists[i][n], answer, Whole(Source(i).index[i]))
                   IN  /\ lists' = [lists EXCEPT ![i][n] = file]
                       /\ CASE ~IsBody(answer) -> TryNext(i, answer)
                            [] IsBody(answer) /\ world.sums /\ Sum(file) # Sum(wanted) -> End(i, "mismatch")
                            [] OTHER -> End(i, "done")
        /\ UNCHANGED <<world, servers, cached, phase, release, loaded, download, vouched, canceled, runs>>

RemoveMismatch(i) ==
    /\ world.format = "dnf" /\ job[i].state = "mismatch"
    /\ lists' = [lists EXCEPT ![i][HrefOf(job[i].file.gen)] = Absent]
    /\ TryNext(i, "other")
    /\ UNCHANGED <<world, servers, cached, baseurl, phase, release, loaded, download, vouched, canceled, runs>>

-------------------------------------------------------------------------------
(* apk and pacman take what a server sends, pacman the first that sends.        *)

FetchIndex(i) ==
    /\ world.format \in {"apk", "pacman"} /\ phase = "updating"
    /\ job[i].state = "todo"
    /\ \E a \in Asked :
          LET file == Whole(Source(i).index[i])
              answer == FetchBytes(a)
          IN  /\ lists' = [lists EXCEPT ![i][0] = FetchToFile(@, a, file)]
              /\ CASE IsBody(answer) -> End(i, "done")
                   [] ~IsBody(answer) /\ world.format = "pacman" /\ job[i].next < Len(Candidates) ->
                         NextCandidate(i)
                   [] OTHER -> End(i, "failed")
    /\ UNCHANGED <<world, servers, cached, baseurl, phase, release, loaded, download, vouched, canceled, runs>>

-------------------------------------------------------------------------------
(* The process.                                                                 *)

Update ==
    /\ phase \in {"idle", "ready"} /\ world.updates
    /\ phase' = IF world.format = "pacman" /\ ParseConfig(world.config).err THEN "failed" ELSE "updating"
    /\ release' = NoRelease
    /\ job' = NoJobs
    /\ download' = NoJobs
    /\ UNCHANGED <<world, servers, files, loaded, vouched, canceled, runs>>

Counted == {i \in Indexes : job[i].state = "done"}
Finished ==
    IF release.state = "failed" THEN TRUE
    ELSE \A i \in world.indexes : job[i].state \in {"done", "refused", "failed"}

\* The newest of the files wins; of a torn one the part that is there is read.
Offered(i) ==
    LET some  == {lists[i][n].gen : n \in {k \in 0..MaxGen : lists[i][k].whole}}
        parts == {lists[i][n].gen : n \in {k \in 0..MaxGen : ~lists[i][k].whole}}
    IN  {gen \in {0} \cup some \cup parts : \A g \in some : g <= gen}

Reload == /\ \A i \in Indexes : loaded'[i] \in Offered(i)
          /\ DOMAIN loaded' = Indexes

\* Of the repositories that could be fetched now.
LoadIndexTarballs == loaded' = [i \in Indexes |-> IF i \in Counted THEN lists[i][0].gen ELSE 0]

\* Does the update succeed, when failed says that one of its fetches did not?
GetUpdates(failed) ==
    CASE world.format = "apt"    -> ~failed /\ Counted # {}
      [] world.format = "pacman" -> ~failed /\ Counted # {}
      [] world.format = "dnf"    -> ~failed
      [] world.format = "apk"    -> TRUE

\* A repository that is refused is no error of dnf: the update goes on without it.
FetchAllRepos == \E i \in Indexes : job[i].state = "failed"
Sync == \E i \in Indexes : job[i].state = "failed"

FinishUpdate ==
    LET failed == CASE world.format = "apt"    -> release.state = "failed"
                    [] world.format = "dnf"    -> FetchAllRepos
                    [] world.format = "pacman" -> Sync
                    [] world.format = "apk"    -> FALSE
    IN  /\ phase = "updating" /\ Finished
        /\ phase' = IF GetUpdates(failed) THEN "ready" ELSE "failed"
        /\ CASE world.format = "apk" -> LoadIndexTarballs
             [] world.format = "apt" /\ Counted # {} -> loaded' \in [Indexes -> 0..MaxGen] /\ Reload
             [] world.format = "dnf" /\ ~failed -> loaded' \in [Indexes -> 0..MaxGen] /\ Reload
             [] OTHER -> UNCHANGED loaded
        /\ UNCHANGED <<world, servers, files, release, job, download, vouched, canceled, runs>>

\* Without an update (--skip-sync) the first lookup reads what is on disk.
Load ==
    /\ phase = "idle" /\ world.format \in {"apt", "dnf"}
    /\ phase' = "ready"
    /\ loaded' \in [Indexes -> 0..MaxGen] /\ Reload
    /\ UNCHANGED <<world, servers, files, release, job, download, vouched, canceled, runs>>

\* What a download compares before it calls a package done: the size and the sum, if
\* the index has them and the sum can be read; dnf never the size, apk never the sum.
Verified(file, gen) ==
    /\ world.format # "dnf" /\ "size" \in world.checks => Size(file) = Size(Whole(gen))
    /\ world.format # "apk" /\ "sum" \in world.checks => Sum(file) = Sum(Whole(gen))

\* grab, which fetches for apt and apk, has no limit: what is longer than the file is
\* kept, and is another one.
Received(answer, file) ==
    IF world.format \in {"apt", "apk"} /\ answer = "too_large" THEN Whole(0) ELSE Truncated(answer, file)

\* apt and apk ask once, apt a second time over https; dnf repeats.
Grab ==
    CASE world.format = "apt" -> {HttpFetch(world.scheme, <<a[1]>>, <<b[1]>>) : a \in Asked, b \in Asked}
      [] world.format = "apk" -> {a[1] : a \in Asked}
      [] world.format = "dnf" -> Retried

\* The mirror the index came from, then the others, if the mirror list can be had
\* once more.
PackageBaseURLs(i) ==
    {<<baseurl[i]>>}
      \cup (IF world.format = "dnf" /\ world.mirrorList
            THEN {<<baseurl[i]>> \o SelectSeq(Candidates, LAMBDA m : m # baseurl[i])} ELSE {})

\* What is looked up, 0 if no index has it.
DownloadJob(i) == loaded[i]

\* What a request for generation gen is answered with.
Response(m, gen, answer) ==
    IF world.renames /\ mirror[m].pool # gen /\ answer = "sent" THEN "denied" ELSE answer

Download(i) ==
    LET gen == DownloadJob(i)
        n   == download[i].next
    IN  /\ phase = "ready" /\ world.format # "pacman"
        /\ download[i].state = "todo"
        /\ \/ /\ gen = 0
              /\ download' = [download EXCEPT ![i].state = "failed"]
           \/ /\ gen # 0
              /\ \E a \in Grab, urls \in PackageBaseURLs(i) :
                    LET m      == urls[n]
                        answer == Response(m, gen, a)
                        file   == Received(answer, Whole(mirror[m].pool))
                    IN  /\ n <= Len(urls)
                        /\ download' =
                            CASE IsBody(answer) /\ Verified(file, gen) ->
                                    [download EXCEPT ![i] = [state |-> "done", next |-> n, file |-> file]]
                              [] ~(IsBody(answer) /\ Verified(file, gen))
                                    /\ n < Len(urls) /\ ~canceled -> [download EXCEPT ![i].next = @ + 1]
                              [] OTHER -> [download EXCEPT ![i].state = "failed"]
        /\ UNCHANGED <<world, servers, files, phase, release, job, loaded, vouched, canceled, runs>>

Cancel ==
    /\ phase \in {"updating", "ready"} /\ ~canceled
    /\ canceled' = TRUE
    /\ UNCHANGED <<world, servers, files, phase, release, job, loaded, download, vouched, runs>>

\* The process ends, or is killed between any two steps, and another one starts.
Restart ==
    /\ runs < MaxRuns
    /\ phase' = "idle"
    /\ runs' = runs + 1
    /\ canceled' = FALSE
    /\ release' = NoRelease
    /\ job' = NoJobs
    /\ download' = NoJobs
    /\ loaded' = [i \in Indexes |-> 0]
    /\ UNCHANGED <<world, servers, files, vouched>>

Next ==
    \/ Publish
    \/ \E m \in Mirrors : Synchronise(m)
    \/ FetchRelease
    \/ \E i \in Indexes : FetchComponentIndex(i)
    \/ \E i \in Indexes : WriteList(i)
    \/ \E i \in Indexes : ResolveMirrors(i)
    \/ \E i \in Indexes : ParseRepoMD(i)
    \/ \E i \in Indexes : FetchPrimary(i)
    \/ \E i \in Indexes : RemoveMismatch(i)
    \/ \E i \in Indexes : FetchIndex(i)
    \/ Update
    \/ FinishUpdate
    \/ Load
    \/ \E i \in Indexes : Download(i)
    \/ Cancel
    \/ Restart

Spec == Init /\ [][Next]_vars

-------------------------------------------------------------------------------
(* What a refresh promises.                                                     *)

Updated == phase = "ready" /\ Finished /\ job # NoJobs

\* What the cache of apt offers is listed by a Release this host has believed,
\* whatever files a crash, a mirror or an earlier update has left.
OffersAreVouched == world.format = "apt" => \A i \in Indexes : loaded[i] \in vouched \cup {0}

\* An index counted as fetched is there, whole and of the generation its Release
\* or repomd.xml names: the indexes of one update are one snapshot.
CountedAreCurrent ==
    \A i \in Counted :
        /\ world.format = "apt" => \E n \in 1..world.variants : lists[i][n] = Whole(release.file.gen)
        /\ (world.format = "dnf" /\ world.sums) => lists[i][HrefOf(job[i].file.gen)] = job[i].file
        /\ (Updated /\ world.format = "apt") => loaded[i] >= release.file.gen

\* An update that succeeds has not lost what it was asked for: apt has believed
\* every Release, pacman has every database, dnf lacks a repository only when the
\* last server it asked refused with a status of 4xx, 408 and 429 included (repo.go:700).
FailureIsTold ==
    Updated =>
        /\ world.format = "apt" => release.state = "accepted" /\ Counted # {}
        /\ world.format = "pacman" => Counted = world.indexes
        /\ world.format = "dnf" => \A i \in world.indexes \ Counted : job[i].state = "refused"

\* A package that apt or dnf hands on is the one the loaded index names, if the index
\* has its sum, and one that apt or apk hands on has its length, if the index has that.
DownloadsAreListed ==
    \A i \in Indexes : download[i].state = "done" =>
        /\ world.format \in {"apt", "dnf"} /\ "sum" \in world.checks => download[i].file = Whole(loaded[i])
        /\ world.format \in {"apt", "apk"} /\ "size" \in world.checks =>
              Size(download[i].file) = Size(Whole(loaded[i]))

\* Together: a chain from the believed Release to the package that is installed.
RefreshIsGenuine ==
    /\ OffersAreVouched
    /\ CountedAreCurrent
    /\ FailureIsTold
    /\ DownloadsAreListed

-------------------------------------------------------------------------------
(* What it does not promise; the model refutes each.                            *)

\* The repomd.xml on disk can be parsed: a page of a proxy, or a file cut by a
\* crash, is kept, and a server asked for something newer than it has nothing.
RepomdIsUsable == \A i \in Indexes : cached[i].time > 0 => cached[i].file.whole /\ cached[i].file.gen > 0

\* What dnf offers is named by a repomd.xml this host has read: a primary is
\* renamed into place before it is compared.
DnfOffersAreVouched ==
    (world.format = "dnf" /\ world.sums) => \A i \in Indexes : loaded[i] \in vouched \cup {0}

\* A package of apk is the one its index names: only its size is compared.
ApkDownloadsAreListed ==
    \A i \in Indexes :
        (download[i].state = "done" /\ world.format = "apk") => download[i].file = Whole(loaded[i])
===============================================================================
