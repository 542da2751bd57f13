---------------------------- MODULE RefreshProofs ----------------------------
(* Proofs about Refresh, for every configuration, any number of indexes, mirrors *)
(* and generations, and whatever answers the attempts of a request meet.        *)
EXTENDS Refresh, TLAPS

--------------------------------------------------------------------------------
(* The invariant.                                                               *)

FileType == [gen : 0..MaxGen, whole : BOOLEAN]
MirrorType == [index : [Indexes -> 1..MaxGen], release : 1..MaxGen, pool : 1..MaxGen]
JobStates ==
    {"todo", "unused", "resolved", "primary", "mismatch", "writing", "done", "refused", "failed"}

TypeInv ==
    /\ world \in Worlds
    /\ origin \in 1..MaxGen
    /\ mirror \in [Mirrors -> MirrorType]
    /\ world.format \in {"apt", "dnf"} => lists \in [Indexes -> [0..MaxGen -> FileType]]
    /\ cached \in [Indexes -> [file : FileType, time : Nat]]
    /\ phase \in {"idle", "updating", "ready", "failed"}
    /\ job \in [Indexes -> [state : JobStates, next : Nat \ {0}, file : FileType]]
    /\ world.format = "dnf" => \A i \in Indexes : job[i].next \in DOMAIN Candidates
    /\ DOMAIN release = {"state", "file"}
    /\ DOMAIN download = Indexes

\* Where a process is, and what its fetches and downloads are doing.
PhaseInv ==
    /\ phase = "idle" => job = NoJobs
    /\ phase # "ready" => download = NoJobs
    /\ world.format # "apt" => release = NoRelease
    /\ \A i \in Indexes :
          /\ i \notin world.indexes => job[i].state = "unused"
          /\ phase # "updating" => job[i].state \in {"todo", "unused", "done", "refused", "failed"}
          /\ world.format = "pacman" => job[i].state \in {"todo", "unused", "done", "failed"}

\* apt: a Release that counts is believed, and nothing that none has named gets to
\* disk; a file is written under the name its job has come to.
AptInv ==
    world.format = "apt" =>
        /\ release.state = "accepted" => release.file.gen \in vouched
        /\ \A i \in Indexes : \A n \in 0..MaxGen : lists[i][n].gen \in vouched \cup {0}
        /\ \A i \in Indexes :
              /\ job[i].state \notin {"resolved", "primary", "mismatch"}
              /\ job[i].state \in {"writing", "done"} =>
                    release.state = "accepted" /\ job[i].next \in 1..world.variants
              /\ job[i].state = "writing" => lists[i][job[i].next] = Torn(release.file.gen)
              /\ job[i].state = "done" => lists[i][job[i].next] = Whole(release.file.gen)

IInv == TypeInv /\ PhaseInv /\ AptInv /\ RefreshIsGenuine
--------------------------------------------------------------------------------
(* Files and answers. *)

\* What is kept of a response is the file, a page, or a part of the file.
LEMMA TruncatedIs ==
    ASSUME NEW answer, NEW file, IsBody(answer)
    PROVE  Truncated(answer, file) \in {file, Whole(0), Torn(file.gen)}
BY DEF IsBody, Truncated

\* Files of generations are files.
LEMMA FileTypes ==
    /\ Absent \in FileType /\ Whole(0) \in FileType
    /\ \A g \in 0..MaxGen : Whole(g) \in FileType /\ Torn(g) \in FileType
    /\ \A g : Whole(g).gen = g /\ Torn(g).gen = g /\ Whole(g).whole /\ ~Torn(g).whole
BY RefreshBounds DEF Whole, Torn, Absent, FileType

\* What is kept of a response is a file.
LEMMA TruncatedType ==
    ASSUME NEW answer, NEW g \in 0..MaxGen, IsBody(answer)
    PROVE  Truncated(answer, Whole(g)) \in FileType
BY TruncatedIs, FileTypes

\* A dnf repository has a mirror for every attempt.
LEMMA MirrorFacts ==
    ASSUME TypeInv, world.format = "dnf"
    PROVE  /\ Candidates \in Seq(Mirrors) /\ Len(Candidates) \in Nat \ {0}
           /\ \A i \in Indexes : Source(i) \in MirrorType
<1>1. world.mirrors \in Seq(Mirrors) /\ world.mirrors # <<>>
  BY WorldAssumption DEF TypeInv
<1>2. Candidates = ResolveRepoCandidates
  BY DEF Candidates
<1>3. ResolveRepoCandidates \in Seq(Mirrors) /\ Len(ResolveRepoCandidates) \in Nat \ {0}
  BY <1>1 DEF ResolveRepoCandidates, MaxMirrors
<1>4. \A i \in Indexes : Candidates[job[i].next] \in Mirrors
  BY <1>2, <1>3 DEF TypeInv
<1> QED
  BY <1>2, <1>3, <1>4 DEF TypeInv, Source

\* apt's server has every file.
LEMMA ServerFacts ==
    ASSUME TypeInv
    PROVE  AptServer \in MirrorType
<1>1. world.mirrors \in Seq(Mirrors) /\ world.mirrors # <<>>
  BY WorldAssumption DEF TypeInv
<1>2. world.mirrors[1] \in Mirrors
  BY <1>1
<1> QED
  BY <1>2 DEF TypeInv, AptServer

\* The jobs of a process that has begun nothing.
LEMMA NoJobsFacts ==
    /\ NoJobs \in [Indexes -> [state : JobStates, next : Nat \ {0}, file : FileType]]
    /\ \A i \in Indexes : NoJobs[i].state \in {"todo", "unused"} /\ NoJobs[i].next = 1
    /\ \A i \in Indexes : i \notin world.indexes => NoJobs[i].state = "unused"
BY FileTypes DEF NoJobs, Todo, JobStates

--------------------------------------------------------------------------------
(* Types. *)

\* What becomes of a job whose mirror did not answer.
LEMMA TryNextType ==
    ASSUME TypeInv, world.format = "dnf", NEW i \in Indexes, NEW answer, TryNext(i, answer)
    PROVE  /\ job' \in [Indexes -> [state : JobStates, next : Nat \ {0}, file : FileType]]
           /\ \A j \in Indexes : job'[j].next \in DOMAIN Candidates
           /\ job'[i].state \in {"todo", "refused", "failed"}
           /\ \A j \in Indexes \ {i} : job'[j] = job[j]
<1>1. job \in [Indexes -> [state : JobStates, next : Nat \ {0}, file : FileType]]
  BY DEF TypeInv
<1>2. Candidates \in Seq(Mirrors) /\ \A j \in Indexes : job[j].next \in DOMAIN Candidates
  BY MirrorFacts DEF TypeInv
<1>3. CASE job[i].next < Len(Candidates) /\ ~canceled
  <2>1. job' = [job EXCEPT ![i] = [Todo EXCEPT !.next = job[i].next + 1]]
    BY <1>3 DEF TryNext
  <2>2. job[i].next + 1 \in DOMAIN Candidates /\ job[i].next + 1 \in Nat \ {0}
    BY <1>1, <1>2, <1>3
  <2>3. [Todo EXCEPT !.next = job[i].next + 1]
            = [state |-> "todo", next |-> job[i].next + 1, file |-> Absent]
    BY DEF Todo
  <2> QED
    BY <1>1, <1>2, <2>1, <2>2, <2>3, FileTypes DEF JobStates
<1>4. CASE ~(job[i].next < Len(Candidates) /\ ~canceled)
  <2>1. job' = [job EXCEPT ![i] = [@ EXCEPT !.state = Unfetched(answer)]]
    BY <1>4 DEF TryNext
  <2>2. Unfetched(answer) \in {"refused", "failed"}
    BY DEF Unfetched
  <2> QED
    BY <1>1, <1>2, <2>1, <2>2 DEF JobStates
<1> QED
  BY <1>3, <1>4

\* A fetch changes its own job and the files of its own index only.
LEMMA JobTypes ==
    ASSUME TypeInv, NEW i \in Indexes
    PROVE  /\ \A s \in JobStates : End(i, s) =>
                 /\ job' \in [Indexes -> [state : JobStates, next : Nat \ {0}, file : FileType]]
                 /\ \A j \in Indexes : job'[j].next = job[j].next
           /\ NextCandidate(i) =>
                 job' \in [Indexes -> [state : JobStates, next : Nat \ {0}, file : FileType]]
           /\ \A n \in 0..MaxGen, file \in FileType : world.format \in {"apt", "dnf"} =>
                 [lists EXCEPT ![i][n] = file] \in [Indexes -> [0..MaxGen -> FileType]]
<1>1. job \in [Indexes -> [state : JobStates, next : Nat \ {0}, file : FileType]]
  BY DEF TypeInv
<1>2. \A s \in JobStates : End(i, s) =>
         /\ job' \in [Indexes -> [state : JobStates, next : Nat \ {0}, file : FileType]]
         /\ \A j \in Indexes : job'[j].next = job[j].next
  BY <1>1 DEF End
<1>3. NextCandidate(i) =>
         job' \in [Indexes -> [state : JobStates, next : Nat \ {0}, file : FileType]]
  BY <1>1 DEF NextCandidate
<1>4. ASSUME NEW n \in 0..MaxGen, NEW file \in FileType, world.format \in {"apt", "dnf"}
      PROVE  [lists EXCEPT ![i][n] = file] \in [Indexes -> [0..MaxGen -> FileType]]
  BY <1>4 DEF TypeInv
<1> QED
  BY <1>2, <1>3, <1>4

\* Every step keeps the types.
LEMMA TypeStep ==
    ASSUME TypeInv, PhaseInv, AptInv, [Next]_vars
    PROVE  TypeInv'
<1> USE DEF servers, files
<1>0. /\ world \in Worlds /\ origin \in 1..MaxGen /\ mirror \in [Mirrors -> MirrorType]
      /\ cached \in [Indexes -> [file : FileType, time : Nat]]
      /\ job \in [Indexes -> [state : JobStates, next : Nat \ {0}, file : FileType]]
      /\ world.format \in {"apt", "dnf"} => lists \in [Indexes -> [0..MaxGen -> FileType]]
  BY DEF TypeInv
<1>c. world' = world /\ Candidates' = Candidates
  <2>1. world' = world
    BY DEF Next, Publish, Synchronise, FetchRelease, FetchComponentIndex, WriteList, ResolveMirrors,
       ParseRepoMD, FetchPrimary, RemoveMismatch, FetchIndex, Update, FinishUpdate, Load, Download,
       Cancel, Restart, vars
  <2> QED
    BY <2>1 DEF Candidates, ResolveRepoCandidates
<1>1. CASE Publish
  <2>1. origin' \in 1..MaxGen
    BY <1>0, <1>1, RefreshBounds DEF Publish
  <2> QED
    BY <1>1, <1>c, <2>1 DEF Publish, TypeInv
<1>2. ASSUME NEW m \in Mirrors, Synchronise(m) PROVE TypeInv'
  <2>1. mirror' \in [Mirrors -> MirrorType]
    <3>1. CASE \E i \in Indexes : mirror' = [mirror EXCEPT ![m].index[i] = origin]
      <4>1. PICK i \in Indexes : mirror' = [mirror EXCEPT ![m].index[i] = origin]
        BY <3>1
      <4>2. mirror[m] \in MirrorType /\ mirror[m].index \in [Indexes -> 1..MaxGen]
        BY <1>0 DEF MirrorType
      <4>3. [mirror[m].index EXCEPT ![i] = origin] \in [Indexes -> 1..MaxGen]
        BY <1>0, <4>2
      <4>4. [mirror[m] EXCEPT !.index = [mirror[m].index EXCEPT ![i] = origin]] \in MirrorType
        BY <4>2, <4>3 DEF MirrorType
      <4>5. mirror' = [mirror EXCEPT ![m] = [mirror[m] EXCEPT !.index = [mirror[m].index EXCEPT ![i] = origin]]]
        BY <4>1
      <4> QED
        BY <1>0, <4>4, <4>5
    <3>2. CASE mirror' = [mirror EXCEPT ![m].release = origin] \/ mirror' = [mirror EXCEPT ![m].pool = origin]
      BY <1>0, <3>2 DEF MirrorType
    <3>3. world.indexes \subseteq Indexes
      BY <1>0, WorldAssumption
    <3> QED
      BY <1>2, <3>1, <3>2, <3>3 DEF Synchronise
  <2> QED
    BY <1>2, <1>c, <2>1 DEF Synchronise, TypeInv
<1>3. CASE FetchRelease
  <2>1. DOMAIN release' = {"state", "file"}
    <3>1. \A d : Believe(d) /\ DOMAIN d = {"state", "file"} => DOMAIN release' = {"state", "file"}
      BY DEF Believe
    <3>2. \A f, s, r, a : DOMAIN VerifyInReleaseOrFallback(f, s, r, a) = {"state", "file"}
      BY DEF VerifyInReleaseOrFallback, NoTrustAnchor, Believed
    <3>3. \A f, w, g, s, r, a : DOMAIN VerifyDetachedOrFallback(f, w, g, s, r, a) = {"state", "file"}
      BY DEF VerifyDetachedOrFallback, NoTrustAnchor, Believed
    <3>4. DOMAIN release = {"state", "file"}
      BY DEF TypeInv
    <3> QED
      BY <1>3, <3>1, <3>2, <3>3, <3>4 DEF FetchRelease
  <2> QED
    BY <1>3, <1>c, <2>1 DEF FetchRelease, TypeInv
<1>4. ASSUME NEW i \in Indexes, FetchComponentIndex(i) PROVE TypeInv'
  <2>1. world.format = "apt" /\ UNCHANGED <<origin, mirror, cached, phase, release, download>>
    BY <1>4 DEF FetchComponentIndex
  <2>2. job' \in [Indexes -> [state : JobStates, next : Nat \ {0}, file : FileType]]
    <3>1. {"failed", "done", "writing"} \subseteq JobStates
      BY DEF JobStates
    <3>2. End(i, "failed") \/ End(i, "done") \/ End(i, "writing") \/ NextCandidate(i)
      BY <1>4 DEF FetchComponentIndex
    <3> QED
      BY <3>1, <3>2, JobTypes
  <2>3. lists' \in [Indexes -> [0..MaxGen -> FileType]]
    <3>1. CASE lists' = lists
      BY <1>0, <2>1, <3>1
    <3>2. CASE lists' # lists
      <4>1. PICK answer : /\ IsBody(answer) /\ job[i].next <= Listed
                          /\ lists' = [lists EXCEPT ![i][job[i].next] =
                                 Torn(Truncated(answer, Whole(AptServer.index[i])).gen)]
        BY <1>4, <3>2 DEF FetchComponentIndex
      <4>2. AptServer.index[i] \in 0..MaxGen
        BY ServerFacts DEF MirrorType
      <4>3. Truncated(answer, Whole(AptServer.index[i])) \in FileType
        BY <4>1, <4>2, TruncatedType
      <4>4. job[i].next \in 0..MaxGen
        <5>1. Listed \in 0..MaxGen
          BY <1>0, WorldAssumption, RefreshBounds DEF Listed
        <5> QED
          BY <1>0, <4>1, <5>1, RefreshBounds
      <4>5. Torn(Truncated(answer, Whole(AptServer.index[i])).gen) \in FileType
        BY <4>3, FileTypes DEF FileType
      <4> QED
        BY <2>1, <4>1, <4>4, <4>5, JobTypes
    <3> QED
      BY <3>1, <3>2
  <2> QED
    BY <1>c, <2>1, <2>2, <2>3 DEF TypeInv
<1>5. ASSUME NEW i \in Indexes, WriteList(i) PROVE TypeInv'
  <2>1. world.format = "apt" /\ UNCHANGED <<origin, mirror, cached, phase, release, download>>
    BY <1>5 DEF WriteList
  <2>2. job' \in [Indexes -> [state : JobStates, next : Nat \ {0}, file : FileType]]
    BY <1>5, JobTypes DEF WriteList, JobStates
  <2>3. lists' \in [Indexes -> [0..MaxGen -> FileType]]
    <3>1. CASE lists' = lists
      BY <1>0, <2>1, <3>1
    <3>2. CASE lists' # lists
      <4>1. lists' = [lists EXCEPT ![i][job[i].next] = Whole(lists[i][job[i].next].gen)]
        BY <1>5, <3>2 DEF WriteList
      <4>2. job[i].next \in 0..MaxGen
        <5>1. world.variants \in 0..MaxGen
          BY <1>0, WorldAssumption
        <5>2. job[i].next \in 1..world.variants
          BY <1>5, <2>1 DEF WriteList, AptInv
        <5> QED
          BY <5>1, <5>2, RefreshBounds
      <4>3. lists[i][job[i].next] \in FileType
        BY <1>0, <2>1, <4>2
      <4>4. Whole(lists[i][job[i].next].gen) \in FileType
        BY <4>3, FileTypes DEF FileType
      <4> QED
        BY <2>1, <4>1, <4>2, <4>4, JobTypes
    <3> QED
      BY <3>1, <3>2
  <2> QED
    BY <1>c, <2>1, <2>2, <2>3 DEF TypeInv
<1>6. ASSUME NEW i \in Indexes, ResolveMirrors(i) PROVE TypeInv'
  <2>1. PICK s \in {"resolved", "refused", "failed"} : job' = [job EXCEPT ![i].state = s]
    BY <1>6 DEF ResolveMirrors, Unfetched
  <2>2. End(i, s) /\ s \in JobStates
    BY <2>1 DEF End, JobStates
  <2> QED
    BY <1>6, <1>c, <2>2, JobTypes DEF ResolveMirrors, TypeInv
<1>7. ASSUME NEW i \in Indexes, ParseRepoMD(i) PROVE TypeInv'
  <2>1. /\ world.format = "dnf" /\ UNCHANGED <<origin, mirror, lists, phase, release, download>>
    BY <1>7 DEF ParseRepoMD
  <2> DEFINE modified == Source(i).release
             Body(answer) == IF answer = "not_modified" THEN cached[i].file
                             ELSE Truncated(answer, Whole(modified))
  <2>2. PICK answer :
          /\ IF IsBody(answer)
             THEN \/ cached' = [cached EXCEPT ![i] = [file |-> Body(answer), time |-> origin]]
                  \/ cached' = [cached EXCEPT ![i] = [file |-> Torn(Body(answer).gen), time |-> origin]]
             ELSE UNCHANGED cached
          /\ IF (IsBody(answer) \/ answer = "not_modified") /\ Body(answer).whole /\ Body(answer).gen # 0
             THEN job' = [job EXCEPT ![i] = [state |-> "primary", next |-> job[i].next, file |-> Body(answer)]]
             ELSE TryNext(i, answer)
    BY <1>7 DEF ParseRepoMD
  <2>3. IsBody(answer) \/ answer = "not_modified" => Body(answer) \in FileType
    <3>1. modified \in 0..MaxGen
      BY <2>1, MirrorFacts DEF MirrorType
    <3>2. "not_modified" \notin {"sent", "other", "too_large"}
      OBVIOUS
    <3> QED
      BY <1>0, <3>1, <3>2, TruncatedType DEF IsBody
  <2>4. cached' \in [Indexes -> [file : FileType, time : Nat]]
    <3>1. IsBody(answer) => Torn(Body(answer).gen) \in FileType
      BY <2>3, FileTypes DEF FileType
    <3>2. origin \in Nat
      BY <1>0
    <3>3. \A file \in FileType :
             [cached EXCEPT ![i] = [file |-> file, time |-> origin]] \in [Indexes -> [file : FileType, time : Nat]]
      BY <1>0, <3>2
    <3> HIDE DEF Body
    <3> QED
      BY <1>0, <2>2, <2>3, <3>1, <3>3
  <2>5. /\ job' \in [Indexes -> [state : JobStates, next : Nat \ {0}, file : FileType]]
        /\ \A j \in Indexes : job'[j].next \in DOMAIN Candidates
    <3>1. CASE (IsBody(answer) \/ answer = "not_modified") /\ Body(answer).whole /\ Body(answer).gen # 0
      <4>1. job' = [job EXCEPT ![i] = [state |-> "primary", next |-> job[i].next, file |-> Body(answer)]]
        BY <2>2, <3>1
      <4>2. Body(answer) \in FileType /\ \A j \in Indexes : job[j].next \in DOMAIN Candidates
        BY <2>1, <2>3, <3>1 DEF TypeInv
      <4> QED
        BY <1>0, <4>1, <4>2 DEF JobStates
    <3>2. CASE ~((IsBody(answer) \/ answer = "not_modified") /\ Body(answer).whole /\ Body(answer).gen # 0)
      BY <2>1, <2>2, <3>2, TryNextType
    <3> QED
      BY <3>1, <3>2
  <2> QED
    BY <1>c, <2>1, <2>4, <2>5 DEF TypeInv
<1>8. ASSUME NEW i \in Indexes, FetchPrimary(i) PROVE TypeInv'
  <2> DEFINE n == HrefOf(job[i].file.gen)
  <2>1. /\ world.format = "dnf" /\ UNCHANGED <<origin, mirror, cached, phase, release, download>>
    BY <1>8 DEF FetchPrimary
  <2>2. n \in 0..MaxGen
    BY <1>0, RefreshBounds DEF HrefOf, FileType
  <2>3. lists' = lists \/ \E file \in FileType : lists' = [lists EXCEPT ![i][n] = file]
    <3>1. CASE FileMatchesSHA256(lists[i][n], job[i].file)
      BY <1>8, <3>1 DEF FetchPrimary
    <3>2. CASE ~FileMatchesSHA256(lists[i][n], job[i].file)
      <4>1. PICK answer : lists' = [lists EXCEPT ![i][n] =
                AtomicWrite(lists[i][n], answer, Whole(Source(i).index[i]))]
        BY <1>8, <3>2 DEF FetchPrimary
      <4>2. Source(i).index[i] \in 0..MaxGen
        BY <2>1, MirrorFacts DEF MirrorType
      <4>3. lists[i][n] \in FileType
        BY <1>0, <2>1, <2>2
      <4>4. AtomicWrite(lists[i][n], answer, Whole(Source(i).index[i])) \in FileType
        BY <4>2, <4>3, TruncatedType DEF AtomicWrite
      <4> QED
        BY <4>1, <4>4
    <3> QED
      BY <3>1, <3>2
  <2>4. lists' \in [Indexes -> [0..MaxGen -> FileType]]
    <3>1. CASE lists' = lists
      BY <1>0, <2>1, <3>1
    <3>2. ASSUME NEW file \in FileType, lists' = [lists EXCEPT ![i][n] = file]
          PROVE  lists' \in [Indexes -> [0..MaxGen -> FileType]]
      BY <2>1, <2>2, <3>2, JobTypes
    <3> QED
      BY <2>3, <3>1, <3>2
  <2>5. End(i, "done") \/ End(i, "mismatch") \/ \E answer : TryNext(i, answer)
    BY <1>8 DEF FetchPrimary
  <2>6. /\ job' \in [Indexes -> [state : JobStates, next : Nat \ {0}, file : FileType]]
        /\ \A j \in Indexes : job'[j].next \in DOMAIN Candidates
    BY <2>1, <2>5, TryNextType, JobTypes DEF JobStates, TypeInv
  <2> QED
    BY <1>c, <2>1, <2>4, <2>6 DEF TypeInv
<1>9. ASSUME NEW i \in Indexes, RemoveMismatch(i) PROVE TypeInv'
  <2> DEFINE n == HrefOf(job[i].file.gen)
  <2>1. /\ world.format = "dnf" /\ UNCHANGED <<origin, mirror, cached, phase, release, download>>
        /\ lists' = [lists EXCEPT ![i][n] = Absent] /\ TryNext(i, "other")
    BY <1>9 DEF RemoveMismatch
  <2>2. n \in 0..MaxGen
    BY <1>0, RefreshBounds DEF HrefOf, FileType
  <2>3. lists' \in [Indexes -> [0..MaxGen -> FileType]]
    BY <2>1, <2>2, FileTypes, JobTypes
  <2>4. /\ job' \in [Indexes -> [state : JobStates, next : Nat \ {0}, file : FileType]]
        /\ \A j \in Indexes : job'[j].next \in DOMAIN Candidates
    BY <2>1, TryNextType
  <2> QED
    BY <1>c, <2>1, <2>3, <2>4 DEF TypeInv
<1>10. ASSUME NEW i \in Indexes, FetchIndex(i) PROVE TypeInv'
  <2>1. world.format \in {"apk", "pacman"} /\ UNCHANGED <<origin, mirror, cached, phase, release, download>>
    BY <1>10 DEF FetchIndex
  <2>2. End(i, "done") \/ End(i, "failed") \/ NextCandidate(i)
    BY <1>10 DEF FetchIndex
  <2>3. job' \in [Indexes -> [state : JobStates, next : Nat \ {0}, file : FileType]]
    BY <2>2, JobTypes DEF JobStates
  <2> QED
    BY <1>c, <2>1, <2>3 DEF TypeInv
<1>11. CASE Update \/ Restart
  <2>1. job' = NoJobs /\ release' = NoRelease /\ download' = NoJobs
        /\ phase' \in {"failed", "updating", "idle"} /\ UNCHANGED <<origin, mirror, lists, cached>>
    BY <1>11 DEF Update, Restart
  <2>2. DOMAIN NoRelease = {"state", "file"}
    BY DEF NoRelease
  <2>3. world.format = "dnf" => \A j \in Indexes : NoJobs[j].next \in DOMAIN Candidates
    BY NoJobsFacts, MirrorFacts
  <2>4. DOMAIN NoJobs = Indexes
    BY DEF NoJobs
  <2> QED
    BY <1>c, <2>1, <2>2, <2>3, <2>4, NoJobsFacts DEF TypeInv
<1>12. CASE FinishUpdate \/ Load \/ Cancel
  <2>1. /\ UNCHANGED <<origin, mirror, lists, cached, job, release, download>>
        /\ phase' \in {"idle", "updating", "ready", "failed"}
    BY <1>12 DEF FinishUpdate, Load, Cancel, TypeInv
  <2> QED
    BY <1>c, <2>1 DEF TypeInv
<1>13. ASSUME NEW i \in Indexes, Download(i) PROVE TypeInv'
  <2>1. DOMAIN download' = DOMAIN download
    BY <1>13 DEF Download
  <2> QED
    BY <1>13, <1>c, <2>1 DEF Download, TypeInv
<1>14. CASE UNCHANGED vars
  BY <1>14, <1>c DEF vars, TypeInv
<1> QED
  BY <1>1, <1>2, <1>3, <1>4, <1>5, <1>6, <1>7, <1>8, <1>9, <1>10, <1>11, <1>12, <1>13, <1>14 DEF Next

--------------------------------------------------------------------------------
(* The steps of the fetches, and the others. *)

Fetches(i) ==
    \/ FetchComponentIndex(i) \/ WriteList(i)
    \/ ResolveMirrors(i) \/ ParseRepoMD(i) \/ FetchPrimary(i) \/ RemoveMismatch(i)
    \/ FetchIndex(i)

\* A fetch works for its own index, during an update.
LEMMA FetchFrame ==
    ASSUME TypeInv, PhaseInv, NEW i \in Indexes, Fetches(i)
    PROVE  /\ UNCHANGED <<world, phase, release, loaded, download>> /\ phase = "updating"
           /\ job[i].state \in {"todo", "resolved", "primary", "mismatch", "writing"}
           /\ DOMAIN job' = Indexes
           /\ \A j \in Indexes \ {i} : job'[j] = job[j]
           /\ world.format \in {"apt", "dnf"} => \A j \in Indexes \ {i} : lists'[j] = lists[j]
           /\ vouched \subseteq vouched'
           /\ world.format = "pacman" => job'[i].state \in {"todo", "done", "failed"}
<1> USE DEF servers, files
<1>0. DOMAIN job = Indexes /\ (world.format \in {"apt", "dnf"} => DOMAIN lists = Indexes)
  BY DEF TypeInv
<1>e. \A s : End(i, s) =>
         DOMAIN job' = Indexes /\ job'[i].state = s /\ \A j \in Indexes \ {i} : job'[j] = job[j]
  <2>1. "state" \in DOMAIN job[i]
    BY DEF TypeInv
  <2> QED
    BY <1>0, <2>1 DEF End
<1>n. NextCandidate(i) =>
         DOMAIN job' = Indexes /\ job'[i].state = job[i].state /\ \A j \in Indexes \ {i} : job'[j] = job[j]
  BY <1>0 DEF NextCandidate
<1>t. \A a : TryNext(i, a) => DOMAIN job' = Indexes /\ \A j \in Indexes \ {i} : job'[j] = job[j]
  BY <1>0 DEF TryNext
<1>1. CASE FetchComponentIndex(i)
  BY <1>0, <1>1, <1>e, <1>n DEF FetchComponentIndex
<1>2. CASE WriteList(i)
  BY <1>0, <1>2, <1>e DEF WriteList, PhaseInv
<1>3. CASE ResolveMirrors(i)
  BY <1>0, <1>3 DEF ResolveMirrors, Todo
<1>4. CASE ParseRepoMD(i)
  <2>1. /\ world.format = "dnf" /\ phase = "updating" /\ job[i].state \in {"resolved", "todo"}
        /\ UNCHANGED <<world, lists, phase, release, loaded, download>>
    BY <1>4 DEF ParseRepoMD
  <2>2. vouched \subseteq vouched'
    BY <1>4 DEF ParseRepoMD
  <2>3. \/ \E b : job' = [job EXCEPT ![i] = [state |-> "primary", next |-> job[i].next, file |-> b]]
        \/ \E a : TryNext(i, a)
    BY <1>4 DEF ParseRepoMD
  <2>4. DOMAIN job' = Indexes /\ \A j \in Indexes \ {i} : job'[j] = job[j]
    BY <1>0, <1>t, <2>3
  <2> QED
    BY <2>1, <2>2, <2>4
<1>5. CASE FetchPrimary(i)
  <2>1. End(i, "done") \/ End(i, "mismatch") \/ \E a : TryNext(i, a)
    BY <1>5 DEF FetchPrimary
  <2>2. lists' = lists \/ \E b, n : lists' = [lists EXCEPT ![i][n] = b]
    BY <1>5 DEF FetchPrimary
  <2> QED
    BY <1>0, <1>5, <1>e, <1>t, <2>1, <2>2 DEF FetchPrimary
<1>6. CASE RemoveMismatch(i)
  BY <1>0, <1>6, <1>t DEF RemoveMismatch, PhaseInv
<1>7. CASE FetchIndex(i)
  BY <1>0, <1>7, <1>e, <1>n DEF FetchIndex
<1> QED
  BY <1>1, <1>2, <1>3, <1>4, <1>5, <1>6, <1>7 DEF Fetches

\* Every step keeps a process where it may be.
LEMMA PhaseStep ==
    ASSUME TypeInv, PhaseInv, AptInv, [Next]_vars
    PROVE  PhaseInv'
<1> USE DEF servers, files
<1>1. ASSUME NEW i \in Indexes, Fetches(i) PROVE PhaseInv'
  <2>1. /\ UNCHANGED <<world, phase, release, download>> /\ phase = "updating"
        /\ job[i].state \in {"todo", "resolved", "primary", "mismatch", "writing"}
        /\ \A j \in Indexes \ {i} : job'[j] = job[j]
        /\ world.format = "pacman" => job'[i].state \in {"todo", "done", "failed"}
    BY <1>1, FetchFrame
  <2>2. NoJobs' = NoJobs
    BY <2>1 DEF NoJobs
  <2> QED
    BY <2>1, <2>2 DEF PhaseInv
<1>2. CASE Publish \/ (\E m \in Mirrors : Synchronise(m)) \/ Cancel \/ UNCHANGED vars
  BY <1>2 DEF Publish, Synchronise, Cancel, vars, PhaseInv, NoJobs
<1>3. CASE FetchRelease
  BY <1>3 DEF FetchRelease, PhaseInv, NoJobs
<1>4. CASE Update \/ Restart
  <2>1. /\ job' = NoJobs /\ download' = NoJobs /\ release' = NoRelease /\ world' = world
        /\ NoJobs' = NoJobs
    BY <1>4 DEF Update, Restart, NoJobs
  <2> QED
    BY <2>1, NoJobsFacts DEF PhaseInv, NoRelease
<1>5. CASE FinishUpdate
  <2>1. /\ UNCHANGED <<world, job, release, download>> /\ phase = "updating"
        /\ phase' \in {"ready", "failed"} /\ Finished /\ NoJobs' = NoJobs
    BY <1>5 DEF FinishUpdate, NoJobs
  <2>2. \A i \in Indexes : job[i].state \in {"todo", "unused", "done", "refused", "failed"}
    <3>1. CASE release.state = "failed"
      <4>1. world.format = "apt"
        BY <3>1 DEF PhaseInv, NoRelease
      <4>2. \A i \in Indexes : job[i].state \notin {"resolved", "primary", "mismatch"}
        BY <4>1 DEF AptInv
      <4>3. \A i \in Indexes : job[i].state # "writing"
        BY <3>1, <4>1 DEF AptInv
      <4> QED
        BY <4>2, <4>3 DEF TypeInv, JobStates
    <3>2. CASE release.state # "failed"
      BY <2>1, <3>2 DEF Finished, PhaseInv
    <3> QED
      BY <3>1, <3>2
  <2> QED
    BY <2>1, <2>2 DEF PhaseInv
<1>6. CASE Load
  <2>1. phase = "idle" /\ UNCHANGED <<world, job, release, download>> /\ phase' = "ready"
        /\ NoJobs' = NoJobs /\ job = NoJobs
    BY <1>6 DEF Load, NoJobs, PhaseInv
  <2> QED
    BY <2>1, NoJobsFacts DEF PhaseInv
<1>7. ASSUME NEW i \in Indexes, Download(i) PROVE PhaseInv'
  BY <1>7 DEF Download, PhaseInv, NoJobs
<1> QED
  BY <1>1, <1>2, <1>3, <1>4, <1>5, <1>6, <1>7 DEF Next, Fetches

--------------------------------------------------------------------------------
(* What apt believes and keeps. *)

\* A Release that comes to count is believed, and the others do not count.
LEMMA ReleaseStep ==
    ASSUME TypeInv, FetchRelease
    PROVE  /\ release.state # "accepted" /\ vouched \subseteq vouched'
           /\ release'.state = "accepted" => release'.file.gen \in vouched'
           /\ UNCHANGED <<world, lists, phase, job, loaded, download>>
<1>1. DOMAIN release = {"state", "file"}
  BY DEF TypeInv
<1>2. \A d : Believe(d) => /\ vouched \subseteq vouched'
                           /\ release'.state = "accepted" => release'.file.gen \in vouched'
  BY DEF Believe
<1>3. \/ \E d : Believe(d)
      \/ release' = [release EXCEPT !.state = "plain"] /\ UNCHANGED vouched
      \/ (\E f : release' = [state |-> "unsigned", file |-> f]) /\ UNCHANGED vouched
      \/ release' = [release EXCEPT !.state = "failed"] /\ UNCHANGED vouched
  <2>1. CASE release.state = "none"
    BY <2>1 DEF FetchRelease
  <2>2. CASE release.state = "plain"
    BY <2>2 DEF FetchRelease
  <2>3. CASE release.state \notin {"none", "plain"}
    BY <2>3 DEF FetchRelease
  <2> QED
    BY <2>1, <2>2, <2>3
<1>4. /\ release.state # "accepted" /\ vouched \subseteq vouched'
      /\ release'.state = "accepted" => release'.file.gen \in vouched'
  BY <1>1, <1>2, <1>3 DEF FetchRelease
<1> QED
  BY <1>4 DEF FetchRelease, files

\* Every step keeps what apt has on disk named by a Release it believes.
LEMMA AptStep ==
    ASSUME TypeInv, PhaseInv, AptInv, [Next]_vars
    PROVE  AptInv'
<1> USE DEF servers, files
<1> DEFINE Kept ==
        /\ \A i \in Indexes : \A n \in 0..MaxGen : lists[i][n].gen \in vouched \cup {0}
        /\ release.state = "accepted" => release.file.gen \in vouched
           JobKept(i) ==
        /\ job[i].state \notin {"resolved", "primary", "mismatch"}
        /\ job[i].state \in {"writing", "done"} =>
              release.state = "accepted" /\ job[i].next \in 1..world.variants
        /\ job[i].state = "writing" => lists[i][job[i].next] = Torn(release.file.gen)
        /\ job[i].state = "done" => lists[i][job[i].next] = Whole(release.file.gen)
<1>0. world.format = "apt" => Kept /\ \A i \in Indexes : JobKept(i)
  BY DEF AptInv
<1>w. world.format = "apt" =>
         lists \in [Indexes -> [0..MaxGen -> FileType]] /\ world.variants \in 0..MaxGen
  BY WorldAssumption DEF TypeInv
<1>1. ASSUME NEW i \in Indexes, Fetches(i) PROVE AptInv'
  <2> SUFFICES ASSUME world.format = "apt" PROVE Kept' /\ \A j \in Indexes : JobKept(j)'
    BY <1>1, FetchFrame DEF AptInv
  <2>1. /\ UNCHANGED <<world, release, vouched>>
        /\ FetchComponentIndex(i) \/ WriteList(i)
    BY <1>1 DEF Fetches, FetchComponentIndex, WriteList, ResolveMirrors, ParseRepoMD, FetchPrimary,
       RemoveMismatch, FetchIndex
  <2>2. /\ \A j \in Indexes \ {i} : job'[j] = job[j] /\ lists'[j] = lists[j]
        /\ job \in [Indexes -> [state : JobStates, next : Nat \ {0}, file : FileType]]
    BY <1>1, FetchFrame DEF TypeInv
  <2>3. \A j \in Indexes \ {i} : JobKept(j)'
    BY <1>0, <2>1, <2>2
  <2> DEFINE n == job[i].next
             g == release.file.gen
  <2>d. \A s : End(i, s) => job'[i].state = s /\ job'[i].next = n
    BY <2>2 DEF End
  <2>4. ASSUME job'[i].state = "failed", lists' = lists PROVE Kept' /\ JobKept(i)'
    BY <1>0, <2>1, <2>4
  <2>5. CASE FetchComponentIndex(i)
    <3>1. release.state = "accepted" /\ g \in vouched /\ job[i].state = "todo"
      BY <1>0, <2>5 DEF FetchComponentIndex
    <3>2. n <= Listed => n \in 1..world.variants /\ n \in 0..MaxGen
      BY <1>w, <2>2, RefreshBounds DEF Listed
    <3>3. \/ End(i, "failed") /\ lists' = lists
          \/ End(i, "done") /\ lists' = lists /\ n <= Listed /\ lists[i][n] = Whole(g)
          \/ NextCandidate(i) /\ lists' = lists
          \/ End(i, "writing") /\ n <= Listed /\ lists' = [lists EXCEPT ![i][n] = Torn(g)]
      <4>1. CASE n > Listed
        <5>1. ~(n <= Listed)
          BY <1>w, <2>2, <4>1 DEF Listed
        <5> QED
          BY <2>5, <5>1 DEF FetchComponentIndex
      <4>r. CASE n <= Listed /\ ReadMatchingFile(lists[i][n], Whole(g))
        <5>1. ~(n > Listed)
          BY <1>w, <2>2, <4>r DEF Listed
        <5>2. End(i, "done") /\ lists' = lists
          BY <2>5, <4>r, <5>1 DEF FetchComponentIndex
        <5>3. lists[i][n] = Whole(g)
          BY <4>r DEF ReadMatchingFile, Sum
        <5> QED
          BY <4>r, <5>2, <5>3
      <4>2. CASE n <= Listed /\ ~ReadMatchingFile(lists[i][n], Whole(g))
        <5> DEFINE Body(a) == Truncated(a, Whole(AptServer.index[i]))
                   Right(a) == Size(Body(a)) = Size(Whole(g)) /\ Sum(Body(a)) = Sum(Whole(g))
        <5>1. PICK a :
                CASE ~IsBody(a) -> NextCandidate(i) /\ UNCHANGED lists
                  [] IsBody(a) /\ ~Right(a) -> End(i, "failed") /\ UNCHANGED lists
                  [] OTHER -> End(i, "writing") /\ lists' = [lists EXCEPT ![i][n] = Torn(Body(a).gen)]
          <6>1. n <= Listed => ~(n > Listed)
            BY <1>w, <2>2 DEF Listed
          <6> QED
            BY <2>5, <4>2, <6>1 DEF FetchComponentIndex
        <5>2. Right(a) => Body(a).gen = g
          BY FileTypes DEF Sum
        <5> HIDE DEF Right, Body
        <5> QED
          BY <4>2, <5>1, <5>2
      <4>3. n <= Listed \/ n > Listed
        BY <1>w, <2>2 DEF Listed
      <4> QED
        BY <4>1, <4>r, <4>2, <4>3
    <3>4. CASE End(i, "failed") /\ lists' = lists
      BY <2>3, <2>4, <2>d, <3>4
    <3>5. CASE End(i, "done") /\ lists' = lists /\ n <= Listed /\ lists[i][n] = Whole(g)
      BY <1>0, <2>1, <2>3, <2>d, <3>1, <3>2, <3>5
    <3>6. CASE NextCandidate(i) /\ lists' = lists
      <4>1. job'[i].state = "todo"
        BY <2>2, <3>1, <3>6 DEF NextCandidate
      <4> QED
        BY <1>0, <2>1, <2>3, <3>6, <4>1
    <3>7. CASE End(i, "writing") /\ n <= Listed /\ lists' = [lists EXCEPT ![i][n] = Torn(g)]
      <4>1. /\ lists'[i][n] = Torn(g)
            /\ \A m \in 0..MaxGen : m # n => lists'[i][m] = lists[i][m]
        BY <1>w, <3>2, <3>7
      <4>2. \A m \in 0..MaxGen : lists'[i][m].gen \in vouched \cup {0}
        BY <1>0, <3>1, <4>1, FileTypes
      <4>3. Kept'
        BY <1>0, <2>1, <2>2, <4>2
      <4> QED
        BY <2>1, <2>3, <2>d, <3>1, <3>2, <3>7, <4>1, <4>3
    <3> QED
      BY <3>3, <3>4, <3>5, <3>6, <3>7
  <2>6. CASE WriteList(i)
    <3>1. /\ n \in 1..world.variants /\ n \in 0..MaxGen /\ release.state = "accepted"
          /\ lists[i][n] = Torn(g)
      BY <1>0, <1>w, <2>6, RefreshBounds DEF WriteList
    <3>2. CASE End(i, "failed") /\ lists' = lists
      BY <2>3, <2>4, <2>d, <3>2
    <3>3. CASE End(i, "done") /\ lists' = [lists EXCEPT ![i][n] = Whole(lists[i][n].gen)]
      <4>1. Whole(lists[i][n].gen) = Whole(g)
        BY <3>1, FileTypes
      <4>2. /\ lists'[i][n] = Whole(lists[i][n].gen)
            /\ \A m \in 0..MaxGen : m # n => lists'[i][m] = lists[i][m]
        BY <1>w, <3>1, <3>3
      <4>3. \A m \in 0..MaxGen : lists'[i][m].gen \in vouched \cup {0}
        BY <1>0, <3>1, <4>1, <4>2, FileTypes
      <4>4. Kept'
        BY <1>0, <2>1, <2>2, <4>3
      <4> QED
        BY <2>1, <2>3, <2>d, <3>1, <3>3, <4>1, <4>2, <4>4
    <3> QED
      BY <2>6, <3>2, <3>3 DEF WriteList
  <2> QED
    BY <2>1, <2>5, <2>6
<1>2. CASE FetchRelease
  <2>1. /\ release.state # "accepted" /\ vouched \subseteq vouched'
        /\ release'.state = "accepted" => release'.file.gen \in vouched'
        /\ UNCHANGED <<world, lists, job>>
    BY <1>2, ReleaseStep
  <2> SUFFICES ASSUME world.format = "apt" PROVE Kept' /\ \A j \in Indexes : JobKept(j)'
    BY <2>1 DEF AptInv
  <2> QED
    BY <1>0, <2>1
<1>3. CASE Update \/ Restart
  <2>1. UNCHANGED <<world, lists, vouched>> /\ job' = NoJobs /\ release' = NoRelease
    BY <1>3 DEF Update, Restart
  <2>2. \A i \in Indexes : job'[i].state \in {"todo", "unused"}
    BY <2>1, NoJobsFacts
  <2> SUFFICES ASSUME world.format = "apt" PROVE Kept' /\ \A j \in Indexes : JobKept(j)'
    BY <2>1 DEF AptInv
  <2> QED
    BY <1>0, <2>1, <2>2 DEF NoRelease
<1>4. CASE \/ Publish \/ (\E m \in Mirrors : Synchronise(m)) \/ FinishUpdate \/ Load
           \/ (\E i \in Indexes : Download(i)) \/ Cancel \/ UNCHANGED vars
  <2>1. UNCHANGED <<world, lists, vouched, job, release>>
    BY <1>4 DEF Publish, Synchronise, FinishUpdate, Load, Download, Cancel, vars
  <2> SUFFICES ASSUME world.format = "apt" PROVE Kept' /\ \A j \in Indexes : JobKept(j)'
    BY <2>1 DEF AptInv
  <2> QED
    BY <1>0, <2>1
<1> QED
  BY <1>1, <1>2, <1>3, <1>4 DEF Next, Fetches
--------------------------------------------------------------------------------
(* What a refresh promises. *)

\* A process that has updated or loaded changes nothing of what it has fetched.
LEMMA ReadyFrame ==
    ASSUME TypeInv, PhaseInv, [Next]_vars
    PROVE  \/ phase' # "ready"
           \/ FinishUpdate \/ Load
           \/ UNCHANGED <<world, phase, job, release, lists, loaded>>
<1> USE DEF files
<1>1. CASE \E i \in Indexes : Fetches(i)
  BY <1>1, FetchFrame
<1>2. CASE \/ Publish \/ (\E m \in Mirrors : Synchronise(m)) \/ (\E i \in Indexes : Download(i))
           \/ Cancel \/ UNCHANGED vars
  BY <1>2 DEF Publish, Synchronise, Download, Cancel, vars
<1>3. CASE FetchRelease \/ Update \/ Restart
  BY <1>3 DEF FetchRelease, Update, Restart
<1> QED
  BY <1>1, <1>2, <1>3 DEF Next, Fetches

\* An update that succeeds: every fetch has ended, and which may have failed.
LEMMA FinishFacts ==
    ASSUME TypeInv, PhaseInv, AptInv, FinishUpdate, phase' = "ready"
    PROVE  /\ UNCHANGED <<world, job, release, lists>>
           /\ world.format = "apt" =>
                 /\ release.state = "accepted" /\ Counted # {}
                 /\ loaded' \in [Indexes -> 0..MaxGen] /\ Reload
           /\ world.format = "pacman" => Counted = world.indexes
           /\ world.format = "dnf" => \A i \in world.indexes \ Counted : job[i].state = "refused"
<1>1. /\ UNCHANGED <<world, job, release, lists>> /\ Finished /\ phase = "updating"
      /\ world.indexes \subseteq Indexes
  BY WorldAssumption DEF FinishUpdate, files, TypeInv
<1>2. CASE world.format = "apt"
  <2>1. release.state # "failed" /\ Counted # {}
    BY <1>2 DEF FinishUpdate, GetUpdates
  <2>2. loaded' \in [Indexes -> 0..MaxGen] /\ Reload
    BY <1>2, <2>1 DEF FinishUpdate
  <2>3. release.state = "accepted"
    BY <1>2, <2>1 DEF Counted, AptInv
  <2> QED
    BY <1>1, <1>2, <2>1, <2>2, <2>3
<1>3. CASE world.format \in {"pacman", "dnf"}
  <2>1. \A i \in Indexes : job[i].state # "failed"
    BY <1>3 DEF FinishUpdate, GetUpdates, FetchAllRepos, Sync
  <2>2. \A i \in world.indexes : job[i].state \in {"done", "refused", "failed"}
    BY <1>1, <1>3 DEF Finished, PhaseInv, NoRelease
  <2>3. world.format = "pacman" => Counted = world.indexes
    <3>1. \A i \in Indexes : i \notin world.indexes => job[i].state # "done"
      BY DEF PhaseInv
    <3>2. world.format = "pacman" => \A i \in world.indexes : job[i].state = "done"
      BY <1>1, <2>1, <2>2 DEF PhaseInv
    <3> QED
      BY <1>1, <3>1, <3>2 DEF Counted
  <2>4. \A i \in world.indexes \ Counted : job[i].state = "refused"
    BY <1>1, <2>1, <2>2 DEF Counted
  <2> QED
    BY <1>1, <1>3, <2>3, <2>4
<1>4. CASE world.format = "apk"
  BY <1>1, <1>4
<1> QED
  BY <1>2, <1>3, <1>4, WorldAssumption DEF TypeInv

\* What apt's cache offers comes from the files on disk, which believed Releases list.
LEMMA OffersStep ==
    ASSUME TypeInv, PhaseInv, AptInv, OffersAreVouched, [Next]_vars
    PROVE  OffersAreVouched'
<1> USE DEF servers, files
<1>1. CASE \E i \in Indexes : Fetches(i)
  BY <1>1, FetchFrame DEF OffersAreVouched
<1>2. CASE FetchRelease
  BY <1>2, ReleaseStep DEF OffersAreVouched
<1>3. CASE \/ Publish \/ (\E m \in Mirrors : Synchronise(m)) \/ Update
           \/ (\E i \in Indexes : Download(i)) \/ Cancel \/ UNCHANGED vars
  <2>1. UNCHANGED <<world, loaded, vouched>>
    BY <1>3 DEF Publish, Synchronise, Update, Download, Cancel, vars
  <2> QED
    BY <2>1 DEF OffersAreVouched
<1>4. CASE FinishUpdate \/ Load
  <2>1. UNCHANGED <<world, vouched>>
    BY <1>4 DEF FinishUpdate, Load
  <2>2. world.format = "apt" => loaded' = loaded \/ Reload
    BY <1>4 DEF FinishUpdate, Load
  <2>3. world.format = "apt" => \A i \in Indexes : Offered(i) \subseteq vouched \cup {0}
    BY DEF Offered, AptInv
  <2> QED
    BY <2>1, <2>2, <2>3 DEF OffersAreVouched, Reload
<1>5. CASE Restart
  BY <1>5 DEF Restart, OffersAreVouched
<1> QED
  BY <1>1, <1>2, <1>3, <1>4, <1>5 DEF Next, Fetches

\* dnf: the primary of a repository that counts is compared when it is fetched.
LEMMA PrimaryIsCurrent ==
    ASSUME TypeInv, NEW i \in Indexes, FetchPrimary(i), world.sums, job'[i].state = "done"
    PROVE  lists'[i][HrefOf(job'[i].file.gen)] = job'[i].file
<1> DEFINE wanted == job[i].file
           n == HrefOf(wanted.gen)
<1>0. /\ job \in [Indexes -> [state : JobStates, next : Nat \ {0}, file : FileType]]
      /\ world.format = "dnf" /\ lists \in [Indexes -> [0..MaxGen -> FileType]]
  BY DEF TypeInv, FetchPrimary
<1>1. n \in 0..MaxGen
  BY <1>0, RefreshBounds DEF HrefOf, FileType
<1>2. \A s : End(i, s) => job'[i].file = wanted
  BY <1>0 DEF End
<1>3. \A a : ~TryNext(i, a)
  BY TryNextType, <1>0
<1>4. CASE FileMatchesSHA256(lists[i][n], wanted)
  <2>1. End(i, "done") /\ lists' = lists
    BY <1>4 DEF FetchPrimary
  <2> QED
    BY <1>2, <1>4, <2>1 DEF FileMatchesSHA256, Sum
<1>5. CASE ~FileMatchesSHA256(lists[i][n], wanted)
  <2>1. PICK answer, file :
          /\ lists' = [lists EXCEPT ![i][n] = file]
          /\ CASE ~IsBody(answer) -> TryNext(i, answer)
               [] IsBody(answer) /\ world.sums /\ Sum(file) # Sum(wanted) -> End(i, "mismatch")
               [] OTHER -> End(i, "done")
    BY <1>5 DEF FetchPrimary
  <2>2. ~End(i, "mismatch")
    BY <1>0 DEF End
  <2>3. End(i, "done") /\ Sum(file) = Sum(wanted)
    BY <1>3, <2>1, <2>2
  <2>4. lists'[i][n] = file
    BY <1>0, <1>1, <2>1
  <2> QED
    BY <1>2, <2>3, <2>4 DEF Sum
<1> QED
  BY <1>4, <1>5

\* Every step keeps the indexes that count whole and of the generation named for them.
LEMMA CountedStep ==
    ASSUME TypeInv, PhaseInv, AptInv, AptInv', CountedAreCurrent, [Next]_vars
    PROVE  CountedAreCurrent'
<1> USE DEF servers, files, HrefOf
<1> DEFINE Current(i) ==
        (world.format = "dnf" /\ world.sums) => lists[i][HrefOf(job[i].file.gen)] = job[i].file
<1>1. world.format' = "apt" => \A i \in Indexes : job'[i].state = "done" =>
         \E n \in 1..world'.variants : lists'[i][n] = Whole(release'.file.gen)
  BY DEF AptInv
<1>2. \A i \in Indexes : job'[i].state = "done" => Current(i)'
  <2>0. \A i \in Indexes : job[i].state = "done" => Current(i)
    BY DEF CountedAreCurrent, Counted
  <2>1. ASSUME NEW k \in Indexes, Fetches(k), NEW i \in Indexes, job'[i].state = "done" PROVE Current(i)'
    <3>0. /\ world' = world
          /\ \A j \in Indexes \ {k} : job'[j] = job[j]
          /\ world.format = "dnf" => \A j \in Indexes \ {k} : lists'[j] = lists[j]
      BY <2>1, FetchFrame
    <3>1. CASE i # k
      BY <2>0, <2>1, <3>0, <3>1
    <3>2. CASE i = k /\ world.format = "dnf" /\ world.sums
      <4>1. ASSUME NEW a PROVE ~TryNext(k, a)
        BY <2>1, <3>2, <4>1, TryNextType
      <4>2. "state" \in DOMAIN job[k] /\ k \in DOMAIN job
        BY DEF TypeInv
      <4>3. ~ResolveMirrors(k)
        <5>1. \A b : Unfetched(b) # "done"
          BY DEF Unfetched
        <5>2. ResolveMirrors(k) => \E s : s # "done" /\ job' = [job EXCEPT ![k].state = s]
          BY <5>1 DEF ResolveMirrors
        <5> QED
          BY <2>1, <3>2, <4>2, <5>2
      <4>4. ~ParseRepoMD(k)
        <5>1. ParseRepoMD(k) => \E b : job' = [job EXCEPT ![k] =
                  [state |-> "primary", next |-> job[k].next, file |-> b]]
          BY <4>1 DEF ParseRepoMD
        <5> QED
          BY <2>1, <3>2, <4>2, <5>1
      <4>5. FetchPrimary(k)
        BY <2>1, <3>2, <4>1, <4>3, <4>4 DEF Fetches, FetchComponentIndex, WriteList, RemoveMismatch, FetchIndex
      <4>6. lists'[i][HrefOf(job'[i].file.gen)] = job'[i].file
        BY <2>1, <3>2, <4>5, PrimaryIsCurrent
      <4> QED
        BY <3>0, <4>6
    <3> QED
      BY <3>0, <3>1, <3>2
  <2>2. CASE \/ Publish \/ (\E m \in Mirrors : Synchronise(m)) \/ FetchRelease \/ FinishUpdate \/ Load
             \/ (\E i \in Indexes : Download(i)) \/ Cancel \/ UNCHANGED vars
    <3>1. UNCHANGED <<world, lists, job>>
      BY <2>2 DEF Publish, Synchronise, FetchRelease, FinishUpdate, Load, Download, Cancel, vars
    <3> QED
      BY <2>0, <3>1
  <2>3. CASE Update \/ Restart
    <3>1. job' = NoJobs
      BY <2>3 DEF Update, Restart
    <3> QED
      BY <3>1, NoJobsFacts
  <2> QED
    BY <2>1, <2>2, <2>3 DEF Next, Fetches
<1>3. Updated' /\ world'.format = "apt" =>
         \A i \in Indexes : job'[i].state = "done" => loaded'[i] >= release'.file.gen
  <2> SUFFICES ASSUME Updated', world'.format = "apt", NEW i \in Indexes, job'[i].state = "done"
               PROVE  loaded'[i] >= release'.file.gen
    OBVIOUS
  <2>1. phase' = "ready"
    BY DEF Updated
  <2>2. CASE FinishUpdate
    <3>1. /\ UNCHANGED <<world, job, release, lists>>
          /\ loaded' \in [Indexes -> 0..MaxGen] /\ Reload
      BY <2>1, <2>2, FinishFacts
    <3>2. job[i].next \in 1..world.variants /\ lists[i][job[i].next] = Whole(release.file.gen)
      BY <3>1 DEF AptInv
    <3>3. world.variants \in 0..MaxGen
      BY WorldAssumption DEF TypeInv
    <3>4. job[i].next \in 0..MaxGen
      BY <3>2, <3>3, RefreshBounds
    <3>5. lists[i][job[i].next].whole /\ lists[i][job[i].next].gen = release.file.gen
      BY <3>2, FileTypes
    <3>6. release.file.gen <= loaded'[i]
      BY <3>1, <3>4, <3>5 DEF Reload, Offered
    <3>7. release.file.gen \in 0..MaxGen
      <4>1. lists \in [Indexes -> [0..MaxGen -> FileType]]
        BY <3>1 DEF TypeInv
      <4>2. lists[i][job[i].next] \in FileType
        BY <3>4, <4>1
      <4> QED
        BY <3>5, <4>2 DEF FileType
    <3> QED
      BY <3>1, <3>6, <3>7, RefreshBounds
  <2>3. CASE Load
    BY <2>3 DEF Load, PhaseInv, Updated, NoJobs
  <2>4. CASE UNCHANGED <<world, phase, job, release, lists, loaded>>
    <3>1. Updated /\ world.format = "apt" /\ job[i].state = "done"
      BY <2>4 DEF Updated, Finished, NoJobs
    <3> QED
      BY <2>4, <3>1 DEF CountedAreCurrent, Counted
  <2> QED
    BY <2>1, <2>2, <2>3, <2>4, ReadyFrame
<1> QED
  BY <1>1, <1>2, <1>3 DEF CountedAreCurrent, Counted

\* A process that reports success has what it was asked for.
LEMMA ToldStep ==
    ASSUME TypeInv, PhaseInv, AptInv, FailureIsTold, [Next]_vars
    PROVE  FailureIsTold'
<1> SUFFICES ASSUME Updated' PROVE FailureIsTold'
  BY DEF FailureIsTold
<1>1. phase' = "ready"
  BY DEF Updated
<1>2. CASE FinishUpdate
  <2>1. UNCHANGED <<world, job, release, lists>>
    BY <1>1, <1>2, FinishFacts
  <2>2. Counted' = Counted
    BY <2>1 DEF Counted
  <2> QED
    BY <1>1, <1>2, <2>1, <2>2, FinishFacts DEF FailureIsTold
<1>3. CASE Load
  BY <1>3 DEF Load, PhaseInv, Updated, NoJobs
<1>4. CASE UNCHANGED <<world, phase, job, release, lists, loaded>>
  <2>1. Updated /\ Counted' = Counted
    BY <1>4 DEF Updated, Finished, NoJobs, Counted
  <2> QED
    BY <1>4, <2>1 DEF FailureIsTold
<1> QED
  BY <1>1, <1>2, <1>3, <1>4, ReadyFrame

\* What apt or dnf has compared is the package its index names, and stays it.
LEMMA ListedStep ==
    ASSUME TypeInv, PhaseInv, DownloadsAreListed, [Next]_vars
    PROVE  DownloadsAreListed'
<1> USE DEF servers, files
<1> DEFINE Compared(file, gen) ==
        /\ world.format \in {"apt", "dnf"} /\ "sum" \in world.checks => file = Whole(gen)
        /\ world.format \in {"apt", "apk"} /\ "size" \in world.checks => Size(file) = Size(Whole(gen))
<1>0. \A i \in Indexes : NoJobs[i].state # "done"
  BY NoJobsFacts
<1>1. CASE \/ Publish \/ (\E m \in Mirrors : Synchronise(m)) \/ FetchRelease \/ Cancel \/ UNCHANGED vars
           \/ (\E i \in Indexes : Fetches(i))
  <2>1. UNCHANGED <<world, loaded, download>>
    BY <1>1, FetchFrame DEF Publish, Synchronise, FetchRelease, Cancel, vars
  <2> QED
    BY <2>1 DEF DownloadsAreListed
<1>2. CASE Update \/ Restart \/ FinishUpdate \/ Load
  <2>1. download' = NoJobs
    BY <1>2 DEF Update, Restart, FinishUpdate, Load, PhaseInv
  <2> QED
    BY <1>0, <2>1 DEF DownloadsAreListed
<1>3. ASSUME NEW i \in Indexes, Download(i) PROVE DownloadsAreListed'
  <2>1. UNCHANGED <<world, loaded>> /\ DOMAIN download = Indexes
    BY <1>3 DEF Download, TypeInv
  <2>2. \/ \E file, a : /\ download' = [download EXCEPT ![i] =
                              [state |-> "done", next |-> download[i].next, file |-> file]]
                        /\ Verified(file, loaded[i])
        \/ download' = [download EXCEPT ![i].next = @ + 1]
        \/ download' = [download EXCEPT ![i].state = "failed"]
    BY <1>3 DEF Download, DownloadJob
  <2>3. \A j \in Indexes \ {i} : download'[j] = download[j]
    BY <2>1, <2>2
  <2>4. download'[i].state = "done" => Compared(download'[i].file, loaded[i])
    <3>1. CASE \E file : /\ download' = [download EXCEPT ![i] =
                              [state |-> "done", next |-> download[i].next, file |-> file]]
                         /\ Verified(file, loaded[i])
      <4>1. PICK file : /\ download' = [download EXCEPT ![i] =
                              [state |-> "done", next |-> download[i].next, file |-> file]]
                        /\ Verified(file, loaded[i])
        BY <3>1
      <4>2. Compared(file, loaded[i])
        BY <4>1 DEF Verified, Sum
      <4> QED
        BY <2>1, <4>1, <4>2
    <3>2. CASE download' = [download EXCEPT ![i].next = @ + 1]
      <4>1. download'[i].state = download[i].state /\ download[i].state = "todo"
        BY <1>3, <2>1, <3>2 DEF Download
      <4> QED
        BY <4>1
    <3>3. CASE download' = [download EXCEPT ![i].state = "failed"]
      BY <2>1, <3>3
    <3> QED
      BY <2>2, <3>1, <3>2, <3>3
  <2> QED
    BY <2>1, <2>3, <2>4 DEF DownloadsAreListed
<1> QED
  BY <1>1, <1>2, <1>3 DEF Next, Fetches

--------------------------------------------------------------------------------
(* The invariance. *)

\* The first process finds an empty directory.
LEMMA InitInv == Init => IInv
<1> SUFFICES ASSUME Init PROVE IInv
  OBVIOUS
<1>1. world \in Worlds /\ world.mirrors # <<>> /\ world.mirrors \in Seq(Mirrors)
  BY WorldAssumption DEF Init
<1>2. job = NoJobs /\ download = NoJobs /\ release = NoRelease /\ phase = "idle"
  BY DEF Init
<1>3. \A i \in Indexes : job[i].state \in {"todo", "unused"} /\ job[i].next = 1
  BY <1>2, NoJobsFacts
<1>4. TypeInv
  <2>1. world.format = "dnf" => 1 \in DOMAIN Candidates
    BY <1>1 DEF Candidates, ResolveRepoCandidates, MaxMirrors
  <2>2. mirror \in [Mirrors -> MirrorType] /\ origin \in 1..MaxGen
    BY RefreshBounds DEF Init, MirrorType
  <2>3. lists \in [Indexes -> [0..MaxGen -> FileType]]
        /\ cached \in [Indexes -> [file : FileType, time : Nat]]
    BY FileTypes DEF Init
  <2>4. DOMAIN NoRelease = {"state", "file"} /\ DOMAIN NoJobs = Indexes
    BY DEF NoRelease, NoJobs
  <2> QED
    BY <1>1, <1>2, <1>3, <2>1, <2>2, <2>3, <2>4, NoJobsFacts DEF TypeInv
<1>5. PhaseInv
  BY <1>2, <1>3, NoJobsFacts DEF PhaseInv
<1>6. AptInv
  <2>1. \A i \in Indexes : \A n \in 0..MaxGen : lists[i][n].gen = 0
    BY DEF Init, Absent, Torn
  <2> QED
    BY <1>2, <1>3, <2>1 DEF AptInv, NoRelease
<1>7. RefreshIsGenuine
  <2>1. \A i \in Indexes : loaded[i] = 0
    BY DEF Init
  <2>2. ~Updated /\ \A i \in Indexes : download[i].state # "done"
    BY <1>2, NoJobsFacts DEF Updated
  <2> QED
    BY <1>3, <2>1, <2>2 DEF RefreshIsGenuine, OffersAreVouched, CountedAreCurrent, Counted,
       FailureIsTold, DownloadsAreListed
<1> QED
  BY <1>4, <1>5, <1>6, <1>7 DEF IInv

\* IInv holds in every state, for every world of WorldAssumption.
THEOREM Invariance == Spec => []IInv
<1>1. IInv /\ [Next]_vars => IInv'
  BY TypeStep, PhaseStep, AptStep, OffersStep, CountedStep, ToldStep, ListedStep DEF IInv, RefreshIsGenuine
<1> QED
  BY <1>1, InitInv, PTL DEF Spec

\* What apt offers is listed by a Release it believes, what counts as fetched is whole
\* and current, a success has lost nothing it was asked for, and a package that apt or
\* dnf hands on is the one its index names: over mirrors that change under the
\* requests, torn writes, wrong answers, cancellation and restarts.
THEOREM Genuine == Spec => []RefreshIsGenuine
<1>1. IInv => RefreshIsGenuine
  BY DEF IInv
<1> QED
  BY <1>1, Invariance, PTL

===============================================================================
