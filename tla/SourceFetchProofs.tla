--------------------------- MODULE SourceFetchProofs ---------------------------
(* The safety of SourceFetch, for every source array and any number of workers. *)
EXTENDS SourceFetch, TLAPS

Finished == {"off", "done", "failed"}
AfterCheck == {"readLink", "symlink", "extract", "done"}

\* Outside a run there are no workers, and a run that succeeded finished all.
RunInv ==
    /\ run # "running" => \A i \in Source : pc[i] \in Finished
    /\ run = "running" => \A i \in Source : pc[i] = "off" <=> i > launched
    /\ run = "ok" => \A i \in Source : pc[i] = "done"

\* A flight belongs to the worker within Do, and a transfer has not completed.
FlightInv ==
    \A i \in Source :
        /\ pc[i] \in FlightStates => flight[PathOf[i]] = i
        /\ pc[i] = "transfer" => disk[PathOf[i]] \in {"none", "part"}
        /\ pc[i] = "bare" => Kind[PathOf[i]] = "git"

\* What a checksum has verified stays so, and stays linked.
VerifiedInv ==
    run \in {"running", "ok"} =>
        \A i \in Checked : Kind[PathOf[i]] # "git" =>
            /\ pc[i] \in AfterCheck => disk[PathOf[i]] = "whole"
            /\ pc[i] \in {"extract", "done"} => link[PathOf[i]] = "link"

Failed == \E i \in Source : pc[i] = "failed"
Transferring(f) == \E i \in Source : PathOf[i] = f /\ pc[i] = "transfer"

\* A missing file that is incomplete is being downloaded, unless a download
\* failed; and so is one that was there when a worker accepted it, but is not now.
MissingInv ==
    run \in {"running", "ok"} =>
        \A f \in missing :
            /\ disk[f] # "bare"
            /\ disk[f] = "none" \/ Complete(f) \/ Transferring(f) \/ Failed
            /\ \A i \in Source : PathOf[i] = f /\ pc[i] \in AfterCheck =>
                  disk[f] # "none" \/ Transferring(f) \/ Failed

IInv == TypeOK /\ RunInv /\ FlightInv /\ VerifiedInv /\ MissingInv

\* Every step keeps the types.
LEMMA TypeStep == IInv /\ [Next]_vars => TypeOK'
<1> SUFFICES ASSUME IInv, [Next]_vars PROVE TypeOK'
  OBVIOUS
<1> USE SourceAssumption DEF Source
<1>t. TypeOK
  BY DEF IInv
<1>1. CASE GetSources
  BY <1>t, <1>1 DEF GetSources, TypeOK, PCs, BusyStates, Contents, runVars, netVars
<1>2. CASE Launch
  BY <1>t, <1>2 DEF Launch, Goto, TypeOK, PCs, BusyStates, Contents, runVars, netVars
<1>3. CASE Wait
  BY <1>t, <1>3 DEF Wait, TypeOK, PCs, BusyStates, Contents, runVars, netVars
<1>4. CASE CallerCancels
  BY <1>t, <1>4 DEF CallerCancels, TypeOK, PCs, BusyStates, Contents, runVars, netVars
<1>5. CASE Crash
  BY <1>t, <1>5 DEF Crash, TypeOK, PCs, BusyStates, Contents, runVars, netVars
<1>6. ASSUME NEW i \in Source, Start(i) PROVE TypeOK'
  BY <1>t, <1>6 DEF Start, Fails, Goto, TypeOK, PCs, BusyStates, Contents, runVars, netVars
<1>7. ASSUME NEW i \in Source, TryBare(i) PROVE TypeOK'
  <2>1. pc' \in [Source -> PCs]
    BY <1>t, <1>7 DEF TryBare, Goto, TypeOK, PCs, BusyStates
  <2>2. disk' \in [File -> Contents] /\ link' \in [File -> {"none", "link", "copy"}]
    BY <1>t, <1>7 DEF TryBare, TypeOK, Contents
  <2>3. UNCHANGED <<runVars, gctx, netVars>>
    BY <1>7 DEF TryBare
  <2> QED
    BY <1>t, <2>1, <2>2, <2>3 DEF TypeOK, runVars, netVars
<1>8. ASSUME NEW i \in Source, Look(i) PROVE TypeOK'
  BY <1>t, <1>8 DEF Look, Goto, TypeOK, PCs, BusyStates, Contents, runVars, netVars
<1>9. ASSUME NEW i \in Source, Join(i) PROVE TypeOK'
  <2>1. pc' \in [Source -> PCs]
    BY <1>t, <1>9 DEF Join, Goto, TypeOK, PCs, BusyStates
  <2>2. flight' \in [File -> Source \cup {NoSource}]
    BY <1>t, <1>9 DEF Join, TypeOK
  <2>3. UNCHANGED <<disk, link, runVars, gctx, attempt>>
    BY <1>9 DEF Join
  <2> QED
    BY <1>t, <2>1, <2>2, <2>3 DEF TypeOK, runVars
<1>10. ASSUME NEW i \in Source, Recheck(i) PROVE TypeOK'
  <2>1. pc' \in [Source -> PCs] /\ gctx' \in {"live", "cancelled"}
    BY <1>t, <1>10 DEF Recheck, Landed, Goto, TypeOK, PCs, BusyStates
  <2>2. flight' \in [File -> Source \cup {NoSource}]
    BY <1>t, <1>10 DEF Recheck, Landed, TypeOK
  <2>3. attempt' \in [File -> 0..MaxRetries]
    <3>1. attempt \in [File -> 0..MaxRetries] /\ 0 \in 0..MaxRetries
      BY <1>t DEF TypeOK
    <3>2. attempt' = attempt \/ attempt' = [attempt EXCEPT ![PathOf[i]] = 0]
      BY <1>10 DEF Recheck
    <3> QED
      BY <3>1, <3>2
  <2>4. UNCHANGED <<disk, link, runVars>>
    BY <1>10 DEF Recheck
  <2> QED
    BY <1>t, <2>1, <2>2, <2>3, <2>4 DEF TypeOK, runVars
<1>11. ASSUME NEW i \in Source, Appears(i) PROVE TypeOK'
  BY <1>t, <1>11 DEF Appears, TypeOK, PCs, BusyStates, Contents, runVars, netVars
<1>12. ASSUME NEW i \in Source, Completes(i) PROVE TypeOK'
  BY <1>t, <1>12 DEF Completes, Landed, TypeOK, PCs, BusyStates, Contents, runVars, netVars
<1>13. ASSUME NEW i \in Source, AttemptFails(i) PROVE TypeOK'
  <2> DEFINE f == PathOf[i]
  <2>1. PICK e \in Errors :
          /\ disk' = IF e = "badLength" THEN [disk EXCEPT ![f] = "none"] ELSE disk
          /\ IF e \in Retryable /\ attempt[f] < MaxRetries
             THEN /\ attempt' = [attempt EXCEPT ![f] = @ + 1]
                  /\ UNCHANGED <<pc, gctx, flight>>
             ELSE UNCHANGED attempt /\ Landed(i, FALSE)
    BY <1>13 DEF AttemptFails
  <2>2. disk' \in [File -> Contents]
    BY <1>t, <2>1 DEF TypeOK, Contents
  <2>3. attempt' \in [File -> 0..MaxRetries]
    <3>1. f \in File /\ attempt \in [File -> 0..MaxRetries]
      BY <1>t DEF TypeOK
    <3>2. CASE attempt' = attempt
      BY <3>1, <3>2
    <3>3. CASE attempt[f] < MaxRetries /\ attempt' = [attempt EXCEPT ![f] = @ + 1]
      <4>1. attempt[f] + 1 \in 0..MaxRetries
        BY <3>1, <3>3
      <4> QED
        BY <3>1, <3>3, <4>1
    <3> QED
      BY <2>1, <3>2, <3>3
  <2>4. /\ pc' \in [Source -> PCs] /\ gctx' \in {"live", "cancelled"}
        /\ flight' \in [File -> Source \cup {NoSource}]
    BY <1>t, <2>1 DEF Landed, TypeOK, PCs, BusyStates
  <2>5. UNCHANGED <<link, runVars>>
    BY <1>13 DEF AttemptFails
  <2> QED
    BY <1>t, <2>2, <2>3, <2>4, <2>5 DEF TypeOK, runVars
<1>14. ASSUME NEW i \in Source, CloneFails(i) PROVE TypeOK'
  BY <1>t, <1>14 DEF CloneFails, Landed, TypeOK, PCs, BusyStates, Contents, runVars, netVars
<1>15. ASSUME NEW i \in Source, ValidateSource(i) PROVE TypeOK'
  <2>1. pc' \in [Source -> PCs] /\ gctx' \in {"live", "cancelled"}
    BY <1>t, <1>15 DEF ValidateSource, Acceptable, Fails, Goto, TypeOK, PCs, BusyStates
  <2>2. UNCHANGED <<disk, link, runVars, netVars>>
    BY <1>15 DEF ValidateSource
  <2> QED
    BY <1>t, <2>1, <2>2 DEF TypeOK, runVars, netVars
<1>16. ASSUME NEW i \in Source, ReadLink(i) PROVE TypeOK'
  BY <1>t, <1>16 DEF ReadLink, Fails, Goto, TypeOK, PCs, BusyStates, Contents, runVars, netVars
<1>17. ASSUME NEW i \in Source, Symlink(i) PROVE TypeOK'
  <2>1. pc' \in [Source -> PCs] /\ gctx' \in {"live", "cancelled"}
    BY <1>t, <1>17 DEF Symlink, Fails, Goto, TypeOK, PCs, BusyStates
  <2>2. link' \in [File -> {"none", "link", "copy"}]
    BY <1>t, <1>17 DEF Symlink, TypeOK
  <2>3. UNCHANGED <<disk, runVars, netVars>>
    BY <1>17 DEF Symlink
  <2> QED
    BY <1>t, <2>1, <2>2, <2>3 DEF TypeOK, runVars, netVars
<1>18. ASSUME NEW i \in Source, Extract(i) PROVE TypeOK'
  BY <1>t, <1>18 DEF Extract, Fails, Goto, TypeOK, PCs, BusyStates, Contents, runVars, netVars
<1>19. ASSUME NEW f \in File, EditPkgbuild(f) PROVE TypeOK'
  BY <1>t, <1>19 DEF EditPkgbuild, TypeOK, PCs, BusyStates, Contents, runVars, netVars
<1>20. CASE UNCHANGED vars
  BY <1>t, <1>20 DEF vars, TypeOK, PCs, BusyStates, Contents
<1> QED
  BY <1>1, <1>2, <1>3, <1>4, <1>5, <1>6, <1>7, <1>8, <1>9, <1>10, <1>11, <1>12, <1>13, <1>14, <1>15, <1>16, <1>17, <1>18, <1>19, <1>20 DEF Next, Get

\* A step of Source.Get is taken by a worker that has not finished, within a
\* run, and brings no worker back to where it was before its launch.
LEMMA GetFacts ==
  ASSUME TypeOK, NEW i \in Source, Get(i)
  PROVE  /\ pc[i] \notin Finished
         /\ UNCHANGED runVars
         /\ \A j \in Source : pc[j] \in {"off", "failed"} => pc'[j] = pc[j]
         /\ \A j \in Source : pc'[j] = "off" => pc[j] = "off"
<1> USE SourceAssumption
<1>1. CASE Start(i)
  BY <1>1 DEF Start, Fails, Goto, TypeOK, Finished, runVars
<1>2. CASE TryBare(i)
  BY <1>2 DEF TryBare, Goto, TypeOK, Finished, runVars
<1>3. CASE Look(i)
  BY <1>3 DEF Look, Goto, TypeOK, Finished, runVars
<1>4. CASE Join(i)
  BY <1>4 DEF Join, Goto, TypeOK, Finished, runVars
<1>5. CASE Recheck(i)
  BY <1>5 DEF Recheck, Landed, Goto, TypeOK, Finished, runVars
<1>6. CASE Appears(i)
  BY <1>6 DEF Appears, TypeOK, Finished, runVars
<1>7. CASE Completes(i)
  BY <1>7 DEF Completes, Landed, TypeOK, Finished, runVars
<1>8. CASE AttemptFails(i)
  BY <1>8 DEF AttemptFails, Landed, TypeOK, Finished, runVars
<1>9. CASE CloneFails(i)
  BY <1>9 DEF CloneFails, Landed, TypeOK, Finished, runVars
<1>10. CASE ValidateSource(i)
  BY <1>10 DEF ValidateSource, Acceptable, Fails, Goto, TypeOK, Finished, runVars
<1>11. CASE ReadLink(i)
  BY <1>11 DEF ReadLink, Fails, Goto, TypeOK, Finished, runVars
<1>12. CASE Symlink(i)
  BY <1>12 DEF Symlink, Fails, Goto, TypeOK, Finished, runVars
<1>13. CASE Extract(i)
  BY <1>13 DEF Extract, Fails, Goto, TypeOK, Finished, runVars
<1> QED
  BY <1>1, <1>2, <1>3, <1>4, <1>5, <1>6, <1>7, <1>8, <1>9, <1>10, <1>11, <1>12, <1>13 DEF Get

\* Every step keeps RunInv.
LEMMA RunStep == IInv /\ [Next]_vars => RunInv'
<1> SUFFICES ASSUME IInv, [Next]_vars PROVE RunInv'
  OBVIOUS
<1> USE SourceAssumption DEF Source
<1>t. TypeOK /\ RunInv
  BY DEF IInv
<1>1. CASE GetSources
  BY <1>t, <1>1 DEF GetSources, TypeOK, RunInv
<1>2. CASE Launch
  BY <1>t, <1>2 DEF Launch, Goto, TypeOK, RunInv
<1>3. CASE Wait
  <2>1. run = "running" /\ launched = NumSources /\ pc' = pc
    BY <1>3 DEF Wait
  <2>2. run' \in {"ok", "failed"} /\ (run' = "ok" => \A i \in Source : pc[i] # "failed")
    BY <1>3 DEF Wait
  <2>3. \A i \in Source : pc[i] \in {"done", "failed"}
    <3> SUFFICES ASSUME NEW i \in Source PROVE pc[i] \in {"done", "failed"}
      OBVIOUS
    <3>1. pc[i] \notin BusyStates
      BY <1>3 DEF Wait, Busy
    <3>2. pc[i] # "off"
      BY <1>t, <2>1 DEF RunInv
    <3> QED
      BY <1>t, <3>1, <3>2 DEF TypeOK, PCs
  <2> QED
    BY <2>1, <2>2, <2>3 DEF RunInv, Finished
<1>4. CASE CallerCancels
  BY <1>t, <1>4 DEF CallerCancels, RunInv, runVars
<1>5. CASE Crash
  BY <1>t, <1>5 DEF Crash, TypeOK, RunInv, Finished
<1>6. ASSUME NEW i \in Source, Get(i) PROVE RunInv'
  <2>1. /\ pc[i] \notin Finished
        /\ run' = run /\ launched' = launched
        /\ \A j \in Source : pc'[j] = "off" <=> pc[j] = "off"
    BY <1>t, <1>6, GetFacts DEF runVars
  <2>2. run = "running"
    BY <1>t, <2>1 DEF RunInv
  <2> QED
    BY <1>t, <2>1, <2>2 DEF RunInv
<1>7. ASSUME NEW f \in File, EditPkgbuild(f) PROVE RunInv'
  BY <1>t, <1>7 DEF EditPkgbuild, RunInv
<1>8. CASE UNCHANGED vars
  BY <1>t, <1>8 DEF vars, RunInv
<1> QED
  BY <1>1, <1>2, <1>3, <1>4, <1>5, <1>6, <1>7, <1>8 DEF Next

\* Every step keeps FlightInv.
LEMMA FlightStep == IInv /\ [Next]_vars => FlightInv'
<1> SUFFICES ASSUME IInv, [Next]_vars PROVE FlightInv'
  OBVIOUS
<1> USE SourceAssumption DEF Source
<1>t. TypeOK /\ RunInv /\ FlightInv
  BY DEF IInv
<1>1. CASE GetSources
  BY <1>t, <1>1 DEF GetSources, TypeOK, RunInv, Finished, FlightInv, FlightStates, runVars, netVars
<1>2. CASE Launch
  BY <1>t, <1>2 DEF Launch, Goto, TypeOK, RunInv, Finished, FlightInv, FlightStates, runVars, netVars
<1>3. CASE Wait
  BY <1>t, <1>3 DEF Wait, TypeOK, RunInv, Finished, FlightInv, FlightStates, runVars, netVars
<1>4. CASE CallerCancels
  BY <1>t, <1>4 DEF CallerCancels, TypeOK, RunInv, Finished, FlightInv, FlightStates, runVars, netVars
<1>5. CASE Crash
  BY <1>t, <1>5 DEF Crash, TypeOK, RunInv, Finished, FlightInv, FlightStates, runVars, netVars
<1>6. ASSUME NEW i \in Source, Start(i) PROVE FlightInv'
  BY <1>t, <1>6 DEF Start, Fails, Goto, TypeOK, RunInv, Finished, FlightInv, FlightStates, runVars, netVars
<1>7. ASSUME NEW i \in Source, TryBare(i) PROVE FlightInv'
  <2> DEFINE f == PathOf[i]
  <2>1. pc[i] = "bare" /\ UNCHANGED flight /\ f \in File
    BY <1>7 DEF TryBare, netVars
  <2>2. pc' = [pc EXCEPT ![i] = "look"] \/ pc' = [pc EXCEPT ![i] = "done"]
    BY <1>7 DEF TryBare, Goto
  <2>3. disk' = disk \/ disk' = [disk EXCEPT ![f] = "none"]
    BY <1>7 DEF TryBare
  <2>4. \A j \in Source : pc'[j] = pc[j] \/ pc'[j] \in {"look", "done"}
    BY <1>t, <2>2 DEF TypeOK
  <2>5. \A j \in Source : disk'[PathOf[j]] \in {disk[PathOf[j]], "none"}
    BY <1>t, <2>1, <2>3 DEF TypeOK
  <2> QED
    BY <1>t, <2>1, <2>4, <2>5 DEF FlightInv, FlightStates
<1>8. ASSUME NEW i \in Source, Look(i) PROVE FlightInv'
  BY <1>t, <1>8 DEF Look, Goto, TypeOK, RunInv, Finished, FlightInv, FlightStates, runVars, netVars
<1>9. ASSUME NEW i \in Source, Join(i) PROVE FlightInv'
  BY <1>t, <1>9 DEF Join, Goto, TypeOK, RunInv, Finished, FlightInv, FlightStates, runVars, netVars
<1>10. ASSUME NEW i \in Source, Recheck(i) PROVE FlightInv'
  <2> DEFINE f == PathOf[i]
  <2>1. pc[i] = "recheck" /\ disk' = disk /\ flight[f] = i /\ f \in File
    BY <1>t, <1>10 DEF Recheck, FlightInv, FlightStates
  <2>2. CASE Landed(i, TRUE)
    <3>1. \A j \in Source : /\ PathOf[j] = f /\ pc[j] \in FlightStates => j = i
                            /\ pc'[j] \in {pc[j], "validate"} /\ pc'[i] = "validate"
      BY <1>t, <2>1, <2>2 DEF Landed, FlightInv, TypeOK
    <3>2. \A j \in Source : PathOf[j] # f => flight'[PathOf[j]] = flight[PathOf[j]]
      BY <1>t, <2>1, <2>2 DEF Landed, TypeOK
    <3> QED
      BY <1>t, <2>1, <3>1, <3>2 DEF FlightInv, FlightStates
  <2>3. CASE disk[f] = "none" /\ flight' = flight /\ pc' = [pc EXCEPT ![i] = "transfer"]
    BY <1>t, <2>1, <2>3 DEF FlightInv, FlightStates, TypeOK
  <2> QED
    BY <1>10, <2>2, <2>3 DEF Recheck, Goto
<1>11. ASSUME NEW i \in Source, Appears(i) PROVE FlightInv'
  BY <1>t, <1>11 DEF Appears, TypeOK, RunInv, Finished, FlightInv, FlightStates, runVars, netVars
<1>12. ASSUME NEW i \in Source, Completes(i) PROVE FlightInv'
  BY <1>t, <1>12 DEF Completes, Landed, TypeOK, RunInv, Finished, FlightInv, FlightStates, runVars, netVars
<1>13. ASSUME NEW i \in Source, AttemptFails(i) PROVE FlightInv'
  BY <1>t, <1>13 DEF AttemptFails, Landed, Retryable, Errors, TypeOK, RunInv, Finished, FlightInv, FlightStates, runVars, netVars
<1>14. ASSUME NEW i \in Source, CloneFails(i) PROVE FlightInv'
  BY <1>t, <1>14 DEF CloneFails, Landed, TypeOK, RunInv, Finished, FlightInv, FlightStates, runVars, netVars
<1>15. ASSUME NEW i \in Source, ValidateSource(i) PROVE FlightInv'
  BY <1>t, <1>15 DEF ValidateSource, Acceptable, Fails, Goto, TypeOK, RunInv, Finished, FlightInv, FlightStates, runVars, netVars
<1>16. ASSUME NEW i \in Source, ReadLink(i) PROVE FlightInv'
  BY <1>t, <1>16 DEF ReadLink, Fails, Goto, TypeOK, RunInv, Finished, FlightInv, FlightStates, runVars, netVars
<1>17. ASSUME NEW i \in Source, Symlink(i) PROVE FlightInv'
  BY <1>t, <1>17 DEF Symlink, Fails, Goto, TypeOK, RunInv, Finished, FlightInv, FlightStates, runVars, netVars
<1>18. ASSUME NEW i \in Source, Extract(i) PROVE FlightInv'
  BY <1>t, <1>18 DEF Extract, Fails, Goto, TypeOK, RunInv, Finished, FlightInv, FlightStates, runVars, netVars
<1>19. ASSUME NEW f \in File, EditPkgbuild(f) PROVE FlightInv'
  BY <1>t, <1>19 DEF EditPkgbuild, TypeOK, RunInv, Finished, FlightInv, FlightStates, runVars, netVars
<1>20. CASE UNCHANGED vars
  BY <1>t, <1>20 DEF vars, TypeOK, RunInv, Finished, FlightInv, FlightStates
<1> QED
  BY <1>1, <1>2, <1>3, <1>4, <1>5, <1>6, <1>7, <1>8, <1>9, <1>10, <1>11, <1>12, <1>13, <1>14, <1>15, <1>16, <1>17, <1>18, <1>19, <1>20 DEF Next, Get

\* Every step keeps VerifiedInv.
LEMMA VerifiedStep == IInv /\ [Next]_vars => VerifiedInv'
<1> SUFFICES ASSUME IInv, [Next]_vars PROVE VerifiedInv'
  OBVIOUS
<1> USE SourceAssumption DEF Source
<1>t. TypeOK /\ FlightInv /\ VerifiedInv
  BY DEF IInv
<1>1. CASE GetSources
  BY <1>t, <1>1 DEF GetSources, TypeOK, FlightInv, VerifiedInv, AfterCheck, runVars, netVars
<1>2. CASE Launch
  BY <1>t, <1>2 DEF Launch, Goto, TypeOK, FlightInv, VerifiedInv, AfterCheck, runVars, netVars
<1>3. CASE Wait
  BY <1>t, <1>3 DEF Wait, TypeOK, FlightInv, VerifiedInv, AfterCheck, runVars, netVars
<1>4. CASE CallerCancels
  BY <1>t, <1>4 DEF CallerCancels, TypeOK, FlightInv, VerifiedInv, AfterCheck, runVars, netVars
<1>5. CASE Crash
  BY <1>t, <1>5 DEF Crash, TypeOK, FlightInv, VerifiedInv, AfterCheck, runVars, netVars
<1>6. ASSUME NEW i \in Source, Start(i) PROVE VerifiedInv'
  BY <1>t, <1>6 DEF Start, Fails, Goto, TypeOK, FlightInv, VerifiedInv, AfterCheck, runVars, netVars
<1>7. ASSUME NEW i \in Source, TryBare(i) PROVE VerifiedInv'
  BY <1>t, <1>7 DEF TryBare, Goto, TypeOK, FlightInv, VerifiedInv, AfterCheck, runVars, netVars
<1>8. ASSUME NEW i \in Source, Look(i) PROVE VerifiedInv'
  BY <1>t, <1>8 DEF Look, Goto, TypeOK, FlightInv, VerifiedInv, AfterCheck, runVars, netVars
<1>9. ASSUME NEW i \in Source, Join(i) PROVE VerifiedInv'
  BY <1>t, <1>9 DEF Join, Goto, TypeOK, FlightInv, VerifiedInv, AfterCheck, runVars, netVars
<1>10. ASSUME NEW i \in Source, Recheck(i) PROVE VerifiedInv'
  BY <1>t, <1>10 DEF Recheck, Landed, Goto, TypeOK, FlightInv, VerifiedInv, AfterCheck, runVars, netVars
<1>11. ASSUME NEW i \in Source, Appears(i) PROVE VerifiedInv'
  BY <1>t, <1>11 DEF Appears, TypeOK, FlightInv, VerifiedInv, AfterCheck, runVars, netVars
<1>12. ASSUME NEW i \in Source, Completes(i) PROVE VerifiedInv'
  BY <1>t, <1>12 DEF Completes, Landed, TypeOK, FlightInv, VerifiedInv, AfterCheck, runVars, netVars
<1>13. ASSUME NEW i \in Source, AttemptFails(i) PROVE VerifiedInv'
  BY <1>t, <1>13 DEF AttemptFails, Landed, Retryable, Errors, TypeOK, FlightInv, VerifiedInv, AfterCheck, runVars, netVars
<1>14. ASSUME NEW i \in Source, CloneFails(i) PROVE VerifiedInv'
  BY <1>t, <1>14 DEF CloneFails, Landed, TypeOK, FlightInv, VerifiedInv, AfterCheck, runVars, netVars
<1>15. ASSUME NEW i \in Source, ValidateSource(i) PROVE VerifiedInv'
  BY <1>t, <1>15 DEF ValidateSource, Acceptable, Fails, Goto, TypeOK, FlightInv, VerifiedInv, AfterCheck, runVars, netVars
<1>16. ASSUME NEW i \in Source, ReadLink(i) PROVE VerifiedInv'
  BY <1>t, <1>16 DEF ReadLink, Fails, Goto, TypeOK, FlightInv, VerifiedInv, AfterCheck, runVars, netVars
<1>17. ASSUME NEW i \in Source, Symlink(i) PROVE VerifiedInv'
  BY <1>t, <1>17 DEF Symlink, Fails, Goto, TypeOK, FlightInv, VerifiedInv, AfterCheck, runVars, netVars
<1>18. ASSUME NEW i \in Source, Extract(i) PROVE VerifiedInv'
  BY <1>t, <1>18 DEF Extract, Fails, Goto, TypeOK, FlightInv, VerifiedInv, AfterCheck, runVars, netVars
<1>19. ASSUME NEW f \in File, EditPkgbuild(f) PROVE VerifiedInv'
  BY <1>19 DEF EditPkgbuild, VerifiedInv
<1>20. CASE UNCHANGED vars
  BY <1>t, <1>20 DEF vars, TypeOK, FlightInv, VerifiedInv, AfterCheck
<1> QED
  BY <1>1, <1>2, <1>3, <1>4, <1>5, <1>6, <1>7, <1>8, <1>9, <1>10, <1>11, <1>12, <1>13, <1>14, <1>15, <1>16, <1>17, <1>18, <1>19, <1>20 DEF Next, Get

\* A step that changes no missing file keeps MissingInv, if no worker leaves the
\* transfer or the failed state and none gets past the check of an absent file.
LEMMA MissingKept ==
  ASSUME MissingInv, UNCHANGED missing,
         run' \in {"running", "ok"} => run \in {"running", "ok"},
         \A f \in missing : disk'[f] = disk[f],
         \A j \in Source : pc[j] \in {"transfer", "failed"} => pc'[j] = pc[j],
         \A j \in Source : pc'[j] \in AfterCheck =>
             pc[j] \in AfterCheck \/ disk[PathOf[j]] # "none"
  PROVE  MissingInv'
<1> SUFFICES ASSUME run' \in {"running", "ok"}, NEW f \in missing
             PROVE  /\ disk'[f] # "bare"
                    /\ disk'[f] = "none" \/ Complete(f)' \/ Transferring(f)' \/ Failed'
                    /\ \A i \in Source : PathOf[i] = f /\ pc'[i] \in AfterCheck =>
                          disk'[f] # "none" \/ Transferring(f)' \/ Failed'
  BY Zenon DEF MissingInv
<1>1. /\ disk[f] # "bare"
      /\ disk[f] = "none" \/ Complete(f) \/ Transferring(f) \/ Failed
      /\ \A i \in Source : PathOf[i] = f /\ pc[i] \in AfterCheck =>
            disk[f] # "none" \/ Transferring(f) \/ Failed
  BY DEF MissingInv
<1>2. Transferring(f) => Transferring(f)'
  BY DEF Transferring
<1>3. Failed => Failed'
  BY DEF Failed
<1>4. disk'[f] = disk[f] /\ (Complete(f) => Complete(f)')
  BY DEF Complete
<1> QED
  BY <1>1, <1>2, <1>3, <1>4

\* A step after which some worker has failed keeps MissingInv.
LEMMA MissingAfterFailure ==
  ASSUME MissingInv, Failed', UNCHANGED missing,
         run' \in {"running", "ok"} => run \in {"running", "ok"},
         \A f \in missing : disk'[f] = "bare" => disk[f] = "bare"
  PROVE  MissingInv'
BY DEF MissingInv

\* Every step of Source.Get keeps MissingInv.
LEMMA MissingGet ==
  ASSUME TypeOK, RunInv, FlightInv, MissingInv, NEW i \in Source, Get(i)
  PROVE  MissingInv'
<1> USE SourceAssumption
<1> DEFINE f == PathOf[i]
<1>f. f \in File /\ missing \subseteq File
  BY DEF TypeOK
<1>r. /\ run = "running" /\ run' = run /\ missing' = missing
      /\ \A g \in missing : disk[g] # "bare"
  BY GetFacts DEF RunInv, MissingInv, runVars
<1>1. CASE Start(i)
  <2>1. disk' = disk /\ (\A j \in Source : pc[j] \in {"transfer", "failed"} => pc'[j] = pc[j])
    BY <1>1 DEF Start, Fails, Goto, TypeOK
  <2>2. \A j \in Source : pc'[j] \in AfterCheck =>
            pc[j] \in AfterCheck \/ disk[PathOf[j]] # "none"
    BY <1>1 DEF Start, Fails, Goto, TypeOK, AfterCheck
  <2> QED
    BY <1>r, <2>1, <2>2, MissingKept
<1>2. CASE Look(i)
  <2>1. disk' = disk /\ (\A j \in Source : pc[j] \in {"transfer", "failed"} => pc'[j] = pc[j])
    BY <1>2 DEF Look, Goto, TypeOK
  <2>2. \A j \in Source : pc'[j] \in AfterCheck =>
            pc[j] \in AfterCheck \/ disk[PathOf[j]] # "none"
    BY <1>2 DEF Look, Goto, TypeOK, AfterCheck
  <2> QED
    BY <1>r, <2>1, <2>2, MissingKept
<1>3. CASE Join(i)
  <2>1. disk' = disk /\ (\A j \in Source : pc[j] \in {"transfer", "failed"} => pc'[j] = pc[j])
    BY <1>3 DEF Join, Goto, TypeOK
  <2>2. \A j \in Source : pc'[j] \in AfterCheck =>
            pc[j] \in AfterCheck \/ disk[PathOf[j]] # "none"
    BY <1>3 DEF Join, Goto, TypeOK, AfterCheck
  <2> QED
    BY <1>r, <2>1, <2>2, MissingKept
<1>4. CASE Recheck(i)
  <2>1. disk' = disk /\ (\A j \in Source : pc[j] \in {"transfer", "failed"} => pc'[j] = pc[j])
    BY <1>4 DEF Recheck, Landed, Goto, TypeOK
  <2>2. \A j \in Source : pc'[j] \in AfterCheck =>
            pc[j] \in AfterCheck \/ disk[PathOf[j]] # "none"
    BY <1>4 DEF Recheck, Landed, Goto, TypeOK, AfterCheck
  <2> QED
    BY <1>r, <2>1, <2>2, MissingKept
<1>5. CASE ValidateSource(i)
  <2>1. disk' = disk /\ (\A j \in Source : pc[j] \in {"transfer", "failed"} => pc'[j] = pc[j])
    BY <1>5 DEF ValidateSource, Acceptable, Fails, Goto, TypeOK
  <2>2. \A j \in Source : pc'[j] \in AfterCheck =>
            pc[j] \in AfterCheck \/ disk[PathOf[j]] # "none"
    BY <1>5 DEF ValidateSource, Acceptable, Fails, Goto, TypeOK, AfterCheck
  <2> QED
    BY <1>r, <2>1, <2>2, MissingKept
<1>6. CASE ReadLink(i)
  <2>1. disk' = disk /\ (\A j \in Source : pc[j] \in {"transfer", "failed"} => pc'[j] = pc[j])
    BY <1>6 DEF ReadLink, Fails, Goto, TypeOK
  <2>2. \A j \in Source : pc'[j] \in AfterCheck =>
            pc[j] \in AfterCheck \/ disk[PathOf[j]] # "none"
    BY <1>6 DEF ReadLink, Fails, Goto, TypeOK, AfterCheck
  <2> QED
    BY <1>r, <2>1, <2>2, MissingKept
<1>7. CASE Symlink(i)
  <2>1. disk' = disk /\ (\A j \in Source : pc[j] \in {"transfer", "failed"} => pc'[j] = pc[j])
    BY <1>7 DEF Symlink, Fails, Goto, TypeOK
  <2>2. \A j \in Source : pc'[j] \in AfterCheck =>
            pc[j] \in AfterCheck \/ disk[PathOf[j]] # "none"
    BY <1>7 DEF Symlink, Fails, Goto, TypeOK, AfterCheck
  <2> QED
    BY <1>r, <2>1, <2>2, MissingKept
<1>8. CASE Extract(i)
  <2>1. disk' = disk /\ (\A j \in Source : pc[j] \in {"transfer", "failed"} => pc'[j] = pc[j])
    BY <1>8 DEF Extract, Fails, Goto, TypeOK
  <2>2. \A j \in Source : pc'[j] \in AfterCheck =>
            pc[j] \in AfterCheck \/ disk[PathOf[j]] # "none"
    BY <1>8 DEF Extract, Fails, Goto, TypeOK, AfterCheck
  <2> QED
    BY <1>r, <2>1, <2>2, MissingKept
<1>9. CASE TryBare(i)
  <2>1. pc[i] = "bare" /\ pc' \in {[pc EXCEPT ![i] = "look"], [pc EXCEPT ![i] = "done"]}
    BY <1>9 DEF TryBare, Goto
  <2>2. disk' = disk \/ (disk[f] = "bare" /\ disk' = [disk EXCEPT ![f] = "none"])
    BY <1>9 DEF TryBare
  <2>3. pc'[i] = "done" => disk[f] = "bare"
    BY <1>9 DEF TryBare, Goto, TypeOK
  <2>4. \A g \in missing : disk'[g] = disk[g]
    BY <1>f, <1>r, <2>2 DEF TypeOK
  <2>5. \A j \in Source : pc[j] \in {"transfer", "failed"} => pc'[j] = pc[j]
    BY <2>1 DEF TypeOK
  <2>6. \A j \in Source : pc'[j] \in AfterCheck => pc[j] \in AfterCheck \/ disk[PathOf[j]] # "none"
    BY <2>1, <2>3 DEF TypeOK, AfterCheck
  <2> QED
    BY <1>r, <2>4, <2>5, <2>6, MissingKept
<1>10. CASE Appears(i)
  <2>1. pc[i] = "transfer" /\ disk' = [disk EXCEPT ![f] = "part"] /\ pc' = pc
    BY <1>10 DEF Appears
  <2>2. Transferring(f)' /\ disk'[f] = "part"
    BY <1>f, <2>1 DEF Transferring, TypeOK
  <2>3. \A g \in File : g # f => disk'[g] = disk[g]
    BY <1>f, <2>1 DEF TypeOK
  <2> QED
    BY <1>f, <1>r, <2>1, <2>2, <2>3 DEF MissingInv, Transferring, Failed, Complete
<1>11. CASE Completes(i)
  <2>1. pc[i] = "transfer" /\ Landed(i, TRUE)
    BY <1>11 DEF Completes
  <2>2. /\ disk'[f] \in {"whole", "other"} /\ Complete(f)'
        /\ \A g \in File : g # f => disk'[g] = disk[g]
    BY <1>11, <1>f DEF Completes, Complete, TypeOK
  <2>3. \A j \in Source : /\ PathOf[j] # f => pc'[j] = pc[j]
                          /\ pc[j] = "failed" => pc'[j] = "failed"
    BY <2>1 DEF Landed, TypeOK
  <2> SUFFICES ASSUME NEW g \in missing
               PROVE  /\ disk'[g] # "bare"
                      /\ disk'[g] = "none" \/ Complete(g)' \/ Transferring(g)' \/ Failed'
                      /\ \A j \in Source : PathOf[j] = g /\ pc'[j] \in AfterCheck =>
                            disk'[g] # "none" \/ Transferring(g)' \/ Failed'
    BY <1>r DEF MissingInv
  <2>4. CASE g = f
    BY <2>2, <2>4
  <2>5. CASE g # f
    <3>1. disk'[g] = disk[g] /\ (Complete(g) => Complete(g)')
      BY <1>f, <2>2, <2>5 DEF Complete
    <3>2. Transferring(g) => Transferring(g)'
      BY <2>3, <2>5 DEF Transferring
    <3>3. Failed => Failed'
      BY <2>3 DEF Failed
    <3>4. \A j \in Source : PathOf[j] = g => pc'[j] = pc[j]
      BY <2>3, <2>5
    <3> QED
      BY <1>r, <3>1, <3>2, <3>3, <3>4 DEF MissingInv
  <2> QED
    BY <2>4, <2>5
<1>12. CASE AttemptFails(i)
  <2>1. pc[i] = "transfer" /\ (pc' = pc \/ Landed(i, FALSE))
    BY <1>12 DEF AttemptFails
  <2>2. disk' = disk \/ disk' = [disk EXCEPT ![f] = "none"]
    BY <1>12 DEF AttemptFails
  <2>3. CASE pc' = pc
    <3>1. Transferring(f)'
      BY <2>1, <2>3 DEF Transferring
    <3>2. \A g \in File : g # f => disk'[g] = disk[g]
      BY <1>f, <2>2 DEF TypeOK
    <3>3. disk'[f] \in {disk[f], "none"}
      BY <1>f, <2>2 DEF TypeOK
    <3> QED
      BY <1>f, <1>r, <2>3, <3>1, <3>2, <3>3 DEF MissingInv, Transferring, Failed, Complete
  <2>4. CASE Landed(i, FALSE)
    <3>1. Failed'
      BY <2>4 DEF Landed, Failed
    <3>2. \A g \in missing : disk'[g] = "bare" => disk[g] = "bare"
      BY <1>f, <2>2 DEF TypeOK
    <3> QED
      BY <1>r, <3>1, <3>2, MissingAfterFailure
  <2> QED
    BY <2>1, <2>3, <2>4
<1>13. CASE CloneFails(i)
  <2>1. Failed'
    BY <1>13 DEF CloneFails, Landed, Failed
  <2>2. \A g \in missing : disk'[g] = "bare" => disk[g] = "bare"
    BY <1>13, <1>f DEF CloneFails, TypeOK
  <2> QED
    BY <1>r, <2>1, <2>2, MissingAfterFailure
<1> QED
  BY <1>1, <1>2, <1>3, <1>4, <1>5, <1>6, <1>7, <1>8, <1>9, <1>10, <1>11, <1>12, <1>13 DEF Get

\* Every step keeps MissingInv.
LEMMA MissingStep == IInv /\ [Next]_vars => MissingInv'
<1> SUFFICES ASSUME IInv, [Next]_vars PROVE MissingInv'
  OBVIOUS
<1> USE SourceAssumption DEF Source
<1>t. TypeOK /\ RunInv /\ FlightInv /\ MissingInv
  BY DEF IInv
<1>1. CASE GetSources
  BY <1>t, <1>1 DEF GetSources, TypeOK, MissingInv, AfterCheck
<1>2. CASE Launch
  <2>1. /\ run = "running" /\ launched + 1 \in Source
        /\ pc' = [pc EXCEPT ![launched + 1] = "start"] /\ UNCHANGED <<disk, run, missing>>
    BY <1>t, <1>2 DEF Launch, Goto, TypeOK
  <2>2. pc[launched + 1] = "off"
    BY <1>t, <2>1 DEF RunInv, TypeOK
  <2>3. \A j \in Source : pc'[j] = IF j = launched + 1 THEN "start" ELSE pc[j]
    BY <1>t, <2>1 DEF TypeOK
  <2>4. \A j \in Source : /\ pc[j] \in {"transfer", "failed"} => pc'[j] = pc[j]
                          /\ pc'[j] \in AfterCheck => pc[j] \in AfterCheck
    BY <2>2, <2>3 DEF AfterCheck
  <2> QED
    BY <1>t, <2>1, <2>4, MissingKept
<1>3. CASE Wait
  <2>1. UNCHANGED <<disk, pc, missing>> /\ run = "running"
    BY <1>3 DEF Wait
  <2> QED
    BY <1>t, <2>1, MissingKept
<1>4. CASE CallerCancels
  <2>1. UNCHANGED <<disk, pc, missing, run>>
    BY <1>4 DEF CallerCancels, runVars
  <2> QED
    BY <1>t, <2>1, MissingKept
<1>5. CASE Crash
  BY <1>5 DEF Crash, MissingInv
<1>6. ASSUME NEW i \in Source, Get(i) PROVE MissingInv'
  BY <1>t, <1>6, MissingGet
<1>7. ASSUME NEW f \in File, EditPkgbuild(f) PROVE MissingInv'
  BY <1>7 DEF EditPkgbuild, MissingInv
<1>8. CASE UNCHANGED vars
  <2>1. UNCHANGED <<disk, pc, missing, run>>
    BY <1>8 DEF vars
  <2> QED
    BY <1>t, <2>1, MissingKept
<1> QED
  BY <1>1, <1>2, <1>3, <1>4, <1>5, <1>6, <1>7, <1>8 DEF Next

--------------------------------------------------------------------------------

\* IInv holds in every reachable state: it holds initially, and by the lemmas
\* every step keeps its parts.
THEOREM Invariance == Spec => []IInv
<1>1. Init => IInv
  <2> SUFFICES ASSUME Init PROVE IInv
    OBVIOUS
  <2> USE SourceAssumption DEF Source
  <2>1. TypeOK
    BY DEF Init, TypeOK, Contents, PCs, BusyStates
  <2>2. RunInv /\ FlightInv
    BY DEF Init, RunInv, Finished, FlightInv, FlightStates
  <2>3. VerifiedInv /\ MissingInv
    BY DEF Init, VerifiedInv, MissingInv
  <2> QED
    BY <2>1, <2>2, <2>3 DEF IInv
<1>2. IInv /\ [Next]_vars => IInv'
  BY TypeStep, RunStep, FlightStep, VerifiedStep, MissingStep DEF IInv
<1> QED
  BY <1>1, <1>2, PTL DEF Spec

\* TypeOK holds in every reachable state; in particular retryDownload never goes
\* beyond its budget.
THEOREM TypeCorrect == Spec => []TypeOK
<1>1. IInv => TypeOK
  BY DEF IInv
<1> QED
  BY <1>1, Invariance, PTL

\* The single flight gives every file one writer at a time, for any source array.
THEOREM OneWriterPerFile == Spec => []OneWriter
<1>1. IInv => OneWriter
  BY DEF IInv, FlightInv, FlightStates, OneWriter
<1> QED
  BY <1>1, Invariance, PTL

\* When getSources succeeds, every checksummed file is the one named and linked.
THEOREM Verified == Spec => []SuccessIsVerified
<1>1. IInv => SuccessIsVerified
  BY SourceAssumption DEF IInv, RunInv, VerifiedInv, AfterCheck, SuccessIsVerified
<1> QED
  BY <1>1, Invariance, PTL

\* When getSources succeeds, all that was missing has been fetched completely.
THEOREM Fetched == Spec => []FetchedCompletely
<1>1. IInv => FetchedCompletely
  BY DEF IInv, RunInv, MissingInv, AfterCheck, Transferring, Failed, Complete, FetchedCompletely
<1> QED
  BY <1>1, Invariance, PTL

\* A download begins only when the file does not exist, however long ago the worker
\* has looked: within Do it has looked again, and no other step begins one.
THEOREM FetchedOnce == Spec => NothingFetchedTwice
<1> DEFINE Begins(i) == pc[i] # "transfer" /\ pc'[i] = "transfer"
<1>1. ASSUME IInv, [Next]_vars, NEW i \in Source, Begins(i) PROVE disk[PathOf[i]] = "none"
  <2> USE DEF Source, Goto, Fails
  <2>1. pc \in [Source -> PCs]
    BY <1>1 DEF IInv, TypeOK
  <2>2. ASSUME NEW j \in Source, NEW ok, Landed(j, ok) PROVE FALSE
    BY <1>1, <2>2 DEF Landed
  <2>3. PICK j \in Source : Get(j)
    BY <1>1, <2>1 DEF Next, vars, GetSources, Launch, Wait, CallerCancels, Crash, EditPkgbuild
  <2>4. CASE Recheck(j)
    BY <1>1, <2>1, <2>2, <2>4 DEF Recheck
  <2>5. CASE ~Recheck(j)
    <3>1. \A l \in PCs : l # "transfer" => ~Goto(j, l)
      BY <1>1, <2>1
    <3>2. ~Completes(j) /\ ~CloneFails(j) /\ ~Appears(j) /\ ~AttemptFails(j)
      BY <1>1, <2>2 DEF Completes, CloneFails, Appears, AttemptFails
    <3>3. ~Start(j) /\ ~TryBare(j) /\ ~Look(j) /\ ~Join(j)
      BY <3>1 DEF Start, TryBare, Look, Join, PCs, BusyStates
    <3>4. ~ValidateSource(j) /\ ~ReadLink(j) /\ ~Symlink(j) /\ ~Extract(j)
      BY <3>1 DEF ValidateSource, ReadLink, Symlink, Extract, PCs, BusyStates
    <3> QED
      BY <2>3, <2>5, <3>2, <3>3, <3>4 DEF Get
  <2> QED
    BY <2>4, <2>5
<1>2. IInv /\ [Next]_vars =>
         [\A i \in Source : pc[i] # "transfer" /\ pc'[i] = "transfer" => disk[PathOf[i]] = "none"]_vars
  BY <1>1
<1> QED
  BY <1>2, Invariance, PTL DEF Spec, NothingFetchedTwice
================================================================================
