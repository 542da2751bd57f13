--------------------------- MODULE BuildServerProofs ---------------------------
(* The safety of BuildServer, for any number of builds and of build_wait calls, *)
(* any overrides and any cap of the registry.                                   *)
EXTENDS BuildServer, FiniteSetTheorems, TLAPS

Busy      == {"queued", "loading", "building", "in container", "finishing"}
HoldsLock == {"loading", "building", "finishing", "unlocking"}
Reported  == {"unlocking", "ended"}

\* The native build that is parsed or built holds the lock, and whoever holds
\* the lock is in a native build.
LockInv ==
    /\ \A b \in Build : runner[b] \in {"loading", "building", "unlocking"} => lock = b
    /\ lock # NoBuild => runner[lock] \in HoldsLock

\* The globals are those of the holder of the lock, or the server's own.
OverrideInv ==
    /\ lock = NoBuild => override = NoVersion
    /\ lock # NoBuild => override = Asked[lock] /\ saved = NoVersion
    /\ OwnOverrides

\* A session is running exactly while its goroutine has yet to report, and the
\* registry knows it for that long.
RunnerInv ==
    \A b \in Build :
        /\ state[b] = "running" <=> runner[b] \in Busy
        /\ state[b] = "running" => b \in sessions
        /\ runner[b] \in Reported => state[b] = verdict[b]
        /\ runner[b] \in Reported \cup {"finishing"} => verdict[b] \in Terminal

\* Nobody is called cancelled who was not, in the verdict or in the registry.
CancelInv ==
    /\ \A b \in Build : verdict[b] = "canceled" => b \in cancelled
    /\ CanceledOnRequest

\* A call that was woken by its build, and one that answered, saw the end.
WaitInv ==
    \A w \in Waiter :
        /\ waiter[w].stage # "idle" => waiter[w].build \in Build
        /\ waiter[w].stage = "woken" /\ ~waiter[w].timedOut =>
              state[waiter[w].build] \in Terminal
        /\ waiter[w].stage = "answered" /\ ~waiter[w].timedOut
             /\ waiter[w].answer # "unknown" =>
              /\ state[waiter[w].build] \in Terminal
              /\ waiter[w].build \in sessions => waiter[w].answer = state[waiter[w].build]

IInv == TypeOK /\ LockInv /\ OverrideInv /\ RunnerInv /\ CancelInv /\ WaitInv

\* evictOldestTerminalLocked forgets no running session and invents none.
LEMMA EvictedKeeps ==
    ASSUME NEW S, NEW R, R \subseteq S, NEW K \in Evicted(S, R)
    PROVE  K \subseteq S /\ R \subseteq K
BY DEF Evicted

\* A step leaves every state and session alone, or registers a build that is
\* new, or records the verdict of one that is running.
LEMMA RegistryStep ==
    ASSUME IInv, [Next]_vars
    PROVE  \/ UNCHANGED registryVars
           \/ \E b \in Build :
                /\ BuildTool(b)
                /\ state[b] = "none" /\ state' = [state EXCEPT ![b] = "running"]
                /\ sessions' \subseteq sessions \cup {b}
                /\ b \in sessions' /\ Running \subseteq sessions'
                /\ UNCHANGED endedAt
           \/ \E b \in Build :
                /\ ReportOutcome(b)
                /\ runner[b] = "finishing" /\ state' = [state EXCEPT ![b] = verdict[b]]
                /\ state[b] = "running" /\ sessions' = sessions
                /\ endedAt' = [endedAt EXCEPT ![b] = clock]
<1>1. ASSUME NEW b \in Build, BuildTool(b)
      PROVE  /\ state[b] = "none" /\ state' = [state EXCEPT ![b] = "running"]
             /\ sessions' \subseteq sessions \cup {b}
             /\ b \in sessions' /\ Running \subseteq sessions'
             /\ UNCHANGED endedAt
  <2>1. state[b] = "none" /\ Register(b)
    BY <1>1 DEF BuildTool
  <2>2. sessions' \in Evicted(sessions \cup {b}, Running \cup {b})
    BY <2>1 DEF Register
  <2>3. Running \cup {b} \subseteq sessions \cup {b}
    BY DEF IInv, RunnerInv, Running
  <2>4. sessions' \subseteq sessions \cup {b} /\ Running \cup {b} \subseteq sessions'
    BY <2>2, <2>3, EvictedKeeps
  <2> QED
    BY <2>1, <2>4 DEF Register
<1>2. ASSUME NEW b \in Build, ReportOutcome(b)
      PROVE  /\ runner[b] = "finishing" /\ state' = [state EXCEPT ![b] = verdict[b]]
             /\ state[b] = "running" /\ sessions' = sessions
             /\ endedAt' = [endedAt EXCEPT ![b] = clock]
  <2>1. runner[b] = "finishing" /\ Finish(b, verdict[b])
    BY <1>2 DEF ReportOutcome
  <2>2. state[b] = "running" /\ b \in sessions
    BY <2>1 DEF IInv, RunnerInv, Busy
  <2> QED
    BY <2>1, <2>2 DEF Finish
<1>3. ASSUME NEW b \in Build, TakeLock(b) \/ LoadProjects(b) \/ BuildEnds(b) \/ ReleaseLock(b) \/ BuildCancel(b)
      PROVE  UNCHANGED registryVars
  BY <1>3 DEF TakeLock, LoadProjects, BuildEnds, ReleaseLock, BuildCancel
<1>4. ASSUME NEW w \in Waiter, WakeUp(w) \/ AnswerWait(w) \/ \E b \in Build : BuildWait(w, b)
      PROVE  UNCHANGED registryVars
  BY <1>4 DEF WakeUp, AnswerWait, BuildWait
<1>5. ASSUME ParsePkgbuild \/ Tick \/ Shutdown \/ UNCHANGED vars
      PROVE  UNCHANGED registryVars
  BY <1>5 DEF ParsePkgbuild, Tick, Shutdown, vars, registryVars
<1> QED
  BY <1>1, <1>2, <1>3, <1>4, <1>5 DEF Next, Goroutine, Stopped

--------------------------------------------------------------------------------
(* Type correctness. *)

\* A step keeps the types of the registry.
LEMMA RegistryTypes ==
    ASSUME IInv, [Next]_vars
    PROVE  /\ sessions' \subseteq Build
           /\ state' \in [Build -> Terminal \cup {"none", "running"}]
           /\ endedAt' \in [Build -> Nat]
<1>t. /\ sessions \subseteq Build /\ clock \in Nat
      /\ state \in [Build -> Terminal \cup {"none", "running"}]
      /\ endedAt \in [Build -> Nat]
  BY DEF IInv, TypeOK
<1>1. CASE UNCHANGED registryVars
  BY <1>t, <1>1 DEF registryVars
<1>2. ASSUME NEW b \in Build, state' = [state EXCEPT ![b] = "running"],
             sessions' \subseteq sessions \cup {b}, UNCHANGED endedAt
      PROVE  /\ sessions' \subseteq Build
             /\ state' \in [Build -> Terminal \cup {"none", "running"}]
             /\ endedAt' \in [Build -> Nat]
  BY <1>t, <1>2
<1>3. ASSUME NEW b \in Build, runner[b] = "finishing",
             state' = [state EXCEPT ![b] = verdict[b]],
             sessions' = sessions, endedAt' = [endedAt EXCEPT ![b] = clock]
      PROVE  /\ sessions' \subseteq Build
             /\ state' \in [Build -> Terminal \cup {"none", "running"}]
             /\ endedAt' \in [Build -> Nat]
  <2>1. verdict[b] \in Terminal
    BY <1>3 DEF IInv, RunnerInv
  <2> QED
    BY <1>t, <1>3, <2>1
<1> QED
  BY <1>1, <1>2, <1>3, RegistryStep

\* Where a goroutine may be.
Places == {"none", "queued", "loading", "building", "in container", "finishing",
           "unlocking", "ended"}

\* What a step does to the goroutines: nothing, or it starts one, or it moves
\* one that was started.
LEMMA RunnerStep ==
    ASSUME IInv, [Next]_vars
    PROVE  \/ UNCHANGED runner
           \/ \E b \in Build, p \in Places \ {"none"} :
                /\ BuildTool(b) \/ runner[b] # "none"
                /\ runner' = [runner EXCEPT ![b] = p]
<1>1. ASSUME NEW b \in Build, BuildTool(b)
      PROVE  \E p \in Places \ {"none"} : runner' = [runner EXCEPT ![b] = p]
  BY <1>1 DEF BuildTool, Places
<1>2. ASSUME NEW b \in Build, Goroutine(b)
      PROVE  \E p \in Places \ {"none"} :
                runner[b] # "none" /\ runner' = [runner EXCEPT ![b] = p]
  <2>1. CASE TakeLock(b)
    BY <2>1 DEF TakeLock, Places
  <2>2. CASE LoadProjects(b)
    BY <2>2 DEF LoadProjects, Places
  <2>3. CASE BuildEnds(b)
    BY <2>3 DEF BuildEnds, Places
  <2>4. CASE ReportOutcome(b)
    BY <2>4 DEF ReportOutcome, Places
  <2>5. CASE ReleaseLock(b)
    BY <2>5 DEF ReleaseLock, Places
  <2> QED
    BY <1>2, <2>1, <2>2, <2>3, <2>4, <2>5 DEF Goroutine
<1>3. ASSUME NEW b \in Build, BuildCancel(b) PROVE UNCHANGED runner
  BY <1>3 DEF BuildCancel
<1>4. ASSUME NEW w \in Waiter, WakeUp(w) \/ AnswerWait(w) \/ \E b \in Build : BuildWait(w, b)
      PROVE  UNCHANGED runner
  BY <1>4 DEF WakeUp, AnswerWait, BuildWait
<1>5. ASSUME ParsePkgbuild \/ Tick \/ Shutdown \/ UNCHANGED vars PROVE UNCHANGED runner
  BY <1>5 DEF ParsePkgbuild, Tick, Shutdown, vars
<1> QED
  BY <1>1, <1>2, <1>3, <1>4, <1>5 DEF Next, Stopped

\* A build is known to the registry as soon as it has a goroutine.
LEMMA StartedTogether ==
    ASSUME IInv, [Next]_vars
    PROVE  \A b \in Build : runner'[b] = "none" <=> state'[b] = "none"
<1>t. /\ runner \in [Build -> Places]
      /\ state \in [Build -> Terminal \cup {"none", "running"}]
      /\ \A b \in Build : runner[b] = "none" <=> state[b] = "none"
  BY DEF IInv, TypeOK, Places
<1> SUFFICES ASSUME NEW c \in Build PROVE runner'[c] = "none" <=> state'[c] = "none"
  OBVIOUS
<1>1. CASE \E b \in Build : BuildTool(b)
  <2>1. PICK b \in Build : BuildTool(b)
    BY <1>1
  <2>2. state' = [state EXCEPT ![b] = "running"]
    BY <2>1 DEF BuildTool, Register
  <2>3. PICK p \in Places \ {"none"} : runner' = [runner EXCEPT ![b] = p]
    BY <2>1 DEF BuildTool, Places
  <2> QED
    BY <1>t, <2>2, <2>3
<1>2. CASE ~ \E b \in Build : BuildTool(b)
  <2>1. state'[c] = "none" <=> state[c] = "none"
    <3>1. CASE UNCHANGED registryVars
      BY <3>1 DEF registryVars
    <3>2. ASSUME NEW b \in Build, runner[b] = "finishing", state[b] = "running",
                 state' = [state EXCEPT ![b] = verdict[b]]
          PROVE  state'[c] = "none" <=> state[c] = "none"
      <4>1. verdict[b] # "none"
        BY <3>2 DEF IInv, RunnerInv, Terminal
      <4> QED
        BY <1>t, <3>2, <4>1
    <3> QED
      BY <1>2, <3>1, <3>2, RegistryStep
  <2>2. runner'[c] = "none" <=> runner[c] = "none"
    <3>1. ASSUME NEW b \in Build, NEW p \in Places \ {"none"}, runner[b] # "none",
                 runner' = [runner EXCEPT ![b] = p]
          PROVE  runner'[c] = "none" <=> runner[c] = "none"
      BY <1>t, <3>1
    <3> QED
      BY <1>2, <3>1, RunnerStep
  <2> QED
    BY <1>t, <2>1, <2>2
<1> QED
  BY <1>1, <1>2

\* The records of the build_wait calls.
Waits == [stage : {"idle", "waiting", "woken", "answered"},
          build : Build \cup {NoBuild},
          seen : Terminal \cup {"none", "running"},
          timedOut : BOOLEAN,
          answer : Terminal \cup {"none", "running", "unknown"}]

\* A step keeps the type of the build_wait calls.
LEMMA WaiterTypes ==
    ASSUME IInv, [Next]_vars
    PROVE  waiter' \in [Waiter -> Waits]
<1>t. /\ waiter \in [Waiter -> Waits]
      /\ state \in [Build -> Terminal \cup {"none", "running"}]
      /\ sessions \subseteq Build
  BY DEF IInv, TypeOK, Waits
<1>1. ASSUME NEW w \in Waiter, NEW b \in Build, BuildWait(w, b)
      PROVE  waiter' \in [Waiter -> Waits]
  <2> DEFINE r == [Idle EXCEPT !.build = b,
                       !.stage = IF b \in sessions THEN "waiting" ELSE "answered",
                       !.seen = IF b \in sessions THEN state[b] ELSE "none",
                       !.answer = IF b \in sessions THEN "none" ELSE "unknown"]
  <2>1. state[b] \in Terminal \cup {"none", "running"}
    BY <1>t
  <2>2. r \in Waits
    BY <2>1 DEF Idle, Waits
  <2>3. waiter' = [waiter EXCEPT ![w] = r]
    BY <1>1 DEF BuildWait
  <2> HIDE DEF r
  <2> QED
    BY <1>t, <2>2, <2>3
<1>2. ASSUME NEW w \in Waiter, WakeUp(w)
      PROVE  waiter' \in [Waiter -> Waits]
  <2>1. PICK late \in BOOLEAN :
          waiter' = [waiter EXCEPT ![w].stage = "woken", ![w].timedOut = late]
    BY <1>2 DEF WakeUp
  <2>2. [waiter[w] EXCEPT !.stage = "woken", !.timedOut = late] \in Waits
    BY <1>t DEF Waits
  <2>3. waiter' = [waiter EXCEPT ![w] = [waiter[w] EXCEPT !.stage = "woken", !.timedOut = late]]
    BY <1>t, <2>1 DEF Waits
  <2> QED
    BY <1>t, <2>2, <2>3
<1>3. ASSUME NEW w \in Waiter, AnswerWait(w)
      PROVE  waiter' \in [Waiter -> Waits]
  <2> DEFINE a == IF waiter[w].build \in sessions THEN state[waiter[w].build]
                  ELSE waiter[w].seen
  <2>1. a \in Terminal \cup {"none", "running", "unknown"}
    BY <1>t DEF Waits
  <2>2. waiter' = [waiter EXCEPT ![w].stage = "answered", ![w].answer = a]
    BY <1>3 DEF AnswerWait
  <2> HIDE DEF a
  <2>3. [waiter[w] EXCEPT !.stage = "answered", !.answer = a] \in Waits
    BY <1>t, <2>1 DEF Waits
  <2>4. waiter' = [waiter EXCEPT ![w] = [waiter[w] EXCEPT !.stage = "answered", !.answer = a]]
    BY <1>t, <2>2 DEF Waits
  <2> QED
    BY <1>t, <2>3, <2>4
<1>4. ASSUME NEW b \in Build, BuildTool(b) \/ Goroutine(b) \/ BuildCancel(b)
      PROVE  UNCHANGED waiter
  BY <1>4 DEF BuildTool, Goroutine, TakeLock, LoadProjects, BuildEnds, ReportOutcome,
              ReleaseLock, BuildCancel
<1>5. ASSUME ParsePkgbuild \/ Tick \/ Shutdown \/ UNCHANGED vars PROVE UNCHANGED waiter
  BY <1>5 DEF ParsePkgbuild, Tick, Shutdown, vars
<1> QED
  BY <1>t, <1>1, <1>2, <1>3, <1>4, <1>5 DEF Next, Stopped

\* A step keeps the types of the lock and of the globals it guards.
LEMMA GlobalTypes ==
    ASSUME IInv, [Next]_vars
    PROVE  /\ lock' \in Build \cup {NoBuild}
           /\ override' \in Versions /\ saved' \in Versions /\ parsed' \in Versions
           /\ loadedWith' \in [Build -> Versions]
<1> USE ServerAssumption DEF Versions
<1>t. /\ lock \in Build \cup {NoBuild}
      /\ override \in Versions /\ saved \in Versions /\ parsed \in Versions
      /\ loadedWith \in [Build -> Versions]
  BY DEF IInv, TypeOK
<1>1. ASSUME NEW b \in Build, Goroutine(b)
      PROVE  /\ lock' \in Build \cup {NoBuild}
             /\ override' \in Versions /\ saved' \in Versions /\ parsed' \in Versions
             /\ loadedWith' \in [Build -> Versions]
  <2>1. CASE TakeLock(b)
    BY <1>t, <2>1 DEF TakeLock
  <2>2. CASE LoadProjects(b)
    BY <1>t, <2>2 DEF LoadProjects, globalVars
  <2>3. CASE BuildEnds(b) \/ ReportOutcome(b)
    BY <1>t, <2>3 DEF BuildEnds, ReportOutcome, globalVars
  <2>4. CASE ReleaseLock(b)
    BY <1>t, <2>4 DEF ReleaseLock
  <2> QED
    BY <1>1, <2>1, <2>2, <2>3, <2>4 DEF Goroutine
<1>2. ASSUME NEW b \in Build, BuildTool(b) \/ BuildCancel(b)
      PROVE  UNCHANGED <<globalVars, loadedWith, parsed>>
  BY <1>2 DEF BuildTool, BuildCancel
<1>3. ASSUME NEW w \in Waiter, WakeUp(w) \/ AnswerWait(w) \/ \E b \in Build : BuildWait(w, b)
      PROVE  UNCHANGED <<globalVars, loadedWith, parsed>>
  BY <1>3 DEF WakeUp, AnswerWait, BuildWait
<1>4. ASSUME Tick \/ Shutdown \/ UNCHANGED vars
      PROVE  UNCHANGED <<globalVars, loadedWith, parsed>>
  BY <1>4 DEF Tick, Shutdown, vars, globalVars
<1>5. ASSUME ParsePkgbuild
      PROVE  UNCHANGED <<globalVars, loadedWith>> /\ parsed' = override
  BY <1>5 DEF ParsePkgbuild
<1> QED
  BY <1>t, <1>1, <1>2, <1>3, <1>4, <1>5 DEF Next, Stopped, globalVars

\* A step keeps the types of the server, its clock, the requests to cancel and
\* the verdicts.
LEMMA OtherTypes ==
    ASSUME IInv, [Next]_vars
    PROVE  /\ server' \in {"serving", "stopped"} /\ clock' \in Nat
           /\ cancelled' \subseteq Build
           /\ verdict' \in [Build -> Terminal \cup {"none"}]
<1>t. /\ server \in {"serving", "stopped"} /\ clock \in Nat
      /\ cancelled \subseteq Build
      /\ verdict \in [Build -> Terminal \cup {"none"}]
  BY DEF IInv, TypeOK
<1>1. ASSUME NEW b \in Build, BuildTool(b) \/ Goroutine(b)
      PROVE  UNCHANGED <<server, clock, cancelled>>
  BY <1>1 DEF BuildTool, Goroutine, TakeLock, LoadProjects, BuildEnds, ReportOutcome,
              ReleaseLock
<1>2. ASSUME NEW b \in Build, BuildTool(b)
      PROVE  verdict' \in [Build -> Terminal \cup {"none"}]
  BY <1>t, <1>2 DEF BuildTool, Terminal
<1>3. ASSUME NEW b \in Build, Goroutine(b)
      PROVE  verdict' \in [Build -> Terminal \cup {"none"}]
  <2>1. CASE LoadProjects(b)
    BY <1>t, <2>1 DEF LoadProjects, Terminal
  <2>2. CASE BuildEnds(b)
    BY <1>t, <2>2 DEF BuildEnds, Verdict, Terminal
  <2>3. CASE TakeLock(b) \/ ReportOutcome(b) \/ ReleaseLock(b)
    BY <1>t, <2>3 DEF TakeLock, ReportOutcome, ReleaseLock
  <2> QED
    BY <1>3, <2>1, <2>2, <2>3 DEF Goroutine
<1>4. ASSUME NEW b \in Build, BuildCancel(b)
      PROVE  UNCHANGED <<server, clock, verdict>> /\ cancelled' \subseteq Build
  BY <1>t, <1>4 DEF BuildCancel
<1>5. ASSUME NEW w \in Waiter, WakeUp(w) \/ AnswerWait(w) \/ \E b \in Build : BuildWait(w, b)
      PROVE  UNCHANGED <<server, clock, cancelled, verdict>>
  BY <1>5 DEF WakeUp, AnswerWait, BuildWait
<1>6. ASSUME ParsePkgbuild \/ Tick \/ Shutdown \/ UNCHANGED vars
      PROVE  /\ server' \in {"serving", "stopped"} /\ clock' \in Nat
             /\ UNCHANGED <<cancelled, verdict>>
  BY <1>t, <1>6 DEF ParsePkgbuild, Tick, Shutdown, vars
<1> QED
  BY <1>t, <1>1, <1>2, <1>3, <1>4, <1>5, <1>6 DEF Next, Stopped

\* Every step keeps the types.
LEMMA TypeStep == IInv /\ [Next]_vars => TypeOK'
<1> SUFFICES ASSUME IInv, [Next]_vars PROVE TypeOK'
  OBVIOUS
<1>1. runner' \in [Build -> Places]
  <2>1. runner \in [Build -> Places]
    BY DEF IInv, TypeOK, Places
  <2> QED
    BY <2>1, RunnerStep
<1>2. waiter' \in [Waiter -> Waits]
  BY WaiterTypes
<1> QED
  BY <1>1, <1>2, RegistryTypes, StartedTogether, GlobalTypes, OtherTypes
     DEF TypeOK, Places, Waits

--------------------------------------------------------------------------------
(* One lemma for each part of the invariant: every step keeps it. *)

\* What the steps that are no goroutine's leave alone.
LEMMA OthersKeep ==
    ASSUME [Next]_vars, ~ \E b \in Build : BuildTool(b) \/ Goroutine(b)
    PROVE  UNCHANGED <<registryVars, runner, verdict, globalVars, loadedWith>>
<1>1. ASSUME NEW b \in Build, BuildCancel(b)
      PROVE  UNCHANGED <<registryVars, runner, verdict, globalVars, loadedWith>>
  BY <1>1 DEF BuildCancel
<1>2. ASSUME NEW w \in Waiter, WakeUp(w) \/ AnswerWait(w) \/ \E b \in Build : BuildWait(w, b)
      PROVE  UNCHANGED <<registryVars, runner, verdict, globalVars, loadedWith>>
  BY <1>2 DEF WakeUp, AnswerWait, BuildWait
<1>3. ASSUME ParsePkgbuild \/ Tick \/ Shutdown \/ UNCHANGED vars
      PROVE  UNCHANGED <<registryVars, runner, verdict, globalVars, loadedWith>>
  BY <1>3 DEF ParsePkgbuild, Tick, Shutdown, vars, registryVars, globalVars
<1> QED
  BY <1>1, <1>2, <1>3 DEF Next, Stopped

\* nativeBuildMu is held by the native build that is under way.
LEMMA LockStep == IInv /\ [Next]_vars => LockInv'
<1> SUFFICES ASSUME IInv, [Next]_vars PROVE LockInv'
  OBVIOUS
<1> USE ServerAssumption DEF HoldsLock
<1>t. /\ LockInv /\ runner \in [Build -> Places] /\ lock \in Build \cup {NoBuild}
      /\ \A b \in Build : runner[b] = "none" <=> state[b] = "none"
  BY DEF IInv, TypeOK, Places
<1>1. ASSUME NEW b \in Build, BuildTool(b) PROVE LockInv'
  <2>1. state[b] = "none" /\ UNCHANGED lock
    BY <1>1 DEF BuildTool, globalVars
  <2>2. PICK p \in {"queued", "in container", "finishing"} :
          runner' = [runner EXCEPT ![b] = p]
    BY <1>1 DEF BuildTool
  <2> QED
    BY <1>t, <2>1, <2>2 DEF LockInv
<1>2. ASSUME NEW b \in Build, TakeLock(b) PROVE LockInv'
  BY <1>t, <1>2 DEF TakeLock, LockInv
<1>3. ASSUME NEW b \in Build, LoadProjects(b) PROVE LockInv'
  BY <1>t, <1>3 DEF LoadProjects, globalVars, LockInv
<1>4. ASSUME NEW b \in Build, BuildEnds(b) PROVE LockInv'
  BY <1>t, <1>4 DEF BuildEnds, globalVars, LockInv
<1>5. ASSUME NEW b \in Build, ReportOutcome(b) PROVE LockInv'
  BY <1>t, <1>5 DEF ReportOutcome, globalVars, LockInv
<1>6. ASSUME NEW b \in Build, ReleaseLock(b) PROVE LockInv'
  BY <1>t, <1>6 DEF ReleaseLock, LockInv
<1>7. ASSUME UNCHANGED <<runner, globalVars>> PROVE LockInv'
  BY <1>t, <1>7 DEF globalVars, LockInv
<1> QED
  BY <1>1, <1>2, <1>3, <1>4, <1>5, <1>6, <1>7, OthersKeep DEF Goroutine

\* The globals change with the lock and back.
LEMMA OverrideStep == IInv /\ [Next]_vars => OverrideInv'
<1> SUFFICES ASSUME IInv, [Next]_vars PROVE OverrideInv'
  OBVIOUS
<1> USE ServerAssumption
<1>t. /\ OverrideInv /\ LockInv
      /\ runner \in [Build -> Places] /\ loadedWith \in [Build -> Versions]
      /\ lock \in Build \cup {NoBuild}
  BY DEF IInv, TypeOK, Places
<1>1. ASSUME NEW b \in Build, BuildTool(b) PROVE OverrideInv'
  <2>1. UNCHANGED <<globalVars, loadedWith>>
    BY <1>1 DEF BuildTool
  <2>2. PICK p \in {"queued", "in container", "finishing"} :
          runner' = [runner EXCEPT ![b] = p]
    BY <1>1 DEF BuildTool
  <2> QED
    BY <1>t, <2>1, <2>2 DEF globalVars, OverrideInv, OwnOverrides
<1>2. ASSUME NEW b \in Build, TakeLock(b) PROVE OverrideInv'
  BY <1>t, <1>2 DEF TakeLock, OverrideInv, OwnOverrides
<1>3. ASSUME NEW b \in Build, LoadProjects(b) PROVE OverrideInv'
  <2>1. lock = b
    BY <1>t, <1>3 DEF LoadProjects, LockInv
  <2>2. loadedWith' = [loadedWith EXCEPT ![b] = Asked[b]] /\ UNCHANGED globalVars
    BY <1>t, <1>3, <2>1 DEF LoadProjects, OverrideInv
  <2>3. PICK p \in {"building", "finishing"} : runner' = [runner EXCEPT ![b] = p]
    BY <1>3 DEF LoadProjects
  <2> QED
    BY <1>t, <2>2, <2>3 DEF globalVars, OverrideInv, OwnOverrides
<1>4. ASSUME NEW b \in Build, BuildEnds(b) PROVE OverrideInv'
  BY <1>t, <1>4 DEF BuildEnds, globalVars, OverrideInv, OwnOverrides
<1>5. ASSUME NEW b \in Build, ReportOutcome(b) PROVE OverrideInv'
  BY <1>t, <1>5 DEF ReportOutcome, globalVars, OverrideInv, OwnOverrides
<1>6. ASSUME NEW b \in Build, ReleaseLock(b) PROVE OverrideInv'
  <2>1. lock = b
    BY <1>t, <1>6 DEF ReleaseLock, LockInv
  <2> QED
    BY <1>t, <1>6, <2>1 DEF ReleaseLock, OverrideInv, OwnOverrides
<1>7. ASSUME UNCHANGED <<runner, globalVars, loadedWith>> PROVE OverrideInv'
  BY <1>t, <1>7 DEF globalVars, OverrideInv, OwnOverrides
<1> QED
  BY <1>1, <1>2, <1>3, <1>4, <1>5, <1>6, <1>7, OthersKeep DEF Goroutine

\* The registry and the goroutines agree on what is running.
LEMMA RunnerInvStep == IInv /\ [Next]_vars => RunnerInv'
<1> SUFFICES ASSUME IInv, [Next]_vars PROVE RunnerInv'
  OBVIOUS
<1> USE DEF Busy, Reported
<1>t. /\ RunnerInv /\ sessions \subseteq Build
      /\ runner \in [Build -> Places] /\ verdict \in [Build -> Terminal \cup {"none"}]
      /\ state \in [Build -> Terminal \cup {"none", "running"}]
      /\ \A b \in Build : runner[b] = "none" <=> state[b] = "none"
  BY DEF IInv, TypeOK, Places
<1>1. ASSUME NEW b \in Build, BuildTool(b) PROVE RunnerInv'
  <2>1. PICK p \in {"queued", "in container", "finishing"} :
          /\ runner' = [runner EXCEPT ![b] = p]
          /\ verdict' = [verdict EXCEPT ![b] = IF p = "finishing" THEN "failed" ELSE "none"]
    BY <1>1 DEF BuildTool
  <2>2. state[b] = "none" /\ state' = [state EXCEPT ![b] = "running"]
    BY <1>1 DEF BuildTool, Register
  <2>3. Running \cup {b} \subseteq sessions'
    <3>1. sessions' \in Evicted(sessions \cup {b}, Running \cup {b})
      BY <1>1 DEF BuildTool, Register
    <3>2. Running \cup {b} \subseteq sessions \cup {b}
      BY <1>t DEF RunnerInv, Running
    <3> QED
      BY <3>1, <3>2, EvictedKeeps
  <2>4. ASSUME NEW c \in Build, state'[c] = "running" PROVE c \in sessions'
    BY <1>t, <2>2, <2>3, <2>4 DEF Running
  <2>5. ASSUME NEW c \in Build
        PROVE  /\ state'[c] = "running" <=> runner'[c] \in Busy
               /\ runner'[c] \in Reported => state'[c] = verdict'[c]
               /\ runner'[c] \in Reported \cup {"finishing"} => verdict'[c] \in Terminal
    BY <1>t, <2>1, <2>2 DEF RunnerInv, Terminal
  <2> QED
    BY <2>4, <2>5 DEF RunnerInv
<1>2. ASSUME NEW b \in Build, TakeLock(b) PROVE RunnerInv'
  BY <1>t, <1>2 DEF TakeLock, registryVars, RunnerInv
<1>3. ASSUME NEW b \in Build, LoadProjects(b) PROVE RunnerInv'
  BY <1>t, <1>3 DEF LoadProjects, registryVars, RunnerInv, Terminal
<1>4. ASSUME NEW b \in Build, BuildEnds(b) PROVE RunnerInv'
  <2>1. PICK error \in BOOLEAN : verdict' = [verdict EXCEPT ![b] = Verdict(b, error)]
    BY <1>4 DEF BuildEnds
  <2>2. Verdict(b, error) \in Terminal
    BY DEF Verdict, Terminal
  <2>3. /\ runner[b] \in {"building", "in container"}
        /\ runner' = [runner EXCEPT ![b] = "finishing"] /\ UNCHANGED registryVars
    BY <1>4 DEF BuildEnds
  <2> QED
    BY <1>t, <2>1, <2>2, <2>3 DEF registryVars, RunnerInv
<1>5. ASSUME NEW b \in Build, ReportOutcome(b) PROVE RunnerInv'
  <2>1. runner[b] = "finishing" /\ Finish(b, verdict[b]) /\ UNCHANGED verdict
    BY <1>5 DEF ReportOutcome
  <2>2. /\ state[b] = "running" /\ state' = [state EXCEPT ![b] = verdict[b]]
        /\ UNCHANGED sessions /\ verdict[b] \in Terminal
    BY <1>t, <2>1 DEF RunnerInv, Finish
  <2>3. PICK p \in Reported : runner' = [runner EXCEPT ![b] = p]
    BY <1>5 DEF ReportOutcome
  <2> QED
    BY <1>t, <2>1, <2>2, <2>3 DEF RunnerInv, Terminal
<1>6. ASSUME NEW b \in Build, ReleaseLock(b) PROVE RunnerInv'
  BY <1>t, <1>6 DEF ReleaseLock, registryVars, RunnerInv
<1>7. ASSUME UNCHANGED <<registryVars, runner, verdict>> PROVE RunnerInv'
  BY <1>t, <1>7 DEF registryVars, RunnerInv
<1> QED
  BY <1>1, <1>2, <1>3, <1>4, <1>5, <1>6, <1>7, OthersKeep DEF Goroutine

\* A context that was cancelled stays so.
LEMMA CancelledGrows == [Next]_vars => cancelled \subseteq cancelled'
<1> SUFFICES ASSUME [Next]_vars PROVE cancelled \subseteq cancelled'
  OBVIOUS
<1>1. ASSUME NEW b \in Build, BuildTool(b) \/ Goroutine(b) PROVE UNCHANGED cancelled
  BY <1>1 DEF BuildTool, Goroutine, TakeLock, LoadProjects, BuildEnds, ReportOutcome,
              ReleaseLock
<1>2. ASSUME NEW b \in Build, BuildCancel(b) PROVE cancelled \subseteq cancelled'
  BY <1>2 DEF BuildCancel
<1>3. ASSUME NEW w \in Waiter, WakeUp(w) \/ AnswerWait(w) \/ \E b \in Build : BuildWait(w, b)
      PROVE  UNCHANGED cancelled
  BY <1>3 DEF WakeUp, AnswerWait, BuildWait
<1>4. ASSUME ParsePkgbuild \/ Tick \/ Shutdown \/ UNCHANGED vars PROVE UNCHANGED cancelled
  BY <1>4 DEF ParsePkgbuild, Tick, Shutdown, vars
<1> QED
  BY <1>1, <1>2, <1>3, <1>4 DEF Next, Stopped

\* A verdict of "canceled" comes from a context that was cancelled.
LEMMA CancelStep == IInv /\ [Next]_vars => CancelInv'
<1> SUFFICES ASSUME IInv, [Next]_vars PROVE CancelInv'
  OBVIOUS
<1>t. /\ CancelInv /\ cancelled \subseteq cancelled'
      /\ verdict \in [Build -> Terminal \cup {"none"}]
      /\ state \in [Build -> Terminal \cup {"none", "running"}]
  BY CancelledGrows DEF IInv, TypeOK
<1>1. ASSUME NEW c \in Build, verdict'[c] = "canceled" PROVE c \in cancelled'
  <2>1. ASSUME NEW b \in Build, BuildTool(b) PROVE c \in cancelled'
    <3>1. PICK v \in {"failed", "none"} : verdict' = [verdict EXCEPT ![b] = v]
      BY <2>1 DEF BuildTool
    <3> QED
      BY <1>t, <1>1, <3>1 DEF CancelInv
  <2>2. ASSUME NEW b \in Build, Goroutine(b) PROVE c \in cancelled'
    <3>1. CASE LoadProjects(b)
      BY <1>t, <1>1, <3>1 DEF LoadProjects, CancelInv
    <3>2. CASE BuildEnds(b)
      <4>1. PICK error \in BOOLEAN : verdict' = [verdict EXCEPT ![b] = Verdict(b, error)]
        BY <3>2 DEF BuildEnds
      <4>2. Verdict(b, error) = "canceled" => b \in cancelled
        BY DEF Verdict
      <4> QED
        BY <1>t, <1>1, <4>1, <4>2 DEF CancelInv
    <3>3. CASE TakeLock(b) \/ ReportOutcome(b) \/ ReleaseLock(b)
      BY <1>t, <1>1, <3>3 DEF TakeLock, ReportOutcome, ReleaseLock, CancelInv
    <3> QED
      BY <2>2, <3>1, <3>2, <3>3 DEF Goroutine
  <2>3. CASE UNCHANGED verdict
    BY <1>t, <1>1, <2>3 DEF CancelInv
  <2> QED
    BY <2>1, <2>2, <2>3, OthersKeep
<1>2. ASSUME NEW c \in Build, state'[c] = "canceled" PROVE c \in cancelled'
  <2>1. CASE UNCHANGED registryVars
    BY <1>t, <1>2, <2>1 DEF registryVars, CancelInv, CanceledOnRequest
  <2>2. ASSUME NEW b \in Build, state' = [state EXCEPT ![b] = "running"]
        PROVE  c \in cancelled'
    BY <1>t, <1>2, <2>2 DEF CancelInv, CanceledOnRequest
  <2>3. ASSUME NEW b \in Build, state' = [state EXCEPT ![b] = verdict[b]]
        PROVE  c \in cancelled'
    BY <1>t, <1>2, <2>3 DEF CancelInv, CanceledOnRequest
  <2> QED
    BY <2>1, <2>2, <2>3, RegistryStep
<1> QED
  BY <1>1, <1>2 DEF CancelInv, CanceledOnRequest

\* A build that has ended keeps its state, and is not registered again.
LEMMA EndedStays ==
    ASSUME IInv, [Next]_vars, NEW c \in Build, state[c] \in Terminal
    PROVE  state'[c] = state[c] /\ (c \in sessions' => c \in sessions)
<1>t. state \in [Build -> Terminal \cup {"none", "running"}]
  BY DEF IInv, TypeOK
<1>1. CASE UNCHANGED registryVars
  BY <1>1 DEF registryVars
<1>2. ASSUME NEW b \in Build, state[b] = "none", state' = [state EXCEPT ![b] = "running"],
             sessions' \subseteq sessions \cup {b}
      PROVE  state'[c] = state[c] /\ (c \in sessions' => c \in sessions)
  BY <1>t, <1>2 DEF Terminal
<1>3. ASSUME NEW b \in Build, state[b] = "running", sessions' = sessions,
             state' = [state EXCEPT ![b] = verdict[b]]
      PROVE  state'[c] = state[c] /\ (c \in sessions' => c \in sessions)
  BY <1>t, <1>3 DEF Terminal
<1> QED
  BY <1>1, <1>2, <1>3, RegistryStep

\* What WaitInv says of one call, of the record r, by the registry as it is.
Waited(r) ==
    /\ r.stage # "idle" => r.build \in Build
    /\ r.stage = "woken" /\ ~r.timedOut => state[r.build] \in Terminal
    /\ r.stage = "answered" /\ ~r.timedOut /\ r.answer # "unknown" =>
          /\ state[r.build] \in Terminal
          /\ r.build \in sessions => r.answer = state[r.build]

\* What a call has been told stays true whatever the builds do.
LEMMA WaitedStays ==
    ASSUME IInv, [Next]_vars, NEW w \in Waiter, waiter'[w] = waiter[w]
    PROVE  Waited(waiter[w])'
<1> DEFINE r == waiter[w]
<1>1. /\ r.stage # "idle" => r.build \in Build
      /\ r.stage = "woken" /\ ~r.timedOut => state[r.build] \in Terminal
      /\ r.stage = "answered" /\ ~r.timedOut /\ r.answer # "unknown" =>
            /\ state[r.build] \in Terminal
            /\ r.build \in sessions => r.answer = state[r.build]
  BY DEF IInv, WaitInv
<1>2. ASSUME r.build \in Build, state[r.build] \in Terminal
      PROVE  /\ state'[r.build] = state[r.build]
             /\ r.build \in sessions' => r.build \in sessions
  BY <1>2, EndedStays
<1>3. r.stage = "answered" \/ r.stage = "woken" => r.stage # "idle"
  OBVIOUS
<1>4. r' = r
  OBVIOUS
<1> HIDE DEF r
<1>5. /\ r.stage # "idle" => r.build \in Build
      /\ r.stage = "woken" /\ ~r.timedOut => state'[r.build] \in Terminal
      /\ r.stage = "answered" /\ ~r.timedOut /\ r.answer # "unknown" =>
            /\ state'[r.build] \in Terminal
            /\ r.build \in sessions' => r.answer = state'[r.build]
  BY <1>1, <1>2, <1>3
<1> QED
  BY <1>4, <1>5 DEF Waited, r

\* A build_wait that is woken in time has its build's final state to answer.
LEMMA WaitStep == IInv /\ [Next]_vars => WaitInv'
<1> SUFFICES ASSUME IInv, [Next]_vars PROVE WaitInv'
  OBVIOUS
<1>t. /\ waiter \in [Waiter -> Waits]
      /\ \A w \in Waiter : waiter[w].stage # "idle" => waiter[w].build \in Build
  BY DEF IInv, TypeOK, WaitInv, Waits
<1> SUFFICES ASSUME NEW w \in Waiter PROVE Waited(waiter[w])'
  BY Zenon DEF WaitInv, Waited
<1>1. ASSUME NEW b \in Build, BuildWait(w, b) PROVE Waited(waiter[w])'
  <2> DEFINE r == [Idle EXCEPT !.build = b,
                       !.stage = IF b \in sessions THEN "waiting" ELSE "answered",
                       !.seen = IF b \in sessions THEN state[b] ELSE "none",
                       !.answer = IF b \in sessions THEN "none" ELSE "unknown"]
  <2>1. waiter'[w] = r
    BY <1>t, <1>1 DEF BuildWait
  <2>2. /\ r.build = b /\ r.stage # "woken"
        /\ r.stage = "answered" => r.answer = "unknown"
    BY DEF Idle
  <2> HIDE DEF r
  <2> QED
    BY <2>1, <2>2 DEF Waited
<1>2. ASSUME WakeUp(w) PROVE Waited(waiter[w])'
  <2>1. PICK late \in BOOLEAN :
          /\ ~late => state[waiter[w].build] \in Terminal
          /\ waiter' = [waiter EXCEPT ![w].stage = "woken", ![w].timedOut = late]
    BY <1>2 DEF WakeUp
  <2>2. waiter[w].build \in Build /\ UNCHANGED <<state, sessions>>
    BY <1>t, <1>2 DEF WakeUp, registryVars
  <2>3. /\ waiter'[w].stage = "woken" /\ waiter'[w].timedOut = late
        /\ waiter'[w].build = waiter[w].build
    BY <1>t, <2>1 DEF Waits
  <2> QED
    BY <2>1, <2>2, <2>3 DEF Waited
<1>3. ASSUME AnswerWait(w) PROVE Waited(waiter[w])'
  <2> DEFINE b == waiter[w].build
  <2>1. /\ b \in Build /\ UNCHANGED <<state, sessions>>
        /\ ~waiter[w].timedOut => state[b] \in Terminal
    BY <1>t, <1>3 DEF AnswerWait, registryVars, IInv, WaitInv
  <2>2. /\ waiter'[w].stage = "answered" /\ waiter'[w].timedOut = waiter[w].timedOut
        /\ waiter'[w].build = b
        /\ b \in sessions => waiter'[w].answer = state[b]
    BY <1>t, <1>3 DEF AnswerWait, Waits
  <2> QED
    BY <2>1, <2>2 DEF Waited
<1>4. CASE waiter'[w] = waiter[w]
  BY <1>4, WaitedStays
<1>5. ASSUME NEW v \in Waiter, v # w, WakeUp(v) \/ AnswerWait(v) \/ \E b \in Build : BuildWait(v, b)
      PROVE  waiter'[w] = waiter[w]
  BY <1>t, <1>5 DEF WakeUp, AnswerWait, BuildWait
<1>6. ASSUME NEW b \in Build, BuildTool(b) \/ Goroutine(b) \/ BuildCancel(b)
      PROVE  waiter' = waiter
  BY <1>6 DEF BuildTool, Goroutine, TakeLock, LoadProjects, BuildEnds, ReportOutcome,
              ReleaseLock, BuildCancel
<1>7. ASSUME ParsePkgbuild \/ Tick \/ Shutdown \/ UNCHANGED vars PROVE waiter' = waiter
  BY <1>7 DEF ParsePkgbuild, Tick, Shutdown, vars
<1> QED
  BY <1>1, <1>2, <1>3, <1>4, <1>5, <1>6, <1>7 DEF Next, Stopped

\* The invariant holds of a server that has just started.
LEMMA InitInv == Init => IInv
<1> SUFFICES ASSUME Init PROVE IInv
  OBVIOUS
<1> USE ServerAssumption DEF Init
<1>1. TypeOK
  BY DEF TypeOK, Versions, Idle
<1>2. LockInv /\ OverrideInv
  BY DEF LockInv, OverrideInv, OwnOverrides
<1>3. RunnerInv /\ CancelInv
  BY DEF RunnerInv, Busy, Reported, CancelInv, CanceledOnRequest
<1>4. WaitInv
  BY DEF WaitInv, Idle
<1> QED
  BY <1>1, <1>2, <1>3, <1>4 DEF IInv

\* In every reachable state of the server the invariant holds.
THEOREM Invariance == Spec => []IInv
<1>1. IInv /\ [Next]_vars => IInv'
  BY TypeStep, LockStep, OverrideStep, RunnerInvStep, CancelStep, WaitStep DEF IInv
<1> QED
  BY InitInv, <1>1, PTL DEF Spec

--------------------------------------------------------------------------------
(* The theorems. *)

\* Every variable stays in its type, and every accepted build has a state.
THEOREM TypeCorrectness == Spec => []TypeOK
<1>1. IInv => TypeOK
  BY DEF IInv
<1> QED
  BY Invariance, <1>1, PTL

\* Finish finds the session: no verdict of a goroutine is lost to an eviction.
THEOREM OutcomesAreRecorded == Spec => []OutcomeIsRecorded
<1>1. IInv => OutcomeIsRecorded
  BY DEF IInv, RunnerInv, Reported, OutcomeIsRecorded
<1> QED
  BY Invariance, <1>1, PTL

\* A native build is parsed with its own overrides, whatever else is running.
THEOREM OverridesAreOwn == Spec => []OwnOverrides
<1>1. IInv => OwnOverrides
  BY DEF IInv, OverrideInv
<1> QED
  BY Invariance, <1>1, PTL

\* Between two native builds the parser's globals are the server's own.
THEOREM GlobalsAreRestored == Spec => []GlobalsRestored
<1>1. IInv => GlobalsRestored
  BY DEF IInv, OverrideInv, GlobalsRestored
<1> QED
  BY Invariance, <1>1, PTL

\* No build is reported canceled that nobody cancelled.
THEOREM CanceledIsAsked == Spec => []CanceledOnRequest
<1>1. IInv => CanceledOnRequest
  BY DEF IInv, CancelInv
<1> QED
  BY Invariance, <1>1, PTL

\* A build_wait that was not late answers the state its build ended in.
THEOREM WaitsAnswerTheEnd == Spec => []WaitAnswersFinalState
<1>1. IInv => WaitAnswersFinalState
  BY DEF IInv, WaitInv, WaitAnswersFinalState
<1> QED
  BY Invariance, <1>1, PTL

\* Only finite many sessions are known, so the registry can count them.
LEMMA SessionsFinite == IInv => IsFiniteSet(sessions)
BY ServerAssumption, FS_Subset DEF IInv, TypeOK

\* A registration leaves the registry within its cap, or with running builds only.
LEMMA BoundedStep ==
    IInv /\ [Next]_vars =>
        (sessions' \ sessions # {} =>
            \/ Cardinality(sessions') <= MaxSessions
            \/ \A b \in sessions' : state'[b] = "running")
<1> SUFFICES ASSUME IInv, [Next]_vars, sessions' \ sessions # {}
             PROVE  \/ Cardinality(sessions') <= MaxSessions
                    \/ \A b \in sessions' : state'[b] = "running"
  OBVIOUS
<1>1. PICK b \in Build : BuildTool(b)
  BY RegistryStep DEF registryVars
<1> DEFINE S == sessions \cup {b}
           R == Running \cup {b}
<1>2. sessions' \in Evicted(S, R) /\ state' = [state EXCEPT ![b] = "running"]
  BY <1>1 DEF BuildTool, Register
<1>3. R \subseteq S
  BY DEF IInv, RunnerInv, Running
<1>4. IsFiniteSet(S) /\ Cardinality(S) \in Nat /\ MaxSessions \in Nat
  BY SessionsFinite, FS_AddElement, FS_CardinalityType, ServerAssumption
<1> HIDE DEF S
<1>5. sessions' \subseteq S
  BY <1>2, <1>3, EvictedKeeps
<1>6. CASE Excess(S) <= 0
  BY <1>2, <1>4, <1>6 DEF Evicted, Excess
<1>7. CASE ~(Excess(S) <= 0) /\ Cardinality(S \ sessions') = Excess(S)
  <2>1. S \ (S \ sessions') = sessions' /\ S \cap (S \ sessions') = S \ sessions'
    BY <1>5
  <2>2. Cardinality(sessions') = Cardinality(S) - Cardinality(S \ sessions')
    BY <1>4, <2>1, FS_Difference
  <2> QED
    BY <1>4, <1>7, <2>2 DEF Excess
<1>8. CASE sessions' = R
  <2>1. state \in [Build -> Terminal \cup {"none", "running"}]
    BY DEF IInv, TypeOK
  <2> QED
    BY <1>2, <1>8, <2>1 DEF Running
<1> QED
  BY <1>2, <1>6, <1>7, <1>8 DEF Evicted

\* The registry does not outgrow its cap with sessions it could forget.
THEOREM RegistryStaysBounded == Spec => RegistryBounded
<1>1. IInv /\ [Next]_vars =>
        [sessions' \ sessions # {} =>
            \/ Cardinality(sessions') <= MaxSessions
            \/ \A b \in sessions' : state'[b] = "running"]_vars
  BY BoundedStep
<1> QED
  BY Invariance, <1>1, PTL DEF Spec, RegistryBounded

\* What a registration forgets ended no later than what it keeps.
LEMMA OldestStep ==
    IInv /\ [Next]_vars =>
        \A e \in sessions \ sessions', k \in sessions' :
            state'[k] \in Terminal => endedAt[e] <= endedAt[k]
<1> SUFFICES ASSUME IInv, [Next]_vars, NEW e \in sessions \ sessions', NEW k \in sessions',
                    state'[k] \in Terminal
             PROVE  endedAt[e] <= endedAt[k]
  OBVIOUS
<1>1. PICK b \in Build : BuildTool(b)
  BY RegistryStep DEF registryVars
<1> DEFINE S == sessions \cup {b}
           R == Running \cup {b}
<1>2. sessions' \in Evicted(S, R) /\ state' = [state EXCEPT ![b] = "running"]
  BY <1>1 DEF BuildTool, Register
<1>3. R \subseteq S
  BY DEF IInv, RunnerInv, Running
<1>4. k \notin R
  <2>1. /\ state \in [Build -> Terminal \cup {"none", "running"}]
    BY DEF IInv, TypeOK
  <2> QED
    BY <1>2, <2>1 DEF Running, Terminal
<1>5. e \in S \ sessions' /\ k \in sessions' \ R
  BY <1>4
<1> QED
  BY <1>2, <1>5 DEF Evicted

\* The registry forgets the oldest finished sessions first.
THEOREM OldestIsDroppedFirst == Spec => OldestDroppedFirst
<1>1. IInv /\ [Next]_vars =>
        [\A e \in sessions \ sessions', k \in sessions' :
            state'[k] \in Terminal => endedAt[e] <= endedAt[k]]_vars
  BY OldestStep
<1> QED
  BY Invariance, <1>1, PTL DEF Spec, OldestDroppedFirst
================================================================================
