------------------------------ MODULE BuildServer ------------------------------
(* yap-mcp: the build tool registers a session and starts a goroutine; native   *)
(* builds take turns on nativeBuildMu because the parser reads its overrides    *)
(* from process globals, container builds do not.  Clients poll, wait for and   *)
(* cancel sessions through the registry, which forgets the oldest finished ones *)
(* when it is full.  SetOutputDir and UpdateContainer add only fields a client  *)
(* may look at, and are left out.                                              *)
EXTENDS Integers, FiniteSets

CONSTANTS
    Build,        \* sessions the server may be asked for, named by their id
    Waiter,       \* concurrent build_wait calls
    Version,      \* values of overridePkgVer
    NoVersion,    \* no override
    NoBuild,
    Asked,        \* the overridePkgVer each build is started with
    MaxSessions,
    MaxClock      \* bound: how far the wall clock may go

ASSUME ServerAssumption ==
    /\ IsFiniteSet(Build)
    /\ NoBuild \notin Build /\ NoVersion \notin Version
    /\ Asked \in [Build -> Version \cup {NoVersion}]
    /\ MaxSessions \in Nat /\ MaxClock \in Nat

VARIABLES
    server,      \* "serving", or "stopped" once main has returned
    clock,       \* time.Now
    sessions,    \* ids in the registry's map
    state,       \* BuildSession.State; it outlives the session's eviction
    endedAt,     \* BuildSession.EndedAt
    cancelled,   \* builds whose context is cancelled
    runner,      \* where the goroutine of a build is
    verdict,     \* what it is about to report to Finish
    lock,        \* who holds nativeBuildMu
    override,    \* parser.OverridePkgVer, for all the globals a build sets
    saved,       \* their value to be put back
    loadedWith,  \* the overrides in force when the build's PKGBUILDs were parsed
    parsed,      \* the override in the latest answer of parse_pkgbuild
    waiter       \* the build_wait calls

vars == <<server, clock, sessions, state, endedAt, cancelled, runner,
          verdict, lock, override, saved, loadedWith, parsed, waiter>>

registryVars == <<sessions, state, endedAt>>
globalVars   == <<lock, override, saved>>

Terminal == {"succeeded", "failed", "canceled"}
Running  == {b \in Build : state[b] = "running"}

Idle == [stage |-> "idle", build |-> NoBuild, seen |-> "none", timedOut |-> FALSE,
         answer |-> "none"]

Init ==
    /\ server = "serving" /\ clock = 1
    /\ sessions = {}
    /\ state = [b \in Build |-> "none"] /\ endedAt = [b \in Build |-> 0]
    /\ cancelled = {}
    /\ runner = [b \in Build |-> "none"] /\ verdict = [b \in Build |-> "none"]
    /\ lock = NoBuild /\ override = NoVersion /\ saved = NoVersion
    /\ loadedWith = [b \in Build |-> NoVersion]
    /\ parsed = NoVersion
    /\ waiter = [w \in Waiter |-> Idle]

--------------------------------------------------------------------------------
(* The registry. *)

Excess(S) == Cardinality(S) - MaxSessions

\* evictOldestTerminalLocked: the sets S may be cut down to, when the sessions of
\* R are running.  Sessions that ended at the same instant go in any order.
Evicted_Running(S, R) ==
    IF Excess(S) <= 0 THEN {S}
    ELSE {K \in SUBSET S :
            /\ Cardinality(S \ K) = Excess(S)
            /\ \A e \in S \ K, k \in K : endedAt[e] <= endedAt[k] \/ k \in R}
Evicted_Newest(S, R) ==
    IF Excess(S) <= 0 THEN {S}
    ELSE {K \in SUBSET S :
            /\ R \subseteq K
            /\ \/ Cardinality(S \ K) = Excess(S)
               \/ Excess(S) > Cardinality(S \ R) /\ K = R
            /\ \A e \in S \ K, k \in K \ R : endedAt[e] >= endedAt[k]}
Evicted_OneOnly(S, R) ==
    IF Excess(S) <= 1 THEN {S}
    ELSE {K \in SUBSET S :
            /\ R \subseteq K
            /\ Cardinality(S \ K) <= 1
            /\ \A e \in S \ K, k \in K \ R : endedAt[e] <= endedAt[k]}
Evicted(S, R) ==
    IF Excess(S) <= 0 THEN {S}
    ELSE {K \in SUBSET S :
            /\ R \subseteq K
            /\ \/ Cardinality(S \ K) = Excess(S)
               \/ Excess(S) > Cardinality(S \ R) /\ K = R
            /\ \A e \in S \ K, k \in K \ R : endedAt[e] <= endedAt[k]}

\* The new session is running when the others are looked at.
Register(b) ==
    /\ state' = [state EXCEPT ![b] = "running"]
    /\ sessions' \in Evicted(sessions \cup {b}, Running \cup {b})
    /\ UNCHANGED endedAt

\* Only a session that is still known and running changes.
Finish(b, outcome) ==
    IF b \in sessions /\ state[b] = "running"
    THEN /\ state' = [state EXCEPT ![b] = outcome]
         /\ endedAt' = [endedAt EXCEPT ![b] = clock]
         /\ UNCHANGED sessions
    ELSE UNCHANGED registryVars

--------------------------------------------------------------------------------
(* The build tool and its goroutines. *)

\* build: in process ("queued" for nativeBuildMu), in a container, or refused
\* because no image matches the distro.
BuildTool(b) ==
    /\ server = "serving" /\ state[b] = "none"
    /\ Register(b)
    /\ \E start \in {"queued", "in container", "finishing"} :
          /\ runner' = [runner EXCEPT ![b] = start]
          /\ verdict' = [verdict EXCEPT ![b] =
                IF start = "finishing" THEN "failed" ELSE "none"]
    /\ UNCHANGED <<server, clock, cancelled, globalVars, loadedWith, parsed, waiter>>

TakeLock_NoMutex(b) ==
    /\ server = "serving" /\ runner[b] = "queued"
    /\ lock' = b
    /\ saved' = override /\ override' = Asked[b]
    /\ runner' = [runner EXCEPT ![b] = "loading"]
    /\ UNCHANGED <<server, clock, registryVars, cancelled, verdict, loadedWith,
                   parsed, waiter>>

\* runNativeBuild: the lock does not look at the context.
TakeLock(b) ==
    /\ server = "serving" /\ runner[b] = "queued" /\ lock = NoBuild
    /\ lock' = b
    /\ saved' = override /\ override' = Asked[b]
    /\ runner' = [runner EXCEPT ![b] = "loading"]
    /\ UNCHANGED <<server, clock, registryVars, cancelled, verdict, loadedWith,
                   parsed, waiter>>

LoadProjects_NoVerdict(b) ==
    /\ server = "serving" /\ runner[b] = "loading"
    /\ loadedWith' = [loadedWith EXCEPT ![b] = override]
    /\ runner' \in {[runner EXCEPT ![b] = "building"], [runner EXCEPT ![b] = "finishing"]}
    /\ UNCHANGED <<server, clock, registryVars, cancelled, globalVars, verdict, parsed, waiter>>

\* MultiProject parses the PKGBUILDs; its errors are failures, cancelled or not.
LoadProjects(b) ==
    /\ server = "serving" /\ runner[b] = "loading"
    /\ loadedWith' = [loadedWith EXCEPT ![b] = override]
    /\ \/ runner' = [runner EXCEPT ![b] = "building"] /\ UNCHANGED verdict
       \/ /\ runner' = [runner EXCEPT ![b] = "finishing"]
          /\ verdict' = [verdict EXCEPT ![b] = "failed"]
    /\ UNCHANGED <<server, clock, registryVars, cancelled, globalVars, parsed, waiter>>

Verdict_AnyError(b, error) == IF error THEN "canceled" ELSE "succeeded"
Verdict(b, error) ==
    CASE error /\ b \in cancelled -> "canceled"
      [] error /\ b \notin cancelled -> "failed"
      [] ~error -> "succeeded"

\* BuildAll or RunShellCapture returns; it may not have noticed a cancellation.
BuildEnds(b) ==
    /\ server = "serving" /\ runner[b] \in {"building", "in container"}
    /\ \E error \in BOOLEAN : verdict' = [verdict EXCEPT ![b] = Verdict(b, error)]
    /\ runner' = [runner EXCEPT ![b] = "finishing"]
    /\ UNCHANGED <<server, clock, registryVars, cancelled, globalVars, loadedWith,
                   parsed, waiter>>

ReportOutcome(b) ==
    /\ server = "serving" /\ runner[b] = "finishing"
    /\ Finish(b, verdict[b])
    /\ runner' = [runner EXCEPT ![b] = IF lock = b THEN "unlocking" ELSE "ended"]
    /\ UNCHANGED <<server, clock, cancelled, verdict, globalVars, loadedWith, parsed,
                   waiter>>

ReleaseLock_NoRestore(b) ==
    /\ server = "serving" /\ runner[b] = "unlocking"
    /\ lock' = NoBuild
    /\ runner' = [runner EXCEPT ![b] = "ended"]
    /\ UNCHANGED <<server, clock, registryVars, cancelled, override, verdict, saved,
                   loadedWith, parsed, waiter>>

ReleaseLock_Kept(b) ==
    /\ server = "serving" /\ runner[b] = "unlocking"
    /\ override' = saved
    /\ runner' = [runner EXCEPT ![b] = "ended"]
    /\ UNCHANGED <<server, clock, registryVars, cancelled, lock, verdict, saved,
                   loadedWith, parsed, waiter>>

\* The deferred calls: the globals are put back before the lock is released.
ReleaseLock(b) ==
    /\ server = "serving" /\ runner[b] = "unlocking"
    /\ override' = saved
    /\ lock' = NoBuild
    /\ runner' = [runner EXCEPT ![b] = "ended"]
    /\ UNCHANGED <<server, clock, registryVars, cancelled, verdict, saved, loadedWith,
                   parsed, waiter>>

\* build_cancel: any session the registry still knows, finished or not.
BuildCancel(b) ==
    /\ server = "serving" /\ b \in sessions
    /\ cancelled' = cancelled \cup {b}
    /\ UNCHANGED <<server, clock, registryVars, runner, verdict, globalVars, loadedWith,
                   parsed, waiter>>

--------------------------------------------------------------------------------
(* build_wait. *)

\* The first look at the registry; the snapshot keeps the done channel.
BuildWait(w, b) ==
    /\ server = "serving" /\ waiter[w].stage = "idle"
    /\ waiter' = [waiter EXCEPT ![w] =
          [Idle EXCEPT !.build = b,
                       !.stage = IF b \in sessions THEN "waiting" ELSE "answered",
                       !.seen = IF b \in sessions THEN state[b] ELSE "none",
                       !.answer = IF b \in sessions THEN "none" ELSE "unknown"]]
    /\ UNCHANGED <<server, clock, registryVars, cancelled, runner, verdict, globalVars,
                   loadedWith, parsed>>

WakeUp_NoDeadline(w) ==
    /\ server = "serving" /\ waiter[w].stage = "waiting"
    /\ state[waiter[w].build] \in Terminal
    /\ waiter' = [waiter EXCEPT ![w].stage = "woken"]
    /\ UNCHANGED <<server, clock, registryVars, cancelled, runner, verdict, globalVars,
                   loadedWith, parsed>>

\* The select: done was closed by Finish, or the deadline (at most 50s) passed.
WakeUp(w) ==
    /\ server = "serving" /\ waiter[w].stage = "waiting"
    /\ \E late \in BOOLEAN :
          /\ ~late => state[waiter[w].build] \in Terminal
          /\ waiter' = [waiter EXCEPT ![w].stage = "woken", ![w].timedOut = late]
    /\ UNCHANGED <<server, clock, registryVars, cancelled, runner, verdict, globalVars,
                   loadedWith, parsed>>

AnswerWait_Stale(w) ==
    /\ server = "serving" /\ waiter[w].stage = "woken"
    /\ waiter' = [waiter EXCEPT ![w].stage = "answered", ![w].answer = waiter[w].seen]
    /\ UNCHANGED <<server, clock, registryVars, cancelled, runner, verdict, globalVars,
                   loadedWith, parsed>>

\* The second look; a session forgotten meanwhile is answered from the first.
AnswerWait(w) ==
    /\ server = "serving" /\ waiter[w].stage = "woken"
    /\ LET b == waiter[w].build
       IN  waiter' = [waiter EXCEPT ![w].stage = "answered",
                ![w].answer = IF b \in sessions THEN state[b] ELSE waiter[w].seen]
    /\ UNCHANGED <<server, clock, registryVars, cancelled, runner, verdict, globalVars,
                   loadedWith, parsed>>

--------------------------------------------------------------------------------
\* parse_pkgbuild (validate, graph and zap alike) reads the globals unlocked.
ParsePkgbuild ==
    /\ server = "serving"
    /\ parsed' = override
    /\ UNCHANGED <<server, clock, registryVars, cancelled, runner, verdict, globalVars,
                   loadedWith, waiter>>

Tick ==
    /\ server = "serving" /\ clock < MaxClock
    /\ clock' = clock + 1
    /\ UNCHANGED <<server, registryVars, cancelled, runner, verdict, globalVars,
                   loadedWith, parsed, waiter>>

\* EOF on stdin or a signal: Run returns, stop() cancels the signal context,
\* from which no build's context is derived, and the process exits.
Shutdown ==
    /\ server = "serving"
    /\ server' = "stopped"
    /\ UNCHANGED <<clock, registryVars, cancelled, runner, verdict, globalVars,
                   loadedWith, parsed, waiter>>

Stopped == server = "stopped" /\ UNCHANGED vars

Goroutine(b) ==
    TakeLock(b) \/ LoadProjects(b) \/ BuildEnds(b) \/ ReportOutcome(b) \/ ReleaseLock(b)

Next ==
    \/ \E b \in Build : BuildTool(b) \/ Goroutine(b) \/ BuildCancel(b)
    \/ \E w \in Waiter, b \in Build : BuildWait(w, b)
    \/ \E w \in Waiter : WakeUp(w) \/ AnswerWait(w)
    \/ ParsePkgbuild \/ Tick \/ Shutdown \/ Stopped

Spec == Init /\ [][Next]_vars

\* A wait has a deadline, whatever the builds do.
WaitFairness == \A w \in Waiter : WF_vars(WakeUp(w) \/ AnswerWait(w))
WaitSpec == Spec /\ WaitFairness

\* Goroutines run, and the builds they drive come to an end.
BuildFairness == \A b \in Build : WF_vars(Goroutine(b))

--------------------------------------------------------------------------------
(* Properties *)

Versions == Version \cup {NoVersion}

\* Every variable stays in its type, and every build that was accepted has a
\* state of the registry from then on.
TypeOK ==
    /\ server \in {"serving", "stopped"} /\ clock \in Nat
    /\ sessions \subseteq Build
    /\ state \in [Build -> Terminal \cup {"none", "running"}]
    /\ \A b \in Build : runner[b] = "none" <=> state[b] = "none"
    /\ endedAt \in [Build -> Nat]
    /\ cancelled \subseteq Build
    /\ runner \in [Build -> {"none", "queued", "loading", "building", "in container",
                             "finishing", "unlocking", "ended"}]
    /\ verdict \in [Build -> Terminal \cup {"none"}]
    /\ lock \in Build \cup {NoBuild}
    /\ override \in Versions /\ saved \in Versions /\ parsed \in Versions
    /\ loadedWith \in [Build -> Versions]
    /\ waiter \in [Waiter ->
          [stage : {"idle", "waiting", "woken", "answered"},
           build : Build \cup {NoBuild},
           seen : Terminal \cup {"none", "running"},
           timedOut : BOOLEAN,
           answer : Terminal \cup {"none", "running", "unknown"}]]

\* No outcome is lost: when its goroutine is through with Finish, a build has
\* the state it reported, because running sessions are never evicted.
OutcomeIsRecorded ==
    \A b \in Build : runner[b] \in {"unlocking", "ended"} => state[b] = verdict[b]

\* After each registration the registry is within its cap, or nothing in it is
\* finished.
RegistryBounded ==
    [][sessions' \ sessions # {} =>
          \/ Cardinality(sessions') <= MaxSessions
          \/ \A b \in sessions' : state'[b] = "running"]_vars

\* The sessions that are dropped ended no later than the ones that stay.
OldestDroppedFirst ==
    [][\A e \in sessions \ sessions', k \in sessions' :
          state'[k] \in Terminal => endedAt[e] <= endedAt[k]]_vars

\* Builds never see each other's overrides: each is parsed with its own.
OwnOverrides ==
    \A b \in Build : runner[b] = "building" => loadedWith[b] = Asked[b]

\* ... and the server's own are back whenever no native build is under way.
GlobalsRestored == lock = NoBuild => override = NoVersion

\* Only a build somebody cancelled is reported canceled.
CanceledOnRequest == \A b \in Build : state[b] = "canceled" => b \in cancelled

\* A build_wait that was not late answers the state the build ended in, as long
\* as the registry still knows the session.
WaitAnswersFinalState ==
    \A w \in Waiter :
        waiter[w].stage = "answered" /\ ~waiter[w].timedOut
          /\ waiter[w].answer # "unknown" /\ waiter[w].build \in sessions =>
            waiter[w].answer = state[waiter[w].build]

\* If what the goroutines drive comes to an end, every build reaches a terminal
\* state while the server is up: none waits for the build lock for ever.
BuildsEnd ==
    BuildFairness =>
        \A b \in Build : state[b] = "running" ~> (state[b] \in Terminal \/ server = "stopped")

\* Every build_wait is answered, even if its build hangs.
WaitsAnswered ==
    \A w \in Waiter :
        waiter[w].stage = "waiting" ~> (waiter[w].stage = "answered" \/ server = "stopped")

\* "final state, or 'running' on timeout": a build_wait that did not time out
\* answers a final state.
WaitTellsOutcome ==
    \A w \in Waiter :
        waiter[w].stage = "answered" /\ ~waiter[w].timedOut =>
            waiter[w].answer \in Terminal \cup {"unknown"}

\* "so the parser/common globals can't race": parse_pkgbuild, asked for no
\* override, applies none.
ParseAppliesNoOverride == parsed = NoVersion

\* "Cancel any in-flight async builds": no build is left running uncancelled
\* when the server stops.
ShutdownCancelsBuilds == server = "stopped" => Running \subseteq cancelled
================================================================================
