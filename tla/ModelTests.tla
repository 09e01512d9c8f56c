------------------------------- MODULE ModelTests -------------------------------
(***************************************************************************)
(* `ofga model test`: Run launches the matched tests, a few at a time, each *)
(* in a goroutine with a store of its own; the tests share one cache of the *)
(* files they read.  A test can fail, lose the server, be cut by Ctrl-C or  *)
(* panic.  With --watch the command runs again after every relevant change  *)
(* of a file (internal/modeltest: run.go, fixture.go, engine_core.go;       *)
(* internal/command/model: test_cmd.go, test_watch.go).                     *)
(***************************************************************************)
EXTENDS Naturals, FiniteSets, Sequences

CONSTANTS
    NTests,      \* the matched tests are 1 .. NTests, in the order of dispatch
    Files,       \* model and fixture files
    Needs,       \* the files a test loads: its model, then its fixtures
    Workspace,   \* the manifest and the test files, read before the tests run
    Extra,       \* a test file in a directory made while --watch runs
    None,
    MaxParallel, \* bound: --parallel
    MaxEdits,    \* bound: changes of files
    LoneDirs     \* a directory may be made with no other change

ASSUME ModelTestsAssumption ==
    /\ NTests \in Nat \ {0} /\ Needs \in [1 .. NTests -> Seq(Files)]
    /\ \A t \in 1 .. NTests : Len(Needs[t]) > 0
    /\ Workspace \notin Files /\ Extra \notin Files /\ None \notin 1 .. NTests
    /\ MaxParallel \in Nat \ {0} /\ MaxEdits \in Nat /\ LoneDirs \in BOOLEAN

VARIABLES
    opts,       \* --watch, --parallel, --fail-fast, and how many tests --run matches
    ctx,        \* the command's context is cancelled: Ctrl-C
    runCtx,     \* and the run's, which a lost server cancels too
    dispatcher, \* where Run is
    next,       \* the next test it looks at; the earlier ones were dispatched
    at,         \* where the goroutine of each test is
    file,       \* and which of its files it is at
    outcome,    \* what came of each test
    sawFailure, infra,
    cache,      \* modelCache and fixtureCache
    held,       \* the version of each file this run read
    reads,      \* history: how often it read each
    stores,     \* the stores of this run on the server, by test
    excused,    \* history: those whose creation or deletion got no answer
    late,       \* history: tests launched after a failure was recorded
    shown,      \* the last results printed, and the exit code
    ver,        \* versions of the files on disk
    dir,        \* the directory of Extra: made, and known to the watcher
    event, timer, changed, \* debounceEvents: an event, the timer, the channel
    phase,      \* runWatch
    edits       \* bound

runVars == <<dispatcher, next, at, file, outcome, sawFailure, infra, cache, held,
             reads, stores, excused, late>>
watchVars == <<ver, dir, event, timer, changed, phase, edits>>
vars == <<opts, ctx, runCtx, runVars, shown, watchVars>>

Tests == 1 .. NTests
Watched == Files \cup {Workspace, Extra}
Begun == 1 .. (next - 1)

(* A run that has read the workspace and looks at its first test.          *)
Fresh ==
    [dispatcher |-> "check", next |-> 1, at |-> [t \in Tests |-> "idle"],
     file |-> [t \in Tests |-> 1], outcome |-> [t \in Tests |-> None],
     cache |-> [f \in Files |-> "none"], reads |-> [f \in Files |-> 0]]

NothingShown == [kind |-> None, tests |-> <<>>, exit |-> None, of |-> [f \in Watched |-> None]]

Init ==
    /\ opts \in [watch : BOOLEAN, tests : 1 .. NTests, parallel : 1 .. MaxParallel, failFast : BOOLEAN]
    /\ opts.watch => ~opts.failFast
    /\ ctx = FALSE /\ runCtx = FALSE
    /\ dispatcher = (IF opts.watch THEN "returned" ELSE "check")
    /\ next = Fresh.next /\ at = Fresh.at /\ file = Fresh.file
    /\ outcome = Fresh.outcome /\ sawFailure = FALSE /\ infra = None
    /\ cache = Fresh.cache /\ reads = Fresh.reads /\ held = [f \in Watched |-> None]
    /\ stores = {} /\ excused = {} /\ late = 0 /\ shown = NothingShown
    /\ ver = [f \in Watched |-> 0] /\ dir = "none"
    /\ event = FALSE /\ timer = FALSE /\ changed = FALSE
    /\ phase = (IF opts.watch THEN "load" ELSE "run") /\ edits = 0

-------------------------------------------------------------------------------
(* The dispatcher.                                                         *)

Stops == runCtx \/ (opts.failFast /\ sawFailure)

(* Slots of the semaphore: the dispatcher holds one from Acquire to Launch. *)
Running == {t \in Begun : at[t] # "released"}
Used == Cardinality(Running) + (IF dispatcher \in {"recheck", "launch"} THEN 1 ELSE 0)

Dispatch(from, to) == dispatcher = from /\ dispatcher' = to

CheckStop ==
    /\ Dispatch("check", IF next > opts.tests \/ Stops THEN "drain" ELSE "acquire")
    /\ UNCHANGED <<opts, ctx, runCtx, next, at, file, outcome, sawFailure, infra, cache,
                   held, reads, stores, excused, late, shown, watchVars>>

Acquire ==
    /\ \/ Used < opts.parallel /\ Dispatch("acquire", "recheck")
       \/ runCtx /\ Dispatch("acquire", "drain")
    /\ UNCHANGED <<opts, ctx, runCtx, next, at, file, outcome, sawFailure, infra, cache,
                   held, reads, stores, excused, late, shown, watchVars>>

(* What was checked before the slot was free may no longer hold.           *)
MutantRecheck ==
    /\ Dispatch("recheck", "launch")
    /\ UNCHANGED <<opts, ctx, runCtx, next, at, file, outcome, sawFailure, infra, cache,
                   held, reads, stores, excused, late, shown, watchVars>>
Recheck ==
    /\ Dispatch("recheck", IF Stops THEN "drain" ELSE "launch")
    /\ UNCHANGED <<opts, ctx, runCtx, next, at, file, outcome, sawFailure, infra, cache,
                   held, reads, stores, excused, late, shown, watchVars>>

Launch ==
    /\ Dispatch("launch", "check")
    /\ next' = next + 1 /\ at' = [at EXCEPT ![next] = "lookup"]
    /\ late' = IF opts.failFast /\ sawFailure THEN late + 1 ELSE late
    /\ UNCHANGED <<opts, ctx, runCtx, file, outcome, sawFailure, infra, cache, held, reads,
                   stores, excused, shown, watchVars>>

-------------------------------------------------------------------------------
(* A test.                                                                 *)

Step(t, from, to) == at[t] = from /\ at' = [at EXCEPT ![t] = to]
Needed(t) == Needs[t][file[t]]

(* The cache: the first to ask for a file reads it, the others wait, and    *)
(* an error is remembered like a result.                                   *)
Lookup(t) ==
    /\ IF cache[Needed(t)] # "none"
       THEN Step(t, "lookup", "wait") /\ UNCHANGED <<cache, reads>>
       ELSE /\ Step(t, "lookup", "read")
            /\ cache' = [cache EXCEPT ![Needed(t)] = "reading"]
            /\ reads' = [reads EXCEPT ![Needed(t)] = @ + 1]
    /\ UNCHANGED <<opts, ctx, runCtx, dispatcher, next, file, outcome, sawFailure, infra, held,
                   stores, excused, late, shown, watchVars>>

(* A file that does not parse, or whose parsing panics, is ready too.      *)
Read(t) ==
    /\ Step(t, "read", "wait")
    /\ \E result \in {"good", "bad"} : cache' = [cache EXCEPT ![Needed(t)] = result]
    /\ held' = [held EXCEPT ![Needed(t)] = ver[Needed(t)]]
    /\ UNCHANGED <<opts, ctx, runCtx, dispatcher, next, file, outcome, sawFailure, infra, reads,
                   stores, excused, late, shown, watchVars>>

Loaded(t) ==
    /\ at[t] = "wait"
    /\ \/ /\ cache[Needed(t)] = "bad" /\ Step(t, "wait", "finish")
          /\ outcome' = [outcome EXCEPT ![t] = "error"] /\ UNCHANGED file
       \/ /\ cache[Needed(t)] = "good" /\ file[t] < Len(Needs[t])
          /\ Step(t, "wait", "lookup")
          /\ file' = [file EXCEPT ![t] = @ + 1] /\ UNCHANGED outcome
       \/ /\ cache[Needed(t)] = "good" /\ file[t] = Len(Needs[t])
          /\ Step(t, "wait", "create") /\ UNCHANGED <<file, outcome>>
    /\ UNCHANGED <<opts, ctx, runCtx, dispatcher, next, sawFailure, infra, cache, held, reads,
                   stores, excused, late, shown, watchVars>>

(* How a call of the engine goes wrong: its own error or the test's         *)
(* timeout, a server that is gone (--watch has none: it runs one in the     *)
(* process), a cancelled run.                                              *)
Faults ==
    {"error"} \cup (IF opts.watch THEN {} ELSE {"unavailable"})
              \cup (IF runCtx THEN {"canceled"} ELSE {})

(* CreateStore: without an answer the server may have made the store.      *)
CreateStore(t) ==
    /\ \/ /\ Step(t, "create", "fill")
          /\ stores' = stores \cup {t} /\ UNCHANGED <<outcome, excused>>
       \/ \E fault \in Faults, made \in SUBSET {t} :
            /\ Step(t, "create", "finish")
            /\ outcome' = [outcome EXCEPT ![t] = fault]
            /\ stores' = stores \cup made /\ excused' = excused \cup made
    /\ UNCHANGED <<opts, ctx, runCtx, dispatcher, next, file, sawFailure, infra, cache, held,
                   reads, late, shown, watchVars>>

(* WriteAuthorizationModel and the chunks of tuples; whatever stops them,   *)
(* the deferred deletion follows.                                          *)
FillStore(t) ==
    /\ \/ Step(t, "fill", "assert") /\ UNCHANGED outcome
       \/ \E fault \in Faults :
            Step(t, "fill", "delete") /\ outcome' = [outcome EXCEPT ![t] = fault]
    /\ UNCHANGED <<opts, ctx, runCtx, dispatcher, next, file, sawFailure, infra, cache, held,
                   reads, stores, excused, late, shown, watchVars>>

(* evaluateAssertions, and with coverage the traces: one that is cut off    *)
(* counts as the test's own error.  A panic is an error too.               *)
Evaluate(t) ==
    /\ \E result \in {"pass", "fail"} \cup Faults :
         Step(t, "assert", "delete") /\ outcome' = [outcome EXCEPT ![t] = result]
    /\ UNCHANGED <<opts, ctx, runCtx, dispatcher, next, file, sawFailure, infra, cache, held,
                   reads, stores, excused, late, shown, watchVars>>

(* The deferred DeleteStore, outside the run's cancellation; its own        *)
(* failure is ignored.                                                     *)
DeleteStore(t) ==
    /\ Step(t, "delete", "finish")
    /\ \/ stores' = stores \ {t} /\ UNCHANGED excused
       \/ excused' = excused \cup {t} /\ UNCHANGED stores
    /\ UNCHANGED <<opts, ctx, runCtx, dispatcher, next, file, outcome, sawFailure, infra, cache,
                   held, reads, late, shown, watchVars>>

(* A lost server cancels the run, once; and the failure is recorded before  *)
(* the slot is released.                                                   *)
Finish(t) ==
    /\ Step(t, "finish", "release")
    /\ IF outcome[t] = "unavailable" /\ infra = None
       THEN infra' = t /\ runCtx' = TRUE
       ELSE UNCHANGED <<infra, runCtx>>
    /\ sawFailure' = (sawFailure \/ outcome[t] # "pass")
    /\ UNCHANGED <<opts, ctx, dispatcher, next, file, outcome, cache, held, reads,
                   stores, excused, late, shown, watchVars>>

Release(t) ==
    /\ Step(t, "release", "released")
    /\ UNCHANGED <<opts, ctx, runCtx, dispatcher, next, file, outcome, sawFailure, infra, cache,
                   held, reads, stores, excused, late, shown, watchVars>>

TestStep(t) ==
    \/ Lookup(t) \/ Read(t) \/ Loaded(t) \/ CreateStore(t) \/ FillStore(t)
    \/ Evaluate(t) \/ DeleteStore(t) \/ Finish(t) \/ Release(t)

-------------------------------------------------------------------------------
(* The end of the run.                                                     *)

MutantKind == IF infra # None THEN "network" ELSE "results"
Kind == CASE ctx -> "canceled"
          [] ~ctx /\ infra # None -> "network"
          [] OTHER -> "results"

Verdicts == [t \in Begun |-> IF outcome[t] = "pass" THEN "pass" ELSE "fail"]

(* What --coverage, when it is asked for, comes to.                        *)
Coverages == {None, "error", "incomplete", "low", "uncovered", "good"}

(* The exit code of the command, in the order testCmd looks at the results. *)
ExitCode(kind, coverage) ==
    CASE kind = "canceled" -> 130
      [] kind = "network" -> 4
      [] kind = "results" /\ \E t \in Begun : Verdicts[t] = "fail" -> 3
      [] OTHER -> CASE coverage = "error" -> 2
                    [] coverage = "incomplete" -> 1
                    [] coverage \in {"low", "uncovered"} -> 3
                    [] OTHER -> 0

Return ==
    /\ Dispatch("drain", "returned")
    /\ \A t \in Begun : at[t] = "released"
    /\ \E coverage \in Coverages :
         shown' = [kind |-> Kind,
                   tests |-> IF Kind = "results" THEN Verdicts ELSE <<>>,
                   exit |-> ExitCode(Kind, coverage), of |-> held]
    /\ phase' = IF opts.watch THEN "idle" ELSE phase
    /\ UNCHANGED <<opts, ctx, runCtx, next, at, file, outcome, sawFailure, infra, cache, held,
                   reads, stores, excused, late, ver, dir, event, timer, changed, edits>>

Interrupt ==
    /\ ~ctx /\ (opts.watch \/ dispatcher # "returned")
    /\ ctx' = TRUE /\ runCtx' = TRUE
    /\ UNCHANGED <<opts, runVars, shown, watchVars>>

-------------------------------------------------------------------------------
(* --watch.                                                                *)

(* A file is written.  The watcher sees it if it knows its directory.       *)
Edit(f) ==
    /\ opts.watch /\ edits < MaxEdits /\ edits' = edits + 1
    /\ f = Extra => dir # "none"
    /\ ver' = [ver EXCEPT ![f] = @ + 1]
    /\ event' = (event \/ (f = Extra => dir = "watched"))
    /\ UNCHANGED <<opts, ctx, runCtx, runVars, shown, dir, timer, changed, phase>>

(* A directory is made.  Its own event has none of the watched extensions; *)
(* alone says whether something else in the workspace changes with it.     *)
MakeDir(alone) ==
    /\ opts.watch /\ dir = "none" /\ dir' = "made"
    /\ edits < MaxEdits /\ edits' = edits + 1
    /\ alone => LoneDirs
    /\ IF alone THEN UNCHANGED <<ver, event>>
       ELSE ver' = [ver EXCEPT ![Workspace] = @ + 1] /\ event' = TRUE
    /\ UNCHANGED <<opts, ctx, runCtx, runVars, shown, timer, changed, phase>>

(* debounceEvents: an event sets the timer again, the timer leaves one      *)
(* signal in the channel.                                                  *)
Debounce ==
    /\ event /\ phase # "stopped" /\ event' = FALSE /\ timer' = TRUE
    /\ UNCHANGED <<opts, ctx, runCtx, runVars, shown, ver, dir, changed, phase, edits>>

MutantTimerFires ==
    /\ timer /\ phase # "stopped" /\ timer' = FALSE /\ changed' = (phase = "idle")
    /\ UNCHANGED <<opts, ctx, runCtx, runVars, shown, ver, dir, event, phase, edits>>
TimerFires ==
    /\ timer /\ phase # "stopped" /\ timer' = FALSE /\ changed' = TRUE
    /\ UNCHANGED <<opts, ctx, runCtx, runVars, shown, ver, dir, event, phase, edits>>

(* runWatch takes the signal, adds the directories it does not know, and    *)
(* runs the tests: the workspace is read, then a run starts from nothing.   *)
(* After Ctrl-C it may still take one: select looks at both channels.      *)
TakeChange ==
    /\ opts.watch /\ phase = "idle" /\ changed
    /\ changed' = FALSE /\ phase' = "add"
    /\ UNCHANGED <<opts, ctx, runCtx, runVars, shown, ver, dir, event, timer, edits>>

AddDirs ==
    /\ phase = "add" /\ phase' = "load"
    /\ dir' = IF dir = "made" THEN "watched" ELSE dir
    /\ UNCHANGED <<opts, ctx, runCtx, runVars, shown, ver, event, timer, changed, edits>>

WorkspaceRead == [f \in Watched |-> IF f \in Files THEN None ELSE ver[f]]

LoadWorkspace ==
    /\ phase = "load" /\ phase' = "run"
    /\ dispatcher' = Fresh.dispatcher /\ next' = Fresh.next /\ at' = Fresh.at
    /\ file' = Fresh.file /\ outcome' = Fresh.outcome /\ sawFailure' = FALSE /\ infra' = None
    /\ cache' = Fresh.cache /\ reads' = Fresh.reads /\ stores' = {} /\ excused' = {} /\ late' = 0
    /\ held' = WorkspaceRead
    /\ UNCHANGED <<opts, ctx, runCtx, shown, ver, dir, event, timer, changed, edits>>

(* An edit that broke the workspace, or an engine that does not start: the  *)
(* error is shown and the loop goes on.                                    *)
LoadFails ==
    /\ phase = "load" /\ phase' = "idle"
    /\ shown' = [NothingShown EXCEPT !.kind = "broken", !.of = WorkspaceRead]
    /\ UNCHANGED <<opts, ctx, runCtx, runVars, ver, dir, event, timer, changed, edits>>

StopWatch ==
    /\ opts.watch /\ phase = "idle" /\ ctx /\ phase' = "stopped"
    /\ UNCHANGED <<opts, ctx, runCtx, runVars, shown, ver, dir, event, timer, changed, edits>>

-------------------------------------------------------------------------------
RunStep ==
    \/ CheckStop \/ Acquire \/ Recheck \/ Launch \/ Return
    \/ \E t \in Tests : TestStep(t)

LoopStep == TakeChange \/ AddDirs \/ LoadWorkspace \/ LoadFails \/ StopWatch
WatchStep == Debounce \/ TimerFires \/ LoopStep

Next ==
    \/ RunStep \/ WatchStep \/ Interrupt
    \/ \E f \in Watched : Edit(f)
    \/ \E alone \in BOOLEAN : MakeDir(alone)

(* The goroutines are scheduled, the engine's calls return (the server      *)
(* answers, or --test-timeout ends the wait), timers fire.                 *)
Fairness ==
    /\ WF_vars(CheckStop \/ Acquire \/ Recheck \/ Launch \/ Return)
    /\ \A t \in Tests : WF_vars(TestStep(t))
    /\ WF_vars(Debounce) /\ WF_vars(TimerFires)
    /\ WF_vars(LoopStep)

Spec == Init /\ [][Next]_vars /\ Fairness

-------------------------------------------------------------------------------
(* Exit code 0 means that every matched test ran and passed: no early stop, *)
(* by --fail-fast, Ctrl-C or a lost server, ever looks like success        *)
(* (run.go:160, test_cmd.go:340).                                          *)
ZeroExitMeansGreen ==
    (dispatcher = "returned" /\ shown.exit = 0 /\ ~opts.watch) =>
        \A t \in 1 .. opts.tests : outcome[t] = "pass"

(* A failure that is reported is the test's own: never that a lost server   *)
(* or Ctrl-C cut it short (run.go:186).                                    *)
VerdictsAreReal ==
    (dispatcher = "returned" /\ shown.kind = "results") =>
        \A t \in DOMAIN shown.tests : outcome[t] \notin {"canceled", "unavailable"}

(* --fail-fast: at most the one test already past its checks is launched    *)
(* after a failure is recorded, and none when tests run one at a time: the  *)
(* failure is recorded before the slot is free, and looked at again once it *)
(* was acquired.                                                           *)
FailFastStops == late <= (IF opts.parallel = 1 THEN 0 ELSE 1)

(* When the run is over, no store is left on the server, but those of calls *)
(* that got no answer.                                                     *)
NoStoreLeft == dispatcher = "returned" => stores \subseteq excused

(* A run starts nothing after a failure that stops it, and leaves nothing.  *)
StopsAndCleansUp == FailFastStops /\ NoStoreLeft

(* A run reads each file once, however many tests need it: all its tests    *)
(* judge the same version (run.go:49).                                     *)
EachFileReadOnce == \A f \in Files : reads[f] <= 1

(* What a run reports is true of its tests: the exit code, each verdict,    *)
(* and that all of them are about one version of the files.                *)
ReportIsTrue == ZeroExitMeansGreen /\ VerdictsAreReal /\ EachFileReadOnce

(* A run ends, whatever its tests meet: nobody waits for a file whose       *)
(* reader failed, or for a slot never released.                            *)
RunEnds == (dispatcher = "check") ~> (dispatcher = "returned")

(* --watch: what is shown catches up with the files on disk, though they    *)
(* change while a run reads them or while a change is being debounced.     *)
EventuallyCurrent ==
    opts.watch => <>[](ctx \/ \A f \in Watched : shown.of[f] \in {None, ver[f]})

(* Runs end, and with --watch the last one is about the files on disk.      *)
RunsSettle == RunEnds /\ EventuallyCurrent
===============================================================================
