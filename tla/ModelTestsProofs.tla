---------------------------- MODULE ModelTestsProofs ----------------------------
(***************************************************************************)
(* What ModelTests promises, for every number of tests and files, every    *)
(* --parallel and any number of edits.  Neither property is inductive.     *)
(* The exit code tells the truth because a dispatcher that stopped early   *)
(* did so for a reason that is still there when the run returns            *)
(* (DispatchInv), and because a test leaves a trace of how it ended before *)
(* it releases its slot (CauseInv).  --fail-fast stops because a launch    *)
(* after a failure makes the next look at the failure the last (LateInv),  *)
(* and a store that must go belongs to a test that is still to delete it   *)
(* (StoreInv).                                                             *)
(***************************************************************************)
EXTENDS ModelTests, FiniteSetTheorems, TLAPS

Places == {"idle", "lookup", "read", "wait", "create", "fill", "assert", "delete", "finish",
           "release", "released"}
Outcomes == {"pass", "fail", "error", "unavailable", "canceled", None}

(* Types.                                                                  *)
FlagInv == \A flag \in {ctx, runCtx, sawFailure, event, timer, changed} : flag \in BOOLEAN
OptsInv == opts \in [watch : BOOLEAN, tests : Tests, parallel : 1 .. MaxParallel, failFast : BOOLEAN]
TestsInv ==
    /\ dispatcher \in {"check", "acquire", "recheck", "launch", "drain", "returned"}
    /\ next \in 1 .. (NTests + 1) /\ late \in Nat
    /\ at \in [Tests -> Places] /\ outcome \in [Tests -> Outcomes]
    /\ infra \in Tests \cup {None}
    /\ stores \subseteq Tests /\ excused \subseteq Tests
CacheInv ==
    /\ file \in [Tests -> Nat] /\ reads \in [Files -> Nat]
    /\ cache \in [Files -> {"none", "reading", "good", "bad"}]
WatchInv ==
    /\ held \in [Watched -> Nat \cup {None}] /\ ver \in [Watched -> Nat]
    /\ dir \in {"none", "made", "watched"} /\ edits \in 0 .. MaxEdits
    /\ phase \in {"load", "run", "idle", "add", "stopped"}
TypeInv == FlagInv /\ OptsInv /\ TestsInv /\ CacheInv /\ WatchInv

(* A run is under way or over; without --watch there is only one.          *)
Between == dispatcher = "returned"
PhaseInv == IF opts.watch THEN phase # "run" => Between ELSE phase = "run"

(* The tests before the next one have been launched, and a test that needs *)
(* a file knows which.                                                     *)
Over(t) == at[t] \in {"release", "released"}
AllOver == \A t \in Tests : t < next => at[t] = "released"
LaunchInv ==
    /\ \A t \in Tests : file[t] \in 1 .. Len(Needs[t])
    /\ \A t \in Tests : t < next <=> at[t] # "idle"

(* Why a test ended as it did, and what its end has told the run.          *)
CauseInv ==
    /\ \A t \in Tests : at[t] \in {"delete", "finish", "release", "released"} =>
          /\ outcome[t] = "canceled" => runCtx
          /\ outcome[t] = "unavailable" => ~opts.watch /\ (Over(t) => infra # None)
    /\ \A t \in Tests : Over(t) /\ outcome[t] # "pass" => sawFailure
    /\ sawFailure => \E t \in Tests : Over(t) /\ outcome[t] # "pass"
    /\ runCtx => ctx \/ infra # None
    /\ opts.watch => infra = None

(* The dispatcher stops at the last test, or for a reason that stays.      *)
DispatchInv ==
    /\ next <= opts.tests + 1
    /\ dispatcher \in {"acquire", "recheck", "launch"} => next <= opts.tests
    /\ dispatcher = "drain" => next > opts.tests \/ Stops
    /\ Between => AllOver

(* A launch after a failure is the last one; there is none at all if the   *)
(* slot was the only one.                                                  *)
LateInv ==
    /\ late <= 1
    /\ late > 0 => opts.failFast /\ sawFailure
    /\ dispatcher = "launch" => late = 0
    /\ opts.parallel = 1 =>
          /\ late = 0
          /\ dispatcher \in {"recheck", "launch"} => AllOver
          /\ dispatcher = "launch" => ~(opts.failFast /\ sawFailure)

(* A store that must go is of a test that will delete it.                  *)
StoreInv == \A t \in stores \ excused : at[t] \in {"fill", "assert", "delete"}

(* A file that was read is in the cache.                                   *)
ReadInv == \A f \in Files : reads[f] <= 1 /\ (cache[f] = "none" => reads[f] = 0)

IInv == TypeInv /\ PhaseInv /\ LaunchInv /\ CauseInv /\ DispatchInv /\ LateInv
        /\ StoreInv /\ ReadInv /\ ReportIsTrue

USE DEF Tests, Begun, Watched

(* What the proofs use of the constants.                                   *)
LEMMA Constants ==
    /\ NTests \in Nat /\ NTests > 0 /\ None \notin 1 .. NTests
    /\ MaxParallel \in Nat /\ MaxEdits \in Nat
    /\ \A t \in 1 .. NTests : Needs[t] \in Seq(Files) /\ Len(Needs[t]) > 0 /\ Len(Needs[t]) \in Nat
  <1>1. \A t \in 1 .. NTests : Needs[t] \in Seq(Files) /\ Len(Needs[t]) > 0
    BY ModelTestsAssumption DEF ModelTestsAssumption
  <1>2. \A t \in 1 .. NTests : Len(Needs[t]) \in Nat
    BY <1>1
  <1>3. NTests \in Nat /\ NTests > 0 /\ None \notin 1 .. NTests /\ MaxParallel \in Nat /\ MaxEdits \in Nat
    BY ModelTestsAssumption DEF ModelTestsAssumption
  <1> QED
    BY <1>1, <1>2, <1>3

(* A run that has not begun, or none yet with --watch.                      *)
LEMMA InitHolds == Init => IInv
  <1> SUFFICES ASSUME Init PROVE IInv
    OBVIOUS
  <1>1. OptsInv /\ TestsInv
    BY Constants, SMT DEF Init, OptsInv, TestsInv, Fresh, Places, Outcomes
  <1>2. CacheInv /\ WatchInv
    BY Constants, SMT DEF Init, CacheInv, WatchInv, Fresh
  <1>3. FlagInv
    BY Zenon DEF Init, FlagInv
  <1>4. PhaseInv /\ LaunchInv
    BY Constants, SMT DEF Init, Fresh, PhaseInv, Between, LaunchInv
  <1>5. CauseInv /\ StoreInv /\ ReadInv
    BY SMT DEF Init, Fresh, CauseInv, Over, StoreInv, ReadInv
  <1>6. DispatchInv /\ LateInv
    <2>1. opts.tests \in Nat /\ next = 1
      BY <1>1, Constants, SMT DEF OptsInv, Init, Fresh
    <2> QED
      BY <2>1, <1>1, SMT DEF Init, Fresh, AllOver, DispatchInv, LateInv, Between, Stops, OptsInv
  <1>7. ReportIsTrue
    BY SMT DEF Init, Fresh, ReportIsTrue, ZeroExitMeansGreen, VerdictsAreReal, EachFileReadOnce, NothingShown
  <1> QED
    BY <1>1, <1>2, <1>3, <1>4, <1>5, <1>6, <1>7 DEF IInv, TypeInv

(* The only slot is free when every test that was launched is over.         *)
LEMMA AcquiresAlone ==
    ASSUME next \in 1 .. (NTests + 1), Acquire, opts.parallel = 1, dispatcher' = "recheck"
    PROVE  AllOver
  <1>1. IsFiniteSet(Running)
    <2>1. IsFiniteSet(1 .. (next - 1))
      BY Constants, FS_Interval, SMT
    <2> QED
      BY <2>1, FS_Subset DEF Running
  <1>2. Used < 1 /\ dispatcher = "acquire"
    BY SMT DEF Acquire, Dispatch
  <1>3. Cardinality(Running) \in Nat
    BY <1>1, FS_CardinalityType
  <1>4. Cardinality(Running) = 0
    BY <1>2, <1>3, SMT DEF Used
  <1>5. Running = {}
    BY <1>1, <1>4, FS_EmptySet
  <1>6. SUFFICES ASSUME NEW t \in Tests, t < next, at[t] # "released" PROVE FALSE
    BY DEF AllOver
  <1>7. t \in Running
    BY <1>6, Constants, SMT DEF Running
  <1> QED
    BY <1>5, <1>7

(* The dispatcher's steps: a launch is of the next test, an idle one.       *)
LEMMA DispatcherHolds ==
    ASSUME IInv, CheckStop \/ Acquire \/ Recheck \/ Launch
    PROVE  IInv'
  <1> USE DEF IInv, TypeInv
  <1>0. /\ opts.tests \in 1 .. NTests /\ opts.parallel \in Nat /\ next \in 1 .. (NTests + 1) /\ NTests \in Nat
        /\ late \in Nat
    BY Constants, SMT DEF OptsInv, TestsInv
  <1>1. TestsInv'
    <2>1. CASE Launch
      <3>1. next + 1 \in 1 .. (NTests + 1) /\ next \in Tests
        BY <2>1, <1>0, SMT DEF Launch, Dispatch, DispatchInv
      <3>2. [at EXCEPT ![next] = "lookup"] \in [Tests -> Places]
        BY <3>1 DEF TestsInv, Places
      <3>3. late' \in Nat /\ dispatcher' = "check"
        BY <2>1, <1>0, SMT DEF Launch, Dispatch
      <3> QED
        BY <2>1, <3>1, <3>2, <3>3 DEF Launch, TestsInv
    <2>2. CASE CheckStop \/ Acquire \/ Recheck
      BY <2>2, Zenon DEF TestsInv, CheckStop, Acquire, Recheck, Dispatch
    <2> QED
      BY <2>1, <2>2
  <1>2. PhaseInv'
    BY SMT DEF PhaseInv, Between, CheckStop, Acquire, Recheck, Launch, Dispatch, watchVars
  <1>3. LaunchInv'
    BY <1>0, SMT DEF TestsInv, LaunchInv, CheckStop, Acquire, Recheck, Launch, Dispatch
  <1>4. CauseInv'
    <2>1. CASE Launch
      BY <2>1, <1>0, SMT DEF TestsInv, LaunchInv, CauseInv, Over, Launch, Dispatch
    <2> QED
      BY <2>1, SMT DEF CauseInv, Over, CheckStop, Acquire, Recheck, Dispatch
  <1>10. StoreInv'
    <2>1. CASE Launch
      <3>1. next \in Tests /\ at[next] = "idle"
        BY <2>1, <1>0, SMT DEF Launch, Dispatch, DispatchInv, LaunchInv
      <3>2. at' = [at EXCEPT ![next] = "lookup"] /\ at \in [Tests -> Places]
        BY <2>1 DEF Launch, TestsInv
      <3>3. stores' = stores /\ excused' = excused /\ stores \subseteq Tests
        BY <2>1 DEF Launch, TestsInv
      <3>4. SUFFICES ASSUME NEW t \in stores \ excused PROVE at'[t] \in {"fill", "assert", "delete"}
        BY <3>3 DEF StoreInv
      <3>5. at[t] \in {"fill", "assert", "delete"} /\ t # next /\ t \in Tests
        BY <3>1, <3>3 DEF StoreInv
      <3> QED
        BY <3>2, <3>5
    <2>2. CASE CheckStop \/ Acquire \/ Recheck
      <3>1. at' = at /\ stores' = stores /\ excused' = excused
        BY <2>2 DEF CheckStop, Acquire, Recheck
      <3> QED
        BY <3>1 DEF StoreInv
    <2> QED
      BY <2>1, <2>2
  <1>5. ReadInv' /\ CacheInv' /\ WatchInv' /\ OptsInv'
    BY DEF ReadInv, CacheInv, WatchInv, OptsInv, CheckStop, Acquire, Recheck, Launch, Dispatch, watchVars
  <1>6. DispatchInv'
    <2>1. CASE CheckStop \/ Acquire \/ Recheck
      BY <2>1, <1>0, SMT DEF DispatchInv, Between, Stops, CheckStop, Acquire, Recheck, Dispatch
    <2>2. CASE Launch
      BY <2>2, <1>0, SMT DEF DispatchInv, Between, Stops, Launch, Dispatch
    <2> QED
      BY <2>1, <2>2
  <1>7. LateInv'
    <2>1. CASE CheckStop
      BY <2>1, SMT DEF LateInv, CheckStop, Dispatch
    <2>2. CASE Acquire
      BY <2>2, <1>0, AcquiresAlone, SMT DEF LateInv, Acquire, Dispatch, AllOver
    <2>3. CASE Recheck
      BY <2>3, <1>0, SMT DEF LateInv, Recheck, Dispatch, AllOver, Stops
    <2>4. CASE Launch
      BY <2>4, <1>0, SMT DEF LateInv, Launch, Dispatch
    <2> QED
      BY <2>1, <2>2, <2>3, <2>4
  <1>8. ReportIsTrue'
    BY SMT DEF ReportIsTrue, ZeroExitMeansGreen, VerdictsAreReal, EachFileReadOnce,
       CheckStop, Acquire, Recheck, Launch, Dispatch
  <1>9. FlagInv'
    BY Zenon DEF FlagInv, CheckStop, Acquire, Recheck, Launch, Dispatch, watchVars
  <1> QED
    BY <1>1, <1>2, <1>3, <1>4, <1>5, <1>6, <1>7, <1>8, <1>9, <1>10

(* A step of a test moves it on, and touches nothing of the others.        *)
LEMMA TestMoves ==
    ASSUME TestsInv, NEW t \in Tests, TestStep(t)
    PROVE  /\ at' \in [Tests -> Places] /\ outcome' \in [Tests -> Outcomes]
           /\ at[t] # "idle" /\ at[t] # "released" /\ at'[t] # "idle"
           /\ \A u \in Tests : u # t => at'[u] = at[u] /\ outcome'[u] = outcome[u]
           /\ UNCHANGED <<opts, ctx, dispatcher, next, late, shown, watchVars>>
  <1> USE DEF TestStep, Step
  <1>1. at \in [Tests -> Places] /\ outcome \in [Tests -> Outcomes]
    BY DEF TestsInv
  <1>2. PICK to \in Places \ {"idle"} : at' = [at EXCEPT ![t] = to]
    BY SMT DEF Places, Lookup, Read, Loaded, CreateStore, FillStore, Evaluate, DeleteStore, Finish, Release
  <1>3. outcome' = outcome \/ \E what \in Outcomes : outcome' = [outcome EXCEPT ![t] = what]
    <2>1. Faults \subseteq Outcomes /\ "error" \in Outcomes /\ "pass" \in Outcomes /\ "fail" \in Outcomes
      BY DEF Faults, Outcomes
    <2> QED
      BY <2>1, SMT DEF Lookup, Read, Loaded, CreateStore, FillStore, Evaluate, DeleteStore, Finish, Release
  <1>4. at[t] # "idle" /\ at[t] # "released" /\ UNCHANGED <<opts, ctx, dispatcher, next, late, shown, watchVars>>
    BY SMT DEF Lookup, Read, Loaded, CreateStore, FillStore, Evaluate, DeleteStore, Finish, Release
  <1>5. at' \in [Tests -> Places] /\ at'[t] # "idle" /\ \A u \in Tests : u # t => at'[u] = at[u]
    BY <1>1, <1>2
  <1>6. outcome' \in [Tests -> Outcomes] /\ \A u \in Tests : u # t => outcome'[u] = outcome[u]
    BY <1>1, <1>3
  <1> QED
    BY <1>4, <1>5, <1>6

(* What each step says of its test and of the run.                         *)
Loads(t) ==
    /\ at[t] \in {"lookup", "read", "wait"}
    /\ \/ at'[t] \in {"read", "wait", "lookup", "create"}
       \/ at'[t] = "finish" /\ outcome'[t] = "error"
    /\ UNCHANGED <<runCtx, sawFailure, infra, stores, excused>>
Creates(t) ==
    /\ at[t] = "create" /\ at'[t] = "fill"
    /\ stores' = stores \cup {t}
    /\ UNCHANGED <<runCtx, sawFailure, infra, excused>>
CannotCreate(t) ==
    /\ at[t] = "create" /\ at'[t] = "finish" /\ outcome'[t] \in Faults
    /\ \/ UNCHANGED <<stores, excused>>
       \/ stores' = stores \cup {t} /\ excused' = excused \cup {t}
    /\ UNCHANGED <<runCtx, sawFailure, infra>>
Fills(t) ==
    /\ at[t] = "fill" /\ at'[t] = "assert"
    /\ UNCHANGED <<runCtx, sawFailure, infra, stores, excused>>
Judges(t) ==
    /\ at[t] \in {"fill", "assert"} /\ at'[t] = "delete"
    /\ outcome'[t] \in {"pass", "fail"} \cup Faults
    /\ UNCHANGED <<runCtx, sawFailure, infra, stores, excused>>
Deletes(t) ==
    /\ at[t] = "delete" /\ at'[t] = "finish" /\ outcome'[t] = outcome[t]
    /\ \/ stores' = stores \ {t} /\ excused' = excused
       \/ stores' = stores /\ excused' = excused \cup {t}
    /\ UNCHANGED <<runCtx, sawFailure, infra>>
Finishes(t) ==
    /\ at[t] = "finish" /\ at'[t] = "release" /\ outcome' = outcome
    /\ IF outcome[t] = "unavailable" /\ infra = None
       THEN infra' = t /\ runCtx' = TRUE
       ELSE UNCHANGED <<infra, runCtx>>
    /\ sawFailure' = (sawFailure \/ outcome[t] # "pass")
    /\ UNCHANGED <<stores, excused>>
Releases(t) ==
    /\ at[t] = "release" /\ at'[t] = "released" /\ outcome' = outcome
    /\ UNCHANGED <<runCtx, sawFailure, infra, stores, excused>>

(* Every step of a test is one of these.                                   *)
LEMMA TestEffect ==
    ASSUME TestsInv, NEW t \in Tests, TestStep(t)
    PROVE  \/ Loads(t) \/ Creates(t) \/ CannotCreate(t) \/ Fills(t)
           \/ Judges(t) \/ Deletes(t) \/ Finishes(t) \/ Releases(t)
  <1>1. at \in [Tests -> Places] /\ outcome \in [Tests -> Outcomes]
    BY DEF TestsInv
  <1> USE <1>1 DEF Step
  <1>2. CASE Lookup(t)
    <2>1. at[t] = "lookup" /\ \E to \in {"wait", "read"} : at' = [at EXCEPT ![t] = to]
      BY <1>2, Zenon DEF Lookup
    <2>2. at'[t] \in {"wait", "read"}
      BY <2>1
    <2> QED
      BY <1>2, <2>1, <2>2 DEF Lookup, Loads
  <1>3. CASE Read(t)
    BY <1>3, SMT DEF Read, Loads
  <1>4. CASE Loaded(t)
    <2>1. /\ at[t] = "wait"
          /\ \/ \E to \in {"lookup", "create"} : at' = [at EXCEPT ![t] = to]
             \/ at' = [at EXCEPT ![t] = "finish"] /\ outcome' = [outcome EXCEPT ![t] = "error"]
      BY <1>4, Zenon DEF Loaded
    <2>2. at'[t] \in {"lookup", "create"} \/ (at'[t] = "finish" /\ outcome'[t] = "error")
      BY <2>1
    <2> QED
      BY <1>4, <2>1, <2>2 DEF Loaded, Loads
  <1>5. CASE CreateStore(t)
    <2>1. CASE at' = [at EXCEPT ![t] = "fill"] /\ stores' = stores \cup {t} /\ UNCHANGED <<outcome, excused>>
      BY <1>5, <2>1, SMT DEF CreateStore, Creates
    <2>2. ASSUME NEW fault \in Faults, NEW made \in SUBSET {t}, at' = [at EXCEPT ![t] = "finish"],
                 outcome' = [outcome EXCEPT ![t] = fault],
                 stores' = stores \cup made, excused' = excused \cup made
          PROVE  CannotCreate(t)
      <3>1. made = {} \/ made = {t}
        OBVIOUS
      <3> QED
        BY <1>5, <2>2, <3>1 DEF CreateStore, CannotCreate
    <2> QED
      BY <1>5, <2>1, <2>2 DEF CreateStore
  <1>6. CASE FillStore(t)
    <2>1. /\ at[t] = "fill"
          /\ \/ at' = [at EXCEPT ![t] = "assert"]
             \/ /\ at' = [at EXCEPT ![t] = "delete"]
                /\ \E fault \in Faults : outcome' = [outcome EXCEPT ![t] = fault]
      BY <1>6, Zenon DEF FillStore
    <2>2. at'[t] = "assert" \/ (at'[t] = "delete" /\ outcome'[t] \in Faults)
      BY <2>1
    <2> QED
      BY <1>6, <2>1, <2>2 DEF FillStore, Fills, Judges
  <1>7. CASE Evaluate(t)
    BY <1>7, SMT DEF Evaluate, Judges
  <1>8. CASE DeleteStore(t)
    BY <1>8, SMT DEF DeleteStore, Deletes
  <1>9. CASE Finish(t)
    BY <1>9, SMT DEF Finish, Finishes
  <1>10. CASE Release(t)
    BY <1>10, SMT DEF Release, Releases
  <1> QED
    BY <1>2, <1>3, <1>4, <1>5, <1>6, <1>7, <1>8, <1>9, <1>10 DEF TestStep

(* A test's steps.  None is possible when all tests are over, so that what *)
(* a run that returned has reported stays true.                            *)
LEMMA TestHolds ==
    ASSUME IInv, NEW t \in Tests, TestStep(t)
    PROVE  IInv'
  <1> USE DEF IInv, TypeInv
  <1> DEFINE others == \A u \in Tests : u # t => at'[u] = at[u] /\ outcome'[u] = outcome[u]
  <1>1. /\ at' \in [Tests -> Places] /\ outcome' \in [Tests -> Outcomes] /\ others
        /\ at[t] # "idle" /\ at[t] # "released" /\ at'[t] # "idle"
        /\ UNCHANGED <<opts, ctx, dispatcher, next, late, shown, watchVars>>
    BY TestMoves, Zenon
  <1>12. Loads(t) \/ Creates(t) \/ CannotCreate(t) \/ Fills(t) \/ Judges(t) \/ Deletes(t) \/ Finishes(t) \/ Releases(t)
    BY TestEffect, Zenon
  <1>14. Finishes(t) \/ (runCtx' = runCtx /\ sawFailure' = sawFailure /\ infra' = infra)
    BY <1>12, Zenon DEF Loads, Creates, CannotCreate, Fills, Judges, Deletes, Releases
  <1>15. stores' \ {t} = stores \ {t} /\ excused' \ {t} = excused \ {t}
    <2>1. CASE Loads(t) \/ Creates(t) \/ Fills(t) \/ Judges(t) \/ Finishes(t) \/ Releases(t)
      BY <2>1, Zenon DEF Loads, Creates, Fills, Judges, Finishes, Releases
    <2>2. CASE CannotCreate(t)
      BY <2>2 DEF CannotCreate
    <2>3. CASE Deletes(t)
      BY <2>3 DEF Deletes
    <2> QED
      BY <1>12, <2>1, <2>2, <2>3
  <1>16. (runCtx => runCtx') /\ (sawFailure => sawFailure') /\ (infra # None => infra' # None)
    <2>1. CASE Finishes(t)
      BY <2>1, Constants, Zenon DEF Finishes
    <2> QED
      BY <1>14, <2>1
  <1>13. StoreInv'
    <2> SUFFICES ASSUME NEW u \in stores' \ excused' PROVE at'[u] \in {"fill", "assert", "delete"}
      BY DEF StoreInv
    <2>1. CASE u = t
      BY <2>1, <1>12, SMT DEF StoreInv, TestsInv, Loads, Creates, CannotCreate, Fills, Judges, Deletes, Finishes, Releases
    <2>2. CASE u # t
      <3>1. u \in stores \ excused /\ u \in Tests
        BY <2>2, <1>15 DEF TestsInv
      <3> QED
        BY <3>1, <2>2, <1>1 DEF StoreInv
    <2> QED
      BY <2>1, <2>2
  <1>2. CauseInv'
    <2>2. \A u \in Tests : at'[u] \in {"delete", "finish", "release", "released"} =>
             /\ outcome'[u] = "canceled" => runCtx'
             /\ outcome'[u] = "unavailable" => ~opts.watch /\ (Over(u)' => infra' # None)
      <3> SUFFICES ASSUME NEW u \in Tests, at'[u] \in {"delete", "finish", "release", "released"}
                   PROVE  /\ outcome'[u] = "canceled" => runCtx'
                          /\ outcome'[u] = "unavailable" => ~opts.watch /\ (Over(u)' => infra' # None)
        OBVIOUS
      <3>1. CASE u # t
        BY <3>1, <1>16, <1>1 DEF CauseInv, Over
      <3>2. CASE u = t
        <4>1. CASE Loads(t) \/ Creates(t) \/ Fills(t)
          BY <4>1, <3>2, SMT DEF Loads, Creates, Fills, Over
        <4>2. CASE CannotCreate(t) \/ Judges(t)
          BY <4>2, <3>2, SMT DEF CannotCreate, Judges, Faults, Over
        <4>3. CASE Deletes(t) \/ Releases(t)
          BY <4>3, <3>2, SMT DEF Deletes, Releases, CauseInv, Over
        <4>4. CASE Finishes(t)
          BY <4>4, <3>2, Constants, SMT DEF Finishes, CauseInv, Over
        <4> QED
          BY <1>12, <4>1, <4>2, <4>3, <4>4
      <3> QED
        BY <3>1, <3>2
    <2>3. \A u \in Tests : Over(u)' /\ outcome'[u] # "pass" => sawFailure'
      <3> SUFFICES ASSUME NEW u \in Tests, Over(u)', outcome'[u] # "pass" PROVE sawFailure'
        OBVIOUS
      <3>1. CASE u # t
        BY <3>1, <1>16, <1>1 DEF CauseInv, Over
      <3>2. CASE u = t
        <4>1. CASE Finishes(t)
          BY <4>1, <3>2, Zenon DEF Finishes
        <4>2. CASE Releases(t)
          BY <4>2, <3>2, SMT DEF Releases, CauseInv, Over
        <4>3. CASE Loads(t) \/ Creates(t) \/ CannotCreate(t) \/ Fills(t) \/ Judges(t) \/ Deletes(t)
          BY <4>3, <3>2, SMT DEF Over, Loads, Creates, CannotCreate, Fills, Judges, Deletes
        <4> QED
          BY <1>12, <4>1, <4>2, <4>3
      <3> QED
        BY <3>1, <3>2
    <2>4. sawFailure' => \E u \in Tests : Over(u)' /\ outcome'[u] # "pass"
      <3>1. CASE sawFailure
        <4>1. PICK u \in Tests : Over(u) /\ outcome[u] # "pass"
          BY <3>1 DEF CauseInv
        <4>2. Over(u)' /\ outcome'[u] # "pass"
          <5>1. CASE u # t
            BY <5>1, <4>1, <1>1 DEF Over
          <5>2. CASE u = t
            BY <5>2, <4>1, <1>12, SMT DEF Over, Loads, Creates, CannotCreate, Fills, Judges, Deletes, Finishes, Releases
          <5> QED
            BY <5>1, <5>2
        <4> QED
          BY <4>2
      <3>2. CASE ~sawFailure
        <4>1. CASE Finishes(t)
          <5>1. Over(t)' /\ (sawFailure' => outcome'[t] # "pass")
            BY <4>1, <3>2 DEF Finishes, Over
          <5> QED
            BY <5>1
        <4> QED
          BY <1>14, <3>2, <4>1
      <3> QED
        BY <3>1, <3>2
    <2>5. runCtx' => ctx' \/ infra' # None
      <3>1. CASE Finishes(t)
        BY <3>1, <1>1, Constants, Zenon DEF Finishes, CauseInv
      <3> QED
        BY <1>1, <1>14, <3>1, Zenon DEF CauseInv
    <2>6. opts.watch => infra' = None
      <3>1. CASE Finishes(t)
        BY <3>1, Zenon DEF Finishes, CauseInv
      <3> QED
        BY <1>14, <3>1, Zenon DEF CauseInv
    <2> QED
      BY <2>2, <2>3, <2>4, <2>5, <2>6, <1>1 DEF CauseInv
  <1>3. TestsInv'
    <2>1. infra' \in Tests \cup {None} /\ stores' \subseteq Tests /\ excused' \subseteq Tests
      <3>1. infra' \in Tests \cup {None}
        BY <1>14, Zenon DEF TestsInv, Finishes
      <3>2. stores \subseteq Tests /\ excused \subseteq Tests
        BY DEF TestsInv
      <3> QED
        BY <3>1, <3>2, <1>15
    <2> QED
      BY <1>1, <2>1 DEF TestsInv
  <1>4. file[t] \in 1 .. Len(Needs[t]) /\ Len(Needs[t]) \in Nat /\ Needed(t) \in Files
    <2>1. file[t] \in 1 .. Len(Needs[t]) /\ Needs[t] \in Seq(Files) /\ Len(Needs[t]) \in Nat
      BY Constants DEF LaunchInv
    <2> QED
      BY <2>1, SMT DEF Needed
  <1>5. CacheInv' /\ ReadInv'
    <2> USE DEF CacheInv, ReadInv
    <2>1. CASE Lookup(t)
      BY <2>1, <1>4, SMT DEF Lookup
    <2>2. CASE Read(t)
      BY <2>2, <1>4, SMT DEF Read
    <2>3. CASE Loaded(t)
      BY <2>3, <1>4, SMT DEF Loaded
    <2>4. CASE ~Lookup(t) /\ ~Read(t) /\ ~Loaded(t)
      <3>1. file' = file /\ cache' = cache /\ reads' = reads
        BY <2>4, Zenon DEF TestStep, CreateStore, FillStore, Evaluate, DeleteStore, Finish, Release
      <3> QED
        BY <3>1
    <2> QED
      BY <2>1, <2>2, <2>3, <2>4
  <1>6. LaunchInv'
    <2>1. file' = file \/ (file[t] < Len(Needs[t]) /\ file' = [file EXCEPT ![t] = @ + 1])
      BY Zenon DEF TestStep, Lookup, Read, Loaded, CreateStore, FillStore, Evaluate, DeleteStore, Finish, Release
    <2>2. \A u \in Tests : file'[u] \in 1 .. Len(Needs[u])
      <3>1. CASE file' = file
        BY <3>1 DEF LaunchInv
      <3>2. CASE file[t] < Len(Needs[t]) /\ file' = [file EXCEPT ![t] = @ + 1]
        <4> SUFFICES ASSUME NEW u \in Tests PROVE file'[u] \in 1 .. Len(Needs[u])
          OBVIOUS
        <4>1. CASE u = t
          BY <4>1, <3>2, <1>4, SMT DEF CacheInv
        <4>2. CASE u # t
          BY <4>2, <3>2 DEF CacheInv, LaunchInv
        <4> QED
          BY <4>1, <4>2
      <3> QED
        BY <2>1, <3>1, <3>2
    <2>3. \A u \in Tests : u < next' <=> at'[u] # "idle"
      BY <1>1, SMT DEF LaunchInv
    <2> QED
      BY <2>2, <2>3 DEF LaunchInv
  <1>7. WatchInv' /\ OptsInv' /\ PhaseInv'
    <2>1. held' \in [Watched -> Nat \cup {None}]
      <3>1. CASE Read(t)
        BY <3>1, <1>4, SMT DEF Read, WatchInv
      <3>2. CASE ~Read(t)
        <4>1. held' = held
          BY <3>2, Zenon DEF TestStep, Lookup, Loaded, CreateStore, FillStore, Evaluate, DeleteStore, Finish, Release
        <4> QED
          BY <4>1 DEF WatchInv
      <3> QED
        BY <3>1, <3>2
    <2>2. UNCHANGED <<ver, dir, edits, phase, opts, dispatcher>>
      BY <1>1 DEF watchVars
    <2> QED
      BY <2>1, <2>2, Zenon DEF WatchInv, OptsInv, PhaseInv, Between
  <1>8. /\ Stops => Stops'
        /\ ~AllOver
        /\ sawFailure => sawFailure'
    <2>1. ~AllOver
      BY <1>1, SMT DEF AllOver, LaunchInv
    <2>2. (Stops => Stops') /\ (sawFailure => sawFailure')
      BY <1>1, <1>16, Zenon DEF Stops
    <2> QED
      BY <2>1, <2>2
  <1>9. DispatchInv' /\ LateInv'
    BY <1>1, <1>8, SMT DEF DispatchInv, Between, LateInv
  <1>10. ReportIsTrue'
    <2>1. dispatcher # "returned"
      BY <1>8 DEF DispatchInv, Between
    <2> QED
      BY <2>1, <1>1, <1>5, SMT DEF ReportIsTrue, ZeroExitMeansGreen, VerdictsAreReal, EachFileReadOnce, ReadInv
  <1>11. FlagInv'
    BY Zenon DEF FlagInv, Lookup, Read, Loaded, CreateStore, FillStore, Evaluate, DeleteStore, Finish,
       Release, watchVars, TestStep
  <1> QED
    BY <1>2, <1>3, <1>5, <1>6, <1>7, <1>9, <1>10, <1>11, <1>13

(* The report: no failure, no lost server and no Ctrl-C leave only the end *)
(* of the tests as the reason why the dispatcher stopped.                  *)
LEMMA ReturnHolds == IInv /\ Return => IInv'
  <1> SUFFICES ASSUME IInv, Return PROVE IInv'
    OBVIOUS
  <1> USE DEF IInv, TypeInv
  <1>1. /\ dispatcher = "drain" /\ dispatcher' = "returned"
        /\ opts' = opts /\ ctx' = ctx /\ runCtx' = runCtx /\ next' = next /\ at' = at /\ file' = file
        /\ outcome' = outcome /\ sawFailure' = sawFailure /\ infra' = infra /\ cache' = cache
        /\ held' = held /\ reads' = reads /\ stores' = stores /\ excused' = excused /\ late' = late
        /\ ver' = ver /\ dir' = dir /\ event' = event /\ timer' = timer /\ changed' = changed /\ edits' = edits
    BY Zenon DEF Return, Dispatch
  <1>2. AllOver /\ next \in 1 .. (NTests + 1) /\ opts.tests \in 1 .. NTests
    BY Constants, SMT DEF Return, AllOver, TestsInv, OptsInv
  <1>3. TestsInv' /\ OptsInv' /\ CacheInv' /\ FlagInv'
    BY <1>1, Zenon DEF TestsInv, OptsInv, CacheInv, FlagInv
  <1>4. WatchInv' /\ PhaseInv'
    <2>1. phase' = IF opts.watch THEN "idle" ELSE phase
      BY DEF Return
    <2> QED
      BY <2>1, <1>1, SMT DEF WatchInv, PhaseInv, Between
  <1>5. LaunchInv' /\ StoreInv' /\ ReadInv' /\ CauseInv'
    BY <1>1 DEF LaunchInv, StoreInv, ReadInv, CauseInv, Over
  <1>6. DispatchInv' /\ LateInv'
    <2>1. AllOver'
      BY <1>1, <1>2 DEF AllOver
    <2> QED
      BY <2>1, <1>1, SMT DEF DispatchInv, LateInv, Between
  <1>7. ReportIsTrue'
    <2> DEFINE green == \A t \in Begun : outcome[t] = "pass"
    <2>1. PICK coverage \in Coverages :
             shown' = [kind |-> Kind, tests |-> IF Kind = "results" THEN Verdicts ELSE <<>>,
                       exit |-> ExitCode(Kind, coverage), of |-> held]
      BY DEF Return
    <2>2. shown'.kind = Kind /\ shown'.exit = ExitCode(Kind, coverage)
          /\ (Kind = "results" => shown'.tests = Verdicts)
      BY <2>1
    <2>3. Kind = "results" => ~ctx /\ infra = None
      BY DEF Kind
    <2>4. Kind = "results" => ~Stops \/ (sawFailure /\ ~runCtx)
      BY <2>3, Zenon DEF Stops, CauseInv
    <2>5. ZeroExitMeansGreen'
      <3> SUFFICES ASSUME shown'.exit = 0, NEW t \in 1 .. opts.tests PROVE outcome[t] = "pass"
        BY <1>1 DEF ZeroExitMeansGreen
      <3>1. Kind = "results" /\ \A u \in Begun : Verdicts[u] # "fail"
        BY <2>2, SMT DEF ExitCode, Kind
      <3>2. \A u \in Begun : outcome[u] = "pass"
        BY <3>1, SMT DEF Verdicts
      <3>3. \A u \in Tests : Over(u) => u \in Begun
        BY <1>2, Constants, SMT DEF LaunchInv, Over
      <3>4. ~sawFailure
        BY <3>2, <3>3 DEF CauseInv
      <3>5. next > opts.tests
        BY <1>1, <3>1, <3>4, <2>4 DEF DispatchInv, Stops
      <3>6. t \in Begun
        BY <3>5, <1>2, Constants, SMT
      <3> QED
        BY <3>2, <3>6
    <2>6. VerdictsAreReal'
      <3> SUFFICES ASSUME Kind = "results", NEW t \in DOMAIN Verdicts
                   PROVE  outcome[t] \notin {"canceled", "unavailable"}
        BY <1>1, <2>2 DEF VerdictsAreReal
      <3>1. t \in Tests /\ at[t] = "released"
        BY <1>2, Constants, SMT DEF Verdicts, AllOver
      <3>2. ~runCtx /\ infra = None
        BY <2>3, Zenon DEF CauseInv
      <3> QED
        BY <3>1, <3>2 DEF CauseInv, Over
    <2> QED
      BY <2>5, <2>6, <1>5, <1>1, Zenon DEF ReportIsTrue, EachFileReadOnce, ReadInv
  <1> QED
    BY <1>3, <1>4, <1>5, <1>6, <1>7

(* Ctrl-C is one more reason to stop.                                      *)
LEMMA InterruptHolds == IInv /\ Interrupt => IInv'
  <1> SUFFICES ASSUME IInv, Interrupt PROVE IInv'
    OBVIOUS
  <1> USE DEF IInv, TypeInv
  <1>1. /\ ctx' = TRUE /\ runCtx' = TRUE /\ opts' = opts /\ dispatcher' = dispatcher /\ next' = next /\ at' = at
        /\ file' = file /\ outcome' = outcome /\ sawFailure' = sawFailure /\ infra' = infra /\ cache' = cache
        /\ held' = held /\ reads' = reads /\ stores' = stores /\ excused' = excused /\ late' = late
        /\ ver' = ver /\ dir' = dir /\ event' = event /\ timer' = timer /\ changed' = changed
        /\ phase' = phase /\ edits' = edits /\ shown' = shown
    BY Zenon DEF Interrupt, runVars, watchVars
  <1>2. FlagInv' /\ OptsInv' /\ TestsInv' /\ CacheInv' /\ WatchInv'
    BY <1>1, Zenon DEF FlagInv, OptsInv, TestsInv, CacheInv, WatchInv
  <1>3. PhaseInv' /\ LaunchInv' /\ LateInv' /\ StoreInv' /\ ReadInv' /\ ReportIsTrue'
    BY <1>1, Zenon DEF PhaseInv, Between, LaunchInv, LateInv, AllOver, StoreInv, ReadInv, ReportIsTrue, ZeroExitMeansGreen,
       VerdictsAreReal, EachFileReadOnce
  <1>4. CauseInv' /\ DispatchInv'
    BY <1>1, SMT DEF CauseInv, Over, DispatchInv, Between, AllOver, Stops
  <1> QED
    BY <1>2, <1>3, <1>4

(* The watcher's steps leave the run alone.                                *)
Watches ==
    \/ Debounce \/ TimerFires \/ TakeChange \/ AddDirs \/ LoadFails \/ StopWatch
    \/ \E f \in Watched : Edit(f)
    \/ \E alone \in BOOLEAN : MakeDir(alone)

(* The watcher cannot disturb a run.                                       *)
LEMMA WatchHolds == IInv /\ Watches => IInv'
  <1> SUFFICES ASSUME IInv, Watches PROVE IInv'
    OBVIOUS
  <1> USE DEF IInv, TypeInv
  <1>1. UNCHANGED <<opts, ctx, runCtx, runVars>>
    BY Zenon DEF Watches, Debounce, TimerFires, TakeChange, AddDirs, LoadFails, StopWatch, Edit, MakeDir
  <1>2. /\ opts' = opts /\ ctx' = ctx /\ runCtx' = runCtx /\ dispatcher' = dispatcher /\ next' = next /\ at' = at
        /\ file' = file /\ outcome' = outcome /\ sawFailure' = sawFailure /\ infra' = infra /\ cache' = cache
        /\ held' = held /\ reads' = reads /\ stores' = stores /\ excused' = excused /\ late' = late
    BY <1>1 DEF runVars
  <1>3. OptsInv' /\ TestsInv' /\ CacheInv'
    BY <1>2, Zenon DEF OptsInv, TestsInv, CacheInv
  <1>4. LaunchInv' /\ CauseInv' /\ DispatchInv' /\ LateInv' /\ StoreInv' /\ ReadInv'
    BY <1>2, Zenon DEF LaunchInv, CauseInv, Over, DispatchInv, Between, Stops, LateInv, AllOver, StoreInv, ReadInv
  <1>5. FlagInv'
    BY <1>2, Zenon DEF FlagInv, Watches, Debounce, TimerFires, TakeChange, AddDirs, LoadFails, StopWatch, Edit, MakeDir
  <1>6. WatchInv'
    <2>1. CASE \E f \in Watched : Edit(f)
      <3>1. PICK f \in Watched : Edit(f)
        BY <2>1
      <3>2. edits' \in 0 .. MaxEdits
        BY <3>1, Constants, SMT DEF Edit, WatchInv
      <3>3. ver' \in [Watched -> Nat]
        <4>1. ver \in [Watched -> Nat] /\ ver' = [ver EXCEPT ![f] = @ + 1] /\ ver[f] + 1 \in Nat
          BY <3>1 DEF Edit, WatchInv
        <4> QED
          BY <4>1
      <3> QED
        BY <3>1, <3>2, <3>3, <1>2 DEF WatchInv, Edit
    <2>2. CASE \E alone \in BOOLEAN : MakeDir(alone)
      <3>1. PICK alone \in BOOLEAN : MakeDir(alone)
        BY <2>2
      <3>2. edits' \in 0 .. MaxEdits /\ dir' = "made"
        BY <3>1, Constants, SMT DEF MakeDir, WatchInv
      <3>3. ver' \in [Watched -> Nat]
        <4>1. ver \in [Watched -> Nat] /\ ver[Workspace] + 1 \in Nat
          BY DEF WatchInv
        <4>2. ver' = ver \/ ver' = [ver EXCEPT ![Workspace] = @ + 1]
          BY <3>1, Zenon DEF MakeDir
        <4> QED
          BY <4>1, <4>2
      <3> QED
        BY <3>1, <3>2, <3>3, <1>2 DEF WatchInv, MakeDir
    <2>3. CASE Debounce \/ TimerFires \/ TakeChange \/ AddDirs \/ LoadFails \/ StopWatch
      BY <2>3, <1>2, SMT DEF WatchInv, Debounce, TimerFires, TakeChange, AddDirs, LoadFails, StopWatch
    <2> QED
      BY <2>1, <2>2, <2>3 DEF Watches
  <1>7. PhaseInv'
    <2>1. phase' = phase \/ (phase # "run" /\ phase' # "run")
      BY SMT DEF Watches, Debounce, TimerFires, TakeChange, AddDirs, LoadFails, StopWatch, Edit, MakeDir
    <2>2. ~opts.watch => phase' = phase
      BY SMT DEF Watches, Debounce, TimerFires, TakeChange, AddDirs, LoadFails, StopWatch, Edit, MakeDir, PhaseInv
    <2> QED
      BY <2>1, <2>2, <1>2, SMT DEF PhaseInv, Between
  <1>8. ReportIsTrue'
    <2>1. CASE LoadFails
      <3>1. shown' = [NothingShown EXCEPT !.kind = "broken", !.of = WorkspaceRead]
        BY <2>1 DEF LoadFails
      <3>2. shown'.kind = "broken" /\ opts.watch
        BY <2>1, <3>1 DEF NothingShown, LoadFails, PhaseInv
      <3> QED
        BY <3>2, <1>2, SMT DEF ReportIsTrue, ZeroExitMeansGreen, VerdictsAreReal, EachFileReadOnce
    <2>2. CASE ~LoadFails
      <3>1. shown' = shown
        BY <2>2, Zenon DEF Watches, Debounce, TimerFires, TakeChange, AddDirs, StopWatch, Edit, MakeDir
      <3> QED
        BY <3>1, <1>2, Zenon DEF ReportIsTrue, ZeroExitMeansGreen, VerdictsAreReal, EachFileReadOnce
    <2> QED
      BY <2>1, <2>2
  <1> QED
    BY <1>3, <1>4, <1>5, <1>6, <1>7, <1>8

(* With --watch a new run starts from nothing, but for a Ctrl-C.           *)
LEMMA LoadHolds == IInv /\ LoadWorkspace => IInv'
  <1> SUFFICES ASSUME IInv, LoadWorkspace PROVE IInv'
    OBVIOUS
  <1> USE DEF IInv, TypeInv
  <1>1. /\ dispatcher' = "check" /\ next' = 1 /\ at' = [t \in Tests |-> "idle"] /\ file' = [t \in Tests |-> 1]
        /\ outcome' = [t \in Tests |-> None] /\ sawFailure' = FALSE /\ infra' = None
        /\ cache' = [f \in Files |-> "none"] /\ reads' = [f \in Files |-> 0] /\ stores' = {} /\ excused' = {}
        /\ late' = 0 /\ phase = "load" /\ phase' = "run" /\ held' = WorkspaceRead
        /\ opts' = opts /\ ctx' = ctx /\ runCtx' = runCtx /\ shown' = shown /\ ver' = ver /\ dir' = dir
        /\ event' = event /\ timer' = timer /\ changed' = changed /\ edits' = edits
    BY SMT DEF LoadWorkspace, Fresh
  <1>2. opts.watch /\ Between /\ opts.tests \in 1 .. NTests
    BY <1>1 DEF PhaseInv, OptsInv
  <1>3. FlagInv' /\ OptsInv'
    BY <1>1, Zenon DEF FlagInv, OptsInv
  <1>4. TestsInv' /\ CacheInv'
    BY <1>1, Constants, SMT DEF TestsInv, CacheInv, Places, Outcomes
  <1>5. WatchInv'
    <2>1. held' \in [Watched -> Nat \cup {None}]
      BY <1>1 DEF WorkspaceRead, WatchInv
    <2> QED
      BY <2>1, <1>1, Zenon DEF WatchInv
  <1>6. PhaseInv' /\ LaunchInv' /\ StoreInv' /\ ReadInv'
    BY <1>1, <1>2, Constants, SMT DEF PhaseInv, Between, LaunchInv, StoreInv, ReadInv
  <1>7. runCtx => ctx
    BY <1>2 DEF CauseInv
  <1>8. CauseInv'
    BY <1>1, <1>7, SMT DEF CauseInv, Over
  <1>9. DispatchInv' /\ LateInv'
    BY <1>1, <1>2, Constants, SMT DEF DispatchInv, Between, LateInv, AllOver
  <1>10. ReportIsTrue'
    BY <1>1, <1>2, SMT DEF ReportIsTrue, ZeroExitMeansGreen, VerdictsAreReal, EachFileReadOnce
  <1> QED
    BY <1>3, <1>4, <1>5, <1>6, <1>8, <1>9, <1>10

(* Every step keeps the invariant.                                         *)
LEMMA NextHolds == IInv /\ [Next]_vars => IInv'
  <1> SUFFICES ASSUME IInv, [Next]_vars PROVE IInv'
    OBVIOUS
  <1>1. CASE UNCHANGED vars
    <2>1. /\ dispatcher' = dispatcher /\ next' = next /\ at' = at
          /\ outcome' = outcome /\ sawFailure' = sawFailure /\ infra' = infra /\ cache' = cache
          /\ held' = held /\ reads' = reads /\ stores' = stores /\ excused' = excused /\ late' = late
          /\ opts' = opts /\ ctx' = ctx /\ runCtx' = runCtx /\ file' = file
      BY <1>1, Zenon DEF vars, runVars
    <2>2. /\ shown' = shown /\ ver' = ver /\ dir' = dir /\ event' = event /\ timer' = timer
          /\ changed' = changed /\ phase' = phase /\ edits' = edits
      BY <1>1, Zenon DEF vars, watchVars
    <2>3. TypeInv'
      BY <2>1, <2>2, Zenon DEF IInv, TypeInv, FlagInv, OptsInv, TestsInv, CacheInv, WatchInv
    <2>4. LaunchInv' /\ CauseInv' /\ DispatchInv' /\ LateInv' /\ StoreInv' /\ ReadInv'
      BY <2>1, Zenon DEF IInv, LaunchInv, CauseInv, Over, DispatchInv, Between, Stops, AllOver,
         LateInv, StoreInv, ReadInv
    <2>5. PhaseInv' /\ ReportIsTrue'
      BY <2>1, <2>2, SMT DEF IInv, PhaseInv, Between, ReportIsTrue, ZeroExitMeansGreen, VerdictsAreReal,
         EachFileReadOnce
    <2> QED
      BY <2>3, <2>4, <2>5 DEF IInv
  <1>2. CASE CheckStop \/ Acquire \/ Recheck \/ Launch
    BY <1>2, DispatcherHolds
  <1>3. CASE \E t \in Tests : TestStep(t)
    BY <1>3, TestHolds
  <1>4. CASE Return
    BY <1>4, ReturnHolds
  <1>5. CASE Interrupt
    BY <1>5, InterruptHolds
  <1>6. CASE Watches
    BY <1>6, WatchHolds
  <1>7. CASE LoadWorkspace
    BY <1>7, LoadHolds
  <1> QED
    BY <1>1, <1>2, <1>3, <1>4, <1>5, <1>6, <1>7, Zenon DEF Next, RunStep, WatchStep, LoopStep, Watches

(* Every variable keeps its type.                                          *)
THEOREM TestRunsTypeCorrect == Spec => []TypeInv
  <1>1. Spec => []IInv
    BY InitHolds, NextHolds, PTL DEF Spec
  <1>2. IInv => TypeInv
    BY DEF IInv
  <1> QED
    BY <1>1, <1>2, PTL

(* What a test run reports is true, in every interleaving of its tests,    *)
(* the dispatcher, Ctrl-C and the watcher: exit code 0 means that every    *)
(* matched test passed, a reported verdict is no cut-off test's, and all   *)
(* tests saw the same version of each file.                                *)
THEOREM ReportIsAlwaysTrue == Spec => []ReportIsTrue
  <1>1. Spec => []IInv
    BY InitHolds, NextHolds, PTL DEF Spec
  <1>2. IInv => ReportIsTrue
    BY DEF IInv
  <1> QED
    BY <1>1, <1>2, PTL

(* With --fail-fast at most one test is launched after a failure, none if  *)
(* tests run one at a time, for every --parallel; and a run that is over   *)
(* has deleted every store whose calls were answered.                      *)
THEOREM RunsStopAndCleanUp == Spec => []StopsAndCleansUp
  <1>1. Spec => []IInv
    BY InitHolds, NextHolds, PTL DEF Spec
  <1>2. IInv => StopsAndCleansUp
    <2> SUFFICES ASSUME IInv PROVE StopsAndCleansUp
      OBVIOUS
    <2>1. FailFastStops
      BY SMT DEF IInv, TypeInv, TestsInv, LateInv, FailFastStops
    <2>2. ASSUME dispatcher = "returned", NEW t \in stores, t \notin excused PROVE FALSE
      <3>1. t \in Tests /\ at[t] \in {"fill", "assert", "delete"}
        BY <2>2 DEF IInv, TypeInv, TestsInv, StoreInv
      <3>2. t < next
        BY <3>1 DEF IInv, LaunchInv
      <3>3. at[t] = "released"
        BY <3>1, <3>2, <2>2 DEF IInv, DispatchInv, Between, AllOver
      <3> QED
        BY <3>1, <3>3
    <2> QED
      BY <2>1, <2>2 DEF StopsAndCleansUp, NoStoreLeft
  <1> QED
    BY <1>1, <1>2, PTL
=================================================================================
