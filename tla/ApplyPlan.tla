------------------------------ MODULE ApplyPlan ------------------------------
(***************************************************************************)
(* `ofga mappings apply': every event is planned first, one after the      *)
(* other, against the store as the events before it will leave it; then    *)
(* exactly that plan is written, one request per event where the server    *)
(* allows it; a run that fails is resumed with --from-event                *)
(* (internal/mapping/plan.go, execute.go, internal/command/mapping/apply.go,*)
(* store.go).                                                              *)
(*                                                                         *)
(* A key is a user, relation and object; its value is the condition and    *)
(* context of the tuple, or Absent.  External: what mapper makes of an     *)
(* event (the filter its rules read, the tuples it wants, those it deletes *)
(* unread) and how it reconciles them, and the server, which takes a       *)
(* request as a whole, ignores what is already so, and refuses a write     *)
(* whose tuple is stored with another condition.                           *)
(***************************************************************************)
EXTENDS Naturals, Sequences, FiniteSets, SequencesExt

CONSTANTS
    Keys,          \* tuple keys
    Conds,         \* conditions a tuple may carry
    Absent,        \* no tuple
    Untouched,     \* no change planned for a key
    EventSet,      \* what an event may ask for
    NumEvents,     \* events in the file
    MaxPerWrite,   \* maxChangesPerWrite
    Replay,        \* TRUE if the user may also re-run the whole file
    MaxFaults      \* bound: failures

ASSUME PlanAssumption ==
    /\ Absent \notin Conds /\ Untouched \notin Conds \cup {Absent}
    /\ EventSet \subseteq [filter : SUBSET Keys, want : [Keys -> Conds \cup {Absent}],
                           drop : SUBSET Keys]
    /\ IsFiniteSet(Keys)
    /\ NumEvents \in Nat \ {0} /\ MaxPerWrite \in Nat \ {0} /\ MaxFaults \in Nat
    /\ Replay \in BOOLEAN

(* Rules do not contradict each other: an event that keeps a tuple through  *)
(* a filter does not delete it unread as well.  Of two rules that do, what  *)
(* mapper makes depends on what the store holds, and alternates when the    *)
(* event is sent again.                                                     *)
ASSUME RulesAgree == \A ev \in EventSet : \A k \in ev.filter \cap ev.drop : ev.want[k] = Absent

States == [Keys -> Conds \cup {Absent}]

VARIABLES
    events,   \* the events file
    store,    \* the tuples of the store
    origin,   \* history: the store before the first run
    pc,       \* "plan", "apply", "done", "failed" or "refused"
    from,     \* --from-event
    at,       \* the event being planned, or being applied
    cache,    \* recorder.cache: what each filter read
    planned,  \* recorder.planned: the last change planned for each key
    written,  \* trackWrites: the writes planned and not deleted since
    plan,     \* Plan.Events: the changes of each event planned
    reqs,     \* requests of the event being applied, still to be sent
    mixed,    \* history: an event was sent as several requests, or the file re-run
    faults

applyVars == <<events, store, origin, pc, from, at, cache, planned, written, plan, reqs, mixed, faults>>

NoPlan == [k \in Keys |-> Untouched]
Nothing == [k \in {} |-> Absent]

(* What every run starts with, given its --from-event.                     *)
Begin(n) ==
    /\ from' = n /\ at' = n /\ pc' = "plan"
    /\ cache' = Nothing /\ planned' = NoPlan /\ written' = NoPlan
    /\ plan' = <<>> /\ reqs' = <<>>

ApplyInit ==
    /\ events \in [1..NumEvents -> EventSet]
    /\ store \in States /\ origin = store
    /\ pc = "plan" /\ from = 1 /\ at = 1
    /\ cache = Nothing /\ planned = NoPlan /\ written = NoPlan
    /\ plan = <<>> /\ reqs = <<>>
    /\ mixed = FALSE /\ faults = 0

Fault == faults < MaxFaults /\ faults' = faults + 1

-------------------------------------------------------------------------------
(* Planning.                                                               *)

(* recorder.ReadTuples: the store as it was when the filter was first read, *)
(* under the changes planned since.                                         *)
Base(f) == IF f \in DOMAIN cache THEN cache[f] ELSE store
MutantNoOverlay(f) == [k \in f |-> Base(f)[k]]
View(f) == [k \in f |-> IF planned[k] = Untouched THEN Base(f)[k] ELSE planned[k]]

(* mapper's reconciliation.  What a filter covers becomes what the event    *)
(* wants; other tuples are written and deleted unread.                      *)
Deletes(ev, view) ==
    ev.drop \cup {k \in ev.filter : view[k] \notin {Absent, ev.want[k]}}
Writes(ev, view) ==
    {k \in Keys : ev.want[k] # Absent /\ (k \in ev.filter => view[k] # ev.want[k])}

(* deletesFirst and EventPlan.Atomic: one request if it is small enough and *)
(* no tuple is both deleted and written.                                    *)
Atomic(d, w) == d \cap w = {} /\ Cardinality(d) + Cardinality(w) <= MaxPerWrite

(* trackWrites: the event writes a tuple that an earlier one wrote with     *)
(* another condition, with no delete in between.                            *)
MutantForgets(ev, d, w) == \E k \in w : written[k] \notin {Untouched, ev.want[k]}
Conflicts(ev, d, w) == \E k \in w \ d : written[k] \notin {Untouched, ev.want[k]}

PlanEvent ==
    /\ pc = "plan" /\ at <= NumEvents
    /\ LET ev == events[at]
           view == View(ev.filter)
           d == Deletes(ev, view)
           w == Writes(ev, view)
       IN  /\ cache' = [f \in DOMAIN cache \cup ({ev.filter} \ {{}}) |-> Base(f)]
           /\ IF Conflicts(ev, d, w)
                THEN /\ pc' = "refused"
                     /\ UNCHANGED <<at, planned, written, plan>>
                ELSE /\ planned' = [k \in Keys |-> IF k \in w THEN ev.want[k]
                                                   ELSE IF k \in d THEN Absent ELSE planned[k]]
                     /\ written' = [k \in Keys |-> IF k \in w THEN ev.want[k]
                                                   ELSE IF k \in d THEN Untouched ELSE written[k]]
                     /\ plan' = Append(plan, [del |-> d, put |-> [k \in w |-> ev.want[k]],
                                              atomic |-> Atomic(d, w)])
                     /\ at' = at + 1
                     /\ UNCHANGED pc
    /\ UNCHANGED <<events, store, origin, from, reqs, faults, mixed>>

(* A read failed: the whole plan does.                                      *)
PlanFault ==
    /\ pc = "plan" /\ at <= NumEvents
    /\ events[at].filter \notin DOMAIN cache \cup {{}}
    /\ Fault
    /\ pc' = "failed" /\ at' = from
    /\ UNCHANGED <<events, store, origin, from, cache, planned, written, plan, reqs, mixed>>

(* The plan is shown; one that changes nothing ends the run.                *)
ChangesNothing == \A i \in 1..Len(plan) : plan[i].del = {} /\ DOMAIN plan[i].put = {}

Confirm ==
    /\ pc = "plan" /\ at > NumEvents
    /\ pc' = IF ChangesNothing THEN "done" ELSE "apply"
    /\ at' = IF ChangesNothing THEN at ELSE from
    /\ UNCHANGED <<events, store, origin, from, cache, planned, written, plan, reqs, faults, mixed>>

-------------------------------------------------------------------------------
(* Execute.                                                                 *)

(* A request: the keys it deletes and the tuples it writes.                 *)
Request(d, put) == [del |-> d, put |-> put]

Chunks(S) ==
    LET q == SetToSeq(S)
        n == (Len(q) + MaxPerWrite - 1) \div MaxPerWrite
    IN  [i \in 1..n |-> {q[j] : j \in {x \in 1..Len(q) : (x - 1) \div MaxPerWrite = i - 1}}]

(* applyEvent: one request, or the deletes in chunks and then the writes.   *)
Requests(ep) ==
    LET del(S) == Request(S, Nothing)
        put(S) == Request({}, [k \in S |-> ep.put[k]])
        ds == Chunks(ep.del)
        ws == Chunks(DOMAIN ep.put)
    IN  IF ep.atomic THEN <<Request(ep.del, ep.put)>>
        ELSE [i \in 1..Len(ds) |-> del(ds[i])] \o [i \in 1..Len(ws) |-> put(ws[i])]

Position(n) == n - from + 1

(* The next event's turn; one that changes nothing sends nothing.           *)
NextEvent ==
    /\ pc = "apply" /\ reqs = <<>> /\ at <= NumEvents
    /\ LET ep == plan[Position(at)]
       IN  IF ep.del = {} /\ DOMAIN ep.put = {}
             THEN /\ at' = at + 1
                  /\ UNCHANGED <<reqs, mixed>>
             ELSE /\ reqs' = Requests(ep)
                  /\ mixed' = (mixed \/ Len(Requests(ep)) > 1)
                  /\ UNCHANGED at
    /\ UNCHANGED <<events, store, origin, pc, from, cache, planned, written, plan, faults>>

(* The server.                                                              *)
Accepts(r) == /\ r.del \cap DOMAIN r.put = {}
              /\ \A k \in DOMAIN r.put : store[k] \in {Absent, r.put[k]}
After(s, r) == [k \in Keys |-> IF k \in DOMAIN r.put THEN r.put[k]
                               ELSE IF k \in r.del THEN Absent ELSE s[k]]

Send ==
    /\ pc = "apply" /\ reqs # <<>>
    /\ IF Accepts(Head(reqs))
         THEN /\ store' = After(store, Head(reqs))
              /\ reqs' = Tail(reqs)
              /\ at' = IF Len(reqs) = 1 THEN at + 1 ELSE at
              /\ UNCHANGED pc
         ELSE /\ pc' = "failed"
              /\ UNCHANGED <<store, reqs, at>>
    /\ UNCHANGED <<events, origin, from, cache, planned, written, plan, faults, mixed>>

(* The request failed or was cancelled; its answer may be all that is lost. *)
SendFault ==
    /\ pc = "apply" /\ reqs # <<>>
    /\ Fault
    /\ store' \in {store} \cup (IF Accepts(Head(reqs)) THEN {After(store, Head(reqs))} ELSE {})
    /\ pc' = "failed"
    /\ UNCHANGED <<events, origin, from, at, cache, planned, written, plan, reqs, mixed>>

Finish ==
    /\ pc = "apply" /\ reqs = <<>> /\ at > NumEvents
    /\ pc' = "done"
    /\ UNCHANGED <<events, store, origin, from, at, cache, planned, written, plan, reqs, faults, mixed>>

(* The user resumes at the event that did not finish, as the failure says,  *)
(* or re-runs the whole file.                                               *)
ResumeAt == at
Resume ==
    /\ pc = "failed" /\ ResumeAt <= NumEvents
    /\ \/ Begin(ResumeAt) /\ UNCHANGED mixed
       \/ Replay /\ Begin(1) /\ mixed' = (mixed \/ at > 1)
    /\ UNCHANGED <<events, store, origin, faults>>

ApplyNext == PlanEvent \/ PlanFault \/ Confirm \/ NextEvent \/ Send \/ SendFault \/ Finish \/ Resume

ApplySpec == ApplyInit /\ [][ApplyNext]_applyVars

-------------------------------------------------------------------------------
(* The reference: each event changes the store itself, before the next one  *)
(* is looked at.                                                            *)
Applied(s, ev) == [k \in Keys |->
    IF ev.want[k] # Absent THEN ev.want[k]
    ELSE IF k \in ev.filter \cup ev.drop THEN Absent ELSE s[k]]
Sequential[n \in 0..NumEvents] ==
    IF n = 0 THEN origin ELSE Applied(Sequential[n - 1], events[n])

-------------------------------------------------------------------------------
(* Properties.                                                              *)

ApplyTypeOK ==
    /\ events \in [1..NumEvents -> EventSet]
    /\ store \in States /\ origin \in States
    /\ pc \in {"plan", "apply", "done", "failed", "refused"}
    /\ from \in 1..NumEvents /\ at \in 1..NumEvents + 1
    /\ DOMAIN cache \subseteq SUBSET Keys /\ \A f \in DOMAIN cache : cache[f] \in States
    /\ {planned, written} \subseteq [Keys -> Conds \cup {Absent, Untouched}]
    /\ Len(plan) <= NumEvents - from + 1
    /\ mixed \in BOOLEAN
    /\ faults \in 0..MaxFaults

(* A run that succeeds leaves the store as if every event had been applied  *)
(* on its own, in order, from the start, although all were planned before   *)
(* any was written, and whatever failures and resumed runs came before.     *)
SuccessIsSequential == pc = "done" => store = Sequential[NumEvents]

(* As long as every event fitted in one request and failed runs were        *)
(* resumed, not re-run, the store is at each moment what some number of     *)
(* whole events makes of it, also after a failure and in a resumed run.     *)
WholeEvents == ~mixed => \E n \in 0..NumEvents : store = Sequential[n]

(* The store follows the events, at the end of a run and on the way.        *)
StoreFollowsEvents == SuccessIsSequential /\ WholeEvents

(* No request holds more changes than the server takes, or deletes and      *)
(* writes the same tuple, which it refuses on every attempt.                *)
RequestsAcceptable ==
    \A i \in 1..Len(reqs) :
        /\ reqs[i].del \cap DOMAIN reqs[i].put = {}
        /\ Cardinality(reqs[i].del) + Cardinality(DOMAIN reqs[i].put) <= MaxPerWrite

(* A plan is refused only if its write would really be: at that event the   *)
(* store holds the tuple with another condition, so no run could succeed.   *)
RefusedOnlyIfDoomed ==
    pc = "refused" =>
        \E k \in Keys : /\ events[at].want[k] # Absent
                        /\ k \notin events[at].drop
                        /\ Sequential[at - 1][k] \notin {Absent, events[at].want[k]}

(* What is refused had to be: a plan only for a conflict no order of       *)
(* requests avoids, and the server never for how a request was built.      *)
RefusalsAreReal == RefusedOnlyIfDoomed /\ RequestsAcceptable
==============================================================================
