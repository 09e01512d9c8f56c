------------------------------ MODULE Playground ------------------------------
(***************************************************************************)
(* The terminal interface of `ofga` (internal/command/playground): one     *)
(* event loop whose handlers start requests that run concurrently and come *)
(* back as messages in any order, while the user goes on selecting         *)
(* profiles, stores and models (update.go, model.go, update_forms.go,      *)
(* section_keys.go, commands.go).                                          *)
(*                                                                         *)
(* A generation counter is not a number here: a read whose generation has  *)
(* been superseded leaves `requests` for the count `late`, because all     *)
(* that its completion still does is to free its place under the spinner;  *)
(* a mutation keeps the flag `current`, because the server still has to    *)
(* process it.  Not followed: resolution trees and runs of assertions; and  *)
(* what Workbench has: the lists of stores and models, the optimizer, and  *)
(* stores that are created and deleted.  External: the OpenFGA server of each profile.                  *)
(***************************************************************************)
EXTENDS Naturals, FiniteSets

CONSTANTS
    Profiles,     \* profiles of the configuration, each with its own server
    Stores,       \* store ids; two servers may use the same one
    Start,        \* the profile that the program starts on
    None,         \* the empty id, no data, no filter
    NoAnswer,     \* a request that the server has not answered
    Filters,      \* filters of the tuples section
    Servers,      \* the contents the servers may start with
    Pins,         \* the store and model ids the profiles may start with
    MaxModels,    \* bound: models of a store
    MaxKeys,      \* bound: commands of the user
    MaxFaults     \* bound: failed requests and failed saves of the profile

Model(p, s, n) == [profile |-> p, store |-> s, n |-> n]
Models == [profile : Profiles, store : Stores, n : 1..MaxModels]

(* What a server stores of a store, what a pane shows, what a server says,  *)
(* and what a profile records.                                              *)
Dbs == [models : 0..MaxModels, tuples : SUBSET Nat, asserts : [1..MaxModels -> SUBSET Nat]]
Data == [profile : Profiles, store : Stores, seen : SUBSET Nat]
Results == [profile : Profiles, store : Stores, model : Models \cup {None}]
Answers == [is : {"ok", "absent", "refused", "lost"}, model : Models \cup {None}, seen : SUBSET Nat]
Selections == [store : Stores \cup {None}, model : Models \cup {None}]

(* The id of a model is given by the server that stores it: one that is     *)
(* pinned exists, or never will.                                            *)
ASSUME PlaygroundAssumption ==
    /\ Start \in Profiles
    /\ {MaxModels, MaxKeys, MaxFaults} \subseteq Nat
    /\ None \notin Stores \cup Models /\ None \notin Data /\ None \notin Results
    /\ NoAnswer \notin Answers
    /\ Servers \subseteq [Profiles -> [Stores -> Dbs]]
    /\ Pins \subseteq [Profiles -> Selections]
    /\ \A given \in Pins : given[Start].store \in Stores
    /\ \A given \in Pins, stored \in Servers, p \in Profiles :
          LET pinned == given[p].model
          IN  pinned # None /\ pinned.profile = p /\ pinned.store = given[p].store
                 => pinned.n <= stored[p][pinned.store].models

VARIABLES
    m,        \* the Model of the event loop
    requests, \* the requests in flight that are not superseded reads
    late,     \* the superseded reads that have not come back
    server,   \* external: what each server stores
    pins,     \* cli.Config: the store and model of each profile
    accepted, \* history: the tuple writes reported to the user
    failed,   \* history: the reads whose last completion was an error
    retries,  \* history: the pins dropped since the last command
    keys, faults, saveFaults

vars == <<m, requests, late, server, pins, accepted, failed, retries, keys, faults, saveFaults>>

Kinds == {"model", "tuples", "changes", "assertions", "query"}

--------------------------------------------------------------------------------
(* Requests.  Mutations carry their origin; reads carry what they were      *)
(* asked for.  `rows` is the assertion list that a write replaces.          *)

Request(kind, m_, model) ==
    [kind |-> kind, profile |-> m_.profile, store |-> m_.storeID, model |-> model,
     filter |-> IF kind = "tuples" THEN m_.wanted ELSE None,
     id |-> 0, rows |-> {}, current |-> TRUE, answer |-> NoAnswer]

Mutation(kind, model, id, rows) ==
    [Request(kind, m, model) EXCEPT !.id = id, !.rows = rows]

(* Bumping the generation of some kinds of reads, and of some mutations.    *)
Bumped(kinds, R) == {r \in R : r.kind \notin kinds}
Disowned(mutations, R) ==
    {IF r.kind \in mutations THEN [r EXCEPT !.current = FALSE] ELSE r : r \in R}
Mutations == {"write", "apply", "assert"}
Superseded(R) == Disowned(Mutations, Bumped(Kinds, R))

(* `kept` are the requests of `before` that are still wanted; the others    *)
(* come back late.                                                          *)
Dispatch(before, kept, new) ==
    /\ requests' = kept \cup new
    /\ late' = late + Cardinality(before) - Cardinality(kept)

--------------------------------------------------------------------------------
(* The Model's helpers.                                                     *)

BeginLoad(m_, n) == [m_ EXCEPT !.pendingLoads = @ + n]
EndLoad(m_) == [m_ EXCEPT !.pendingLoads = IF @ > 0 THEN @ - 1 ELSE 0]

ClearResourcePending(m_) ==
    [m_ EXCEPT !.modelApplying = FALSE, !.tupleMutating = FALSE,
               !.assertionsWriting = FALSE, !.assertions = None,
               !.assertModelID = None, !.result = None]

(* The reads that selecting a store or reconnecting starts.                 *)
FirstModel(m_) == Request("model", m_, m_.modelID)
StoreReads(m_) ==
    {FirstModel(m_)} \cup {Request(k, m_, None) : k \in {"tuples", "changes"}}
        \cup {Request("assertions", m_, m_.modelID)}

(* Recording ids on the active profile: nothing to do, saved, or failed and *)
(* rolled back.                                                             *)
Persist(p, pin) ==
    \/ /\ pins' = [pins EXCEPT ![p] = pin]
       /\ UNCHANGED <<faults, saveFaults>>
    \/ /\ pins[p] # pin
       /\ faults < MaxFaults
       /\ faults' = faults + 1
       /\ saveFaults' = saveFaults + 1
       /\ UNCHANGED pins

StaleStore(r) == r.store # m.storeID
StaleModelKnown(model) == m.modelID # None /\ model # None /\ model # m.modelID
StaleMutation(r) ==
    \/ ~r.current
    \/ r.profile # m.profile
    \/ StaleStore(r)
    \/ StaleModelKnown(r.model)

--------------------------------------------------------------------------------
(* Commands of the user.                                                    *)

Key ==
    /\ keys < MaxKeys
    /\ keys' = keys + 1
    /\ retries' = 0
    /\ UNCHANGED <<server, accepted>>

Quiet == UNCHANGED <<pins, faults, saveFaults>>

(* Selecting a store cancels and supersedes every read of the old one, the  *)
(* new selection's included when the user comes back to it.                 *)
Selected(m_, s) ==
    [ClearResourcePending(m_) EXCEPT
        !.storeID = s, !.modelID = None, !.tuples = None, !.changes = None,
        !.applied = None, !.wanted = None]

SelectStore(s) ==
    /\ Key
    /\ m' = BeginLoad(Selected(m, s), 4)
    /\ Persist(m.profile, [store |-> s, model |-> None])
    /\ Dispatch(requests, Superseded(requests), StoreReads(Selected(m, s)))
    /\ failed' = {}

(* Reconnecting: the tag of the assertions is the one field of the old      *)
(* connection that stays.                                                   *)
Activated(m_, p) ==
    [m_ EXCEPT
        !.profile = p, !.storeID = pins[p].store, !.modelID = pins[p].model,
        !.tuples = None, !.changes = None, !.assertions = None, !.result = None,
        !.applied = None, !.wanted = None,
        !.modelApplying = FALSE, !.tupleMutating = FALSE, !.assertionsWriting = FALSE]

SwitchProfile(p) ==
    /\ Key
    /\ p # m.profile
    /\ LET on == Activated(m, p)
           kept == Superseded(requests)
       IN  IF on.storeID = None
           THEN m' = on /\ Dispatch(requests, kept, {})
           ELSE /\ m' = BeginLoad(on, 4)
                /\ Dispatch(requests, kept, StoreReads(on))
    /\ failed' = {}
    /\ Quiet

(* A read that one command starts: its own generation is bumped first.      *)
Read(kind, model, m_) ==
    /\ m.storeID # None
    /\ m' = BeginLoad(m_, 1)
    /\ Dispatch(requests, Bumped({kind}, requests), {Request(kind, m_, model)})
    /\ Quiet

ReloadModel ==
    /\ Key
    /\ Read("model", None, m)
    /\ failed' = failed

(* The picker lists the store's models.  Only the mutations are disowned    *)
(* with the old model: the reads of the store go on.                        *)
PickKept(R) == Disowned(Mutations, Bumped({"model"}, R))

PickModel(n) ==
    /\ Key
    /\ m.storeID # None
    /\ n \in 1..server[m.profile][m.storeID].models
    /\ m' = BeginLoad(ClearResourcePending(m), 1)
    /\ Dispatch(requests, PickKept(requests),
                {Request("model", m, Model(m.profile, m.storeID, n))})
    /\ failed' = failed
    /\ Quiet


ReloadTuples ==
    /\ Key
    /\ Read("tuples", None, m)
    /\ failed' = failed

SubmitFilter(f) ==
    /\ Key
    /\ Read("tuples", None, [m EXCEPT !.wanted = f])
    /\ failed' = failed

ReloadChanges ==
    /\ Key
    /\ Read("changes", None, m)
    /\ failed' = failed

ReloadAssertions ==
    /\ Key
    /\ Read("assertions", m.modelID, m)
    /\ failed' = failed

RunQuery ==
    /\ Key
    /\ Read("query", m.modelID, m)
    /\ failed' = failed

(* Mutations: one at a time of each kind, remembered by a flag.             *)
StartMutation(flag, r) ==
    /\ m' = [BeginLoad(m, 1) EXCEPT ![flag] = TRUE]
    /\ Dispatch(requests, Disowned({r.kind}, requests), {r})
    /\ failed' = failed
    /\ Quiet

WriteTuple ==
    /\ Key
    /\ m.storeID # None
    /\ ~m.tupleMutating
    /\ StartMutation("tupleMutating", Mutation("write", m.modelID, keys + 1, {}))

Applies(p, s) == {r \in requests : r.kind = "apply" /\ r.profile = p /\ r.store = s
                                     /\ r.answer = NoAnswer}

ApplyModel ==
    /\ Key
    /\ m.storeID # None
    /\ ~m.modelApplying
    /\ server[m.profile][m.storeID].models
         + Cardinality(Applies(m.profile, m.storeID)) < MaxModels
    /\ StartMutation("modelApplying", Mutation("apply", m.modelID, keys + 1, {}))

(* The form's assertion is appended to the list on screen and the whole     *)
(* list is written back.                                                    *)
ShownAssertions == IF m.assertions = None THEN {} ELSE m.assertions.seen

AddAssertion ==
    /\ Key
    /\ m.storeID # None
    /\ ~m.assertionsWriting
    /\ StartMutation("assertionsWriting",
              Mutation("assert", m.assertModelID, keys + 1, ShownAssertions \cup {keys + 1}))

--------------------------------------------------------------------------------
(* External: a server processes a request, or the request fails before or   *)
(* after that.  "absent" is authorization_model_not_found.                  *)

Db(r) == server[r.profile][r.store]
Exists(r, model) ==
    /\ model # None
    /\ model.profile = r.profile
    /\ model.store = r.store
    /\ model.n <= Db(r).models
Latest(r) == IF Db(r).models = 0 THEN None ELSE Model(r.profile, r.store, Db(r).models)
Resolved(r) == IF r.model = None THEN Latest(r) ELSE r.model

Answer(is, model, seen) == [is |-> is, model |-> model, seen |-> seen]

Reply(r) ==
    LET model == Resolved(r)
    IN  IF r.kind \in {"tuples", "changes"} THEN Answer("ok", None, Db(r).tuples)
        ELSE IF r.kind # "apply" /\ ~Exists(r, model) THEN Answer("absent", r.model, {})
        ELSE IF r.kind = "assertions" THEN Answer("ok", model, Db(r).asserts[model.n])
        ELSE Answer("ok", IF r.kind = "query" THEN r.model ELSE model, {})

Effect(r) ==
    LET db == Db(r)
        model == Resolved(r)
    IN  IF r.kind = "apply" THEN [db EXCEPT !.models = @ + 1]
        ELSE IF ~Exists(r, model) THEN db
        ELSE IF r.kind = "write" THEN [db EXCEPT !.tuples = @ \cup {r.id}]
        ELSE IF r.kind = "assert" THEN [db EXCEPT !.asserts[model.n] = r.rows]
        ELSE db

WithAnswer(r, answer) == [r EXCEPT !.answer = answer]
Reads(r) == {q \in requests : /\ q.kind \in Kinds /\ q.answer = NoAnswer
                              /\ q.profile = r.profile /\ q.store = r.store}

(* A mutation is processed.  A read is processed before it, or later; that   *)
(* is all that tells apart the moments at which it may be processed, so a    *)
(* read that nothing overtakes has its answer when that arrives.             *)
Process(r, answer) ==
    /\ server' = [server EXCEPT ![r.profile][r.store] = Effect(r)]
    /\ \E before \in SUBSET Reads(r) :
          requests' = (requests \ (before \cup {r})) \cup {WithAnswer(r, answer)}
                         \cup {WithAnswer(q, Reply(q)) : q \in before}

Serve(r) ==
    /\ r.kind \in Mutations
    /\ r.answer = NoAnswer
    /\ Process(r, Reply(r))
    /\ UNCHANGED <<m, late, pins, accepted, failed, retries, keys, faults, saveFaults>>

(* A failed request had no effect, or the answer of a mutation was lost.     *)
(* Only the load of the assertions tells a refusal from a lost connection;  *)
(* it may know the latest model by then.                                    *)
Failures(r) ==
    IF r.kind = "assertions"
    THEN {Answer(e, model, {}) : e \in {"refused", "lost"}, model \in {r.model, Resolved(r)}}
    ELSE {Answer("refused", r.model, {})}

Fail(r) ==
    /\ r.answer = NoAnswer
    /\ faults < MaxFaults
    /\ faults' = faults + 1
    /\ \/ /\ \E answer \in Failures(r) : requests' = (requests \ {r}) \cup {WithAnswer(r, answer)}
          /\ UNCHANGED server
       \/ /\ r.kind \in Mutations
          /\ Process(r, Answer("lost", r.model, {}))
    /\ UNCHANGED <<m, late, pins, accepted, failed, retries, keys, saveFaults>>

--------------------------------------------------------------------------------
(* Completions, in any order.                                               *)

Arrived(r) == IF r.answer = NoAnswer THEN Reply(r) ELSE r.answer
Ok(r) == Arrived(r).is = "ok"
Absent(r) == Arrived(r).is = "absent"
Others(r) == requests \ {r}

(* Every completion frees its place, the ones that are dropped included.    *)
MutantLateRead ==
    /\ late > 0
    /\ late' = late - 1
    /\ UNCHANGED <<m, requests, server, pins, accepted, failed, retries, keys, faults, saveFaults>>

LateRead ==
    /\ late > 0
    /\ late' = late - 1
    /\ m' = EndLoad(m)
    /\ UNCHANGED <<requests, server, pins, accepted, failed, retries, keys, faults, saveFaults>>

Dropped(r) ==
    /\ m' = EndLoad(m)
    /\ requests' = Others(r)
    /\ UNCHANGED <<late, failed>>

Settle(r, m_) ==
    /\ m' = EndLoad(m_)
    /\ requests' = Others(r)
    /\ failed' = IF Ok(r) THEN failed \ {r.kind} ELSE failed \cup {r.kind}
    /\ UNCHANGED late

Follow(r, m_, bumped, new) ==
    /\ m' = BeginLoad(EndLoad(m_), Cardinality(new))
    /\ Dispatch(Others(r), Bumped(bumped, Others(r)), new)
    /\ failed' = failed

Unwritten == UNCHANGED <<server, accepted, keys>>
NoRetry == retries' = retries

(* A pin that the store does not have is dropped, and the latest model is   *)
(* loaded instead.                                                          *)
Unpinned == [m EXCEPT !.modelID = None]

ModelAbsent(r) ==
    /\ Absent(r) /\ m.modelID # None
    /\ Follow(r, Unpinned, {"model"}, {Request("model", m, None)})
    /\ retries' = retries + 1
    /\ Quiet

(* Another model than the selected one: what belonged to that one goes.     *)
LoadedModel(r) ==
    LET switched == m.modelID # None /\ Arrived(r).model # m.modelID
    IN  [(IF switched THEN ClearResourcePending(m) ELSE m) EXCEPT
            !.modelID = Arrived(r).model]

MutantPin(model) ==
    [pins[m.profile] EXCEPT !.model = IF @ = None THEN model ELSE @]
PinOf(model) == [pins[m.profile] EXCEPT !.model = model]

ModelLoaded(r) ==
    /\ Ok(r)
    /\ m' = EndLoad(LoadedModel(r))
    /\ requests' = IF m.modelID # None /\ Arrived(r).model # m.modelID
                   THEN Disowned(Mutations, Others(r)) ELSE Others(r)
    /\ Persist(m.profile, PinOf(Arrived(r).model))
    /\ failed' = failed \ {"model"}
    /\ NoRetry
    /\ UNCHANGED late

OnModel(r) ==
    /\ r.kind = "model"
    /\ Unwritten
    /\ IF StaleStore(r) THEN Dropped(r) /\ NoRetry /\ Quiet
       ELSE \/ ModelLoaded(r)
            \/ ModelAbsent(r)
            \/ /\ ~Ok(r)
               /\ ~(Absent(r) /\ m.modelID # None)
               /\ Settle(r, m)
               /\ NoRetry /\ Quiet

(* The rows bring the filter they were read with; a failed read goes back   *)
(* to the filter of the rows on screen.                                     *)
Rows(r) == [profile |-> r.profile, store |-> r.store, seen |-> Arrived(r).seen]

LoadedTuples(r) ==
    IF Ok(r) THEN [m EXCEPT !.tuples = Rows(r), !.applied = r.filter, !.wanted = r.filter]
    ELSE [m EXCEPT !.wanted = m.applied]

OnTuples(r) ==
    /\ r.kind = "tuples"
    /\ IF StaleStore(r) THEN Dropped(r) ELSE Settle(r, LoadedTuples(r))
    /\ Unwritten /\ NoRetry /\ Quiet

OnChanges(r) ==
    /\ r.kind = "changes"
    /\ IF StaleStore(r) THEN Dropped(r)
       ELSE Settle(r, IF Ok(r) THEN [m EXCEPT !.changes = Rows(r)] ELSE m)
    /\ Unwritten /\ NoRetry /\ Quiet

(* An API error empties the list, a lost connection keeps it.               *)
LoadedAssertions(r) ==
    [m EXCEPT !.assertModelID = Arrived(r).model,
              !.assertions = IF Ok(r) THEN Rows(r)
                             ELSE IF Arrived(r).is = "lost" THEN @ ELSE None]

OnAssertions(r) ==
    /\ r.kind = "assertions"
    /\ IF StaleStore(r) \/ StaleModelKnown(Arrived(r).model) THEN Dropped(r)
       ELSE Settle(r, LoadedAssertions(r))
    /\ Unwritten /\ NoRetry /\ Quiet

StaleModel(r) == r.model # None /\ r.model # m.modelID

OnQuery(r) ==
    /\ r.kind = "query"
    /\ IF StaleStore(r) \/ StaleModel(r) THEN Dropped(r)
       ELSE Settle(r, [m EXCEPT !.result =
                IF Ok(r) THEN [profile |-> r.profile, store |-> r.store, model |-> r.model]
                ELSE None])
    /\ Unwritten /\ NoRetry /\ Quiet

(* A reported write fences the change log and reloads the tuples.           *)
Written(m_) == [m_ EXCEPT !.tupleMutating = FALSE, !.changes = None]

MutantAfterWrite == {"tuples"}
AfterWrite == {"tuples", "changes"}

OnWritten(r) ==
    /\ r.kind = "write"
    /\ IF StaleMutation(r) THEN Dropped(r) /\ UNCHANGED accepted
       ELSE IF ~Ok(r)
       THEN Settle(r, [m EXCEPT !.tupleMutating = FALSE]) /\ UNCHANGED accepted
       ELSE /\ Follow(r, Written(m), AfterWrite, {Request("tuples", m, None)})
            /\ accepted' = accepted \cup {<<r.profile, r.store, r.id>>}
    /\ UNCHANGED <<server, keys>> /\ NoRetry /\ Quiet

OnApplied(r) ==
    /\ r.kind = "apply"
    /\ LET done == [m EXCEPT !.modelApplying = FALSE]
       IN  IF StaleMutation(r) THEN Dropped(r)
           ELSE IF ~Ok(r) THEN Settle(r, done)
           ELSE Follow(r, done, {"model"}, {Request("model", m, None)})
    /\ Unwritten /\ NoRetry /\ Quiet

OnAssertionsWritten(r) ==
    /\ r.kind = "assert"
    /\ LET done == [m EXCEPT !.assertionsWriting = FALSE]
       IN  IF StaleMutation(r) THEN Dropped(r)
           ELSE IF ~Ok(r) THEN Settle(r, done)
           ELSE Follow(r, done, {"assertions"}, {Request("assertions", m, Arrived(r).model)})
    /\ Unwritten /\ NoRetry /\ Quiet

Complete(r) ==
    /\ r.kind \in Kinds \/ r.answer # NoAnswer
    /\ \/ OnModel(r) \/ OnTuples(r) \/ OnChanges(r) \/ OnAssertions(r) \/ OnQuery(r)
       \/ OnWritten(r) \/ OnApplied(r) \/ OnAssertionsWritten(r)

--------------------------------------------------------------------------------
(* Starting up on a profile whose store is selected.                        *)
Launched ==
    [profile |-> Start, storeID |-> pins[Start].store, modelID |-> pins[Start].model,
     tuples |-> None, changes |-> None,
     assertions |-> None, assertModelID |-> None, result |-> None,
     applied |-> None, wanted |-> None, tupleMutating |-> FALSE,
     modelApplying |-> FALSE, assertionsWriting |-> FALSE, pendingLoads |-> 4]

Init ==
    /\ server \in Servers
    /\ pins \in Pins
    /\ m = Launched
    /\ requests = StoreReads(m)
    /\ late = 0
    /\ accepted = {} /\ failed = {} /\ retries = 0
    /\ keys = 0 /\ faults = 0 /\ saveFaults = 0

Command ==
    \/ \E s \in Stores : SelectStore(s)
    \/ \E p \in Profiles : SwitchProfile(p)
    \/ ReloadModel \/ \E n \in 1..MaxModels : PickModel(n)
    \/ ReloadTuples \/ \E f \in Filters \cup {None} : SubmitFilter(f)
    \/ ReloadChanges \/ ReloadAssertions \/ RunQuery
    \/ WriteTuple \/ ApplyModel \/ AddAssertion

Next ==
    \/ Command
    \/ \E r \in requests : Serve(r) \/ Fail(r) \/ Complete(r)
    \/ LateRead

Spec == Init /\ [][Next]_vars

--------------------------------------------------------------------------------
(* Properties.                                                              *)

TypeOK ==
    /\ m.profile \in Profiles
    /\ m.storeID \in Stores \cup {None}
    /\ m.modelID \in Models \cup {None}
    /\ m.assertModelID \in Models \cup {None}
    /\ m.pendingLoads \in Nat
    /\ late \in Nat
    /\ \A r \in requests : r.kind \in Kinds \cup Mutations /\ r.store \in Stores
    /\ failed \subseteq Kinds \cup Mutations

(* The spinner counts exactly the requests that have not come back: it      *)
(* neither stops early nor stays on (beginLoad and endLoad).                *)
SpinnerExact == m.pendingLoads = Cardinality(requests) + late

(* What a pane shows comes from the selected store of the selected server,  *)
(* and a query result from the selected model, whatever order the messages  *)
(* of earlier selections arrive in (the generations of model.go).           *)
Here(data) == data.profile = m.profile /\ data.store = m.storeID
ShownIsSelected ==
    /\ \A data \in {m.tuples, m.changes, m.assertions, m.result} \ {None} : Here(data)
    /\ m.result # None /\ m.result.model # None => m.result.model = m.modelID

(* A write that was reported as done is in the change log on screen, and in *)
(* the tuples on screen unless their reload is under way or failed          *)
(* ("the Changes pane must not keep showing pre-write data").               *)
Reported == {w[3] : w \in {a \in accepted : a[1] = m.profile /\ a[2] = m.storeID}}
Loading(kind) == \E r \in requests : r.kind = kind
ReportedWritesShown ==
    /\ m.changes # None => Reported \subseteq m.changes.seen
    /\ (m.tuples # None /\ ~Loading("tuples") /\ "tuples" \notin failed)
          => Reported \subseteq m.tuples.seen

(* Once no read is under way, the next read asks for the filter of the rows *)
(* on screen: a racing reload does not drop a submitted filter, a refused   *)
(* one does not stick (tupleFilters).                                       *)
FilterSettled == ~Loading("tuples") => m.wanted = m.applied

(* A selected store's tuples are on screen, being loaded, or their load     *)
(* failed: no switch of a model cancels a read that nothing starts again.   *)
NoStrandedPane ==
    m.storeID # None => m.tuples # None \/ Loading("tuples") \/ "tuples" \in failed

(* The panes follow the selection: what they show belongs to it, the rows   *)
(* are those of the filter asked for, and none stays empty for ever.        *)
PanesMatchSelection == ShownIsSelected /\ FilterSettled /\ NoStrandedPane

(* What is on screen is of the selection, and not older than what the user  *)
(* was told has been written.                                              *)
PanesAreSound == PanesMatchSelection /\ ReportedWritesShown

(* A pin that the store does not have is retried once and not in a loop     *)
(* ("if that also fails the pin is already cleared, so this can't loop").   *)
PinRetriedOnce == retries <= 1

(* The profile records the store and model on screen, once the model is     *)
(* loaded and unless a save failed (persistStore, persistModel); a pin that *)
(* is gone does not make it load for ever.                                  *)
ProfileFollowsSelection ==
  /\ PinRetriedOnce
  /\ saveFaults = 0 /\ ~Loading("model") /\ "model" \notin failed
        => pins[m.profile] = [store |-> m.storeID, model |-> m.modelID]

SameSource(x, y) ==
    /\ x # None /\ y # None
    /\ x.profile = y.profile /\ x.store = y.store

(* An older answer never replaces a newer one of the same store.            *)
NeverOlder == SameSource(m.tuples, m'.tuples) => m.tuples.seen \subseteq m'.tuples.seen

(* The panes are true at every moment, and never go back.                  *)
PanesAreTrue == [][PanesAreSound' /\ NeverOlder]_vars

(* Adding an assertion adds one: the assertions a model already had are     *)
(* still there (the key `a` of the Assertions section).  No run lists it:   *)
(* TLC refutes it, because the key appends to a list that may not be        *)
(* loaded and the request replaces the whole set (README section 6).        *)
AddingKeepsTheOthers ==
    [][ \A p \in Profiles, s \in Stores, n \in 1..MaxModels :
          server[p][s].asserts[n] \subseteq server'[p][s].asserts[n] ]_server
===============================================================================
