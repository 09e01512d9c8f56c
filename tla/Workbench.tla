------------------------------- MODULE Workbench -------------------------------
(***************************************************************************)
(* What the playground of `ofga playground` does in the background of its  *)
(* Stores, Model and Tests tabs: stores that are created and deleted, the  *)
(* optimizer that benchmarks rewrites of a model and writes them           *)
(* (optimizer.go), and the workbench that edits the test files of a sample *)
(* and runs them (workbench.go).  A dialog, an editor or a prompt stays    *)
(* open while completions change the store under it.                       *)
(*                                                                         *)
(* As in Playground, a read or a benchmark whose generation has been       *)
(* superseded leaves `tasks`, since its completion does nothing but free   *)
(* its place under the spinner; a mutation keeps the flag `current`.  The  *)
(* names of stores are their ids.  A visit keeps to one of the two tabs    *)
(* (`tab`), which share nothing but the selection.  Not followed: the      *)
(* cursor of the tests' tree, the view of the coverage, which belongs to   *)
(* the results, and profiles, which Playground switches.                   *)
(***************************************************************************)
EXTENDS Naturals, Sequences

CONSTANTS
    Stores, None,
    Gone,         \* what is left of a store that was deleted
    Samples,      \* the stores that come with a workspace of tests
    Files,        \* the names of test files
    Rewrites,     \* the safe rewrites of a fresh model
    Requires,     \* the rewrites that a rewrite depends on
    Faulty,       \* the sets of rewrites that change an answer
    NoGraph,      \* the stores whose models have no weighted graph
    NoAnswer,
    MaxModels, MaxKeys, MaxEdits, MaxFaults   \* bounds

ASSUME WorkbenchAssumption ==
    /\ Samples # {} /\ Samples \subseteq Stores /\ None \notin Stores
    /\ Requires \in [Rewrites -> SUBSET Rewrites]
    /\ Faulty \subseteq SUBSET Rewrites
    /\ NoGraph \subseteq Stores
    /\ {MaxModels, MaxKeys, MaxEdits, MaxFaults} \subseteq Nat

(* Nothing that is there is taken for what is not.                          *)
ASSUME AbsenceAssumption ==
    /\ Gone # None /\ NoAnswer \notin {"ok", "failed"}
    /\ {None, Gone} \cap Seq([of : Stores \cup {None}, done : SUBSET Rewrites, wrong : BOOLEAN]) = {}
    /\ None \notin [root : Samples, text : [Files -> {"absent", "one", "two", "bad"}], files : SUBSET Files]

VARIABLES
    m,           \* the Model: selection, lists, pending flags, dialogs
    opt,         \* optimizer
    wb,          \* the workbench
    workspaces,  \* sandboxWorkspaces: the parsed workspace of each store name
    tasks,       \* what runs beside the event loop
    models,      \* external: the models of each store that exists
    disk,        \* external: the test files of each workspace
    tab, keys, edits, faults,
    missed,      \* history: the last run failed, or none followed an edit
    stray,       \* history: roots edited but not reloaded under their own name
    foreign      \* history: the optimizer was opened on the text of another store

vars ==
    <<m, opt, wb, workspaces, tasks, models, disk, tab, keys, edits, faults, missed, stray, foreign>>

Existing == {s \in Stores : models[s] \notin {None, Gone}}
Text(s, done) == [of |-> s, done |-> done, wrong |-> FALSE]

--------------------------------------------------------------------------------
(* Tasks: reads, benchmarks, mutations, runs of tests, closed editors.       *)

Superseded(kinds, T) == {t \in T : t.kind \notin kinds}
Disowned(T) == {IF t.kind = "apply" THEN [t EXCEPT !.current = FALSE] ELSE t : t \in T}

StoresRead == [kind |-> "stores"]
ModelRead(s, id) == [kind |-> "model", store |-> s, id |-> id]
Running(kind, T) == \E t \in T : t.kind = kind

Budget == faults < MaxFaults
Fault == Budget /\ faults' = faults + 1
NoFault == UNCHANGED faults
Still == UNCHANGED <<models, disk, tab, edits>>
History == UNCHANGED <<missed, stray>>

--------------------------------------------------------------------------------
(* The optimizer.                                                           *)

Closed ==
    [view |-> "none", running |-> FALSE, proto |-> None, accepted |-> {}, applied |-> {},
     selBench |-> None, writeBench |-> None, err |-> FALSE, dialog |-> FALSE]

(* stopOptimizer bumps the generation: a benchmark in flight lands stale.   *)
Stopped(T) == Superseded({"bench"}, T)

(* An accepted rewrite that depends on a rejected one drops out.            *)
Subset(accepted) == {r \in accepted : Requires[r] \subseteq accepted}
After(text, applied) ==
    [text EXCEPT !.done = @ \cup applied,
                 !.wrong = @ \/ (applied \in Faulty /\ text.of \notin NoGraph)]

Bench(kind, o) ==
    [kind |-> "bench", of |-> kind, proto |-> o.proto, applied |-> o.applied,
     store |-> m.store, model |-> m.model]
Benching(o) == [o EXCEPT !.running = TRUE, !.err = FALSE]
StartBench(kind, o) ==
    /\ opt' = Benching(o)
    /\ tasks' = Superseded({"bench"}, tasks) \cup {Bench(kind, o)}

(* Forgetting the benchmark of the selection, one in flight included.       *)
MutantForgotten(T) == T
Forgotten(T) == Superseded({"bench"}, T)
Invalidated(o) == [o EXCEPT !.running = FALSE, !.selBench = None, !.err = FALSE]

Free == m.confirm = None /\ ~opt.dialog /\ ~m.editor /\ ~wb.prompt
InModel == Free /\ m.section = "model"
Loaded == m.store # None /\ m.dsl # None
Pane == /\ UNCHANGED <<m, wb, workspaces>> /\ NoFault /\ Still /\ History

OpenBench ==
    /\ InModel /\ opt.view \in {"none", "bench"}
    /\ Loaded
    /\ StartBench("profile", [opt EXCEPT !.view = "bench", !.proto = m.dsl])
    /\ Pane

OpenReview ==
    /\ InModel /\ opt.view \in {"none", "bench"}
    /\ Loaded
    /\ opt' = [Closed EXCEPT !.view = "review", !.proto = m.dsl]
    /\ tasks' = Stopped(tasks)
    /\ Pane

LeaveOptimizer ==
    /\ InModel /\ opt.view # "none"
    /\ opt' = Closed
    /\ tasks' = Stopped(tasks)
    /\ Pane

MoveCursor ==
    /\ InModel /\ opt.view = "review"
    /\ opt' = [opt EXCEPT !.selBench = None, !.err = FALSE]
    /\ UNCHANGED tasks
    /\ Pane

Rows == Rewrites \ opt.proto.done
Accept(accepted) ==
    /\ opt' = [Invalidated(opt) EXCEPT !.accepted = accepted, !.applied = Subset(accepted)]
    /\ tasks' = Forgotten(tasks)
    /\ Pane

Toggle ==
    /\ InModel /\ opt.view = "review"
    /\ \E r \in Rows : Accept(IF r \in opt.accepted THEN opt.accepted \ {r}
                              ELSE opt.accepted \cup {r})

ToggleAll ==
    /\ InModel /\ opt.view = "review"
    /\ Rows # {}
    /\ Accept(IF opt.accepted = Rows THEN {} ELSE Rows)

BenchSelection ==
    /\ InModel /\ opt.view = "review"
    /\ opt.applied # {}
    /\ StartBench("selection", [opt EXCEPT !.selBench = None])
    /\ Pane

OpenWriteDialog ==
    /\ InModel /\ opt.view = "review"
    /\ opt.applied # {}
    /\ StartBench("write", [opt EXCEPT !.dialog = TRUE, !.writeBench = None])
    /\ Pane

InDialog == m.confirm = None /\ opt.dialog

CloseWriteDialog ==
    /\ InDialog
    /\ ~m.applying
    /\ opt' = [Invalidated(opt) EXCEPT !.dialog = FALSE, !.writeBench = None]
    /\ tasks' = Forgotten(tasks)
    /\ Pane

CanWrite ==
    /\ ~opt.running /\ ~opt.err
    /\ opt.writeBench # None
    /\ opt.writeBench.is \in {"same", "noGraph"}

(* Writing a model: the optimized one, or what the DSL editor holds.        *)
Write(text, optimized) ==
    /\ ~m.applying
    /\ m' = [m EXCEPT !.applying = TRUE]
    /\ tasks' = Disowned(tasks) \cup
          {[kind |-> "apply", store |-> m.store, model |-> m.model, text |-> text,
            optimized |-> optimized, current |-> TRUE, answer |-> NoAnswer]}
    /\ UNCHANGED <<opt, wb, workspaces>> /\ NoFault /\ Still /\ History

WriteOptimized ==
    /\ InDialog
    /\ CanWrite
    /\ Write(After(opt.proto, opt.applied), TRUE)

(* A benchmark that ends: its result is dropped when the store or the model *)
(* is another one.                                                          *)
Result(t) ==
    [proto |-> t.proto, applied |-> t.applied,
     is |-> IF t.proto.of \in NoGraph THEN "noGraph"
            ELSE IF t.of # "profile" /\ t.applied \in Faulty THEN "differs" ELSE "same"]
StaleOrigin(t) ==
    \/ t.store # None /\ t.store # m.store
    \/ t.model # None /\ m.model # None /\ t.model # m.model

(* Without a graph the dialog allows the write, the other views warn.       *)
Shown(t, failed) ==
    LET done == [opt EXCEPT !.running = FALSE]
        res == Result(t)
    IN  IF failed \/ (res.is = "noGraph" /\ t.of # "write") THEN [done EXCEPT !.err = TRUE]
        ELSE IF t.of = "selection" THEN [done EXCEPT !.selBench = res]
        ELSE IF t.of = "write" THEN [done EXCEPT !.writeBench = res]
        ELSE done

BenchDone(t) ==
    /\ t.kind = "bench"
    /\ tasks' = tasks \ {t}
    /\ \/ /\ opt' = IF StaleOrigin(t) THEN opt ELSE Shown(t, FALSE)
          /\ NoFault
       \/ /\ ~StaleOrigin(t)
          /\ opt' = Shown(t, TRUE)
          /\ Fault
    /\ UNCHANGED <<m, wb, workspaces>> /\ Still /\ History

--------------------------------------------------------------------------------
(* The workspace of the store: applySandboxWorkspace.                       *)

Workspace == workspaces[wb.at]
MutantNoRun == [wb EXCEPT !.results = None]
NoRun == [wb EXCEPT !.running = FALSE, !.results = None]

Left(T) == Superseded({"suite"}, T)

(* The workspace of another store takes the place of this one, with the     *)
(* results and the run.                                                     *)
Same(s) == s = wb.at \/ (workspaces[s] = None /\ Workspace = None)
Follows(s) ==
    /\ wb' = IF Same(s) THEN wb
             ELSE [NoRun EXCEPT !.at = s,
                      !.files = IF workspaces[s] = None THEN {} ELSE workspaces[s].files]
    /\ missed' = (Same(s) /\ missed)
    /\ UNCHANGED <<workspaces, stray>>
Swapped(s, T) == IF Same(s) THEN T ELSE Left(T)

--------------------------------------------------------------------------------
(* Selecting a store, and the lists of stores and models.                   *)

Owned(m_) == [m_ EXCEPT !.applying = FALSE]
OnStore(s, m_) == [Owned(m_) EXCEPT !.store = s, !.model = None]

Select(s, m_, T) ==
    /\ m' = OnStore(s, m_)
    /\ opt' = Closed
    /\ Follows(s)
    /\ tasks' = Swapped(s, Disowned(Superseded({"bench", "model"}, T)))
                   \cup {ModelRead(s, None)}

InStores == Free /\ m.section = "stores"

PickStore(s) ==
    /\ InStores
    /\ s \in m.list
    /\ Select(s, m, tasks)
    /\ NoFault /\ Still

GotoSection(to) ==
    /\ Free
    /\ to # m.section
    /\ m' = [m EXCEPT !.section = to]
    /\ IF to = "model" THEN UNCHANGED <<opt, tasks>>
       ELSE opt' = Closed /\ tasks' = Stopped(tasks)
    /\ UNCHANGED <<wb, workspaces>> /\ NoFault /\ Still /\ History

ReloadStores ==
    /\ InStores
    /\ tasks' = Superseded({"stores"}, tasks) \cup {StoresRead}
    /\ UNCHANGED <<m, opt, wb, workspaces>> /\ NoFault /\ Still /\ History

ReloadModel(id) ==
    /\ InModel /\ opt.view # "review"
    /\ m.store # None
    /\ tasks' = Superseded({"model"}, IF id = None THEN tasks ELSE Disowned(tasks))
                   \cup {ModelRead(m.store, id)}
    /\ m' = IF id = None THEN m ELSE Owned(m)
    /\ UNCHANGED <<opt, wb, workspaces>> /\ NoFault /\ Still /\ History

(* Stores are created and deleted one at a time; a deletion is confirmed by *)
(* typing the id of the store.                                              *)
CreateStore(s) ==
    /\ InStores /\ models[s] = None
    /\ ~m.creating
    /\ m' = [m EXCEPT !.creating = TRUE]
    /\ tasks' = tasks \cup {[kind |-> "create", store |-> s, answer |-> NoAnswer]}
    /\ UNCHANGED <<opt, wb, workspaces>> /\ NoFault /\ Still /\ History

Asked(question) ==
    /\ m' = [m EXCEPT !.confirm = question]
    /\ UNCHANGED <<opt, wb, workspaces, tasks>> /\ NoFault /\ Still /\ History

AskDeleteStore(s) ==
    /\ InStores
    /\ s \in m.list
    /\ Asked([do |-> "store", store |-> s])

Answered == [m EXCEPT !.confirm = None]
Cancel == m.confirm # None /\ Asked(None)

DeleteStore ==
    /\ m.confirm # None /\ m.confirm.do = "store"
    /\ m' = [Answered EXCEPT !.deleting = TRUE]
    /\ tasks' = IF m.deleting THEN tasks
                ELSE tasks \cup {[kind |-> "delete", store |-> m.confirm.store,
                                  answer |-> NoAnswer]}
    /\ UNCHANGED <<opt, wb, workspaces>> /\ NoFault /\ Still /\ History

(* The DSL editor opens on the Model tab, over the review too.              *)
OpenEditor ==
    /\ InModel /\ m.store # None
    /\ m' = [m EXCEPT !.editor = TRUE]
    /\ UNCHANGED <<opt, wb, workspaces, tasks>> /\ NoFault /\ Still /\ History

InEditor == m.confirm = None /\ ~opt.dialog /\ m.editor

CloseEditor ==
    /\ InEditor
    /\ m' = [m EXCEPT !.editor = FALSE]
    /\ UNCHANGED <<opt, wb, workspaces, tasks>> /\ NoFault /\ Still /\ History

WriteEdited ==
    /\ InEditor
    /\ Write(Text(m.store, {}), FALSE)

--------------------------------------------------------------------------------
(* External: the server, and another client that writes a model.            *)

Latest(s) ==
    IF s \notin Existing \/ models[s] = <<>> THEN None ELSE <<s, Len(models[s])>>
Found(t) == IF t.id = None \/ t.store \notin Existing THEN Latest(t.store) ELSE t.id

Possible(t) == t.kind = "create" \/ t.store \in Existing
Effect(t) ==
    IF t.kind = "create" THEN [models EXCEPT ![t.store] = <<>>]
    ELSE IF t.store \notin Existing THEN models
    ELSE IF t.kind = "delete" THEN [models EXCEPT ![t.store] = Gone]
    ELSE [models EXCEPT ![t.store] = Append(@, t.text)]

Room(t) == t.kind = "apply" /\ t.store \in Existing => Len(models[t.store]) < MaxModels
Replied(t, answer) == tasks' = (tasks \ {t}) \cup {[t EXCEPT !.answer = answer]}
Unseen == UNCHANGED <<m, opt, wb, workspaces, disk, tab, edits, missed, stray>>

(* A mutation takes effect before it comes back; a failed one may have.      *)
(* Only a mutation tells apart when a read was answered, and the completion *)
(* of that supersedes the read: reads are answered when they come back.     *)
Mutation(t) == t.kind \in {"create", "delete", "apply"}
Serve(t) ==
    /\ Mutation(t)
    /\ t.answer = NoAnswer
    /\ Room(t)
    /\ \/ Replied(t, IF Possible(t) THEN "ok" ELSE "failed") /\ models' = Effect(t) /\ NoFault
       \/ Replied(t, "failed") /\ models' \in {models, Effect(t)} /\ Fault
    /\ Unseen

OtherClient ==
    \E s \in Existing :
        /\ tab = "model"
        /\ Len(models[s]) < MaxModels
        /\ models' = [models EXCEPT ![s] = Append(@, Text(s, {}))]
        /\ NoFault /\ UNCHANGED tasks /\ Unseen

--------------------------------------------------------------------------------
(* Completions.                                                             *)

Ok(t) == t.answer = "ok"
Others(t) == tasks \ {t}
Ended(t) == tasks' = Others(t) /\ UNCHANGED <<opt, wb, workspaces>> /\ History

Failed(t) == Ended(t) /\ UNCHANGED m /\ Fault

(* A list of stores adopts the first store when none is selected.           *)
StoresLoaded(t) ==
    /\ t.kind = "stores"
    /\ \/ Failed(t)
       \/ /\ NoFault
          /\ LET listed == [m EXCEPT !.list = Existing]
             IN  IF m.store # None \/ Existing = {}
                 THEN /\ m' = listed
                      /\ Follows(m.store)
                      /\ tasks' = Swapped(m.store, Others(t))
                      /\ UNCHANGED opt
                 ELSE \E s \in Existing : Select(s, listed, Others(t))

(* Another model, or another text, closes the optimizer; the text of the    *)
(* last model that was loaded stays when a load fails.                      *)
ModelLoaded(t) ==
    /\ t.kind = "model"
    /\ \/ Failed(t)
       \/ /\ Found(t) = None \/ t.store # m.store
          /\ UNCHANGED m /\ Ended(t) /\ NoFault
       \/ /\ Found(t) # None /\ t.store = m.store
          /\ LET text == models[t.store][Found(t)[2]]
                 switched == m.model # None /\ Found(t) # m.model
                 changed == Found(t) # m.model \/ text # m.dsl
                 rest == IF switched THEN Disowned(Others(t)) ELSE Others(t)
             IN  /\ m' = [(IF switched THEN Owned(m) ELSE m) EXCEPT
                             !.model = Found(t), !.dsl = text]
                 /\ opt' = IF changed THEN Closed ELSE opt
                 /\ tasks' = IF changed THEN Stopped(rest) ELSE rest
          /\ UNCHANGED <<wb, workspaces>> /\ History /\ NoFault

StaleApply(t) == ~t.current \/ StaleOrigin(t)

ModelApplied(t) ==
    /\ t.kind = "apply"
    /\ LET done == [m EXCEPT !.applying = FALSE,
                             !.editor = @ /\ (t.optimized \/ ~Ok(t))]
           reload == Superseded({"model"}, Others(t)) \cup {ModelRead(m.store, None)}
       IN  IF StaleApply(t) THEN UNCHANGED m /\ Ended(t)
           ELSE IF ~Ok(t) THEN m' = done /\ Ended(t)
           ELSE /\ m' = done
                /\ opt' = IF t.optimized THEN Closed ELSE opt
                /\ tasks' = IF t.optimized THEN Stopped(reload) ELSE reload
                /\ UNCHANGED <<wb, workspaces>> /\ History

(* The store that was made is selected, whatever is on screen.              *)
StoreCreated(t) ==
    /\ t.kind = "create"
    /\ LET done == [m EXCEPT !.creating = FALSE]
       IN  IF ~Ok(t) THEN m' = done /\ Ended(t)
           ELSE Select(t.store, done, Superseded({"stores"}, Others(t)) \cup {StoresRead})

StoreDeleted(t) ==
    /\ t.kind = "delete"
    /\ LET done == [m EXCEPT !.deleting = FALSE]
       IN  IF ~Ok(t) THEN m' = done /\ Ended(t)
           ELSE /\ m' = IF t.store = m.store
                        THEN [done EXCEPT !.store = None, !.model = None] ELSE done
                /\ tasks' = Superseded({"stores"}, Others(t)) \cup {StoresRead}
                /\ UNCHANGED <<opt, wb, workspaces>> /\ History

--------------------------------------------------------------------------------
(* The workbench.  `disk` holds what an editor left: absent, valid or bad.  *)

Valid(files) == \A f \in DOMAIN files : files[f] # "bad"
Present(files) == {f \in DOMAIN files : files[f] # "absent"}
Parsed(root, files) == [root |-> root, text |-> files, files |-> Present(files)]

(* A workspace is loaded whole or not at all, and remembered under the name *)
(* of the store.                                                            *)
Remembered(ws) == [workspaces EXCEPT ![m.store] = ws]
Reloaded(ws) == [wb EXCEPT !.at = m.store, !.files = ws.files]

(* With no store selected the name is that of none.                         *)
Misfiled == IF Workspace = None \/ Workspace.root = m.store THEN {} ELSE {Workspace.root}

(* A file asked about is removed only from the workspace on screen.         *)
MutantWithinRoot(root) == Workspace # None
WithinRoot(root) == Workspace # None /\ root = Workspace.root

Suite(ws, filter) == [kind |-> "suite", ws |-> ws, filter |-> filter]

(* A run starts unless one is under way; what it would have shown is missed.*)
Rerun(w, ws, T) ==
    /\ wb' = [w EXCEPT !.running = TRUE]
    /\ tasks' = IF w.running THEN T ELSE T \cup {Suite(ws, Files)}
    /\ missed' = w.running

InTests == Free /\ m.section = "tests"
Idle == InTests /\ ~wb.running
Quiet == UNCHANGED <<opt, models, tab>>

RunSuite(filter) ==
    /\ Idle
    /\ Workspace # None
    /\ wb' = [wb EXCEPT !.running = TRUE]
    /\ tasks' = tasks \cup {Suite(Workspace, filter)}
    /\ UNCHANGED <<m, workspaces, disk, edits>> /\ Quiet /\ NoFault /\ History

RunFile == \E f \in wb.files : RunSuite({f})

TestsRan(t) ==
    /\ t.kind = "suite"
    /\ tasks' = tasks \ {t}
    /\ \/ /\ wb' = [wb EXCEPT !.running = FALSE,
                              !.results = [ws |-> t.ws, filter |-> t.filter]]
          /\ UNCHANGED missed
          /\ NoFault
       \/ /\ wb' = [wb EXCEPT !.running = FALSE]
          /\ missed' = TRUE
          /\ Fault
    /\ UNCHANGED <<m, opt, workspaces, stray>> /\ Still

(* The editor suspends the program; what it left is looked at when its      *)
(* completion arrives, after the ones that waited meanwhile.                *)
EditorRuns(root, f, contents) ==
    /\ edits < MaxEdits
    /\ edits' = edits + 1
    /\ \E c \in contents, failed \in BOOLEAN :
          /\ disk' = [disk EXCEPT ![root][f] = c]
          /\ tasks' = tasks \cup {[kind |-> "edited", root |-> root, failed |-> failed]}
          /\ IF failed THEN Fault ELSE NoFault

OpenWorkbenchEditor ==
    /\ Idle
    /\ Workspace # None
    /\ \E f \in wb.files :
          /\ disk[Workspace.root][f] # "absent"
          /\ EditorRuns(Workspace.root, f, {"one", "two", "bad"})
    /\ UNCHANGED <<m, wb, workspaces>> /\ Quiet /\ History

OpenNewPrompt ==
    /\ Idle
    /\ Workspace # None
    /\ wb' = [wb EXCEPT !.prompt = TRUE]
    /\ UNCHANGED <<m, workspaces, tasks, disk, edits>> /\ Quiet /\ NoFault /\ History

InPrompt == m.confirm = None /\ ~opt.dialog /\ ~m.editor /\ wb.prompt

(* With the workspace gone the code dereferences nil: nothing follows.      *)
SubmitNewPrompt ==
    /\ InPrompt
    /\ Workspace # None
    /\ \E f \in Files :
          /\ disk[Workspace.root][f] = "absent"
          /\ EditorRuns(Workspace.root, f, {"one", "bad"})
    /\ wb' = [wb EXCEPT !.prompt = FALSE]
    /\ UNCHANGED <<m, workspaces>> /\ Quiet /\ History

CancelNewPrompt ==
    /\ InPrompt
    /\ wb' = [wb EXCEPT !.prompt = FALSE]
    /\ UNCHANGED <<m, workspaces, tasks, disk, edits>> /\ Quiet /\ NoFault /\ History

HandleTestFileEdited(t) ==
    /\ t.kind = "edited"
    /\ stray' = stray \cup (IF t.failed \/ ~WithinRoot(t.root) THEN {t.root} ELSE {})
                      \cup (IF t.failed THEN {} ELSE Misfiled)
    /\ IF t.failed \/ Workspace = None
       THEN UNCHANGED <<wb, workspaces, missed>> /\ tasks' = Others(t)
       ELSE LET root == Workspace.root
                ws == Parsed(root, disk[root])
            IN  IF Valid(disk[root])
                THEN workspaces' = Remembered(ws) /\ Rerun(Reloaded(ws), ws, Others(t))
                ELSE UNCHANGED workspaces /\ Rerun(wb, Workspace, Others(t))
    /\ UNCHANGED <<m, disk, edits>> /\ Quiet /\ NoFault

AskDeleteFile ==
    /\ Idle
    /\ Workspace # None
    /\ \E f \in wb.files : Asked([do |-> "file", root |-> Workspace.root, file |-> f])

DeleteFile ==
    /\ m.confirm # None /\ m.confirm.do = "file"
    /\ m' = Answered
    /\ LET root == m.confirm.root
           left == [disk[root] EXCEPT ![m.confirm.file] = "absent"]
           ws == Parsed(root, left)
       IN  IF ~WithinRoot(root) \/ disk[root][m.confirm.file] = "absent"
           THEN UNCHANGED <<wb, workspaces, disk, tasks, missed, stray>>
           ELSE /\ disk' = [disk EXCEPT ![root] = left]
                /\ IF ~Valid(left)
                   THEN wb' = [wb EXCEPT !.files = {}]
                        /\ UNCHANGED <<workspaces, tasks, missed, stray>>
                   ELSE /\ workspaces' = Remembered(ws)
                        /\ stray' = stray \cup Misfiled
                        /\ IF ws.files # {} THEN Rerun(Reloaded(ws), ws, tasks)
                           ELSE wb' = Reloaded(ws) /\ missed' = TRUE /\ UNCHANGED tasks
    /\ UNCHANGED edits /\ Quiet /\ NoFault

--------------------------------------------------------------------------------
Fresh == [f \in Files |-> IF f = CHOOSE g \in Files : TRUE THEN "one" ELSE "absent"]
Chosen == CHOOSE s \in Samples : TRUE

Init ==
    /\ tab \in {"model", "tests"}
    /\ models = [s \in Stores |-> IF s \in Samples THEN <<Text(s, {})>> ELSE None]
    /\ disk = [s \in Samples |-> Fresh]
    /\ workspaces = [s \in Stores \cup {None} |->
                        IF s \in Samples THEN Parsed(s, Fresh) ELSE None]
    /\ \E section \in {"stores", tab} :
       m = [store |-> Chosen, model |-> <<Chosen, 1>>, dsl |-> Text(Chosen, {}),
            list |-> Samples, section |-> section, applying |-> FALSE,
            creating |-> FALSE, deleting |-> FALSE, confirm |-> None, editor |-> FALSE]
    /\ opt = Closed
    /\ wb = [at |-> Chosen, files |-> Present(Fresh), running |-> FALSE,
             results |-> None, prompt |-> FALSE]
    /\ tasks = {}
    /\ keys = 0 /\ edits = 0 /\ faults = 0
    /\ missed = FALSE /\ stray = {} /\ foreign = FALSE

Key == keys < MaxKeys /\ keys' = keys + 1

StoreKeys ==
    \/ \E s \in Stores : PickStore(s) \/ CreateStore(s) \/ AskDeleteStore(s)
    \/ \E to \in {"stores", tab} : GotoSection(to)
    \/ ReloadStores \/ Cancel \/ DeleteStore

ModelKeys ==
    \/ OpenBench \/ OpenReview \/ LeaveOptimizer \/ MoveCursor \/ Toggle \/ ToggleAll
    \/ BenchSelection \/ OpenWriteDialog \/ CloseWriteDialog \/ WriteOptimized
    \/ \E n \in 1..MaxModels :
          m.store \in Existing /\ n <= Len(models[m.store]) /\ ReloadModel(<<m.store, n>>)
    \/ ReloadModel(None)
    \/ OpenEditor \/ CloseEditor \/ WriteEdited

TestKeys ==
    \/ RunSuite(Files) \/ RunFile \/ OpenWorkbenchEditor \/ OpenNewPrompt
    \/ SubmitNewPrompt \/ CancelNewPrompt \/ AskDeleteFile \/ DeleteFile

Complete(t) ==
    \/ /\ Mutation(t)
       /\ t.answer # NoAnswer
       /\ ModelApplied(t) \/ StoreCreated(t) \/ StoreDeleted(t)
       /\ NoFault /\ Still
    \/ (StoresLoaded(t) \/ ModelLoaded(t)) /\ Still
    \/ BenchDone(t) \/ TestsRan(t) \/ HandleTestFileEdited(t)

Step ==
    \/ Key /\ (StoreKeys \/ ModelKeys \/ TestKeys)
    \/ \E t \in tasks : (Serve(t) \/ Complete(t)) /\ UNCHANGED keys
    \/ OtherClient /\ UNCHANGED keys

OpensForeign == opt'.proto # None /\ opt.proto # opt'.proto /\ opt'.proto.of # m.store
Next == Step /\ foreign' = (foreign \/ OpensForeign)

Spec == Init /\ [][Next]_vars

--------------------------------------------------------------------------------
(* Properties.                                                              *)

(* What the optimizer writes was checked, for exactly the rewrites that it  *)
(* holds, and found to answer as before, or there is no graph to check it   *)
(* with; it is a model of the store that it is written to (canWrite).       *)
OptimizedIsChecked ==
    \A s \in Existing : \A i \in DOMAIN models[s] :
        ~models[s][i].wrong /\ models[s][i].of = s

(* A benchmark on screen is of the selection on screen, and of the model    *)
(* that the review was opened on (invalidateSelection).                     *)
BenchIsOfSelection ==
    \A b \in {opt.selBench, opt.writeBench} \ {None} :
        b.proto = opt.proto /\ b.applied = opt.applied

(* The answer check that lets a rewrite be written is of that rewrite.      *)
ChecksAreReal == OptimizedIsChecked /\ BenchIsOfSelection

(* The results on screen are of the workspace on screen, and of its files   *)
(* as they were last read unless a run is under way, failed or was missed;  *)
(* and what was last read is what is on disk, once it can be read, unless   *)
(* the workspace was left while its file was in the editor, or reloaded     *)
(* while no store was selected.                                             *)
OnScreen == IF Workspace = None THEN None ELSE Workspace.root
ResultsAreCurrent ==
    /\ wb.results # None =>
          /\ wb.results.ws.root = OnScreen
          /\ wb.running \/ missed
                \/ \A f \in wb.results.filter : wb.results.ws.text[f] = Workspace.text[f]
    /\ Workspace # None /\ OnScreen \notin stray /\ ~Running("edited", tasks)
          /\ Valid(disk[OnScreen]) => Workspace.text = disk[OnScreen]

(* What the optimizer and the tests show is of what is on screen beside it, *)
(* and what is written because of it was checked, unless the optimizer was  *)
(* opened on the text of another store.                                     *)
ShownIsCurrent == (foreign \/ ChecksAreReal) /\ ResultsAreCurrent

(* Whatever blocks keys is under way: a benchmark behind a closed Write, a  *)
(* write that keeps its dialog open, a run of tests, a store being made or  *)
(* deleted.  Only the deletion of the selected store leaves a benchmark or  *)
(* a write waiting, until another store is adopted.                         *)
NothingStuck ==
    /\ m.store # None =>
          /\ opt.running => Running("bench", tasks)
          /\ m.applying => \E t \in tasks : t.kind = "apply" /\ ~StaleApply(t)
    /\ wb.running => Running("suite", tasks)
    /\ m.creating => Running("create", tasks)
    /\ m.deleting => Running("delete", tasks)

(* A test file that disappears belongs to the workspace on screen, also     *)
(* when another store was selected while the question was open.             *)
DeletesOnScreen ==
    [][ \A s \in Samples, f \in Files :
          disk[s][f] # "absent" /\ disk'[s][f] = "absent" => s = OnScreen ]_disk
================================================================================
