----------------------------- MODULE MappingChecks -----------------------------
(***************************************************************************)
(* What `ofga mappings` shows about the document being edited: the         *)
(* findings of Check, the badge of the Tests pane and the model both are   *)
(* judged against.  They follow the edits from behind: a debounce tick,    *)
(* test runs and fetches of the store's model in the background, each one  *)
(* numbered so that a late result is told from the current one             *)
(* (internal/command/mapping/tui: workspace.go, workspace_tests.go,        *)
(* workspace_model.go, workspace_modes.go).                                *)
(***************************************************************************)
EXTENDS Naturals, FiniteSets

CONSTANTS
    Docs,       \* documents
    None,       \* no model, nothing tested, a file that does not parse
    MaxEdits,   \* bound: edits and reloads
    MaxChoices  \* bound: models chosen

ASSUME ChecksAssumption ==
    None \notin Docs /\ MaxEdits \in Nat /\ MaxChoices \in Nat

VARIABLES
    doc,       \* w.doc
    broken,    \* w.loadErr # nil
    fresh,     \* the first save creates the file, and may write model.fga
    tick,      \* the debounce tick that carries w.gen is in flight
    badge,     \* w.tests: the document they were run on
    testsGen, testing,  \* w.testsGen, and w.testsCancel # nil
    findings,  \* w.findings: what they judge, and against which model
    model,     \* w.sess.Index: where it came from
    modelGen, fetching, \* w.model.gen, and w.model.cancel # nil
    flights,   \* background runs and their results under way
    busy,      \* w.busy
    edits      \* bound

vars == <<doc, broken, fresh, tick, badge, testsGen, testing, findings, model,
          modelGen, fetching, flights, busy, edits>>
tested == <<badge, testsGen, testing>>
chosen == <<model, modelGen, fetching>>

(* runCheck on document d (None while the file does not parse).            *)
RunCheck(d, m) == findings' = [doc |-> d, model |-> m]

(* A badge run of what a save would write now; it replaces the one in      *)
(* flight.  While the file does not parse the badge is cleared.            *)
StartTestsRun(d, in) ==
    /\ testsGen' = testsGen + 1
    /\ testing' = (d # None)
    /\ IF d = None
       THEN badge' = None /\ flights' = in /\ busy' = busy
       ELSE /\ flights' = in \cup {[kind |-> "tests", gen |-> testsGen + 1, of |-> d]}
            /\ busy' = busy + 1 /\ UNCHANGED badge

Init ==
    /\ doc \in Docs /\ broken = FALSE /\ fresh \in BOOLEAN /\ tick = FALSE
    /\ badge = None /\ testsGen = 1 /\ testing = TRUE
    /\ findings = [doc |-> doc, model |-> None]
    /\ model = None /\ modelGen = 0 /\ fetching = FALSE
    /\ flights = {[kind |-> "tests", gen |-> 1, of |-> doc]} /\ busy = 1
    /\ edits = 0

-------------------------------------------------------------------------------
(* changed(): every edit schedules a tick; the earlier ones do nothing.    *)
Edit(d) ==
    /\ ~broken /\ edits < MaxEdits
    /\ d # doc /\ doc' = d
    /\ tick' = TRUE /\ edits' = edits + 1
    /\ UNCHANGED <<broken, fresh, tested, findings, chosen, flights, busy>>

(* debounced().                                                            *)
MutantDebounced ==
    /\ tick /\ tick' = FALSE
    /\ RunCheck(IF broken THEN None ELSE doc, model)
    /\ UNCHANGED <<doc, broken, fresh, tested, chosen, flights, busy, edits>>

Debounced ==
    /\ tick /\ tick' = FALSE
    /\ RunCheck(IF broken THEN None ELSE doc, model)
    /\ StartTestsRun(IF broken THEN None ELSE doc, flights)
    /\ UNCHANGED <<doc, broken, fresh, chosen, edits>>

(* reload(), of what is on disk now: a document or one that does not parse.*)
Reload(d) ==
    /\ edits < MaxEdits /\ edits' = edits + 1
    /\ broken' = (d = None) /\ doc' = (IF d = None THEN doc ELSE d)
    /\ fresh' = FALSE /\ tick' = FALSE
    /\ RunCheck(d, model)
    /\ StartTestsRun(d, flights)
    /\ UNCHANGED chosen

(* testsArrived().                                                         *)
MutantStaleTests(f) == FALSE
StaleTests(f) == f.gen # testsGen

TestsArrived(f) ==
    /\ f \in flights /\ f.kind = "tests"
    /\ flights' = flights \ {f} /\ busy' = busy - 1
    /\ IF StaleTests(f) THEN UNCHANGED <<badge, testing>>
       ELSE badge' = f.of /\ testing' = FALSE
    /\ UNCHANGED <<doc, broken, fresh, tick, testsGen, findings, chosen, edits>>

-------------------------------------------------------------------------------
(* useModel(): a file read at once, or refused, or no model; any choice    *)
(* cancels the fetch in flight.                                            *)
UseModel(m) ==
    /\ model' = m /\ fetching' = FALSE
    /\ modelGen' = modelGen + 1
    /\ RunCheck(IF broken THEN None ELSE doc, m)
    /\ UNCHANGED <<doc, broken, tick, tested, flights, busy, edits>>

ChooseFile ==
    /\ modelGen < MaxChoices
    /\ \E m \in {None, [kind |-> "file", gen |-> modelGen + 1]} : UseModel(m)
    /\ UNCHANGED fresh

(* The store's model arrives later; until then the one in use stays.       *)
ChooseStore ==
    /\ modelGen < MaxChoices
    /\ modelGen' = modelGen + 1 /\ fetching' = TRUE
    /\ flights' = flights \cup {[kind |-> "fetch", gen |-> modelGen + 1, of |-> None]}
    /\ busy' = busy + 1
    /\ UNCHANGED <<doc, broken, fresh, tick, tested, findings, model, edits>>

(* storeModelArrived(): a fetch may fail, cancelled or not.                *)
StaleModel(f) == f.gen # modelGen

ModelArrived(f) ==
    /\ f \in flights /\ f.kind = "fetch"
    /\ flights' = flights \ {f} /\ busy' = busy - 1
    /\ IF StaleModel(f) THEN UNCHANGED <<model, fetching, findings>>
       ELSE /\ fetching' = FALSE
            /\ model' \in {None, [kind |-> "store", gen |-> f.gen]}
            /\ RunCheck(IF broken THEN None ELSE doc, model')
    /\ UNCHANGED <<doc, broken, fresh, tick, tested, modelGen, edits>>

(* The first save of a file built from Auth0 recipes writes a model beside *)
(* it, and checks against that unless the user has or is fetching one.     *)
FirstSave ==
    /\ fresh /\ fresh' = FALSE
    /\ IF model = None /\ ~fetching /\ modelGen < MaxChoices
       THEN \E m \in {None, [kind |-> "file", gen |-> modelGen + 1]} : UseModel(m)
       ELSE UNCHANGED <<doc, broken, tick, tested, findings, chosen, flights, busy, edits>>

-------------------------------------------------------------------------------
Next ==
    \/ \E d \in Docs : Edit(d)
    \/ \E d \in Docs \cup {None} : Reload(d)
    \/ Debounced \/ ChooseFile \/ ChooseStore \/ FirstSave
    \/ \E f \in flights : TestsArrived(f) \/ ModelArrived(f)

(* The tick is a timer, and a run or a fetch ends, if only by its context. *)
Fairness ==
    /\ WF_vars(Debounced)
    /\ WF_vars(\E f \in flights : TestsArrived(f))
    /\ WF_vars(\E f \in flights : ModelArrived(f))

Spec == Init /\ [][Next]_vars /\ Fairness

-------------------------------------------------------------------------------
TypeOK ==
    /\ doc \in Docs /\ badge \in Docs \cup {None}
    /\ {broken, fresh, tick, testing, fetching} \subseteq BOOLEAN
    /\ busy \in Nat /\ testsGen \in Nat /\ modelGen \in 0..MaxChoices

Shown == IF broken THEN None ELSE doc

(* Once typing has paused and no run is in flight, the badge and the       *)
(* findings are those of the document on screen and of the model in use,   *)
(* which is the one chosen last: a run started for an older document, or a *)
(* fetch the user has since replaced, never has the last word.             *)
ScreenIsCurrent ==
    /\ findings.model = model
    /\ ~tick => findings.doc = Shown
    /\ ~tick /\ ~testing => badge = Shown
    /\ ~fetching /\ model # None => model.gen = modelGen

(* When the user stops, the badge comes to the document on screen.         *)
BadgeCatchesUp == <>[](badge = Shown /\ busy = 0)
===============================================================================
