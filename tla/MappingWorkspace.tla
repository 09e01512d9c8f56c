--------------------------- MODULE MappingWorkspace ---------------------------
(***************************************************************************)
(* `ofga mappings`: one mapping file open for editing while its editor,   *)
(* git or another program may change it on disk, and the Apply pane that   *)
(* plans the saved file's events and sends the plan to the store           *)
(* (internal/command/mapping/tui/workspace*.go, apply.go, quit.go, and     *)
(* internal/mapping/save.go under them).                                   *)
(*                                                                         *)
(* A document is its meaning, a text is a document and how it is laid out: *)
(* two texts may mean the same.  A document has one sample event; one more *)
(* event can be pasted.  Answers that arrive in a dialog over another      *)
(* dialog, the preview and the text of the reports are left out.           *)
(***************************************************************************)
EXTENDS Naturals, Sequences

CONSTANTS
    Docs,       \* what a mapping file can mean
    Unlayable,  \* documents whose layout Render cannot keep (ErrLayout)
    SampleOf,   \* the sample event of each document
    Pasted,     \* the event of the clipboard
    None,       \* no file, no plan, nothing loaded
    Broken,     \* a text whose YAML does not parse
    EditorRaces,\* TRUE if another program may write between compare and rename
    MaxOutside, \* bound: writes of other programs
    MaxRuns     \* bound: plans and applies started

(* "kept" is what a save writes, "hand" a user's layout, "alias" one the    *)
(* workspace cannot edit.                                                  *)
Texts == [doc : Docs, layout : {"kept", "hand", "alias"}]
Events == {SampleOf[d] : d \in Docs} \cup {Pasted}
Plans == [src : Texts, sel : Seq(Events), from : {1, 2}]

ASSUME WorkspaceAssumption ==
    /\ Unlayable \subseteq Docs
    /\ Pasted \notin {SampleOf[d] : d \in Docs}
    /\ None \notin Docs \cup {Pasted, Broken} \cup {SampleOf[d] : d \in Docs}
    /\ None \notin [src : Texts \cup {None}, sel : Seq(Events \cup {None}), from : Nat]
    /\ EditorRaces \in BOOLEAN
    /\ {MaxOutside, MaxRuns} \subseteq Nat

VARIABLES
    disk,     \* the file
    file,     \* w.file: what was loaded or last saved
    fresh,    \* the first save creates the file
    loadErr,  \* the YAML did not parse
    doc,      \* w.doc
    dirty,    \* w.dirty
    tick,     \* the debounce tick of the latest edit is in flight
    commit,   \* a save that has compared and not yet renamed
    overlay,  \* the dialog on top
    active,   \* the pane shown
    pane,     \* the Apply pane and its background run
    flights,  \* plans and applies running, and their results under way
    gone,     \* the workspace has quit
    landed,   \* history: the events an apply has sent whole
    outside   \* bound

vars == <<disk, file, fresh, loadErr, doc, dirty, tick, commit, overlay, active,
          pane, flights, gone, landed, outside>>
document == <<file, fresh, loadErr, doc, dirty, tick>>

Closed == [kind |-> "none", plan |-> None]
Dialog(k) == [kind |-> k, plan |-> None]

Init ==
    /\ \/ disk \in Texts /\ file = disk /\ doc = disk.doc /\ fresh = FALSE /\ loadErr = FALSE
       \/ disk = None /\ file = None /\ doc \in Docs /\ fresh = TRUE /\ loadErr = FALSE
       \/ disk = Broken /\ file = None /\ doc \in Docs /\ fresh = FALSE /\ loadErr = TRUE
    /\ dirty = fresh /\ tick = FALSE
    /\ commit = None /\ overlay = Closed /\ active = "rules"
    /\ pane = [sample |-> None, picked |-> FALSE, paste |-> "none", plan |-> None, old |-> FALSE,
               pending |-> None, applying |-> FALSE, gen |-> 0, resumeAt |-> 0]
    /\ flights = {} /\ gone = FALSE /\ landed = {} /\ outside = 0

-------------------------------------------------------------------------------
(* The Apply pane: its events, and what a change of them does.             *)

(* The selected events: the file's own first, then the pasted one.         *)
Selected(a) == (IF a.picked THEN <<a.sample>> ELSE <<>>)
               \o (IF a.paste = "on" THEN <<Pasted>> ELSE <<>>)

(* The only text a rendered document can be compared with.                 *)
Editable(f) == f # None /\ f.layout # "alias"
MutantUnsaved == ~loadErr /\ Editable(file) /\ file.doc # doc
Unsaved == ~loadErr /\ (fresh \/ (Editable(file) /\ file.doc # doc))
MutantChangedOnDisk == disk = None
ChangedOnDisk == disk # file
RenderFails == ~fresh /\ file.doc # doc /\ doc \in Unlayable

EndRun(a) == [a EXCEPT !.pending = None, !.applying = FALSE]
CancelPlanning(a) ==
    IF a.pending = None THEN a ELSE [EndRun(a) EXCEPT !.gen = @ + 1]
DropPlan(a) ==
    IF a.applying THEN a ELSE [CancelPlanning(a) EXCEPT !.plan = None, !.old = FALSE]
MutantSelectionChanged(a) == DropPlan(a)
SelectionChanged(a) ==
    IF a.applying THEN a ELSE DropPlan([a EXCEPT !.resumeAt = 0])

(* List the events of the working document d again.  A sample that changed *)
(* takes its selection with it.                                            *)
SetSamples(a, d) ==
    [a EXCEPT !.sample = SampleOf[d], !.picked = @ /\ a.sample = SampleOf[d]]
SyncApply(a, d, blocked) ==
    LET b == SetSamples(a, d) IN
    IF blocked \/ a.applying THEN a
    ELSE IF Selected(a) # Selected(b) THEN SelectionChanged(b) ELSE b

(* The pane on screen is shown again when a dialog over it closes.         *)
Shown(a) == IF active = "apply" THEN SyncApply(a, doc, loadErr \/ fresh) ELSE a

PlanKey(a, from) == [src |-> file, sel |-> Selected(a), from |-> from]
PlanRefused == loadErr \/ fresh \/ dirty \/ Selected(pane) = <<>> \/ ChangedOnDisk

(* A plan of the saved file from event `from`; confirm asks to apply it.   *)
StartPlan(a, from, confirm) ==
    LET b == [CancelPlanning(a) EXCEPT !.plan = None, !.old = FALSE] IN
    \/ pane' = b /\ UNCHANGED flights        \* the saved file does not compile
    \/ /\ b.gen < MaxRuns
       /\ pane' = [b EXCEPT !.gen = @ + 1, !.pending = [key |-> PlanKey(b, from), confirm |-> confirm]]
       /\ flights' = flights \cup
             {[kind |-> "plan", gen |-> b.gen + 1, of |-> PlanKey(b, from), at |-> from, stop |-> FALSE]}

(* The checks a plan passes before the question opens and again before it  *)
(* runs.  A plan with nothing to change is refused like one dropped.        *)
MutantCurrent(a, p) == p = PlanKey(a, p.from)
Current(a, p) == ~ChangedOnDisk /\ p = PlanKey(a, p.from)
Ready(a, p) == a.plan = p /\ ~dirty /\ Current(a, p) /\ ~a.old

(* What is done about a plan that is not ready.                            *)
NotReady(a, p) ==
    \/ (a.plan # p \/ dirty) /\ pane' = a /\ UNCHANGED flights
    \/ a.plan = p /\ ~dirty /\ ~Current(a, p) /\ pane' = DropPlan(a) /\ UNCHANGED flights
    \/ a.plan = p /\ ~dirty /\ Current(a, p) /\ a.old /\ StartPlan(a, p.from, TRUE)

(* Open the question on the plan on screen.                                *)
AskApply(a) ==
    \/ /\ Ready(a, a.plan)
       /\ overlay' = [kind |-> "apply", plan |-> a.plan]
       /\ pane' = a /\ UNCHANGED flights
    \/ ~Ready(a, a.plan) /\ NotReady(a, a.plan) /\ UNCHANGED overlay

-------------------------------------------------------------------------------
(* Saving.  A save renders and compares with the disk (`commit` is then    *)
(* what it renames into place), all on the goroutine that draws the screen.*)

Idle == commit = None /\ ~gone

Put(new, leave, confirmed) ==
    [text |-> [doc |-> doc, layout |-> "kept"], new |-> new, leave |-> leave, confirmed |-> confirmed]

(* What saveThen comes to before anything is written.                      *)
SaveOutcome ==
    IF pane.applying THEN "locked"
    ELSE IF fresh /\ disk # None THEN "conflict"
    ELSE IF RenderFails THEN "reformat"
    ELSE IF ~fresh /\ ChangedOnDisk THEN "conflict"
    ELSE IF Unsaved THEN "write"
    ELSE "nothing"

(* saveThen: ctrl+s, or with `leave` the answer of the quit prompt, which  *)
(* closes first and quits once the save is made.                           *)
Save(leave) ==
    /\ UNCHANGED <<disk, file, fresh, loadErr, doc, tick, active, flights, landed, outside>>
    /\ \/ /\ SaveOutcome \in {"conflict", "reformat"}
          /\ overlay' = Dialog(IF SaveOutcome = "reformat" /\ leave
                               THEN "reformat and quit" ELSE SaveOutcome)
          /\ UNCHANGED <<commit, dirty, pane, gone>>
       \/ /\ SaveOutcome \in {"locked", "write", "nothing"}
          /\ overlay' = IF leave THEN Closed ELSE overlay
          /\ pane' = IF leave THEN Shown(pane) ELSE pane
          /\ commit' = IF SaveOutcome = "write" THEN Put(fresh, leave, FALSE) ELSE None
          /\ dirty' = (dirty /\ SaveOutcome # "nothing")
          /\ gone' = (leave /\ SaveOutcome = "nothing")

(* The rename, the file reread, and wrote().  A new file is linked into    *)
(* place, so one that appeared meanwhile is not replaced.                  *)
Rename ==
    /\ commit # None /\ commit' = None
    /\ UNCHANGED <<doc, loadErr, tick, active, flights, landed, outside>>
    /\ \/ /\ ~(commit.new /\ disk # None)
          /\ disk' = commit.text /\ file' = commit.text /\ fresh' = FALSE /\ dirty' = FALSE
          /\ pane' = SyncApply(DropPlan(pane), doc, loadErr)
          /\ gone' = commit.leave /\ UNCHANGED overlay
       \/ /\ commit.new /\ disk # None
          /\ overlay' = Dialog("conflict")
          /\ UNCHANGED <<disk, file, fresh, dirty, pane, gone>>
       \/ UNCHANGED <<disk, file, fresh, dirty, overlay, pane, gone>>   \* cannot be written

(* ctrl+s, also over a dialog; refused on a file that cannot take a save.  *)
SaveKey ==
    /\ Idle /\ ~loadErr /\ (fresh \/ Editable(file))
    /\ Save(FALSE)

(* y to "Save it reformatted?"                                             *)
SaveReformatted ==
    /\ Idle /\ overlay.kind \in {"reformat", "reformat and quit"}
    /\ UNCHANGED <<disk, document, active, flights, gone, landed, outside>>
    /\ IF pane.applying THEN
          overlay' = Closed /\ pane' = Shown(pane) /\ UNCHANGED commit
       ELSE IF ChangedOnDisk THEN
          overlay' = Dialog("conflict") /\ UNCHANGED <<commit, pane>>
       ELSE /\ commit' = Put(FALSE, overlay.kind = "reformat and quit", FALSE)
            /\ overlay' = Closed /\ pane' = Shown(pane)

(* y to "Replace the file on disk with your version?"                      *)
Overwrite ==
    /\ Idle /\ overlay.kind = "over"
    /\ overlay' = Closed /\ pane' = Shown(pane)
    /\ commit' = IF pane.applying \/ RenderFails THEN None ELSE Put(FALSE, FALSE, TRUE)
    /\ UNCHANGED <<disk, document, active, flights, gone, landed, outside>>

(* reload, after "Discard your unsaved edits?" or an editor.               *)
Reload ==
    /\ overlay' = Closed
    /\ UNCHANGED <<disk, commit, flights, gone, landed, outside>>
    /\ IF pane.applying \/ disk = None THEN
          pane' = Shown(pane) /\ UNCHANGED <<document, active>>
       ELSE IF disk = Broken THEN
          /\ file' = None /\ fresh' = FALSE /\ loadErr' = TRUE /\ dirty' = FALSE /\ tick' = FALSE
          /\ pane' = DropPlan(pane) /\ active' = "check" /\ UNCHANGED doc
       ELSE
          /\ file' = disk /\ fresh' = FALSE /\ loadErr' = FALSE /\ dirty' = FALSE /\ tick' = FALSE
          /\ doc' = disk.doc /\ pane' = SyncApply(DropPlan(pane), disk.doc, FALSE)
          /\ UNCHANGED active

ReloadConfirmed == Idle /\ overlay.kind = "reload" /\ Reload
EditorDone == Idle /\ loadErr /\ overlay = Closed /\ Reload

(* r and o in the conflict dialog.                                         *)
AnswerConflict ==
    /\ Idle /\ overlay.kind = "conflict"
    /\ \E k \in {"reload", "over"} : overlay' = Dialog(k)
    /\ UNCHANGED <<disk, document, active, commit, pane, flights, gone, landed, outside>>

(* esc, or n, in any dialog.                                               *)
CancelDialog ==
    /\ Idle /\ overlay # Closed
    /\ overlay' = Closed /\ pane' = Shown(pane)
    /\ UNCHANGED <<disk, document, active, commit, flights, gone, landed, outside>>

-------------------------------------------------------------------------------
(* Editing and leaving.                                                    *)

Edit(d) ==
    /\ Idle /\ overlay = Closed /\ active = "rules"
    /\ ~loadErr /\ (fresh \/ Editable(file))
    /\ d # doc /\ doc' = d /\ dirty' = TRUE /\ tick' = TRUE
    /\ UNCHANGED <<disk, file, fresh, loadErr, commit, overlay, active, pane, flights, gone, landed, outside>>

(* The latest edit's tick; the ticks of earlier edits do nothing.          *)
Debounced ==
    /\ Idle /\ tick
    /\ tick' = FALSE /\ dirty' = Unsaved
    /\ UNCHANGED <<disk, file, fresh, loadErr, doc, commit, overlay, active, pane, flights, gone, landed, outside>>

(* q or ctrl+c.  An apply is stopped instead; a dirty flag that lags the   *)
(* last keystroke is computed again before anything is asked.              *)
Stopped(f) == [f EXCEPT !.stop = @ \/ f.kind = "apply"]
Quit ==
    /\ Idle
    /\ UNCHANGED <<disk, file, fresh, loadErr, doc, tick, commit, active, landed, outside>>
    /\ IF pane.applying THEN
          flights' = {Stopped(f) : f \in flights} /\ UNCHANGED <<dirty, overlay, pane, gone>>
       ELSE LET lost == dirty /\ Unsaved IN
          /\ dirty' = lost /\ gone' = ~lost
          /\ overlay' = IF lost THEN Dialog("quit") ELSE overlay
          /\ pane' = IF lost THEN pane ELSE CancelPlanning(pane)
          /\ UNCHANGED flights

QuitSave == Idle /\ overlay.kind = "quit" /\ Save(TRUE)
QuitDiscard ==
    /\ Idle /\ overlay.kind = "quit"
    /\ gone' = TRUE /\ overlay' = Closed /\ pane' = CancelPlanning(pane)
    /\ UNCHANGED <<disk, document, active, commit, flights, landed, outside>>

-------------------------------------------------------------------------------
(* The Apply pane's keys.  While events are being sent the ones that would *)
(* change them are refused.                                                *)

Show(p) ==
    /\ Idle /\ overlay = Closed /\ p # active
    /\ active' = p
    /\ pane' = IF p = "apply" THEN SyncApply(pane, doc, loadErr \/ fresh) ELSE pane
    /\ UNCHANGED <<disk, document, commit, overlay, flights, gone, landed, outside>>

AtApply == Idle /\ overlay = Closed /\ active = "apply" /\ ~loadErr /\ ~fresh
Choosing ==
    /\ AtApply /\ ~pane.applying
    /\ UNCHANGED <<disk, document, active, commit, overlay, flights, gone, landed, outside>>

Pick ==
    /\ Choosing
    /\ pane' = SelectionChanged([pane EXCEPT !.picked = ~@])
Paste ==
    /\ Choosing /\ pane.paste = "none"
    /\ pane' = SelectionChanged([pane EXCEPT !.paste = "on"])
Unpaste ==
    /\ Choosing /\ pane.paste # "none"
    /\ \E p \in {"none", "on", "off"} \ {pane.paste} :
          pane' = SelectionChanged([pane EXCEPT !.paste = p])
CancelKey ==
    /\ Choosing /\ pane.pending # None
    /\ pane' = CancelPlanning(pane)

(* p and r.                                                                *)
PlanOrResume ==
    /\ AtApply /\ ~pane.applying /\ ~PlanRefused
    /\ \/ StartPlan(pane, 1, FALSE)
       \/ pane.resumeAt > 0 /\ StartPlan(pane, pane.resumeAt, TRUE)
    /\ UNCHANGED <<disk, document, active, commit, overlay, gone, landed, outside>>

(* a.                                                                      *)
Ask ==
    /\ AtApply /\ ~pane.applying /\ pane.plan # None
    /\ AskApply(pane)
    /\ UNCHANGED <<disk, document, active, commit, gone, landed, outside>>

(* The question on a plan that has just landed, unless it is refused.      *)
AskOnArrival(a) ==
    \/ Ready(a, a.plan) /\ overlay' = [kind |-> "apply", plan |-> a.plan] /\ pane' = a
    \/ ~dirty /\ ~Current(a, a.plan) /\ pane' = DropPlan(a) /\ UNCHANGED overlay

(* A result is told from the run that replaced its own by its number.      *)
MutantLate(f) == pane.pending = None
Late(f) == f.gen # pane.gen \/ pane.pending = None

(* A plan lands: a late one is dropped, and so is one whose events or file *)
(* changed.  One asked for with a or r goes on to the question, if the     *)
(* user is still there.                                                    *)
PlanDone(f) ==
    /\ Idle /\ f \in flights /\ f.kind = "plan"
    /\ UNCHANGED <<disk, document, active, commit, gone, landed, outside>>
    /\ LET p == pane.pending
           a == EndRun(pane)
           shown == [a EXCEPT !.plan = f.of, !.old = FALSE]
       IN
       /\ flights' = flights \ {f}
       /\ \/ Late(f) /\ UNCHANGED <<pane, overlay>>
          \/ /\ ~Late(f)
             /\ \/ pane' = a /\ UNCHANGED overlay   \* cannot be planned, or not of this key
                \/ /\ p.key = PlanKey(pane, p.key.from)
                   /\ ~p.confirm
                   /\ pane' = [shown EXCEPT !.resumeAt = 0] /\ UNCHANGED overlay
                \/ /\ p.key = PlanKey(pane, p.key.from)
                   /\ p.confirm
                   /\ \/ pane' = shown /\ UNCHANGED overlay   \* the user is elsewhere
                      \/ overlay = Closed /\ active = "apply" /\ AskOnArrival(shown)

(* y to the question.                                                      *)
StartApply ==
    /\ Idle /\ overlay.kind = "apply"
    /\ overlay' = Closed
    /\ UNCHANGED <<disk, document, active, commit, gone, landed, outside>>
    /\ LET p == overlay.plan IN
       \/ /\ Ready(pane, p) /\ pane.gen < MaxRuns
          /\ pane' = [pane EXCEPT !.gen = @ + 1, !.applying = TRUE, !.resumeAt = 0]
          /\ flights' = flights \cup
                {[kind |-> "apply", gen |-> pane.gen + 1, of |-> p, at |-> p.from, stop |-> FALSE]}
       \/ ~Ready(pane, p) /\ NotReady(pane, p)

(* Execute: one event after another, none begun once stopped.              *)
SendEvent(f) ==
    /\ f \in flights /\ f.kind = "apply" /\ ~f.stop /\ f.at <= Len(f.of.sel)
    /\ flights' = (flights \ {f}) \cup {[f EXCEPT !.at = @ + 1]}
    /\ landed' = landed \cup {f.of.sel[f.at]}
    /\ UNCHANGED <<disk, document, active, commit, overlay, pane, gone, outside>>

(* It has sent every event, or it was stopped or failed at one: r then     *)
(* offers to resume from that one.                                         *)
ApplyDone(f) ==
    /\ Idle /\ f \in flights /\ f.kind = "apply"
    /\ flights' = flights \ {f}
    /\ pane' = IF f.gen # pane.gen \/ ~pane.applying THEN pane
               ELSE [EndRun(pane) EXCEPT !.plan = None, !.old = FALSE,
                        !.resumeAt = IF f.at > Len(f.of.sel) THEN 0 ELSE f.at]
    /\ UNCHANGED <<disk, document, active, commit, overlay, gone, landed, outside>>

-------------------------------------------------------------------------------
(* The plan on screen gets over five minutes old.                          *)
Age ==
    /\ Idle /\ pane.plan # None /\ ~pane.applying /\ ~pane.old
    /\ pane' = [pane EXCEPT !.old = TRUE]
    /\ UNCHANGED <<disk, document, active, commit, overlay, flights, gone, landed, outside>>

(* Another program writes, replaces or removes the file.                   *)
Outside ==
    /\ ~gone /\ outside < MaxOutside
    /\ commit = None \/ EditorRaces
    /\ disk' \in ([doc : Docs, layout : {"hand", "alias"}] \cup {Broken, None}) \ {disk}
    /\ outside' = outside + 1
    /\ UNCHANGED <<document, active, commit, overlay, pane, flights, gone, landed>>

Next ==
    \/ SaveKey \/ Rename \/ SaveReformatted \/ Overwrite \/ ReloadConfirmed \/ EditorDone
    \/ AnswerConflict \/ CancelDialog
    \/ \E d \in Docs : Edit(d)
    \/ Debounced \/ Quit \/ QuitSave \/ QuitDiscard
    \/ \E p \in {"rules", "apply"} : Show(p)
    \/ Pick \/ Paste \/ Unpaste \/ CancelKey \/ PlanOrResume \/ Ask
    \/ \E f \in flights : PlanDone(f) \/ SendEvent(f) \/ ApplyDone(f)
    \/ StartApply \/ Age \/ Outside

Spec == Init /\ [][Next]_vars

-------------------------------------------------------------------------------
Runs == [kind : {"plan", "apply"}, gen : 1..MaxRuns, of : Plans, at : 1..3, stop : BOOLEAN]

(* The state has the types of the struct fields it stands for.             *)
TypeOK ==
    /\ disk \in Texts \cup {Broken, None}
    /\ file \in Texts \cup {None}
    /\ doc \in Docs
    /\ {fresh, loadErr, dirty, tick, gone} \subseteq BOOLEAN
    /\ flights \subseteq Runs
    /\ landed \subseteq Events
    /\ pane.gen \in 0..(MaxRuns + 1) /\ pane.resumeAt \in 0..2
    /\ pane.plan \in Plans \cup {None}

(* The plan on screen was made of the file last saved and of the events    *)
(* selected now, and it stays so while it is being sent: no save, reload,  *)
(* paste or selection changes either under an apply, and a late plan never *)
(* takes the place of a newer one.                                         *)
PlanIsCurrent ==
    /\ pane.plan # None => pane.plan = PlanKey(pane, pane.plan.from)
    /\ pane.applying => pane.plan # None

(* While the workspace thinks there is nothing to save, the document means *)
(* what the file it loaded or saved means: quitting then loses nothing.    *)
CleanMeansSaved ==
    ~dirty /\ ~loadErr => ~fresh /\ file.doc = doc

(* A save replaces the file only as it was loaded or last saved, unless    *)
(* the user confirmed saving over it: another program's edit is never      *)
(* silently overwritten (the comment of File.Save).                        *)
NoOutsideEditLost ==
    [][(disk' # disk /\ outside' = outside /\ disk # None) =>
          disk = file \/ commit.confirmed]_vars

(* Resuming skips only events an apply has already sent whole.             *)
ResumeSkipsOnlySent ==
    /\ \A i \in 1..2 : i < pane.resumeAt => i <= Len(Selected(pane)) /\ Selected(pane)[i] \in landed
    /\ pane.plan # None =>
          \A i \in 1..2 : i < pane.plan.from => pane.plan.sel[i] \in landed

(* The plan on screen is of what is selected, and skips nothing unsent.     *)
PlanIsSound == PlanIsCurrent /\ ResumeSkipsOnlySent

(* Sending starts only from a plan of the file as it is on disk, with no   *)
(* unsaved edit in the document, and no more than five minutes old.        *)
AppliesWhatIsSaved ==
    [][pane'.applying /\ ~pane.applying =>
          disk = file /\ doc = file.doc /\ pane.plan = overlay.plan /\ ~pane.old]_vars

==============================================================================
