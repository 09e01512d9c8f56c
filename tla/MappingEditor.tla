------------------------------ MODULE MappingEditor ------------------------------
(***************************************************************************)
(* The editors of `ofga mappings` (internal/command/mapping/tui): lists,    *)
(* forms and pickers that edit one document in place.  Each pane has a pile *)
(* of them; the top one has the keys, and closing one hands its result to   *)
(* the one under it, which reads the document again.  An editor knows what  *)
(* it edits by its position only: Rule 2, its tuple 1.                      *)
(*                                                                         *)
(* The document is its rules, what each lists and which event it was tried *)
(* on, and its tests; what a field holds is not modelled, so typing in a   *)
(* form is a change of the document and of nothing here.  A filter that is *)
(* typed over a list decides which of its rows the keys can reach; its     *)
(* matches also come back from the background, like those of `late`.       *)
(* Saving, the disk and the Apply pane are MappingWorkspace's, the model    *)
(* and the badge of the tests MappingChecks'.                              *)
(***************************************************************************)
EXTENDS Naturals, Sequences, SequencesExt, FiniteSets

CONSTANTS
    Samples,       \* sample events
    Drafts,       \* the documents a file may hold
    NoEvent,      \* a rule that was never tried on an event
    FirstId,      \* ids from here on are not in any draft
    MaxFilters,   \* maxFilters
    MaxIds,       \* bound: rules, items and tests ever created
    MaxKeys       \* bound: keys pressed

(* "each" are the iterator's own tuples.                                   *)
Lists == {"variables", "filters", "tuples", "each"}
Sections == {"trigger", "action", "variables", "iterator", "filters", "tuples"}
Panes == {"rules", "check", "tests"}

Events == Samples \cup {NoEvent}
Documents ==
    [rules : Seq([id : Nat, event : Events, iter : BOOLEAN, lists : [Lists -> Seq(Nat)]]),
     tests : Seq([id : Nat, event : Events, expects : Seq(Nat)])]

ASSUME EditorAssumption ==
    /\ NoEvent \notin Samples /\ Drafts \subseteq Documents
    /\ {FirstId, MaxFilters, MaxIds, MaxKeys} \subseteq Nat

VARIABLES
    draft,      \* w.doc
    stacks,   \* the editors open in the Rules and Tests panes, the root first
    found,    \* what the rows of Check point at: the rules as last checked
    lagging,     \* the debounce tick of the latest edit is in flight
    showing,   \* the pane shown
    asked,    \* the question over everything
    readOnly, \* s.ReadOnly
    unparsed,   \* w.loadErr: the file did not parse
    late,     \* matches of a filter on their way to the list that asked
    left,     \* the workspace has quit
    raced,    \* history: matches were on their way when the document changed
    created, keys  \* bounds

editorVars ==
    <<draft, stacks, found, lagging, showing, asked, readOnly, unparsed, late, left, raced, created, keys>>

-------------------------------------------------------------------------------
(* Editors.  `rule` and `at` are the positions an editor works by.  rid and *)
(* id, which the code does not have, are what stood there when it opened.   *)

Frame(kind) == [kind |-> kind, rule |-> 0, rid |-> 0, sec |-> "", at |-> 0, id |-> 0,
                rows |-> {}, text |-> FALSE]
OnRule(kind, i, rid) == [Frame(kind) EXCEPT !.rule = i, !.rid = rid]
Within(f, kind) == OnRule(kind, f.rule, f.rid)

NoQuestion == [kind |-> "none", rule |-> 0, rid |-> 0, sec |-> ""]

(* Editors in which every single key is text.                              *)
Typing == {"trigger", "form", "iterForm", "paste", "file", "name", "expect"}
Listing == {"hub", "list", "tests", "pick", "paths"}

IdsAt(s) == {[at |-> i, of |-> s[i]] : i \in DOMAIN s}
RuleIds(d) == [i \in DOMAIN d.rules |-> d.rules[i].id]

(* The slice an editor of items works on.                                  *)
ItemsOf(d, f) == IF f.kind \in {"editor", "expect"} THEN d.tests[f.at].expects
                 ELSE d.rules[f.rule].lists[f.sec]

(* The rules whose samples make a test: one for each event that no test of *)
(* the user's has.                                                         *)
Sampled(d) ==
    {i \in DOMAIN d.rules :
        /\ d.rules[i].event # NoEvent
        /\ \A j \in 1..(i - 1) : d.rules[j].event # d.rules[i].event
        /\ \A t \in DOMAIN d.tests : d.tests[t].event # d.rules[i].event}

(* What a save writes: the user's tests first, then the generated ones.    *)
SavedTests(d) ==
    {[own |-> TRUE, at |-> t, of |-> d.tests[t].id] : t \in DOMAIN d.tests}
      \cup {[own |-> FALSE, at |-> i, of |-> d.rules[i].id] : i \in Sampled(d)}

(* The rows of an editor, from the document as it is now.                  *)
Rows(f, d) ==
    CASE f.kind = "hub" -> IdsAt(RuleIds(d))
      [] f.kind \in {"list", "editor"} -> IdsAt(ItemsOf(d, f))
      [] f.kind = "tests" -> SavedTests(d)
      [] OTHER -> {}

Synced(f, d) == [f EXCEPT !.rows = Rows(f, d)]

(* An editor is told that it is on top again.                              *)
Resumed(s, d) == Append(Front(s), Synced(Last(s), d))

(* The one on top closes, and the one under it reads the document again.    *)
MutantPopped(s, d) == Front(s)
Popped(s, d) == Resumed(Front(s), d)
Opened(s, f, d) == Append(s, Synced(f, d))

Fresh(d) == [rules |-> <<Synced(Frame("hub"), d)>>, tests |-> <<Synced(Frame("tests"), d)>>]

(* A message for a component reaches it as long as nothing was opened over *)
(* it or closed since: the generation of the stack.                        *)
Covered(p) == IF late.pane = p THEN [late EXCEPT !.live = FALSE] ELSE late
NoMatches == [pane |-> "check", live |-> FALSE, rows |-> {}]

(* Input that no save keeps: a rule being added, a pasted text.             *)
Holds(s) == \E i \in DOMAIN s :
                \/ s[i].kind = "fork" /\ s[i].text
                \/ s[i].kind = "paste" /\ s[i].text

EditorInit ==
    /\ draft \in Drafts /\ readOnly \in BOOLEAN
    /\ stacks = Fresh(draft) /\ found = RuleIds(draft)
    /\ lagging = FALSE /\ showing = "rules" /\ asked = NoQuestion
    /\ unparsed = FALSE /\ late = NoMatches /\ left = FALSE
    /\ raced = FALSE /\ created = 0 /\ keys = 0

-------------------------------------------------------------------------------
(* A key reaches the editor on top of the pane shown, and everything that   *)
(* it leads to is settled before the next one.                             *)

OnScreen == showing \in DOMAIN stacks
S == stacks[showing]
Top == Last(S)

Pressed == ~left /\ keys < MaxKeys /\ keys' = keys + 1
Key(kinds) ==
    /\ Pressed /\ asked = NoQuestion /\ ~unparsed /\ OnScreen
    /\ Top.kind \in kinds
    /\ UNCHANGED <<showing, readOnly, unparsed, left>>

Becomes(s) == stacks' = [stacks EXCEPT ![showing] = s]
Same == UNCHANGED <<draft, found, lagging, created>>
Asking(q) == asked' = q
Quiet == asked' = asked

(* docChangedMsg.                                                          *)
Edited(d) == draft' = d /\ lagging' = TRUE /\ UNCHANGED found
Made(n) == created + n <= MaxIds /\ created' = created + n
NewId == FirstId + created

Open(f) == Becomes(Opened(S, f, draft)) /\ late' = Covered(showing)
Close == Becomes(Popped(S, draft)) /\ late' = Covered(showing)

(* esc.  A rule's page ends its guidance; a paste with text asks first.    *)
Esc ==
    /\ Key({"rule", "action", "list", "iterHub", "form", "trigger", "paths", "file",
            "editor", "name", "expect", "delete", "deleteTest", "discard"})
    /\ Close /\ Same /\ Quiet

(* Every keystroke in a form that changes a value writes the form's fields  *)
(* to the position it was opened on.                                       *)
TypeIn(kind, secs) ==
    /\ Key({kind}) /\ Top.sec \in secs
    /\ Edited(draft) /\ UNCHANGED <<stacks, late, created>> /\ Quiet

TupleForm == TypeIn("form", {"tuples", "each"})
VarForm == TypeIn("form", {"variables"})
FilterForm == TypeIn("form", {"filters"})
TriggerForm == TypeIn("trigger", {""})

-------------------------------------------------------------------------------
(* The list of rules, and a rule's page.                                   *)

AddRule ==
    /\ Key({"hub"}) /\ ~readOnly
    /\ Becomes(S \o <<Frame("fork"), [Frame("pick") EXCEPT !.text = TRUE]>>)
    /\ late' = Covered(showing) /\ Same /\ Quiet

OpenRule ==
    /\ Key({"hub"})
    /\ \E r \in Top.rows : Open(OnRule("rule", r.at, r.of))
    /\ Same /\ Quiet

AskDeleteRule ==
    /\ Key({"hub"}) /\ ~readOnly
    /\ \E r \in Top.rows : r.at <= Len(draft.rules) /\ Open(OnRule("delete", r.at, r.of))
    /\ Same /\ Quiet

DeleteRule ==
    /\ Key({"delete"})
    /\ LET d == [draft EXCEPT !.rules = RemoveAt(@, Top.rule)] IN
       Edited(d) /\ Becomes(Popped(S, d))
    /\ late' = Covered(showing) /\ UNCHANGED created /\ Quiet

(* The editor of a section, over what is open.                             *)
SectionEditor(f, sec) ==
    CASE sec \in {"trigger", "action"} -> Within(f, sec)
      [] sec = "iterator" -> Within(f, "iterHub")
      [] OTHER -> [Within(f, "list") EXCEPT !.sec = sec]

OpenSection ==
    /\ Key({"rule"}) /\ ~readOnly
    /\ \E sec \in Sections : Open(SectionEditor(Top, sec))
    /\ Same /\ Quiet

ChooseAction ==
    /\ Key({"action"})
    /\ Edited(draft) /\ Close /\ UNCHANGED created /\ Quiet

-------------------------------------------------------------------------------
(* Lists of items and the forms that edit one of them.                     *)

WithItems(f, s) == [draft EXCEPT !.rules[f.rule].lists[f.sec] = s]
Item(f, i, id) == [Within(f, "form") EXCEPT !.sec = f.sec, !.at = i, !.id = id]

AddItem ==
    LET s == Append(ItemsOf(draft, Top), NewId)
        d == WithItems(Top, s)
    IN
    /\ Made(1) /\ Edited(d)
    /\ Becomes(Opened(Resumed(S, d), Item(Top, Len(s), NewId), d))
    /\ late' = Covered(showing)

OpenItem ==
    /\ Same
    /\ \E r \in Top.rows : r.at <= Len(ItemsOf(draft, Top)) /\ Open(Item(Top, r.at, r.of))

(* d deletes at once.                                                      *)
DeleteItem ==
    /\ \E r \in Top.rows :
          LET d == WithItems(Top, RemoveAt(ItemsOf(draft, Top), r.at)) IN
          /\ r.at <= Len(ItemsOf(draft, Top))
          /\ Edited(d) /\ Becomes(Resumed(S, d))
    /\ UNCHANGED <<late, created>>

ListKey(secs) == Key({"list"}) /\ Top.sec \in secs /\ Quiet
HasRoom == Len(ItemsOf(draft, Top)) < MaxFilters

TupleList == ListKey({"tuples", "each"}) /\ (AddItem \/ OpenItem \/ DeleteItem)
VarList == ListKey({"variables"}) /\ (AddItem \/ OpenItem \/ DeleteItem)
FilterList == ListKey({"filters"}) /\ ((HasRoom /\ AddItem) \/ OpenItem \/ DeleteItem)

(* ctrl+p, and the path chosen, which the form inserts.                    *)
OpenPaths ==
    /\ Key({"form", "trigger", "iterForm"})
    /\ draft.rules[Top.rule].event # NoEvent
    /\ Open(Within(Top, "paths")) /\ Same /\ Quiet
ChoosePath ==
    /\ Key({"paths"})
    /\ Edited(draft) /\ Close /\ UNCHANGED created /\ Quiet

-------------------------------------------------------------------------------
(* The iterator: a source, and tuples written once per item of it.         *)

Iterates(i) == draft.rules[i].iter
OpenIterForm ==
    /\ Key({"iterHub"})
    /\ Open([Within(Top, "iterForm") EXCEPT !.text = Iterates(Top.rule)])
    /\ Same /\ Quiet
OpenIterTuples ==
    /\ Key({"iterHub"}) /\ Iterates(Top.rule)
    /\ Open([Within(Top, "list") EXCEPT !.sec = "each"]) /\ Same /\ Quiet
CloseIterHub == Key({"iterHub"}) /\ Close /\ Same /\ Quiet

(* A blank source is not written while it is typed.                        *)
TypeSource ==
    /\ Key({"iterForm"})
    /\ \E t \in BOOLEAN :
          LET on == [draft EXCEPT !.rules[Top.rule].iter = TRUE] IN
          /\ Becomes([S EXCEPT ![Len(S)].text = t])
          /\ IF t THEN Edited(on) ELSE UNCHANGED <<draft, found, lagging>>
    /\ UNCHANGED <<late, created>> /\ Quiet

(* On the way out it drops the iterator, with its tuples.                  *)
CloseIterForm ==
    /\ Key({"iterForm"})
    /\ LET off == [draft EXCEPT !.rules[Top.rule].iter = FALSE,
                              !.rules[Top.rule].lists["each"] = <<>>]
       IN IF Top.text \/ ~Iterates(Top.rule) THEN UNCHANGED <<draft, found, lagging>> /\ Close
          ELSE Edited(off) /\ Becomes(Popped(S, off)) /\ late' = Covered(showing)
    /\ UNCHANGED created /\ Quiet

-------------------------------------------------------------------------------
(* Events: picked from the catalog, pasted or read from a file.            *)

NewRule(id, e, items) ==
    [id |-> id, event |-> e, iter |-> FALSE,
     lists |-> [l \in Lists |-> IF l = "tuples" THEN items ELSE <<>>]]

(* RuleAdded reaches the list of rules, which opens the new one.           *)
AppendRule(s, r) ==
    LET d == [draft EXCEPT !.rules = Append(@, r)] IN
    /\ Edited(d)
    /\ Becomes(Opened(Resumed(s, d), OnRule("rule", Len(d.rules), r.id), d))

OnTest(kind, t, id) == [Frame(kind) EXCEPT !.at = t, !.id = id]
AppendTest(s, t) ==
    LET d == [draft EXCEPT !.tests = Append(@, t)] IN
    /\ Edited(d)
    /\ Becomes(Opened(Resumed(s, d), OnTest("editor", Len(d.tests), t.id), d))

(* The event reaches the editor the pick was opened on, the last of s.     *)
Receive(s) ==
    \E e \in Samples :
       LET r == Last(s) IN
       \/ /\ r.kind = "fork" /\ Made(1)
          /\ AppendRule(Front(s), NewRule(NewId, e, <<>>))
       \/ /\ r.kind = "tests" /\ Made(1)
          /\ AppendTest(s, [id |-> NewId, event |-> e, expects |-> <<>>])
       \/ /\ r.kind = "trigger" /\ UNCHANGED created
          /\ LET d == [draft EXCEPT !.rules[r.rule].event = e] IN Edited(d) /\ Becomes(Resumed(s, d))
       \/ /\ r.kind = "editor" /\ UNCHANGED created
          /\ LET d == [draft EXCEPT !.tests[r.at].event = e] IN Edited(d) /\ Becomes(Resumed(s, d))

OpenPick ==
    /\ Key({"trigger", "tests", "editor"}) /\ ~readOnly
    /\ Open(Frame("pick")) /\ Same /\ Quiet

(* An event of the catalog: the fork shows its recipe first.               *)
PickFromCatalog ==
    /\ Key({"pick"}) /\ late' = Covered(showing) /\ Quiet
    /\ \/ ~Top.text /\ Receive(Front(S))
       \/ /\ Top.text /\ Same
          /\ Becomes(Append([Front(S) EXCEPT ![Len(S) - 1].text = TRUE], Frame("recipe")))
OpenPasteOrFile ==
    /\ Key({"pick"})
    /\ \E kind \in {"paste", "file"} : Open(Frame(kind))
    /\ Same /\ Quiet

(* esc on the pick leaves the fork too.                                    *)
ClosePick ==
    /\ Key({"pick"})
    /\ Becomes(IF Top.text THEN Popped(Front(S), draft) ELSE Popped(S, draft))
    /\ late' = Covered(showing) /\ Same /\ Quiet

TypePaste ==
    /\ Key({"paste"})
    /\ \E t \in BOOLEAN \ {Top.text} : Becomes([S EXCEPT ![Len(S)].text = t])
    /\ UNCHANGED late /\ Same /\ Quiet
AcceptEvent ==
    /\ Key({"paste", "file"}) /\ (Top.kind = "paste" => Top.text)
    /\ Receive(Front(Front(S))) /\ late' = Covered(showing) /\ Quiet
EscPaste ==
    /\ Key({"paste"}) /\ Same /\ Quiet
    /\ IF Top.text THEN Open(Frame("discard")) ELSE Close
DiscardPaste ==
    /\ Key({"discard"})
    /\ Becomes(Popped(Front(S), draft)) /\ late' = Covered(showing) /\ Same /\ Quiet

(* A recipe is a rule, with the tuples it writes if it maps to any.        *)
AcceptRecipe ==
    /\ Key({"recipe"})
    /\ \E e \in Samples, n \in {0, 1} :
          /\ Made(n + 1)
          /\ AppendRule(Front(Front(S)), NewRule(NewId, e, [i \in 1..n |-> NewId + i]))
    /\ late' = Covered(showing) /\ Quiet
EscRecipe ==
    /\ Key({"recipe"})
    /\ Becomes(Append([Front(S) EXCEPT ![Len(S) - 1].text = FALSE],
                      [Frame("pick") EXCEPT !.text = TRUE]))
    /\ late' = Covered(showing) /\ Same /\ Quiet

-------------------------------------------------------------------------------
(* The tests.  A generated one is copied in before it is edited.           *)

OpenTest ==
    /\ Key({"tests"}) /\ ~readOnly
    /\ \E r \in Top.rows :
          \/ r.own /\ Open(OnTest("editor", r.at, r.of)) /\ Same
          \/ /\ ~r.own /\ r.at <= Len(draft.rules) /\ Made(2)
             /\ AppendTest(S, [id |-> NewId, event |-> draft.rules[r.at].event, expects |-> <<NewId + 1>>])
             /\ late' = Covered(showing)
    /\ Quiet
AskDeleteTest ==
    /\ Key({"tests"}) /\ ~readOnly
    /\ \E r \in Top.rows : r.own /\ Open(OnTest("deleteTest", r.at, r.of))
    /\ Same /\ Quiet
DeleteTest ==
    /\ Key({"deleteTest"})
    /\ LET d == [draft EXCEPT !.tests = RemoveAt(@, Top.at)] IN
       Edited(d) /\ Becomes(Popped(S, d))
    /\ late' = Covered(showing) /\ UNCHANGED created /\ Quiet

OpenTestForm ==
    /\ Key({"editor"})
    /\ \E kind \in {"name", "expect"} : Open(OnTest(kind, Top.at, Top.id))
    /\ Same /\ Quiet
SubmitName ==
    /\ Key({"name"})
    /\ Edited(draft) /\ Close /\ UNCHANGED created /\ Quiet
SubmitExpected ==
    /\ Key({"expect"}) /\ Made(1)
    /\ LET d == [draft EXCEPT !.tests[Top.at].expects = Append(@, NewId)] IN
       Edited(d) /\ Becomes(Popped(S, d))
    /\ late' = Covered(showing) /\ Quiet

(* d on a row of the editor; n, and r when the mapping produces nothing.    *)
DropExpected ==
    /\ Key({"editor"})
    /\ \E kept \in {<<>>} \cup {RemoveAt(ItemsOf(draft, Top), r.at) : r \in Top.rows} :
          LET d == [draft EXCEPT !.tests[Top.at].expects = kept] IN
          d # draft /\ Edited(d) /\ Becomes(Resumed(S, d))
    /\ UNCHANGED <<late, created>> /\ Quiet
ToggleCoverage ==
    /\ Key({"editor"}) /\ Edited(draft) /\ UNCHANGED <<stacks, late, created>> /\ Quiet

-------------------------------------------------------------------------------
(* Panes, and the jumps from a test or a finding to a rule.                *)

Resume(p, st) == IF p \in DOMAIN st THEN [st EXCEPT ![p] = Resumed(@, draft)] ELSE st

SwitchTo(p, st) == showing' = p /\ stacks' = Resume(p, st)

ShowPane(p) ==
    /\ Pressed /\ asked = NoQuestion /\ p # showing
    /\ (OnScreen /\ ~unparsed) => Top.kind \notin Typing
    /\ SwitchTo(p, stacks)
    /\ UNCHANGED <<draft, found, lagging, asked, readOnly, unparsed, late, left, created>>

(* ShowRule leaves only the list of rules under the rule's page.           *)
GoTo(j) ==
    LET page == OnRule("rule", j.rule, j.rid)
        over == IF readOnly \/ j.sec = "" THEN <<>> ELSE <<Synced(SectionEditor(page, j.sec), draft)>>
        hub == Synced(stacks["rules"][1], draft)
    IN
    /\ showing' = "rules"
    /\ IF j.rule > Len(draft.rules) THEN stacks' = Resume("rules", stacks) /\ UNCHANGED late
       ELSE /\ stacks' = [stacks EXCEPT !["rules"] = <<hub, page>> \o over]
            /\ late' = IF over = <<>> THEN late ELSE Covered("rules")

MutantJump(i, rid, sec) ==
    GoTo([kind |-> "drop", rule |-> i, rid |-> rid, sec |-> sec]) /\ Quiet
Jump(i, rid, sec) ==
    LET j == [kind |-> "drop", rule |-> i, rid |-> rid, sec |-> sec] IN
    IF Holds(stacks["rules"]) THEN Asking(j) /\ UNCHANGED <<showing, stacks, late>>
    ELSE GoTo(j) /\ Quiet

(* e on a test: the rule its sample made it from, or one that its event     *)
(* fired.                                                                  *)
JumpFromTest ==
    /\ Pressed /\ asked = NoQuestion /\ ~unparsed /\ showing = "tests" /\ Top.kind = "tests"
    /\ \E r \in Top.rows, i \in DOMAIN draft.rules :
          /\ ~r.own => i = r.at
          /\ Jump(i, IF r.own THEN draft.rules[i].id ELSE r.of, "")
    /\ UNCHANGED <<draft, found, lagging, readOnly, unparsed, left, created>>

(* enter on a finding.  Within the debounce the rows are those of before    *)
(* the latest edits, and so are their rules: the rule found there is then   *)
(* taken as the one that was meant.                                        *)
JumpFromCheck ==
    /\ Pressed /\ asked = NoQuestion /\ ~unparsed /\ showing = "check"
    /\ \E i \in DOMAIN found, sec \in Sections \cup {""} :
          Jump(i, IF lagging /\ i <= Len(draft.rules) THEN draft.rules[i].id ELSE found[i], sec)
    /\ UNCHANGED <<draft, found, lagging, readOnly, unparsed, left, created>>

(* The answer to "Drop the rule you were adding?"                          *)
AnswerDrop ==
    /\ Pressed /\ asked.kind = "drop" /\ asked' = NoQuestion
    /\ \/ GoTo(asked)
       \/ SwitchTo(showing, stacks) /\ UNCHANGED late
    /\ UNCHANGED <<draft, found, lagging, readOnly, unparsed, left, created>>

(* q or ctrl+c, over a question too.  Unsaved edits are asked about next.   *)
QuitKey ==
    /\ Pressed
    /\ IF ~unparsed /\ \E p \in DOMAIN stacks : Holds(stacks[p])
       THEN asked' = [NoQuestion EXCEPT !.kind = "leave"] /\ UNCHANGED left
       ELSE left' = TRUE /\ asked' = NoQuestion
    /\ UNCHANGED <<draft, stacks, found, lagging, showing, readOnly, unparsed, late, created>>
AnswerLeave ==
    /\ Pressed /\ asked.kind = "leave" /\ asked' = NoQuestion
    /\ \/ left' = TRUE /\ UNCHANGED <<showing, stacks>>
       \/ SwitchTo(showing, stacks) /\ UNCHANGED left
    /\ UNCHANGED <<draft, found, lagging, readOnly, unparsed, late, created>>

-------------------------------------------------------------------------------
(* Catching up, and a file that is loaded again.                           *)

Rechecked ==
    /\ ~left /\ lagging /\ lagging' = FALSE /\ found' = RuleIds(draft)
    /\ UNCHANGED <<draft, stacks, showing, asked, readOnly, unparsed, late, left, created, keys>>

(* After "Discard your unsaved edits?", or an editor: every pile is built   *)
(* anew.                                                                   *)
Rebuild ==
    /\ Pressed /\ asked = NoQuestion
    /\ \E d \in Drafts :
          /\ draft' = d /\ stacks' = Fresh(d) /\ found' = RuleIds(d)
    /\ readOnly' \in BOOLEAN /\ unparsed' = FALSE /\ lagging' = FALSE
    /\ late' = [late EXCEPT !.live = FALSE]
    /\ UNCHANGED <<showing, asked, left, created>>

(* The file no longer parses: its findings are all there is to see.         *)
RebuildBroken ==
    /\ Pressed /\ asked = NoQuestion
    /\ unparsed' = TRUE /\ readOnly' = TRUE /\ showing' = "check" /\ lagging' = FALSE
    /\ UNCHANGED <<draft, stacks, found, asked, late, left, created>>

(* A keystroke in the filter over a list asks for its matches again.       *)
AskMatches ==
    /\ Key({"hub", "list", "tests", "pick", "paths"}) /\ ~late.live
    /\ late' = [pane |-> showing, live |-> TRUE, rows |-> Top.rows]
    /\ UNCHANGED stacks /\ Same /\ Quiet
MatchesArrive ==
    /\ ~left /\ late.live /\ late' = NoMatches
    /\ LET s == stacks[late.pane] IN
       stacks' = IF Last(s).kind \in Listing
                 THEN [stacks EXCEPT ![late.pane][Len(s)].rows = late.rows] ELSE stacks
    /\ UNCHANGED <<draft, found, lagging, showing, asked, readOnly, unparsed, left, created, keys>>

Step ==
    \/ Esc \/ TupleForm \/ VarForm \/ FilterForm \/ TriggerForm
    \/ AddRule \/ OpenRule \/ AskDeleteRule \/ DeleteRule \/ OpenSection \/ ChooseAction
    \/ TupleList \/ VarList \/ FilterList \/ OpenPaths \/ ChoosePath
    \/ OpenIterForm \/ OpenIterTuples \/ CloseIterHub \/ TypeSource \/ CloseIterForm
    \/ OpenPick \/ PickFromCatalog \/ OpenPasteOrFile \/ ClosePick
    \/ TypePaste \/ AcceptEvent \/ EscPaste \/ DiscardPaste \/ AcceptRecipe \/ EscRecipe
    \/ OpenTest \/ AskDeleteTest \/ DeleteTest
    \/ OpenTestForm \/ SubmitName \/ SubmitExpected \/ DropExpected \/ ToggleCoverage
    \/ \E p \in Panes : ShowPane(p)
    \/ JumpFromTest \/ JumpFromCheck \/ AnswerDrop \/ QuitKey \/ AnswerLeave
    \/ Rechecked \/ Rebuild \/ RebuildBroken
    \/ AskMatches \/ MatchesArrive

Races == draft' # draft /\ late'.live
EditorNext == Step /\ raced' = (raced \/ Races)

-------------------------------------------------------------------------------
(* What every open editor works on, by position, is what it was opened on:  *)
(* through deletions, additions, jumps, reloads and the panes shown in      *)
(* between (rules.go, tuples.go and test_editor.go keep an index each).    *)
PositionsHold ==
    \A p \in DOMAIN stacks : \A i \in DOMAIN stacks[p] :
       LET f == stacks[p][i] IN
       /\ f.rule # 0 => f.rule <= Len(draft.rules) /\ draft.rules[f.rule].id = f.rid
       /\ f.kind = "form" => f.at <= Len(ItemsOf(draft, f)) /\ ItemsOf(draft, f)[f.at] = f.id
       /\ f.kind \in {"editor", "name", "expect", "deleteTest"} =>
             f.at <= Len(draft.tests) /\ draft.tests[f.at].id = f.id

(* "enter and d act on the rows the user sees" (tuples.go:88): the rows of  *)
(* the list that has the keys are the document's.                          *)
RowsAreCurrent == OnScreen /\ ~unparsed => Top.rows = Rows(Top, draft)

(* Check points at the rules as they are once the debounce is over.        *)
FindingsHold == lagging \/ unparsed \/ found = RuleIds(draft)

(* A read-only file has no editor open that could change it.               *)
ReadOnlyHolds ==
    readOnly /\ ~unparsed =>
       \A p \in DOMAIN stacks : \A i \in DOMAIN stacks[p] :
          stacks[p][i].kind \in {"hub", "rule", "tests"}

(* What a key edits is what is seen, until matches have raced with an edit.  *)
EditsHitTheirTarget == (raced \/ (PositionsHold /\ RowsAreCurrent)) /\ FindingsHold /\ ReadOnlyHolds

(* A rule being added and a text pasted are dropped, by quitting or by a    *)
(* jump, only after a question about them.  The pane they are in may close  *)
(* them by its own keys, and a reload drops them with the document.        *)
TypedIsKept ==
    [][\A p \in DOMAIN stacks :
         (Holds(stacks[p]) /\ ~unparsed /\ (left' \/ ~Holds(stacks'[p]))) =>
            \/ asked.kind \in {"drop", "leave"}
            \/ stacks' = Fresh(draft')
            \/ ~left' /\ showing = p /\ showing' = p]_editorVars
===============================================================================
