--------------------------------- MODULE Panels ---------------------------------
(***************************************************************************)
(* The Query and Assertions sections of the playground over one store      *)
(* (internal/command/playground: section_keys.go, update_forms.go,         *)
(* update.go, model.go, commands.go): queries, their history, resolution   *)
(* trees, and assertions that are run, opened, edited and deleted, while   *)
(* another model is picked and another client writes assertions.           *)
(*                                                                         *)
(* `current` says whether a request carries the latest generation of its   *)
(* kind.  A request is carried out when it comes back; Playground has the  *)
(* answers that are older than that, the spinner and the other stores.     *)
(* Not followed: text that is typed but not submitted, scrolling, layout.  *)
(* External: the server.                                                   *)
(***************************************************************************)
EXTENDS Naturals, Sequences, FiniteSets, SequencesExt

CONSTANTS
    Models,       \* models of the store
    First,        \* the selected one at first
    Newest,       \* the latest, which a write means when no list is loaded
    Asks,         \* what a query may ask: [mode, vals, ctx]
    Candidates,   \* assertions the user may enter: [vals, expect]
    Lists,        \* the lists of assertions the server may hold at first
    Allows,       \* external: the pairs <<model, ask>> that the server allows
    Plain,        \* a query without context and contextual tuples
    Nil,         \* nothing loaded, shown, open or chosen
    MaxHistory,   \* queries that are remembered (5)
    MaxPanelKeys, \* bound: keys
    MaxOthers,    \* bound: lists written by another client
    MaxLosses     \* bound: requests that fail

ASSUME PanelsAssumption ==
    /\ {First, Newest} \subseteq Models /\ Nil \notin Models
    /\ \A rows \in Lists : rows \in Seq(Range(rows))
    /\ {MaxHistory, MaxPanelKeys, MaxOthers, MaxLosses} \subseteq Nat /\ MaxHistory > 0

VARIABLES
    panel,    \* the Model's fields for the two sections
    asked,    \* the requests that have not come back
    stored,   \* external: the assertions of each model
    rushed,   \* history: whether a key was pressed in a way of Rushes
    panelKeys, others, losses

panelVars == <<panel, asked, stored, rushed, panelKeys, others, losses>>

--------------------------------------------------------------------------------
(* The Model's fields.  `of` is a history field: what a verdict answers.    *)

NoResult == [vals |-> Nil, badge |-> FALSE, ok |-> FALSE, err |-> FALSE, of |-> Nil]
Allowed(model, ask) == <<model, ask>> \in Allows
Verdict(model, ask) == [model |-> model, ask |-> ask, ok |-> Allowed(model, ask)]
Check(vals) == [mode |-> "check", vals |-> vals, ctx |-> Plain]
Check_(row) == Check(row.vals)

AtRest ==
    [section |-> "query", modelID |-> First, mode |-> "check", editing |-> FALSE,
     hasResult |-> FALSE, result |-> NoResult, showRes |-> FALSE, resTree |-> Nil,
     history |-> <<>>, picker |-> Nil,
     assertions |-> Nil, assertModelID |-> Nil, results |-> <<>>,
     form |-> Nil, confirm |-> Nil, writing |-> FALSE]

(* What belonged to the old model goes; the reads in flight stay current,    *)
(* and the messages say which model they are about.                         *)
CleanPanel(p) ==
    [p EXCEPT !.writing = FALSE, !.assertions = Nil, !.results = <<>>,
              !.assertModelID = Nil, !.history = <<>>, !.hasResult = FALSE,
              !.result = NoResult, !.showRes = FALSE, !.resTree = Nil]

Outdated(kinds, T) == {IF t.kind \in kinds THEN [t EXCEPT !.current = FALSE] ELSE t : t \in T}
Ask(kind, model, about) ==
    [kind |-> kind, model |-> model, about |-> about, id |-> panelKeys, current |-> TRUE,
     done |-> FALSE]
Asking(new) == asked' = Outdated({t.kind : t \in new}, asked) \cup new

--------------------------------------------------------------------------------
(* Keys.                                                                    *)

PanelKey ==
    /\ panelKeys < MaxPanelKeys
    /\ panelKeys' = panelKeys + 1
    /\ UNCHANGED <<stored, others, losses>>

NoDialog == panel.picker = Nil /\ panel.form = Nil /\ panel.confirm = Nil
On(section) == PanelKey /\ NoDialog /\ panel.section = section

(* Going to a section closes the tree.  The assertions are loaded when there *)
(* are none or the selected model is another.                               *)
GoTo(section) ==
    /\ PanelKey
    /\ NoDialog
    /\ section # panel.section
    /\ panel' = [panel EXCEPT !.section = section, !.showRes = FALSE,
                              !.editing = section = "query"]
    /\ IF /\ section = "assertions"
          /\ panel.assertions = Nil \/ panel.assertModelID # panel.modelID
       THEN Asking({Ask("load", panel.modelID, Nil)})
       ELSE UNCHANGED asked

PickModelOf(n) ==
    /\ On("model")
    /\ panel' = CleanPanel(panel)
    /\ asked' = Outdated({"put", "model"}, asked) \cup {Ask("model", n, Nil)}

EditQuery ==
    /\ On("query") /\ ~panel.showRes /\ ~panel.editing
    /\ panel' = [panel EXCEPT !.editing = TRUE]
    /\ UNCHANGED asked

(* Closing the tree, or leaving the form.                                   *)
Escape ==
    /\ On("query") /\ (panel.showRes \/ panel.editing)
    /\ panel' = IF panel.editing THEN [panel EXCEPT !.editing = FALSE]
                ELSE [panel EXCEPT !.showRes = FALSE]
    /\ UNCHANGED asked

CycleMode(mode) ==
    /\ On("query") /\ (panel.editing \/ ~panel.showRes)
    /\ mode # panel.mode
    /\ panel' = [panel EXCEPT !.mode = mode, !.hasResult = FALSE]
    /\ UNCHANGED asked

QueryError(p) ==
    [p EXCEPT !.result = [NoResult EXCEPT !.err = TRUE], !.hasResult = TRUE,
              !.showRes = FALSE, !.resTree = Nil]

(* The form checks what was entered before it asks.                         *)
SubmitQuery(ask) ==
    /\ On("query") /\ panel.editing /\ ask.mode = panel.mode
    /\ \/ panel' = QueryError(panel) /\ UNCHANGED asked
       \/ Asking({Ask("query", panel.modelID, ask)}) /\ UNCHANGED panel

(* The picker shows the history as it was when it was opened.               *)
OpenHistory ==
    /\ On("query") /\ ~panel.showRes /\ ~panel.editing
    /\ panel.history # <<>>
    /\ \E i \in DOMAIN panel.history :
          panel' = [panel EXCEPT !.picker = [rows |-> panel.history, at |-> i]]
    /\ UNCHANGED asked

CloseHistory ==
    /\ PanelKey
    /\ panel.picker # Nil
    /\ panel' = [panel EXCEPT !.picker = Nil]
    /\ UNCHANGED asked

MutantPicked(p) == p.history[p.picker.at]
Picked(p) == p.picker.rows[p.picker.at]

(* Relations of a type that the model no longer has are an error.           *)
RerunHistory ==
    /\ PanelKey
    /\ panel.picker # Nil
    /\ LET ask == Picked(panel)
           back == [panel EXCEPT !.picker = Nil, !.editing = FALSE, !.mode = ask.mode]
       IN  \/ panel' = back /\ Asking({Ask("query", panel.modelID, ask)})
           \/ /\ ask.mode # "check"
              /\ panel' = QueryError(back)
              /\ asked' = Outdated({"query"}, asked)

(* The tree of the check on screen, asked for without its context.          *)
ShowResolution ==
    /\ On("query") /\ (panel.editing \/ ~panel.showRes)
    /\ panel.hasResult /\ panel.result.badge
    /\ panel' = [panel EXCEPT !.editing = FALSE]
    /\ Asking({Ask("expand", panel.modelID, panel.result.vals)})

Listed == IF panel.assertions = Nil THEN <<>> ELSE panel.assertions

(* Opening an assertion runs it and shows its tree in the Query section.    *)
OpenAssertion(i) ==
    /\ On("assertions")
    /\ panel' = [panel EXCEPT !.section = "query", !.hasResult = FALSE,
                    !.result = [NoResult EXCEPT !.badge = TRUE, !.vals = Listed[i].vals]]
    /\ Asking({Ask("one", panel.assertModelID, <<i, Listed[i]>>),
               Ask("expand", panel.assertModelID, Listed[i].vals)})

RunAssertions ==
    /\ On("assertions")
    /\ Listed # <<>>
    /\ Asking({Ask("run", panel.assertModelID, Listed)})
    /\ UNCHANGED panel

ReloadAssertionList ==
    /\ On("assertions")
    /\ Asking({Ask("load", panel.modelID, Nil)})
    /\ UNCHANGED panel

(* The form replaces the row it was opened on, or adds one.  No form opens  *)
(* while a list is being written.                                           *)
OpenForm(i) ==
    /\ On("assertions") /\ ~panel.writing
    /\ panel' = [panel EXCEPT !.form = [at |-> i, row |-> IF i = 0 THEN Nil ELSE Listed[i]]]
    /\ UNCHANGED asked

PutAssertions(rows, p) ==
    /\ panel' = [p EXCEPT !.writing = TRUE]
    /\ Asking({Ask("put", panel.assertModelID, rows)})

Edited(i, row) ==
    IF i \in DOMAIN Listed THEN [Listed EXCEPT ![i] = row] ELSE Append(Listed, row)

SubmitForm(row) ==
    /\ PanelKey
    /\ panel.form # Nil
    /\ PutAssertions(Edited(panel.form.at, row), [panel EXCEPT !.form = Nil])

AskDelete(i) ==
    /\ On("assertions")
    /\ panel' = [panel EXCEPT !.confirm = [row |-> Listed[i], at |-> i]]
    /\ UNCHANGED asked

CloseDialog ==
    /\ PanelKey
    /\ panel.confirm # Nil \/ panel.form # Nil
    /\ panel' = [panel EXCEPT !.confirm = Nil, !.form = Nil]
    /\ UNCHANGED asked

(* The confirmed assertion is looked up again in the list of that moment.   *)
ConfirmDelete ==
    /\ PanelKey
    /\ panel.confirm # Nil
    /\ LET closed == [panel EXCEPT !.confirm = Nil]
           row == panel.confirm.row
       IN  IF panel.writing \/ ~Contains(Listed, row)
           THEN panel' = closed /\ UNCHANGED asked
           ELSE PutAssertions(RemoveFirst(Listed, row), closed)

--------------------------------------------------------------------------------
(* External: the server and another client.                                 *)

OtherWrites(n) ==
    /\ others < MaxOthers
    /\ others' = others + 1
    /\ \E rows \in Lists : rows # stored[n] /\ stored' = [stored EXCEPT ![n] = rows]
    /\ UNCHANGED <<panel, asked, panelKeys, losses>>

(* A write is carried out whether or not anyone still waits for it.         *)
Target(t) == IF t.model = Nil THEN Newest ELSE t.model

Carried(t) ==
    /\ t.kind = "put" /\ ~t.done
    /\ stored' = [stored EXCEPT ![Target(t)] = t.about]
    /\ asked' = (asked \ {t}) \cup {[t EXCEPT !.done = TRUE]}
    /\ UNCHANGED <<panel, panelKeys, others, losses>>

--------------------------------------------------------------------------------
(* Answers.  A failed request is reported and changes no verdict.           *)

OtherModel(t) == t.model # Nil /\ t.model # panel.modelID
OtherList(t) == t.model # panel.assertModelID
MutantIgnored(t) == ~t.current \/ OtherModel(t)
Ignored(t) ==
    \/ ~t.current
    \/ t.kind # "model" /\ OtherModel(t)
    \/ t.kind \in {"run", "one"} /\ OtherList(t)

PushHistory(ask, h) ==
    <<ask>> \o (IF Len(h) < MaxHistory THEN h ELSE SubSeq(h, 1, MaxHistory - 1))

QueryAnswered(t) ==
    LET check == t.about.mode = "check"
    IN  [panel EXCEPT
            !.hasResult = TRUE, !.showRes = FALSE, !.resTree = Nil,
            !.result = [vals |-> t.about.vals, badge |-> check, err |-> FALSE,
                        ok |-> check /\ Allowed(t.model, t.about),
                        of |-> Verdict(t.model, t.about)],
            !.history = PushHistory(t.about, @)]

TreeAnswered(t) ==
    [panel EXCEPT !.showRes = TRUE, !.resTree = [model |-> t.model, vals |-> t.about]]

ModelAnswered(t) ==
    [(IF OtherModel(t) THEN CleanPanel(panel) ELSE panel) EXCEPT !.modelID = t.model]

ListAnswered(t) ==
    [panel EXCEPT !.assertModelID = t.model, !.assertions = stored[t.model], !.results = <<>>]

Scored(t, row) == [row |-> row, model |-> t.model, got |-> Allowed(t.model, Check_(row))]
RunAnswered(t) == [panel EXCEPT !.results = [i \in DOMAIN t.about |-> Scored(t, t.about[i])]]

OneAnswered(t) ==
    LET i == t.about[1]
        scored == Scored(t, t.about[2])
        sized == IF Len(panel.results) = Len(Listed) THEN panel.results
                 ELSE [j \in DOMAIN Listed |-> Nil]
    IN  [panel EXCEPT
            !.results = IF i \in DOMAIN sized THEN [sized EXCEPT ![i] = scored] ELSE sized,
            !.result.ok = scored.got, !.result.badge = TRUE,
            !.result.of = Verdict(t.model, Check_(t.about[2])),
            !.hasResult = TRUE]

PutAnswered(t) == [panel EXCEPT !.writing = FALSE]

Answers(t) ==
    CASE t.kind = "query"  -> QueryAnswered(t)
      [] t.kind = "expand" -> TreeAnswered(t)
      [] t.kind = "model"  -> ModelAnswered(t)
      [] t.kind = "load"   -> ListAnswered(t)
      [] t.kind = "run"    -> RunAnswered(t)
      [] t.kind = "one"    -> OneAnswered(t)
      [] t.kind = "put"    -> PutAnswered(t)

(* Only a failed query says so in the panel, a failed list is emptied       *)
(* unless the server could not be reached, a failed write unlocks.          *)
Refusals(t) ==
    CASE t.kind = "query" -> {[panel EXCEPT !.hasResult = TRUE, !.showRes = FALSE,
                                 !.resTree = Nil, !.result = [NoResult EXCEPT !.err = TRUE]]}
      [] t.kind = "load"  -> {[panel EXCEPT !.assertModelID = t.model],
                              [panel EXCEPT !.assertModelID = t.model, !.assertions = Nil]}
      [] t.kind = "put"   -> {PutAnswered(t)}
      [] OTHER            -> {panel}

Returned(t) == asked' = asked \ {t}

(* A reported write is followed by a reload.                                *)
ComesBack(t) ==
    /\ t.kind = "put" => t.done
    /\ IF Ignored(t) THEN panel' = panel /\ Returned(t)
       ELSE /\ panel' = Answers(t)
            /\ IF t.kind = "put"
               THEN asked' = Outdated({"load"}, asked \ {t}) \cup {[t EXCEPT !.kind = "load", !.model = Target(t), !.about = Nil]}
               ELSE asked' = IF t.kind = "model" /\ OtherModel(t)
                             THEN Outdated({"put"}, asked \ {t}) ELSE asked \ {t}
    /\ UNCHANGED <<stored, panelKeys, others, losses>>

GetsLost(t) ==
    /\ losses < MaxLosses
    /\ losses' = losses + 1
    /\ IF Ignored(t) THEN panel' = panel ELSE panel' \in Refusals(t)
    /\ Returned(t)
    /\ UNCHANGED <<stored, panelKeys, others>>

--------------------------------------------------------------------------------
PanelsInit ==
    /\ panel = AtRest
    /\ asked = {}
    /\ stored \in [Models -> Lists]
    /\ rushed = FALSE
    /\ panelKeys = 0 /\ others = 0 /\ losses = 0

PanelsStep ==
    \/ \E s \in {"query", "assertions", "model"} : GoTo(s)
    \/ \E n \in Models : PickModelOf(n) \/ OtherWrites(n)
    \/ EditQuery \/ Escape \/ \E ask \in Asks : CycleMode(ask.mode) \/ SubmitQuery(ask)
    \/ OpenHistory \/ CloseHistory \/ RerunHistory \/ ShowResolution
    \/ \E i \in DOMAIN Listed : OpenAssertion(i) \/ OpenForm(i) \/ AskDelete(i)
    \/ OpenForm(0) \/ RunAssertions \/ ReloadAssertionList
    \/ \E row \in Candidates : SubmitForm(row)
    \/ CloseDialog \/ ConfirmDelete
    \/ \E t \in asked : Carried(t) \/ ComesBack(t) \/ GetsLost(t)

(* A key that goes on before the answer arrives that only where the user is *)
(* labels: a request, a section, a form or an error that would be taken for *)
(* what the answer is of.                                                   *)
Waiting(kinds) == \E t \in asked : t.kind \in kinds /\ t.current
RowRequests == {"load", "put", "run", "one"}
Labels(kind) ==
    CASE kind = "query"                -> {"one", "expand"}
      [] kind = "expand"               -> {"query"}
      [] kind = "one"                  -> RowRequests \cup {"query", "expand"}
      [] kind \in {"run", "load"}      -> RowRequests
      [] kind = "put"                  -> IF panel.confirm = Nil THEN {} ELSE {"run", "one"}
      [] OTHER                         -> {}
Rushes ==
    /\ panelKeys' # panelKeys
    /\ \/ \E t \in asked' : t.id = panelKeys /\ Waiting(Labels(t.kind))
       \/ panel'.section # panel.section /\ Waiting({"expand"})
       \/ panel'.form # Nil /\ panel.form = Nil /\ Waiting(RowRequests \cup {"model"})
       \/ panel'.result.err /\ panel'.result # panel.result /\ Waiting(Labels("query"))

PanelsNext == PanelsStep /\ rushed' = (rushed \/ Rushes)

PanelsSpec == PanelsInit /\ [][PanelsNext]_panelVars

--------------------------------------------------------------------------------
(* Properties.                                                              *)

(* A verdict in the Query section is the answer to what the section says it *)
(* asked, from the selected model, and an open tree is that check's.        *)
QueryIsTrue ==
    LET r == panel.result
    IN  /\ panel.hasResult /\ ~r.err =>
              /\ r.of.ask.vals = r.vals /\ r.of.model = panel.modelID
              /\ r.badge => r.ok = r.of.ok
        /\ panel.section = "query" /\ panel.showRes =>
              panel.resTree = [model |-> panel.modelID, vals |-> r.vals]

(* PASS and FAIL beside an assertion are of that assertion and that model.  *)
BadgesAreTrue ==
    \A i \in DOMAIN panel.results \cap DOMAIN Listed :
        panel.results[i] # Nil =>
            /\ panel.results[i].row = Listed[i]
            /\ panel.results[i].model = panel.assertModelID

(* What is sent is what the user chose: the row of the history that was on  *)
(* screen, with its context, and a list that differs from the one shown in  *)
(* the assertion that was confirmed or edited, whatever arrived meanwhile.  *)
New == {t \in asked' \ asked : t.current /\ panelKeys' # panelKeys}
SentAsChosen ==
    /\ panel.picker # Nil =>
          \A t \in New : t.kind = "query" => t.about = panel.picker.rows[panel.picker.at]
    /\ panel.confirm # Nil =>
          \A t \in New : t.kind = "put" =>
              \E i \in DOMAIN Listed :
                  Listed[i] = panel.confirm.row /\ t.about = RemoveAt(Listed, i)
    /\ panel.form # Nil /\ panel.form.at # 0 =>
          \A t \in New : t.kind = "put" =>
              panel.form.at \in DOMAIN Listed /\ Listed[panel.form.at] = panel.form.row

(* The two sections show and send nothing that is about something else, as  *)
(* long as the user does not rush.                                          *)
PanelsAreTrue == [][~rushed' => QueryIsTrue' /\ BadgesAreTrue' /\ SentAsChosen]_panelVars
================================================================================
