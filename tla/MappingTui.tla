------------------------------- MODULE MappingTui -------------------------------
(***************************************************************************)
(* The panes of `ofga mappings` (internal/command/mapping/tui/             *)
(* workspace.go): MappingEditor's editors and what MappingChecks shows of  *)
(* the document they change.  To the latter any edit is a new document, so *)
(* each is explored with the other at rest.                                *)
(***************************************************************************)
EXTENDS MappingChecks, MappingEditor

NothingChecked ==
    /\ doc = (CHOOSE d \in Docs : TRUE) /\ broken = TRUE /\ fresh = FALSE /\ tick = FALSE
    /\ badge = None /\ testsGen = 0 /\ testing = FALSE
    /\ findings = [doc |-> None, model |-> None]
    /\ model = None /\ modelGen = 0 /\ fetching = FALSE
    /\ flights = {} /\ busy = 0 /\ edits = 0

NothingOpen ==
    /\ draft = [rules |-> <<>>, tests |-> <<>>] /\ stacks = Fresh(draft) /\ found = <<>>
    /\ lagging = FALSE /\ showing = "check" /\ asked = NoQuestion
    /\ readOnly = TRUE /\ unparsed = TRUE /\ late = NoMatches /\ left = TRUE
    /\ raced = FALSE /\ created = 0 /\ keys = 0

TuiInit == (Init /\ NothingOpen) \/ (EditorInit /\ NothingChecked)
TuiNext == (NothingOpen /\ Next /\ UNCHANGED editorVars) \/ (EditorNext /\ UNCHANGED vars)
TuiSpec == TuiInit /\ [][TuiNext]_<<vars, editorVars>> /\ Fairness
===============================================================================
