----------------------------- MODULE PlaygroundTui -----------------------------
(***************************************************************************)
(* The sections of the playground (internal/command/playground): the       *)
(* stores, the model and the tests of Workbench, the queries and           *)
(* assertions of Panels and the calls of ApiLog.  They meet in what        *)
(* Playground checks, the selection and the staleness of its reads, so     *)
(* that a visit keeps to one of them (`visit`) and the others rest.        *)
(***************************************************************************)
EXTENDS Workbench, Panels, ApiLog

VARIABLE visit

NothingAsked ==
    /\ panel = AtRest /\ asked = {} /\ stored = [n \in Models |-> <<>>]
    /\ rushed = FALSE /\ panelKeys = 0 /\ others = 0 /\ losses = 0

NothingSelected ==
    /\ tab = "tests" /\ models = [s \in Stores |-> None]
    /\ disk = [s \in Samples |-> Fresh] /\ workspaces = [s \in Stores \cup {None} |-> None]
    /\ m = [store |-> None, model |-> None, dsl |-> None, list |-> {}, section |-> "tests",
            applying |-> FALSE, creating |-> FALSE, deleting |-> FALSE, confirm |-> None,
            editor |-> FALSE]
    /\ wb = [at |-> None, files |-> {}, running |-> FALSE, results |-> None, prompt |-> FALSE]
    /\ opt = Closed /\ tasks = {}
    /\ keys = 0 /\ edits = 0 /\ faults = 0 /\ missed = FALSE /\ stray = {} /\ foreign = FALSE

PlaygroundInit ==
    \/ visit = "workbench" /\ Init /\ NothingAsked /\ LogInit
    \/ visit = "panels" /\ PanelsInit /\ NothingSelected /\ LogInit
    \/ visit = "log" /\ LogInit /\ NothingSelected /\ NothingAsked

PlaygroundNext ==
    \/ visit = "workbench" /\ Next /\ UNCHANGED <<panelVars, logVars, visit>>
    \/ visit = "panels" /\ PanelsNext /\ UNCHANGED <<vars, logVars, visit>>
    \/ visit = "log" /\ LogNext /\ UNCHANGED <<vars, panelVars, visit>>

PlaygroundSpec == PlaygroundInit /\ [][PlaygroundNext]_<<vars, panelVars, logVars, visit>>
================================================================================
