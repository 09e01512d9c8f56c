-------------------------------- MODULE BulkRun --------------------------------
(***************************************************************************)
(* `ofga tuples write --file': the requests of BulkApply and the files of  *)
(* TupleFile.  The requests do not look into a tuple and the files do not  *)
(* care who failed, so that a visit keeps to one of the two.               *)
(***************************************************************************)
EXTENDS BulkApply, TupleFile

VARIABLE visit

NoFile ==
    bulk = [file |-> Unread, del |-> FALSE, format |-> Unread, keys |-> Unread,
            failed |-> Unread, saved |-> Unread, reader |-> Unread, again |-> Unread]

NothingToSend ==
    /\ flags = CHOOSE f \in Flags : TRUE
    /\ stored = Keys /\ refused = {}
    /\ pc = "done" /\ input = {} /\ unsent = {}
    /\ report = NoReport /\ chunks = {} /\ halves = {}
    /\ budget = MaxIsolation /\ connErr = FALSE
    /\ faults = 0 /\ reruns = 0

BulkInit ==
    \/ visit = "requests" /\ Init /\ NoFile
    \/ visit = "files" /\ FileInit /\ NothingToSend

Requests == visit = "requests" /\ Run /\ UNCHANGED <<bulk, visit>>
RunFailedFile == visit = "requests" /\ Rerun /\ UNCHANGED <<bulk, visit>>
ReadAndWrite == visit = "files" /\ FileNext /\ UNCHANGED <<vars, visit>>

BulkNext == Requests \/ RunFailedFile \/ ReadAndWrite

(* The command keeps running: every request it makes returns.              *)
BulkSpec ==
    BulkInit /\ [][BulkNext]_<<vars, bulk, visit>> /\ WF_<<vars, bulk, visit>>(Requests)
================================================================================
