--------------------------- MODULE ConfigRegister ---------------------------
(***************************************************************************)
(* What the configuration file promises to the processes that share it: a  *)
(* versioned register.  A process may replace the content only through a   *)
(* save that began while the content was still the version it had seen,    *)
(* and one save is in progress at a time, so between the beginning and the *)
(* commit of a save nothing but a text editor changes the content.         *)
(***************************************************************************)
CONSTANTS
    Procs,     \* the processes
    Contents,  \* what the file may hold
    NoFile,    \* the content of a file that does not exist
    NoProc     \* no save is in progress

VARIABLES
    content,   \* the file
    view,      \* the version each process last read or wrote
    saver      \* the process whose save is in progress

vars == <<content, view, saver>>

Init ==
    /\ content \in Contents
    /\ view = [p \in Procs |-> NoFile]
    /\ saver = NoProc

(* A process reads the file.                                               *)
Load(p) ==
    /\ view' = [view EXCEPT ![p] = content]
    /\ UNCHANGED <<content, saver>>

(* A save begins: it holds the lock and has compared the versions.         *)
Begin(p) ==
    /\ saver = NoProc
    /\ content = view[p]
    /\ saver' = p
    /\ UNCHANGED <<content, view>>

(* The save replaces the content and is over.                              *)
Commit(p) ==
    /\ saver = p
    /\ content' \in Contents
    /\ view' = [view EXCEPT ![p] = content']
    /\ saver' = NoProc

(* The save gives up before it replaces the content.                       *)
Abort(p) ==
    /\ saver = p
    /\ saver' = NoProc
    /\ UNCHANGED <<content, view>>

(* The process ends, in the middle of its save or not.                     *)
Leave(p) ==
    /\ view' = [view EXCEPT ![p] = NoFile]
    /\ saver' = IF saver = p THEN NoProc ELSE saver
    /\ UNCHANGED content

(* The user edits the file; no lock stops them.                            *)
HandEdit ==
    /\ content' \in Contents
    /\ UNCHANGED <<view, saver>>

Next ==
    \/ \E p \in Procs : Load(p) \/ Begin(p) \/ Commit(p) \/ Abort(p) \/ Leave(p)
    \/ HandEdit

Spec == Init /\ [][Next]_vars
=============================================================================
