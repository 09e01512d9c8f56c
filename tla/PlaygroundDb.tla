----------------------------- MODULE PlaygroundDb -----------------------------
(***************************************************************************)
(* `ofga playground': each session runs an embedded server on a scratch    *)
(* copy of the saved database, and at the end asks whether to replace the  *)
(* saved file by the copy (internal/sandbox/session.go, dirty.go,          *)
(* internal/command/base/playground_sandbox.go).                           *)
(*                                                                         *)
(* A database is the set of writes made to it since the samples, which     *)
(* stands for its digest too.  External: net/http, whose Shutdown waits    *)
(* for the requests in flight until the 5 second deadline and whose Close  *)
(* does not wait for handlers; and the database, where a transaction in    *)
(* progress may still commit while it is being closed.                     *)
(***************************************************************************)
EXTENDS Naturals, FiniteSets

CONSTANTS
    Sessions,    \* playground processes
    NoFile,      \* nothing has been saved
    NoSession,   \* the lock is free
    SlowWrites,  \* TRUE if a request may outlive Shutdown's deadline
    MaxWrites,   \* bound: writes of a session
    MaxSaveFaults, \* bound: failures of saves
    MaxCrashes   \* bound: processes killed

ASSUME DbAssumption ==
    /\ NoSession \notin Sessions
    /\ \A db \in SUBSET (Sessions \X (1..MaxWrites)) : db # NoFile
    /\ SlowWrites \in BOOLEAN
    /\ {MaxWrites, MaxSaveFaults, MaxCrashes} \subseteq Nat

Writes == Sessions \X (1..MaxWrites)
Databases == SUBSET Writes

VARIABLES
    saved,      \* the saved database file
    lock,       \* the session that holds <path>.lock
    pc,         \* where each session is
    scratch,    \* its scratch database
    digest,     \* savedDigest: the file it started from
    reset,      \* it was started with --reset
    request,    \* its write request: none, sent, or committed but not yet noted
    dirty,      \* dirtyDatastore.dirty
    keep,       \* the answer to "Keep your playground changes?"
    saveFailed, \* Session.saveFailed
    made,       \* history: the writes committed in some session
    owed,       \* history: the writes the saved file has been trusted with
    wiped,      \* history: the writes given up with --reset
    dbFaults, crashes

dbVars == <<saved, lock, pc, scratch, digest, reset, request, dirty, keep,
          saveFailed, made, owed, wiped, dbFaults, crashes>>
history == <<made, owed, wiped>>
answers == <<keep, saveFailed>>
bounds == <<dbFaults, crashes>>

States == {"off", "running", "stopping", "stopped", "lock", "check", "copy",
           "close", "closed", "dead"}
Content(f) == IF f = NoFile THEN {} ELSE f

DbInit ==
    /\ saved = NoFile
    /\ lock = NoSession
    /\ pc = [s \in Sessions |-> "off"]
    /\ scratch = [s \in Sessions |-> {}]
    /\ digest = [s \in Sessions |-> NoFile]
    /\ reset = [s \in Sessions |-> FALSE]
    /\ request = [s \in Sessions |-> "none"]
    /\ dirty = [s \in Sessions |-> FALSE]
    /\ keep = [s \in Sessions |-> "unasked"]
    /\ saveFailed = [s \in Sessions |-> FALSE]
    /\ made = {} /\ owed = {} /\ wiped = {}
    /\ dbFaults = 0 /\ crashes = 0

Goto(s, label) == pc' = [pc EXCEPT ![s] = label]

(* Start: the digest is of what is loaded, also when --reset ignores it.   *)
StartSession(s, fresh) ==
    /\ pc[s] = "off"
    /\ Goto(s, "running")
    /\ scratch' = [scratch EXCEPT ![s] = IF fresh THEN {} ELSE Content(saved)]
    /\ digest' = [digest EXCEPT ![s] = saved]
    /\ reset' = [reset EXCEPT ![s] = fresh]
    /\ UNCHANGED <<saved, lock, request, dirty, answers, history, bounds>>

-------------------------------------------------------------------------------
(* A write of the TUI, on a goroutine of the server.                       *)

SendWrite(s) ==
    /\ pc[s] = "running" /\ request[s] = "none"
    /\ request' = [request EXCEPT ![s] = "sent"]
    /\ UNCHANGED <<saved, lock, pc, scratch, digest, reset, dirty, answers, history, bounds>>

(* The inner datastore commits it, then the flag is set.                   *)
CommitWrite(s) ==
    /\ pc[s] \notin {"closed", "dead"} /\ request[s] = "sent"
    /\ \E n \in 1..MaxWrites :
         /\ \A k \in 1..MaxWrites : <<s, k>> \in made <=> k < n
         /\ made' = made \cup {<<s, n>>}
         /\ scratch' = [scratch EXCEPT ![s] = @ \cup {<<s, n>>}]
    /\ request' = [request EXCEPT ![s] = "committed"]
    /\ UNCHANGED <<saved, lock, pc, digest, reset, dirty, answers, owed, wiped, bounds>>

NoteWrite(s) == request[s] = "committed"

EndWrite(s) ==
    /\ request[s] # "none"
    /\ dirty' = [dirty EXCEPT ![s] = @ \/ NoteWrite(s)]
    /\ request' = [request EXCEPT ![s] = "none"]
    /\ UNCHANGED <<saved, lock, pc, scratch, digest, reset, answers, history, bounds>>

-------------------------------------------------------------------------------
(* finishSandbox.                                                          *)

(* The TUI returns, perhaps with a request in flight.                      *)
Quit(s) ==
    /\ pc[s] = "running"
    /\ Goto(s, "stopping")
    /\ UNCHANGED <<saved, lock, scratch, digest, reset, request, dirty, answers, history, bounds>>

(* Stop drains the requests in flight, for as long as the deadline lets it. *)
MutantNoDrain(s) == TRUE
Drained(s) == request[s] = "none" \/ SlowWrites

Stop(s) ==
    /\ pc[s] = "stopping"
    /\ Drained(s)
    /\ Goto(s, "stopped")
    /\ UNCHANGED <<saved, lock, scratch, digest, reset, request, dirty, answers, history, bounds>>

(* Nothing changed: nothing is asked.  A signal counts as "no".            *)
SkipPrompt(s) ==
    /\ pc[s] = "stopped" /\ ~dirty[s]
    /\ Goto(s, "close")
    /\ UNCHANGED <<saved, lock, scratch, digest, reset, request, dirty, answers, history, bounds>>

AnswerPrompt(s, a) ==
    /\ pc[s] = "stopped" /\ dirty[s]
    /\ keep' = [keep EXCEPT ![s] = a]
    /\ Goto(s, IF a = "yes" THEN "lock" ELSE "close")
    /\ UNCHANGED <<saved, lock, scratch, digest, reset, request, dirty, saveFailed, history, bounds>>

(* Save: under the lock, the file must still be the one this session        *)
(* started from; the copy is renamed into place.                            *)
AcquireLock(s) ==
    /\ pc[s] = "lock" /\ lock = NoSession
    /\ lock' = s
    /\ Goto(s, "check")
    /\ UNCHANGED <<saved, scratch, digest, reset, request, dirty, answers, history, bounds>>

MutantRelease(s) == lock
Release(s) == IF lock = s THEN NoSession ELSE lock

(* The user chose to keep the changes: Close must not delete them.          *)
Failed(s) == [saveFailed EXCEPT ![s] = TRUE]
FailSave(s) ==
    /\ saveFailed' = Failed(s)
    /\ lock' = Release(s)
    /\ Goto(s, "close")

MutantNoCheck(s) == TRUE
Unchanged(s) == saved = digest[s]

Check(s) ==
    /\ pc[s] = "check"
    /\ IF Unchanged(s) THEN /\ Goto(s, "copy")
                            /\ UNCHANGED <<lock, saveFailed>>
                       ELSE FailSave(s)
    /\ UNCHANGED <<saved, scratch, digest, reset, request, dirty, keep, history, bounds>>

Replace(s) ==
    /\ pc[s] = "copy"
    /\ saved' = scratch[s]
    /\ owed' = owed \cup scratch[s]
    /\ wiped' = wiped \cup (IF reset[s] THEN Content(digest[s]) ELSE {})
    /\ scratch' = [scratch EXCEPT ![s] = {}]
    /\ lock' = Release(s)
    /\ Goto(s, "closed")
    /\ UNCHANGED <<digest, reset, request, dirty, answers, made, bounds>>

(* The checkpoint, the directory, the lock, the digest or the copy failed.  *)
SaveFault(s) ==
    /\ pc[s] \in {"lock", "check", "copy"}
    /\ dbFaults < MaxSaveFaults /\ dbFaults' = dbFaults + 1
    /\ FailSave(s)
    /\ UNCHANGED <<saved, scratch, digest, reset, request, dirty, keep, history, crashes>>

(* Close removes the scratch copy, unless a save failed.                    *)
Close(s) ==
    /\ pc[s] = "close"
    /\ Goto(s, "closed")
    /\ scratch' = IF saveFailed[s] THEN scratch ELSE [scratch EXCEPT ![s] = {}]
    /\ UNCHANGED <<saved, lock, digest, reset, request, dirty, answers, history, bounds>>

(* The process is killed.  The kernel drops its lock.                       *)
Die(s) ==
    /\ pc[s] \notin {"off", "closed", "dead"}
    /\ crashes < MaxCrashes /\ crashes' = crashes + 1
    /\ Goto(s, "dead")
    /\ lock' = IF lock = s THEN NoSession ELSE lock
    /\ request' = [request EXCEPT ![s] = "none"]
    /\ UNCHANGED <<saved, scratch, digest, reset, dirty, answers, history, dbFaults>>

Ending(s) ==
    \/ Stop(s) \/ SkipPrompt(s) \/ AcquireLock(s) \/ Check(s) \/ Replace(s) \/ Close(s)
    \/ \E a \in {"yes", "no"} : AnswerPrompt(s, a)

DbNext == \E s \in Sessions :
    \/ \E fresh \in BOOLEAN : StartSession(s, fresh)
    \/ SendWrite(s) \/ CommitWrite(s) \/ EndWrite(s)
    \/ Quit(s) \/ Ending(s) \/ SaveFault(s) \/ Die(s)

DbSpec == DbInit /\ [][DbNext]_dbVars

(* Handlers return, the user answers the prompt, and a lock that stays free *)
(* is obtained.                                                             *)
DbLiveSpec == DbSpec /\ \A s \in Sessions : WF_dbVars(EndWrite(s)) /\ WF_dbVars(Ending(s))

-------------------------------------------------------------------------------
(* Properties.                                                              *)

DbTypeOK ==
    /\ saved \in Databases \cup {NoFile}
    /\ lock \in Sessions \cup {NoSession}
    /\ \A s \in Sessions : lock = s <=> pc[s] \in {"check", "copy"}
    /\ pc \in [Sessions -> States]
    /\ scratch \in [Sessions -> Databases]
    /\ digest \in [Sessions -> Databases \cup {NoFile}]
    /\ {reset, dirty, saveFailed} \subseteq [Sessions -> BOOLEAN]
    /\ request \in [Sessions -> {"none", "sent", "committed"}]
    /\ keep \in [Sessions -> {"unasked", "yes", "no"}]
    /\ {made, owed, wiped} \subseteq SUBSET Writes
    /\ dbFaults \in 0..MaxSaveFaults /\ crashes \in 0..MaxCrashes

(* What a session saved stays saved, whatever sessions ran beside it and    *)
(* whichever of them failed or were killed, until a session that was        *)
(* started to start over (--reset) on that very file replaces it.           *)
NoSavedWriteLost == owed \subseteq Content(saved) \cup wiped

(* Changes the user chose to keep are in the saved file or in the scratch   *)
(* copy that the error message names, never gone.                           *)
KeptChangesExist ==
    \A s \in Sessions : pc[s] = "closed" /\ keep[s] = "yes" =>
        {w \in made : w[1] = s} \subseteq Content(saved) \cup wiped \cup scratch[s]

(* Nothing that was saved or that the user chose to keep is lost, whatever  *)
(* the other sessions do.                                                   *)
NothingKeptIsLost == NoSavedWriteLost /\ KeptChangesExist

(* Once Stop has returned, Dirty accounts for every write: no change is     *)
(* discarded without asking.                                                *)
DirtyIsFinal ==
    \A s \in Sessions : pc[s] \in {"stopped", "lock", "check", "copy", "close"} =>
        dirty[s] \/ scratch[s] = IF reset[s] THEN {} ELSE Content(digest[s])

(* A session that quits ends, whoever else wants the lock.                  *)
QuitEnds == \A s \in Sessions : pc[s] = "stopping" ~> pc[s] \in {"closed", "dead"}
==============================================================================
