----------------------------- MODULE ChangesPoll -----------------------------
(***************************************************************************)
(* `ofga tuples changes --cursor-file F --continuation-token "$(cat F)"',  *)
(* run again and again to follow a store's changelog: readChanges pages    *)
(* from the cursor to the end or to --max-results, the next cursor is      *)
(* saved, and the changes are printed                                      *)
(* (internal/command/tuple/changes.go, changesCmd in command.go).          *)
(*                                                                         *)
(* The server is external.  Change n is the n-th ever made, a continuation *)
(* token is the number of changes before it, and the empty token is 0: a   *)
(* reader that has caught up gets the token it sent back.                  *)
(***************************************************************************)
EXTENDS Naturals, FiniteSets

CONSTANTS
    PageSize,    \* --page-size
    Caps,        \* what --max-results may be, 0 for no cap
    MaxLog,      \* bound: changes ever made
    MaxFailures    \* bound: failures, and runs that die

ASSUME PollAssumption ==
    /\ PageSize \in Nat \ {0}
    /\ Caps \subseteq Nat
    /\ {MaxLog, MaxFailures} \subseteq Nat

VARIABLES
    maxResults,  \* --max-results, the same for every run of the job
    log,      \* how many changes the store has had
    cursor,   \* the cursor file
    phase,    \* where the run is
    begin,    \* the token this run started from
    token,    \* ReadChangesOptions.ContinuationToken
    upto,     \* the last change collected; the first is begin + 1
    next,     \* the token readChanges returned
    printed,  \* history: the changes printed by all runs
    cut,      \* history: the changes whose printing failed
    failures

pollVars == <<maxResults, log, cursor, phase, begin, token, upto, next, printed, cut, failures>>
run == <<begin, token, upto, next>>

Changes == 1..MaxLog

PollInit ==
    /\ maxResults \in Caps
    /\ log = 0
    /\ cursor = 0
    /\ phase = "idle"
    /\ begin = 0 /\ token = 0 /\ upto = 0 /\ next = 0
    /\ printed = {} /\ cut = {}
    /\ failures = 0

PollFails == failures < MaxFailures /\ failures' = failures + 1
Smaller(a, b) == IF a < b THEN a ELSE b

(* Somebody writes or deletes a tuple.                                     *)
StoreChanges ==
    /\ log < MaxLog
    /\ log' = log + 1
    /\ UNCHANGED <<maxResults, cursor, phase, run, printed, cut, failures>>

Start ==
    /\ phase = "idle"
    /\ phase' = "read"
    /\ begin' = cursor /\ token' = cursor /\ upto' = cursor
    /\ UNCHANGED <<maxResults, log, cursor, next, printed, cut, failures>>

-------------------------------------------------------------------------------
(* readChanges, one page.                                                  *)

(* The server's page for a token, and the token it returns with it.        *)
PageEnd(t) == Smaller(t + PageSize, log)

(* The change the cap falls on; none if the page ends first.               *)
CapAt == begin + maxResults
Capped == maxResults > 0 /\ token < CapAt /\ CapAt <= PageEnd(token)

(* A page cut short must be read again: its token would skip the rest.     *)
MutantSkipRest == PageEnd(token)
MutantReplay == token
TokenAtCap == IF CapAt = PageEnd(token) THEN PageEnd(token) ELSE token

CaughtUp == PageEnd(token) \in {token, 0}

Return(t) == phase' = "save" /\ next' = t

ReadPage ==
    /\ phase = "read"
    /\ IF Capped
         THEN /\ upto' = CapAt
              /\ Return(TokenAtCap)
              /\ UNCHANGED token
         ELSE /\ upto' = PageEnd(token)
              /\ token' = PageEnd(token)
              /\ IF CaughtUp THEN Return(PageEnd(token)) ELSE UNCHANGED <<phase, next>>
    /\ UNCHANGED <<maxResults, log, cursor, begin, printed, cut, failures>>

(* An error discards what was collected; the cursor file stays.            *)
ReadFault ==
    /\ phase = "read"
    /\ PollFails
    /\ phase' = "idle"
    /\ UNCHANGED <<maxResults, log, cursor, run, printed, cut>>

-------------------------------------------------------------------------------
(* writeTokenFile, then the output.                                        *)

SavedToken == next

SaveCursor ==
    /\ phase = "save"
    /\ cursor' = SavedToken
    /\ phase' = "print"
    /\ UNCHANGED <<maxResults, log, run, printed, cut, failures>>

(* The file could not be opened, or was truncated and then not written.    *)
SaveFault ==
    /\ phase = "save"
    /\ PollFails
    /\ cursor' \in {cursor, 0}
    /\ phase' = "idle"
    /\ UNCHANGED <<maxResults, log, run, printed, cut>>

Collected == {n \in Changes : begin < n /\ n <= upto}

PrintChanges ==
    /\ phase = "print"
    /\ printed' = printed \cup Collected
    /\ phase' = "idle"
    /\ UNCHANGED <<maxResults, log, cursor, run, cut, failures>>

(* The reader of the pipe is gone, or the process dies: the changes it did *)
(* not take are behind the saved cursor.                                   *)
PrintFault ==
    /\ phase = "print"
    /\ PollFails
    /\ \E n \in begin..upto :
         /\ printed' = printed \cup {m \in Collected : m <= n}
         /\ cut' = cut \cup {m \in Collected : m > n}
    /\ phase' = "idle"
    /\ UNCHANGED <<maxResults, log, cursor, run>>

Poll == Start \/ ReadPage \/ SaveCursor \/ PrintChanges
PollNext == StoreChanges \/ Poll \/ ReadFault \/ SaveFault \/ PrintFault

PollSpec == PollInit /\ [][PollNext]_pollVars

(* The polling job runs the command for ever, and its requests return.     *)
PollLiveSpec == PollSpec /\ WF_pollVars(Poll)

-------------------------------------------------------------------------------
(* Properties.                                                             *)

PollTypeOK ==
    /\ maxResults \in Caps
    /\ {log, cursor, begin, token, upto, next} \subseteq 0..MaxLog
    /\ phase \in {"idle", "read", "save", "print"}
    /\ printed \subseteq Changes /\ cut \subseteq Changes
    /\ failures \in 0..MaxFailures

(* No change is skipped: the ones behind the cursor have been printed, or  *)
(* were in an output that was cut short, or are about to be printed.       *)
NothingSkipped ==
    1..cursor \subseteq printed \cup cut \cup (IF phase = "print" THEN Collected ELSE {})

(* A run that saved its cursor is replayed by the next one for less than a *)
(* page, and not at all if it read to the end.                             *)
ReplayIsShort ==
    phase = "print" => /\ cursor <= upto /\ upto - cursor < PageSize
                       /\ maxResults = 0 => cursor = upto

(* The cursor is where it should be: it neither skips a change nor lags    *)
(* behind what was printed by a page.                                      *)
CursorIsSound == NothingSkipped /\ ReplayIsShort

(* Following the changelog reaches every change.                           *)
EveryChangeArrives == \A n \in Changes : log >= n ~> n \in printed \cup cut
==============================================================================
