--------------------------------- MODULE ApiLog ---------------------------------
(***************************************************************************)
(* The log of API calls (internal/apilog) and the section of the           *)
(* playground that shows it (internal/command/playground: apilogs.go,      *)
(* section_keys.go, update.go): goroutines that talk to the server add an  *)
(* entry each to a ring and tell the event loop, which keeps the user's    *)
(* row selected while newer ones push it down.  What an entry holds, its   *)
(* redaction and its layout are not followed.  External: the server, the   *)
(* caller that reads and closes a body.                                    *)
(***************************************************************************)
EXTENDS Naturals, Sequences, FiniteSets, SequencesExt

CONSTANTS
    Urls,        \* the addresses that are called
    NoEntry,     \* nothing selected, nothing shown
    Capacity,    \* entries that the ring holds (apiLogHistory, 200)
    MaxCalls,    \* bound: calls
    MaxAtOnce,   \* bound: calls at the same time
    MaxLogKeys   \* bound: keys in the section

ASSUME ApiLogAssumption ==
    /\ {Capacity, MaxCalls, MaxAtOnce, MaxLogKeys} \subseteq Nat /\ Capacity > 0
    /\ NoEntry \notin [id : Nat, attempt : Nat]

VARIABLES
    ring,     \* the Recorder: entries, index, full
    tries,    \* the transport's lastURL and attempt
    calls,    \* the calls that the transport has not finished with
    notices,  \* apiLogMsg on their way to the event loop
    list,     \* the section: open, apiLogSel and the entry in the detail
    recorded, \* history: what was added since the log was cleared
    pin,      \* history: the entry the user chose
    eager,    \* history: whether it was chosen before a waiting notice arrived
    sent, logKeys

logVars == <<ring, tries, calls, notices, list, recorded, pin, eager, sent, logKeys>>

--------------------------------------------------------------------------------
(* The ring.                                                                *)

NewRing == [entries |-> [i \in 1..Capacity |-> NoEntry], index |-> 0, full |-> FALSE]

MutantAdded(r, e) ==
    LET i == r.index + 1
    IN  [entries |-> [r.entries EXCEPT ![i] = e],
         index |-> i % Capacity, full |-> i = Capacity]

Added(r, e) ==
    LET i == r.index + 1
    IN  [entries |-> [r.entries EXCEPT ![i] = e],
         index |-> i % Capacity, full |-> r.full \/ i = Capacity]

(* Oldest first.                                                            *)
Snapshot(r) ==
    IF r.full
    THEN SubSeq(r.entries, r.index + 1, Capacity) \o SubSeq(r.entries, 1, r.index)
    ELSE SubSeq(r.entries, 1, r.index)

--------------------------------------------------------------------------------
(* The transport: every call to the API's host becomes one entry, when its  *)
(* body has been read or closed, or at once when there is none to read.     *)

Record(c) ==
    /\ ring' = Added(ring, [id |-> c.id, attempt |-> c.attempt])
    /\ recorded' = Append(recorded, [id |-> c.id, attempt |-> c.attempt])
    /\ notices' = notices + 1

NoRows == UNCHANGED <<list, pin, eager, logKeys>>
DoneWith(c) == calls' = calls \ {c}

Call(u) ==
    /\ sent < MaxCalls /\ Cardinality(calls) < MaxAtOnce
    /\ sent' = sent + 1
    /\ calls' = calls \cup {[id |-> sent + 1, url |-> u, attempt |-> 0, phase |-> "sent"]}
    /\ UNCHANGED <<ring, tries, notices, recorded>> /\ NoRows

(* Consecutive answers of one address count as attempts of one request.     *)
NextAttempt(c) == IF tries.url = c.url THEN tries.attempt + 1 ELSE 1

Respond(c) ==
    /\ c.phase = "sent"
    /\ tries' = [url |-> c.url, attempt |-> NextAttempt(c)]
    /\ LET answered == [c EXCEPT !.attempt = NextAttempt(c), !.phase = "body"]
       IN  \/ DoneWith(c) /\ Record(answered)
           \/ /\ calls' = (calls \ {c}) \cup {answered}
              /\ UNCHANGED <<ring, recorded, notices>>
    /\ UNCHANGED sent /\ NoRows

ReadToEnd(c) ==
    /\ c.phase = "body"
    /\ calls' = (calls \ {c}) \cup {[c EXCEPT !.phase = "read"]}
    /\ Record(c)
    /\ UNCHANGED <<tries, sent>> /\ NoRows

CloseBody(c) ==
    /\ c.phase \in {"body", "read"}
    /\ DoneWith(c)
    /\ IF c.phase = "body" THEN Record(c) ELSE UNCHANGED <<ring, recorded, notices>>
    /\ UNCHANGED <<tries, sent>> /\ NoRows

--------------------------------------------------------------------------------
(* The section.  Rows count from the newest; refreshing clamps the row and  *)
(* fills the detail.                                                        *)

LogRows(r) == Len(Snapshot(r))
Clamped(i, r) == IF i < LogRows(r) THEN i ELSE IF LogRows(r) = 0 THEN i ELSE LogRows(r) - 1
Entry(i, r) == IF LogRows(r) = 0 THEN NoEntry ELSE Snapshot(r)[LogRows(r) - Clamped(i, r)]

Refreshed(i, r) == [open |-> TRUE, sel |-> Clamped(i, r), detail |-> Entry(i, r)]

LogKey ==
    /\ logKeys < MaxLogKeys
    /\ logKeys' = logKeys + 1
    /\ UNCHANGED <<tries, calls, notices, sent>>

EnterLog ==
    /\ LogKey
    /\ ~list.open
    /\ list' = Refreshed(0, ring)
    /\ pin' = NoEntry /\ eager' = FALSE
    /\ UNCHANGED <<ring, recorded>>

LeaveLog ==
    /\ LogKey
    /\ list.open
    /\ list' = [list EXCEPT !.open = FALSE]
    /\ pin' = NoEntry /\ eager' = FALSE
    /\ UNCHANGED <<ring, recorded>>

Choose(i) ==
    /\ LogKey
    /\ list.open
    /\ list' = Refreshed(i, ring)
    /\ pin' = IF i = 0 THEN NoEntry ELSE Entry(i, ring)
    /\ eager' = (eager \/ notices > 0)
    /\ UNCHANGED <<ring, recorded>>

RowUp == list.sel > 0 /\ Choose(list.sel - 1)
RowDown == list.sel + 1 < LogRows(ring) /\ Choose(list.sel + 1)

ClearLog ==
    /\ LogKey
    /\ list.open
    /\ ring' = NewRing
    /\ recorded' = <<>>
    /\ list' = Refreshed(0, NewRing)
    /\ pin' = NoEntry /\ eager' = FALSE

(* A chosen row moves down with its entry; the newest stays the newest.     *)
Moved(i) == IF i > 0 THEN i + 1 ELSE i

Notice ==
    /\ notices > 0
    /\ notices' = notices - 1
    /\ list' = IF list.open THEN Refreshed(Moved(list.sel), ring) ELSE list
    /\ UNCHANGED <<ring, tries, calls, recorded, pin, eager, sent, logKeys>>

--------------------------------------------------------------------------------
LogInit ==
    /\ ring = NewRing
    /\ tries = [url |-> NoEntry, attempt |-> 0]
    /\ calls = {} /\ notices = 0
    /\ list = [open |-> FALSE, sel |-> 0, detail |-> NoEntry]
    /\ recorded = <<>> /\ pin = NoEntry /\ eager = FALSE
    /\ sent = 0 /\ logKeys = 0

LogNext ==
    \/ \E u \in Urls : Call(u)
    \/ \E c \in calls : Respond(c) \/ ReadToEnd(c) \/ CloseBody(c)
    \/ EnterLog \/ LeaveLog \/ RowUp \/ RowDown \/ ClearLog
    \/ Notice

LogSpec == LogInit /\ [][LogNext]_logVars

--------------------------------------------------------------------------------
(* Properties.                                                              *)

(* The ring holds the latest entries in the order they were added, each     *)
(* call once, however its body was read and closed (Recorder,               *)
(* recordingBody.once).                                                     *)
RingIsRecent ==
    /\ Snapshot(ring) =
          LET n == Len(recorded) IN SubSeq(recorded, IF n > Capacity THEN n - Capacity + 1 ELSE 1, n)
    /\ \A i, j \in DOMAIN recorded : recorded[i].id = recorded[j].id => i = j

(* Once the notices have arrived, the detail is that of the selected row,   *)
(* and that row is still the entry the user chose, or the oldest left when  *)
(* that one was pushed out ("keep the pinned entry selected as newer ones   *)
(* arrive"), unless the user has chosen before a notice arrived.            *)
PinStays ==
    list.open /\ notices = 0 =>
        /\ list.detail = Entry(list.sel, ring)
        /\ \/ eager
           \/ IF pin = NoEntry THEN list.sel = 0
              ELSE IF Contains(Snapshot(ring), pin) THEN list.detail = pin
              ELSE list.sel = LogRows(ring) - 1

(* The log is the latest calls, and the section stays on the one chosen.    *)
LogIsFaithful == RingIsRecent /\ PinStays
================================================================================
