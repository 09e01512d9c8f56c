------------------------------ MODULE BulkApply ------------------------------
(***************************************************************************)
(* `ofga tuples write --file' (and `delete --file', the same code): a long *)
(* list of tuples goes to the server a window of chunks at a time, each    *)
(* chunk in one transactional request; a chunk the server rejects is       *)
(* bisected to find the tuples it refused; whatever was not written is     *)
(* reported and saved for a re-run (internal/command/tuple/bulkexec.go).   *)
(*                                                                         *)
(* The server is external: it applies a request as a whole or not at all.  *)
(* A request may fail for a reason that is not its tuples (throttling, a   *)
(* server error) and its connection may be lost, before or after the       *)
(* server applied it.  `stored' reads `absent' for a delete.               *)
(***************************************************************************)
EXTENDS Naturals, Sequences, FiniteSets

CONSTANTS
    NumTuples,     \* the tuples of the first run's file, by their place in it
    Flags,         \* the flags a run may be given
    MaxIsolation,  \* maxIsolationRequests
    MaxFaults,     \* bound: requests that fail for a reason of their own
    MaxReruns      \* bound: re-runs of the failed file

ASSUME BulkAssumption ==
    /\ Flags \subseteq [chunk : Nat \ {0}, parallel : Nat \ {0}, ignore : BOOLEAN]
    /\ {NumTuples, MaxIsolation, MaxFaults, MaxReruns} \subseteq Nat

Keys == 1..NumTuples

VARIABLES
    flags,    \* --max-tuples-per-write, --max-parallel-requests, and
              \* --on-duplicate ignore (--on-missing ignore)
    stored,   \* the tuples on the server
    refused,  \* the tuples the store's model does not allow
    pc,       \* "window", "isolate" or "done"
    input,    \* the keys of this run, which it takes in order
    unsent,   \* those that have been in no window yet
    report,   \* what this run has reported of each key, in order
    chunks,   \* rejected chunks of the window still to be looked at
    halves,   \* halves of a rejected chunk still to be sent
    budget,   \* isolation requests left
    connErr,  \* the connection was lost in this run
    faults, reruns

vars == <<flags, stored, refused, pc, input, unsent, report, chunks, halves, budget,
          connErr, faults, reruns>>

Reasons == {"ok", "rejected", "error", "lost", "not attempted", "unisolated"}
NoReport == [k \in Keys |-> <<>>]

Init ==
    /\ flags \in Flags
    /\ stored \in SUBSET Keys
    /\ refused \in SUBSET Keys
    /\ pc = IF Keys = {} THEN "done" ELSE "window"
    /\ input = Keys /\ unsent = Keys
    /\ report = NoReport
    /\ chunks = {} /\ halves = {}
    /\ budget = MaxIsolation
    /\ connErr = FALSE
    /\ faults = 0 /\ reruns = 0

-------------------------------------------------------------------------------
(* The server.                                                              *)

Rejectable == refused \cup (IF flags.ignore THEN {} ELSE stored)
Rejects(ks) == ks \cap Rejectable # {}

(* How a request ends for the client, and whether the server applied it: a *)
(* lost connection tells the client nothing.                               *)
Ends == {"ok", "rejected", "error", "lost"}
Possible(ks, end, applied) ==
    CASE end = "ok"       -> ~Rejects(ks) /\ applied
      [] end = "rejected" -> Rejects(ks) /\ ~applied
      [] end = "error"    -> ~applied
      [] end = "lost"     -> applied => ~Rejects(ks)

IsFault(end) == end \in {"error", "lost"}

-------------------------------------------------------------------------------
(* A window: the chunks the SDK sends in parallel, in one call.            *)

Place(k, ks) == Cardinality({j \in ks : j < k})
Window == {k \in unsent : Place(k, unsent) < flags.chunk * flags.parallel}
ChunkOf(k) == Place(k, unsent) \div flags.chunk
ChunkNumbers == {ChunkOf(k) : k \in Window}
Chunk(c) == {k \in Window : ChunkOf(k) = c}
After == unsent \ Window

Record(ks, reason) ==
    report' = [k \in Keys |-> IF k \in ks THEN Append(report[k], reason) ELSE report[k]]

(* Where the run goes on, given whether it has lost the server, the chunks *)
(* and halves it has left to isolate, and the rest of the input.           *)
MutantEndless(lost, cs, hs, rest) ==
    pc' = IF lost THEN "done" ELSE IF cs # {} \/ hs # {} THEN "isolate" ELSE "window"
GoOn(lost, cs, hs, rest) ==
    pc' = IF lost THEN "done"
          ELSE IF cs # {} \/ hs # {} THEN "isolate"
          ELSE IF rest # {} THEN "window" ELSE "done"

(* With one tuple per chunk a rejection needs no isolation.                *)
MutantIsolated(end) == FALSE
Isolated(end) == end = "rejected" /\ flags.chunk > 1

(* The chunks' results: a rejected chunk waits for its turn, unless another *)
(* one lost the server; then nothing more is sent, and the keys of later    *)
(* windows are accounted for.                                               *)
SendWindow ==
    /\ pc = "window"
    /\ \E end \in [ChunkNumbers -> Ends], applied \in [ChunkNumbers -> BOOLEAN] :
         LET lost == \E c \in ChunkNumbers : end[c] = "lost"
             waits == {c \in ChunkNumbers : Isolated(end[c]) /\ ~lost}
         IN  /\ \A c \in ChunkNumbers : Possible(Chunk(c), end[c], applied[c])
             /\ faults' = faults + Cardinality({c \in ChunkNumbers : IsFault(end[c])})
             /\ faults' <= MaxFaults
             /\ stored' = stored \cup {k \in Window : applied[ChunkOf(k)]}
             /\ report' = [k \in Keys |->
                    IF k \in Window /\ ChunkOf(k) \notin waits
                      THEN Append(report[k], end[ChunkOf(k)])
                    ELSE IF k \in After /\ lost THEN Append(report[k], "not attempted")
                    ELSE report[k]]
             /\ chunks' = {Chunk(c) : c \in waits}
             /\ connErr' = lost
             /\ GoOn(lost, chunks', {}, After)
    /\ unsent' = After
    /\ UNCHANGED <<flags, refused, input, halves, budget, reruns>>

(* The SDK could not issue any request: the rest of the run is recorded.   *)
CannotSend ==
    /\ pc = "window"
    /\ faults < MaxFaults /\ faults' = faults + 1
    /\ Record(unsent, "error")
    /\ unsent' = {}
    /\ pc' = "done"
    /\ UNCHANGED <<flags, stored, refused, input, chunks, halves, budget, connErr, reruns>>

-------------------------------------------------------------------------------
(* Isolating the refused tuples of a rejected chunk.                       *)

(* The one whose turn it is: they are sets of keys that lie in order.      *)
First(kss) == {ks \in kss : \A other \in kss \ {ks} : \A k \in ks, j \in other : k < j}

Bisect(ks) ==
    LET lower == {k \in ks : Place(k, ks) < Cardinality(ks) \div 2}
    IN  {lower, ks \ lower}

TakeChunk ==
    /\ pc = "isolate" /\ halves = {}
    /\ \E ks \in First(chunks) :
         /\ chunks' = chunks \ {ks}
         /\ IF Cardinality(ks) = 1
              THEN /\ Record(ks, "rejected")
                   /\ UNCHANGED halves
              ELSE /\ halves' = Bisect(ks)
                   /\ UNCHANGED report
    /\ GoOn(FALSE, chunks', halves', unsent)
    /\ UNCHANGED <<flags, stored, refused, input, unsent, budget, connErr, faults, reruns>>

(* Out of budget, what is left of the chunk keeps the chunk's rejection.   *)
OutOfBudget == budget = 0

GiveUpHalf ==
    /\ pc = "isolate" /\ OutOfBudget
    /\ \E ks \in First(halves) :
         /\ Record(ks, "unisolated")
         /\ halves' = halves \ {ks}
    /\ GoOn(FALSE, chunks, halves', unsent)
    /\ UNCHANGED <<flags, stored, refused, input, unsent, chunks, budget, connErr, faults, reruns>>

(* One half goes out alone; a rejected one is bisected in turn.            *)
Unsettled == UNION (halves \cup chunks)

SendHalf ==
    /\ pc = "isolate" /\ ~OutOfBudget
    /\ budget' = budget - 1
    /\ \E ks \in First(halves), end \in Ends, applied \in BOOLEAN :
         /\ Possible(ks, end, applied)
         /\ IF IsFault(end) THEN faults < MaxFaults /\ faults' = faults + 1
                           ELSE UNCHANGED faults
         /\ stored' = stored \cup IF applied THEN ks ELSE {}
         /\ connErr' = (end = "lost")
         /\ \/ /\ end = "rejected" /\ Cardinality(ks) > 1
               /\ halves' = (halves \ {ks}) \cup Bisect(ks)
               /\ UNCHANGED <<report, chunks>>
            \/ /\ end \in {"ok", "error"} \/ (end = "rejected" /\ Cardinality(ks) = 1)
               /\ Record(ks, end)
               /\ halves' = halves \ {ks}
               /\ UNCHANGED chunks
            \/ /\ end = "lost"
               /\ Record(Unsettled \cup unsent, "not attempted")
               /\ halves' = {} /\ chunks' = {}
         /\ GoOn(end = "lost", chunks', halves', unsent)
    /\ UNCHANGED <<flags, refused, input, unsent, reruns>>

-------------------------------------------------------------------------------
(* The failed file, and running it again once some causes are fixed.  Its  *)
(* order is taken to be the input's: it decides only how chunks are made.  *)

Failed == {k \in input : \E i \in 1..Len(report[k]) : report[k][i] # "ok"}

Rerun ==
    /\ pc = "done" /\ Failed # {}
    /\ reruns < MaxReruns /\ reruns' = reruns + 1
    /\ input' = Failed /\ unsent' = Failed
    /\ refused' \in SUBSET refused
    /\ pc' = "window"
    /\ report' = NoReport
    /\ budget' = MaxIsolation
    /\ connErr' = FALSE
    /\ UNCHANGED <<flags, stored, chunks, halves, faults>>

Run == SendWindow \/ CannotSend \/ TakeChunk \/ GiveUpHalf \/ SendHalf
Next == Run \/ Rerun

Spec == Init /\ [][Next]_vars

-------------------------------------------------------------------------------
(* Properties.                                                             *)

TypeOK ==
    /\ flags \in Flags
    /\ stored \subseteq Keys /\ refused \subseteq Keys
    /\ pc \in {"window", "isolate", "done"}
    /\ input \subseteq Keys /\ unsent \subseteq input
    /\ report \in [Keys -> Seq(Reasons)]
    /\ chunks \subseteq SUBSET input /\ halves \subseteq SUBSET input
    /\ budget \in 0..MaxIsolation
    /\ connErr \in BOOLEAN
    /\ faults \in 0..MaxFaults /\ reruns \in 0..MaxReruns

(* When a run ends, however it ended, each of its tuples has been reported *)
(* exactly once: the counts add up and the failed file misses none.        *)
EveryTupleReportedOnce ==
    pc = "done" => \A k \in input : Len(report[k]) = 1

(* No tuple is lost between the report, the failed file and the server,    *)
(* over any number of re-runs: one that is not on the server is in the     *)
(* file the next run starts from.                                          *)
NothingLost == pc = "done" => Keys \subseteq stored \cup Failed

(* Every tuple of a run is accounted for, in its report and over re-runs.  *)
EveryTupleAccountedFor == EveryTupleReportedOnce /\ NothingLost

(* A tuple is called rejected only if the server refuses it on its own,    *)
(* unless an outage stopped the run before its chunk could be bisected.    *)
NoInnocentBlamed ==
    \A k \in Keys : ~connErr /\ (\E i \in 1..Len(report[k]) : report[k][i] = "rejected")
        => k \in Rejectable

(* What a run says of its tuples is complete, and true of each.            *)
OutcomesAreTrue == EveryTupleAccountedFor /\ NoInnocentBlamed

(* A run ends.                                                             *)
RunEnds == pc # "done" ~> pc = "done"
==============================================================================
