----------------------------- MODULE TupleProofs -----------------------------
(***************************************************************************)
(* Theorems about BulkApply, for every file, chunk size, parallelism and   *)
(* budget, whatever the server refuses and however requests fail, about    *)
(* TupleFile, for every file that a user may write, and about ChangesPoll, *)
(* for every page size, cap, length of the log and number of failures.     *)
(***************************************************************************)
EXTENDS BulkRun, ChangesPoll, FiniteSetTheorems, SequenceTheorems, WellFoundedInduction, TLAPS

(* The keys this run has still to say something of.                        *)
Waiting == unsent \cup UNION (chunks \cup halves)
Disjoint(a, b) == \A k \in a : k \notin b

(* No key waits twice, and only a run that isolates has pieces.            *)
ShapeInv ==
    /\ pc # "isolate" => chunks = {} /\ halves = {}
    /\ pc # "done" => ~connErr
    /\ \A ks \in chunks \cup halves : Disjoint(ks, unsent)
    /\ \A a, b \in chunks : a = b \/ Disjoint(a, b)
    /\ \A a, b \in halves : a = b \/ Disjoint(a, b)
    /\ \A a \in chunks, b \in halves : Disjoint(a, b)

(* What does not wait was reported, once.                                  *)
CountInv ==
    \A k \in input : Len(report[k]) = IF pc # "done" /\ k \in Waiting THEN 0 ELSE 1

(* What is left out of a re-run, and what is called ok, is on the server;  *)
(* a chunk that waits was refused for one of its keys.                     *)
Says(k, reason) == \E i \in 1..Len(report[k]) : report[k][i] = reason
TruthInv ==
    /\ \A k \in Keys : k \in input \/ k \in stored
    /\ \A k \in Keys : Says(k, "ok") => k \in stored
    /\ \A ks \in chunks : Rejects(ks)
    /\ NoInnocentBlamed

BInv == TypeOK /\ ShapeInv /\ CountInv /\ TruthInv

-------------------------------------------------------------------------------
(* Sets of keys.                                                           *)

LEMMA BoundsNat == MaxIsolation \in Nat /\ MaxFaults \in Nat /\ MaxReruns \in Nat
BY BulkAssumption

LEMMA KeysFinite ==
    ASSUME NEW ks \in SUBSET Keys
    PROVE  IsFiniteSet(ks) /\ Cardinality(ks) \in Nat
<1>1. IsFiniteSet(Keys)
  BY FS_Interval, BulkAssumption DEF Keys
<1>2. IsFiniteSet(ks)
  BY <1>1, FS_Subset
<1> QED
  BY <1>2, FS_CardinalityType

LEMMA PlaceType ==
    ASSUME NEW ks \in SUBSET Keys, NEW k
    PROVE  Place(k, ks) \in Nat
<1> DEFINE before == {j \in ks : j < k}
<1>1. before \in SUBSET Keys /\ Place(k, ks) = Cardinality(before)
  BY DEF Place
<1> HIDE DEF before
<1> QED
  BY <1>1, KeysFinite

(* Two keys have two places.                                               *)
LEMMA PlacesDiffer ==
    ASSUME NEW ks \in SUBSET Keys, NEW j \in ks, NEW k \in ks, j < k
    PROVE  Place(j, ks) # Place(k, ks)
<1> DEFINE a == {i \in ks : i < j}
           b == {i \in ks : i < k}
<1>1. j \in Int /\ k \in Int /\ \A i \in ks : i \in Int
  BY DEF Keys
<1>2. a \in SUBSET b /\ b \in SUBSET Keys /\ j \in b /\ j \notin a
  <2>1. j \in b /\ j \notin a
    BY <1>1
  <2>2. \A i \in ks : i < j => i < k
    BY <1>1
  <2> QED
    BY <2>1, <2>2
<1>3. Place(j, ks) = Cardinality(a) /\ Place(k, ks) = Cardinality(b)
  BY DEF Place
<1> HIDE DEF a, b
<1>4. IsFiniteSet(b)
  BY <1>2, KeysFinite
<1>5. Cardinality(b) = Cardinality(a) => a = b
  BY <1>2, <1>4, FS_Subset
<1> QED
  BY <1>2, <1>3, <1>5

(* A piece of one key that the server refuses is that key.                 *)
LEMMA OneKey ==
    ASSUME NEW ks \in SUBSET Keys, Cardinality(ks) = 1, Rejects(ks)
    PROVE  \A k \in ks : k \in Rejectable
<1>1. IsFiniteSet(ks)
  BY KeysFinite
<1>2. PICK x : ks = {x}
  BY <1>1, FS_Singleton
<1> QED
  BY <1>2 DEF Rejects

LEMMA BisectIs ==
    ASSUME NEW ks
    PROVE  /\ UNION Bisect(ks) = ks
           /\ \A a \in Bisect(ks) : a \subseteq ks
           /\ \A a, b \in Bisect(ks) : a = b \/ Disjoint(a, b)
<1> DEFINE lower == {k \in ks : Place(k, ks) < Cardinality(ks) \div 2}
<1>1. lower \subseteq ks /\ Bisect(ks) = {lower, ks \ lower}
  BY DEF Bisect
<1> HIDE DEF lower
<1> QED
  BY <1>1 DEF Disjoint

LEMMA FirstIs ==
    ASSUME NEW kss, NEW ks \in First(kss)
    PROVE  ks \in kss
BY DEF First

-------------------------------------------------------------------------------
(* Reports.                                                                *)

(* The step says r of the keys P, once of each.                            *)
Adds(P, r) ==
    report' = [k \in Keys |-> IF k \in P THEN Append(report[k], r[k]) ELSE report[k]]

LEMMA AddsOne ==
    ASSUME NEW s \in Seq(Reasons), NEW x \in Reasons
    PROVE  /\ Append(s, x) \in Seq(Reasons) /\ Len(Append(s, x)) = Len(s) + 1
           /\ \A w : (\E i \in 1..Len(Append(s, x)) : Append(s, x)[i] = w)
                        <=> ((\E i \in 1..Len(s) : s[i] = w) \/ x = w)
<1> DEFINE t == Append(s, x)
<1>1. /\ t \in Seq(Reasons) /\ Len(t) = Len(s) + 1 /\ Len(s) \in Nat
      /\ \A i \in 1..Len(s) : t[i] = s[i]
      /\ t[Len(s) + 1] = x
  OBVIOUS
<1> HIDE DEF t
<1>2. 1..Len(t) = (1..Len(s)) \cup {Len(s) + 1}
  BY <1>1
<1>3. ASSUME NEW w
      PROVE  (\E i \in 1..Len(t) : t[i] = w) <=> ((\E i \in 1..Len(s) : s[i] = w) \/ x = w)
  BY <1>1, <1>2
<1> QED
  BY <1>1, <1>3 DEF t

LEMMA AddsIs ==
    ASSUME TypeOK, NEW P, NEW r, Adds(P, r), \A k \in P : r[k] \in Reasons
    PROVE  /\ report' \in [Keys -> Seq(Reasons)]
           /\ \A k \in Keys : Len(report'[k]) = IF k \in P THEN Len(report[k]) + 1 ELSE Len(report[k])
           /\ \A k \in Keys : \A w : Says(k, w)' <=> (Says(k, w) \/ (k \in P /\ r[k] = w))
<1>1. ASSUME NEW k \in Keys
      PROVE  /\ report'[k] \in Seq(Reasons)
             /\ Len(report'[k]) = IF k \in P THEN Len(report[k]) + 1 ELSE Len(report[k])
             /\ \A w : Says(k, w)' <=> (Says(k, w) \/ (k \in P /\ r[k] = w))
  <2>1. report[k] \in Seq(Reasons)
    BY DEF TypeOK
  <2>2. CASE k \in P
    <3>1. report'[k] = Append(report[k], r[k]) /\ r[k] \in Reasons
      BY <2>2 DEF Adds
    <3> QED
      BY <2>1, <2>2, <3>1, AddsOne DEF Says
  <2>3. CASE k \notin P
    <3>1. report'[k] = report[k]
      BY <2>3 DEF Adds
    <3> QED
      BY <2>1, <2>3, <3>1 DEF Says
  <2> QED
    BY <2>2, <2>3
<1>2. report' = [k \in Keys |-> report'[k]]
  BY DEF Adds
<1> QED
  BY <1>1, <1>2

LEMMA RecordIs ==
    ASSUME NEW P, NEW reason, Record(P, reason)
    PROVE  \E r : Adds(P, r) /\ \A k \in P : r[k] = reason
<1> DEFINE r == [k \in P |-> reason]
<1>1. Adds(P, r) /\ \A k \in P : r[k] = reason
  BY DEF Record, Adds
<1> QED
  BY <1>1

(* What waited and was reported waits no more; at the end nothing does.    *)
LEMMA CountStep ==
    ASSUME TypeOK, CountInv, pc # "done", NEW P, NEW r, Adds(P, r), \A k \in P : r[k] \in Reasons,
           P \subseteq Waiting, input' = input,
           pc' = "done" => P = Waiting, pc' # "done" => Waiting' = Waiting \ P
    PROVE  CountInv'
<1>1. \A k \in Keys : Len(report'[k]) = IF k \in P THEN Len(report[k]) + 1 ELSE Len(report[k])
  BY AddsIs
<1>2. input \subseteq Keys
  BY DEF TypeOK
<1>3. ASSUME NEW k \in input
      PROVE  Len(report'[k]) = IF pc' # "done" /\ k \in Waiting' THEN 0 ELSE 1
  <2>1. Len(report[k]) = IF k \in Waiting THEN 0 ELSE 1
    BY DEF CountInv
  <2> QED
    BY <1>1, <1>2, <2>1
<1> QED
  BY <1>3 DEF CountInv

LEMMA RejectableGrows ==
    ASSUME refused' = refused, flags' = flags, stored \subseteq stored'
    PROVE  Rejectable \subseteq Rejectable' /\ \A ks : Rejects(ks) => Rejects(ks)'
BY DEF Rejectable, Rejects

LEMMA TruthStep ==
    ASSUME TypeOK, ShapeInv, TruthInv, pc # "done", NEW P, NEW r, Adds(P, r),
           \A k \in P : r[k] \in Reasons,
           input' = input, refused' = refused, flags' = flags, stored \subseteq stored',
           \A k \in P : r[k] = "ok" => k \in stored',
           ~connErr' => \A k \in P : r[k] = "rejected" => k \in Rejectable',
           \A ks \in chunks' : ks \in chunks \/ Rejects(ks)'
    PROVE  TruthInv'
<1>1. \A k \in Keys : \A w : Says(k, w)' <=> (Says(k, w) \/ (k \in P /\ r[k] = w))
  BY AddsIs
<1>2. Rejectable \subseteq Rejectable' /\ \A ks : Rejects(ks) => Rejects(ks)'
  BY RejectableGrows
<1>3. ~connErr /\ \A k \in Keys : Says(k, "rejected") => k \in Rejectable
  BY DEF ShapeInv, TruthInv, NoInnocentBlamed, Says
<1>4. \A k \in Keys : k \in input' \/ k \in stored'
  BY DEF TruthInv
<1>5. \A k \in Keys : Says(k, "ok")' => k \in stored'
  BY <1>1 DEF TruthInv
<1>6. \A ks \in chunks' : Rejects(ks)'
  BY <1>2 DEF TruthInv
<1>7. ~connErr' => \A k \in Keys : Says(k, "rejected")' => k \in Rejectable'
  BY <1>1, <1>2, <1>3
<1>8. NoInnocentBlamed'
  BY <1>7 DEF NoInnocentBlamed, Says
<1> QED
  BY <1>4, <1>5, <1>6, <1>8 DEF TruthInv

(* A run goes on with its pieces, then with the rest of the input.         *)
LEMMA GoOnIs ==
    ASSUME NEW lost \in BOOLEAN, NEW cs, NEW hs, NEW rest, GoOn(lost, cs, hs, rest)
    PROVE  /\ pc' \in {"window", "isolate", "done"}
           /\ pc' = "window" => cs = {} /\ hs = {}
           /\ pc' = "done" => lost \/ (cs = {} /\ hs = {} /\ rest = {})
           /\ lost => pc' = "done"
BY DEF GoOn

-------------------------------------------------------------------------------
(* Each action preserves the invariant.                                    *)

(* The chunks of a window are the keys of it, each in one.                 *)
LEMMA ChunksOfWindow ==
    ASSUME TypeOK
    PROVE  /\ Window \subseteq unsent /\ Window \subseteq Keys
           /\ \A k \in Window : ChunkOf(k) \in ChunkNumbers /\ k \in Chunk(ChunkOf(k))
           /\ \A c : \A k \in Chunk(c) : k \in Window /\ ChunkOf(k) = c
           /\ IsFiniteSet(ChunkNumbers)
<1>1. Window \subseteq unsent /\ Window \subseteq Keys
  BY DEF Window, TypeOK
<1>2. IsFiniteSet(Window)
  BY <1>1, KeysFinite
<1>3. IsFiniteSet(ChunkNumbers)
  <2> DEFINE f == [k \in Window |-> ChunkOf(k)]
  <2>1. f \in Surjection(Window, ChunkNumbers)
    BY DEF Surjection, ChunkNumbers
  <2> QED
    BY <1>2, <2>1, FS_Surjection
<1> QED
  BY <1>1, <1>3 DEF ChunkNumbers, Chunk

(* A chunk of one tuple that is refused is refused for it.                 *)
LEMMA ChunkOfOne ==
    ASSUME TypeOK, flags.chunk = 1, NEW k \in Window, Rejects(Chunk(ChunkOf(k)))
    PROVE  k \in Rejectable
<1>1. unsent \in SUBSET Keys /\ \A j \in Window : j \in unsent /\ j \in Int
  BY DEF TypeOK, Window, Keys
<1>2. PICK j : j \in Chunk(ChunkOf(k)) /\ j \in Rejectable
  BY DEF Rejects
<1>3. j \in Window /\ ChunkOf(j) = ChunkOf(k)
  BY <1>2 DEF Chunk
<1>4. Place(j, unsent) \in Nat /\ Place(k, unsent) \in Nat
  BY <1>1, PlaceType
<1>5. Place(j, unsent) = Place(k, unsent)
  <2>1. Place(j, unsent) \div 1 = Place(k, unsent) \div 1
    BY <1>3 DEF ChunkOf
  <2> QED
    BY <1>4, <2>1
<1>6. ~(j < k) /\ ~(k < j)
  BY <1>1, <1>3, <1>5, PlacesDiffer
<1>7. j = k
  BY <1>1, <1>3, <1>6
<1> QED
  BY <1>2, <1>7

LEMMA WindowStep ==
    ASSUME BInv, SendWindow
    PROVE  BInv'
<1> USE DEF BInv
<1>1. /\ pc = "window" /\ chunks = {} /\ halves = {} /\ ~connErr
      /\ unsent' = After /\ halves' = {}
      /\ UNCHANGED <<flags, refused, input, budget, reruns>>
  BY DEF SendWindow, ShapeInv
<1>2. PICK end \in [ChunkNumbers -> Ends], applied \in [ChunkNumbers -> BOOLEAN] :
         LET lost == \E c \in ChunkNumbers : end[c] = "lost"
             waits == {c \in ChunkNumbers : Isolated(end[c]) /\ ~lost}
         IN  /\ \A c \in ChunkNumbers : Possible(Chunk(c), end[c], applied[c])
             /\ faults' = faults + Cardinality({c \in ChunkNumbers : IsFault(end[c])})
             /\ faults' <= MaxFaults
             /\ stored' = stored \cup {k \in Window : applied[ChunkOf(k)]}
             /\ report' = [k \in Keys |->
                    IF k \in Window /\ ChunkOf(k) \notin waits
                      THEN Append(report[k], end[ChunkOf(k)])
                    ELSE IF k \in After /\ lost THEN Append(report[k], "not attempted")
                    ELSE report[k]]
             /\ chunks' = {Chunk(c) : c \in waits}
             /\ connErr' = lost
             /\ GoOn(lost, chunks', {}, After)
  BY DEF SendWindow
<1> DEFINE lost == \E c \in ChunkNumbers : end[c] = "lost"
           waits == {c \in ChunkNumbers : Isolated(end[c]) /\ ~lost}
           P == {k \in Window : ChunkOf(k) \notin waits} \cup (IF lost THEN After ELSE {})
           r == [k \in P |-> IF k \in Window THEN end[ChunkOf(k)] ELSE "not attempted"]
<1>3. /\ \A c \in ChunkNumbers : Possible(Chunk(c), end[c], applied[c])
      /\ faults' = faults + Cardinality({c \in ChunkNumbers : IsFault(end[c])})
      /\ faults' <= MaxFaults
      /\ stored' = stored \cup {k \in Window : applied[ChunkOf(k)]}
      /\ chunks' = {Chunk(c) : c \in waits}
      /\ connErr' = lost
      /\ GoOn(lost, chunks', {}, After)
  BY <1>2
<1>4. report' = [k \in Keys |->
                    IF k \in Window /\ ChunkOf(k) \notin waits
                      THEN Append(report[k], end[ChunkOf(k)])
                    ELSE IF k \in After /\ lost THEN Append(report[k], "not attempted")
                    ELSE report[k]]
  BY <1>2
<1>5. /\ Window \subseteq unsent /\ Window \subseteq Keys /\ unsent \subseteq Keys
      /\ \A k \in Window : ChunkOf(k) \in ChunkNumbers /\ k \in Chunk(ChunkOf(k))
      /\ \A c : \A k \in Chunk(c) : k \in Window /\ ChunkOf(k) = c
      /\ After = unsent \ Window
  BY ChunksOfWindow DEF TypeOK, After
<1>6. /\ lost => waits = {} /\ P = unsent
      /\ ~lost => P = {k \in Window : ChunkOf(k) \notin waits}
      /\ waits \subseteq ChunkNumbers
      /\ \A k \in P \cap Window : r[k] = end[ChunkOf(k)]
      /\ \A k \in P \ Window : r[k] = "not attempted"
      /\ lost \in BOOLEAN
  BY <1>5
<1>7. Adds(P, r)
  <2>1. ASSUME NEW k \in Keys
        PROVE  (IF k \in Window /\ ChunkOf(k) \notin waits
                  THEN Append(report[k], end[ChunkOf(k)])
                ELSE IF k \in After /\ lost THEN Append(report[k], "not attempted")
                ELSE report[k])
               = IF k \in P THEN Append(report[k], r[k]) ELSE report[k]
    BY <1>5
  <2> QED
    BY <1>4, <2>1 DEF Adds
<1>8. waits = {c \in ChunkNumbers : Isolated(end[c]) /\ ~lost}
  OBVIOUS
<1> HIDE DEF lost, waits, P, r
<1>9. \A k \in P : r[k] \in Reasons
  BY <1>5, <1>6 DEF Ends, Reasons
<1>10. /\ Waiting = unsent
       /\ Waiting' = (unsent \ Window) \cup {k \in Window : ChunkOf(k) \in waits}
  <2>1. Waiting = unsent /\ Waiting' = (unsent \ Window) \cup UNION chunks'
    BY <1>1, <1>5 DEF Waiting
  <2>2. ASSUME NEW k \in UNION chunks' PROVE k \in Window /\ ChunkOf(k) \in waits
    <3>1. PICK c \in waits : k \in Chunk(c)
      BY <1>3
    <3> QED
      BY <1>5, <3>1
  <2>3. ASSUME NEW k \in Window, ChunkOf(k) \in waits PROVE k \in UNION chunks'
    <3>1. Chunk(ChunkOf(k)) \in chunks' /\ k \in Chunk(ChunkOf(k))
      BY <1>3, <1>5, <2>3
    <3> QED
      BY <3>1
  <2> QED
    BY <2>1, <2>2, <2>3
<1>11. /\ P \subseteq Waiting /\ pc' \in {"window", "isolate", "done"}
       /\ pc' = "done" => P = Waiting
       /\ pc' # "done" => Waiting' = Waiting \ P
       /\ pc' # "isolate" => chunks' = {} /\ halves' = {}
       /\ pc' # "done" => ~connErr'
  <2>1. /\ pc' \in {"window", "isolate", "done"}
        /\ pc' = "window" => chunks' = {}
        /\ pc' = "done" => lost \/ (chunks' = {} /\ After = {})
        /\ lost => pc' = "done"
    BY <1>3, <1>6, GoOnIs
  <2>2. chunks' = {} => waits = {}
    BY <1>3
  <2>3. lost => chunks' = {}
    BY <1>3, <1>6
  <2> QED
    BY <1>1, <1>3, <1>5, <1>6, <1>10, <2>1, <2>2, <2>3
<1>12. CountInv'
  BY <1>1, <1>7, <1>9, <1>11, CountStep
<1>13. ShapeInv'
  <2>1. \A ks \in chunks' : Disjoint(ks, unsent')
    BY <1>1, <1>3, <1>5 DEF Disjoint
  <2>2. \A a, b \in chunks' : a = b \/ Disjoint(a, b)
    BY <1>3, <1>5 DEF Disjoint
  <2> QED
    BY <1>1, <1>11, <2>1, <2>2 DEF ShapeInv
<1>14. stored \subseteq stored' /\ stored' \subseteq Keys
  BY <1>3, <1>5 DEF TypeOK
<1>15. Rejectable \subseteq Rejectable' /\ \A ks : Rejects(ks) => Rejects(ks)'
  BY <1>1, <1>14, RejectableGrows
<1>16. TruthInv'
  <2>1. \A k \in P : r[k] = "ok" => k \in stored'
    BY <1>3, <1>5, <1>6 DEF Possible
  <2>2. ASSUME ~connErr', NEW k \in P, r[k] = "rejected" PROVE k \in Rejectable'
    <3>1. k \in Window /\ ChunkOf(k) \in ChunkNumbers /\ ChunkOf(k) \notin waits
      BY <1>3, <1>5, <1>6, <2>2
    <3>2. end[ChunkOf(k)] = "rejected"
      BY <1>6, <2>2, <3>1
    <3>3. Rejects(Chunk(ChunkOf(k)))
      BY <1>3, <3>1, <3>2 DEF Possible
    <3>4. flags.chunk \in Nat \ {0} /\ ~(flags.chunk > 1)
      BY <1>3, <1>8, <2>2, <3>1, <3>2, BulkAssumption DEF Isolated, TypeOK
    <3>5. flags.chunk = 1
      BY <3>4
    <3> QED
      BY <1>15, <3>1, <3>3, <3>5, ChunkOfOne
  <2>3. \A ks \in chunks' : Rejects(ks)'
    BY <1>3, <1>8, <1>15 DEF Possible, Isolated
  <2> QED
    BY <1>1, <1>7, <1>9, <1>14, <2>1, <2>2, <2>3, TruthStep
<1>17. TypeOK'
  <2>1. report' \in [Keys -> Seq(Reasons)]
    BY <1>7, <1>9, AddsIs
  <2>2. faults' \in 0..MaxFaults
    <3> DEFINE bad == {c \in ChunkNumbers : IsFault(end[c])}
    <3>1. bad \in SUBSET ChunkNumbers /\ IsFiniteSet(ChunkNumbers) /\ faults' = faults + Cardinality(bad)
      BY <1>3, ChunksOfWindow
    <3> HIDE DEF bad
    <3>2. Cardinality(bad) \in Nat
      BY <3>1, FS_Subset, FS_CardinalityType
    <3> QED
      BY <1>3, <3>1, <3>2, BulkAssumption DEF TypeOK
  <2>3. unsent' \subseteq input' /\ chunks' \subseteq SUBSET input' /\ halves' \subseteq SUBSET input'
    BY <1>1, <1>3, <1>5 DEF TypeOK
  <2>4. connErr' \in BOOLEAN
    BY <1>3, <1>6
  <2> QED
    BY <1>1, <1>11, <1>14, <2>1, <2>2, <2>3, <2>4 DEF TypeOK
<1> QED
  BY <1>12, <1>13, <1>16, <1>17

LEMMA CannotSendStep ==
    ASSUME BInv, CannotSend
    PROVE  BInv'
<1> USE DEF BInv
<1>1. /\ pc = "window" /\ chunks = {} /\ halves = {} /\ ~connErr
      /\ unsent' = {} /\ pc' = "done" /\ faults < MaxFaults /\ faults' = faults + 1
      /\ Record(unsent, "error")
      /\ UNCHANGED <<flags, stored, refused, input, chunks, halves, budget, connErr, reruns>>
  BY DEF CannotSend, ShapeInv
<1>2. Waiting = unsent
  BY <1>1 DEF Waiting
<1>3. PICK r : Adds(unsent, r) /\ \A k \in unsent : r[k] = "error"
  BY <1>1, RecordIs
<1>4. \A k \in unsent : r[k] \in Reasons
  BY <1>3 DEF Reasons
<1>5. CountInv'
  BY <1>1, <1>2, <1>3, <1>4, CountStep
<1>6. ShapeInv'
  BY <1>1 DEF ShapeInv
<1>7. TruthInv'
  BY <1>1, <1>3, <1>4, TruthStep
<1>8. TypeOK'
  <2>1. report' \in [Keys -> Seq(Reasons)]
    BY <1>3, <1>4, AddsIs
  <2>2. faults' \in 0..MaxFaults
    BY <1>1, BulkAssumption DEF TypeOK
  <2> QED
    BY <1>1, <2>1, <2>2 DEF TypeOK
<1> QED
  BY <1>5, <1>6, <1>7, <1>8

(* The steps of the isolation: a piece is taken out, which goes back in    *)
(* halves or is settled.                                                   *)
LEMMA IsolateShape ==
    ASSUME ShapeInv, pc = "isolate"
    PROVE  /\ ~connErr
           /\ \A ks \in chunks : Disjoint(ks, unsent) /\ Disjoint(ks, UNION (chunks \ {ks}))
                                 /\ Disjoint(ks, UNION halves)
           /\ \A ks \in halves : Disjoint(ks, unsent) /\ Disjoint(ks, UNION (halves \ {ks}))
                                 /\ Disjoint(ks, UNION chunks)
BY DEF ShapeInv, Disjoint

(* A half is settled.                                                      *)
LEMMA HalfSettled ==
    ASSUME BInv, pc = "isolate", NEW ks \in halves, NEW r, Adds(ks, r),
           \A k \in ks : r[k] \in Reasons,
           halves' = halves \ {ks}, GoOn(FALSE, chunks, halves', unsent), connErr' = FALSE,
           UNCHANGED <<flags, refused, input, unsent, chunks>>,
           stored \subseteq stored', stored' \subseteq Keys,
           \A k \in ks : r[k] = "ok" => k \in stored',
           \A k \in ks : r[k] = "rejected" => k \in Rejectable'
    PROVE  /\ ShapeInv' /\ CountInv' /\ TruthInv' /\ report' \in [Keys -> Seq(Reasons)]
           /\ pc' \in {"window", "isolate", "done"}
<1> USE DEF BInv
<1>1. /\ pc' \in {"window", "isolate", "done"}
      /\ pc' = "window" => chunks' = {} /\ halves' = {}
      /\ pc' = "done" => chunks' = {} /\ halves' = {} /\ unsent' = {}
  BY GoOnIs
<1>2. Disjoint(ks, unsent) /\ Disjoint(ks, UNION (halves \ {ks})) /\ Disjoint(ks, UNION chunks)
  BY IsolateShape
<1>3. ks \subseteq Waiting /\ Waiting' = Waiting \ ks
  BY <1>2 DEF Waiting, Disjoint
<1>4. pc' = "done" => ks = Waiting
  BY <1>1, <1>3 DEF Waiting
<1>5. CountInv'
  BY <1>3, <1>4, CountStep
<1>6. ShapeInv'
  BY <1>1 DEF ShapeInv
<1>7. TruthInv'
  BY TruthStep
<1>8. report' \in [Keys -> Seq(Reasons)]
  BY AddsIs
<1> QED
  BY <1>1, <1>5, <1>6, <1>7, <1>8

LEMMA GiveUpStep ==
    ASSUME BInv, GiveUpHalf
    PROVE  BInv'
<1>1. PICK ks \in First(halves) : Record(ks, "unisolated") /\ halves' = halves \ {ks}
  BY DEF GiveUpHalf
<1>2. /\ pc = "isolate" /\ GoOn(FALSE, chunks, halves', unsent)
      /\ UNCHANGED <<flags, stored, refused, input, unsent, chunks, budget, connErr, faults, reruns>>
      /\ connErr = FALSE
  BY DEF GiveUpHalf, BInv, ShapeInv, TypeOK
<1>3. ks \in halves
  BY FirstIs
<1>4. PICK r : Adds(ks, r) /\ \A k \in ks : r[k] = "unisolated"
  BY <1>1, RecordIs
<1>5. \A k \in ks : r[k] \in Reasons /\ r[k] # "ok" /\ r[k] # "rejected"
  BY <1>4 DEF Reasons
<1>6. stored' \subseteq Keys
  BY <1>2 DEF BInv, TypeOK
<1>7. /\ ShapeInv' /\ CountInv' /\ TruthInv' /\ report' \in [Keys -> Seq(Reasons)]
      /\ pc' \in {"window", "isolate", "done"}
  BY <1>1, <1>2, <1>3, <1>4, <1>5, <1>6, HalfSettled
<1>8. TypeOK'
  BY <1>1, <1>2, <1>7 DEF BInv, TypeOK
<1> QED
  BY <1>7, <1>8 DEF BInv

LEMMA TakeChunkStep ==
    ASSUME BInv, TakeChunk
    PROVE  BInv'
<1> USE DEF BInv
<1>1. PICK ks \in First(chunks) :
         /\ chunks' = chunks \ {ks}
         /\ IF Cardinality(ks) = 1
              THEN /\ Record(ks, "rejected")
                   /\ UNCHANGED halves
              ELSE /\ halves' = Bisect(ks)
                   /\ UNCHANGED report
  BY DEF TakeChunk
<1>2. /\ pc = "isolate" /\ halves = {} /\ GoOn(FALSE, chunks', halves', unsent)
      /\ UNCHANGED <<flags, stored, refused, input, unsent, budget, connErr, faults, reruns>>
      /\ connErr = FALSE
  BY DEF TakeChunk, ShapeInv, TypeOK
<1>3. ks \in chunks /\ ks \in SUBSET Keys /\ ks \subseteq input /\ Rejects(ks)
  BY FirstIs DEF TypeOK, TruthInv
<1>4. /\ pc' \in {"window", "isolate", "done"}
      /\ pc' = "window" => chunks' = {} /\ halves' = {}
      /\ pc' = "done" => chunks' = {} /\ halves' = {} /\ unsent' = {}
  BY <1>2, GoOnIs
<1>5. Disjoint(ks, unsent) /\ Disjoint(ks, UNION (chunks \ {ks}))
  BY <1>2, <1>3, IsolateShape
<1>6. CASE Cardinality(ks) = 1
  <2>1. PICK r : Adds(ks, r) /\ \A k \in ks : r[k] = "rejected"
    BY <1>1, <1>6, RecordIs
  <2>2. \A k \in ks : r[k] \in Reasons /\ r[k] # "ok"
    BY <2>1 DEF Reasons
  <2>3. halves' = {}
    BY <1>1, <1>2, <1>6
  <2>4. ks \subseteq Waiting /\ Waiting' = Waiting \ ks
    BY <1>1, <1>2, <1>3, <1>5, <2>3 DEF Waiting, Disjoint
  <2>5. pc' = "done" => ks = Waiting
    BY <1>4, <2>4 DEF Waiting
  <2>6. CountInv'
    BY <1>2, <2>1, <2>2, <2>4, <2>5, CountStep
  <2>7. ShapeInv'
    BY <1>1, <1>2, <1>4, <2>3 DEF ShapeInv
  <2>8. \A k \in ks : k \in Rejectable'
    BY <1>2, <1>3, <1>6, OneKey DEF Rejectable
  <2>9. TruthInv'
    BY <1>1, <1>2, <2>1, <2>2, <2>8, TruthStep
  <2>10. report' \in [Keys -> Seq(Reasons)]
    BY <2>1, <2>2, AddsIs
  <2>11. TypeOK'
    BY <1>1, <1>2, <1>4, <2>3, <2>10 DEF TypeOK
  <2> QED
    BY <2>6, <2>7, <2>9, <2>11
<1>7. CASE Cardinality(ks) # 1
  <2>1. halves' = Bisect(ks) /\ report' = report
    BY <1>1, <1>7
  <2>2. /\ UNION halves' = ks /\ \A a \in halves' : a \subseteq ks
        /\ \A a, b \in halves' : a = b \/ Disjoint(a, b)
    BY <2>1, BisectIs
  <2>3. Waiting' = Waiting
    BY <1>1, <1>2, <1>3, <2>2 DEF Waiting
  <2>4. pc' = "done" => Waiting = {}
    BY <1>4, <2>3 DEF Waiting
  <2>5. CountInv'
    BY <1>2, <2>1, <2>3, <2>4 DEF CountInv
  <2>6. ShapeInv'
    BY <1>1, <1>2, <1>4, <1>5, <2>2 DEF ShapeInv, Disjoint
  <2>7. TruthInv'
    BY <1>1, <1>2, <2>1 DEF TruthInv, Says, Rejects, Rejectable, NoInnocentBlamed
  <2>8. TypeOK'
    BY <1>1, <1>2, <1>3, <1>4, <2>1, <2>2 DEF TypeOK
  <2> QED
    BY <2>5, <2>6, <2>7, <2>8
<1> QED
  BY <1>6, <1>7

LEMMA SendHalfStep ==
    ASSUME BInv, SendHalf
    PROVE  BInv'
<1> USE DEF BInv
<1>1. PICK ks \in First(halves), end \in Ends, applied \in BOOLEAN :
         /\ Possible(ks, end, applied)
         /\ IF IsFault(end) THEN faults < MaxFaults /\ faults' = faults + 1
                           ELSE UNCHANGED faults
         /\ stored' = stored \cup IF applied THEN ks ELSE {}
         /\ connErr' = (end = "lost")
         /\ \/ /\ end = "rejected" /\ Cardinality(ks) > 1
               /\ halves' = (halves \ {ks}) \cup Bisect(ks)
               /\ UNCHANGED <<report, chunks>>
            \/ /\ end \in {"ok", "error"} \/ (end = "rejected" /\ Cardinality(ks) = 1)
               /\ Record(ks, end)
               /\ halves' = halves \ {ks}
               /\ UNCHANGED chunks
            \/ /\ end = "lost"
               /\ Record(Unsettled \cup unsent, "not attempted")
               /\ halves' = {} /\ chunks' = {}
         /\ GoOn(end = "lost", chunks', halves', unsent)
  BY DEF SendHalf
<1>2. /\ pc = "isolate" /\ ~OutOfBudget /\ budget' = budget - 1
      /\ UNCHANGED <<flags, refused, input, unsent, reruns>>
  BY DEF SendHalf
<1>3. ks \in halves /\ ks \in SUBSET Keys /\ ks \subseteq input
  BY FirstIs DEF TypeOK
<1>4. stored \subseteq stored' /\ stored' \subseteq Keys
  BY <1>1, <1>3 DEF TypeOK
<1>5. /\ pc' \in {"window", "isolate", "done"}
      /\ pc' = "window" => chunks' = {} /\ halves' = {}
      /\ pc' = "done" => end = "lost" \/ (chunks' = {} /\ halves' = {} /\ unsent' = {})
      /\ end = "lost" => pc' = "done"
  BY <1>1, <1>2, GoOnIs
<1>6. Rejectable \subseteq Rejectable' /\ \A xs : Rejects(xs) => Rejects(xs)'
  BY <1>2, <1>4, RejectableGrows
<1>7. budget' \in 0..MaxIsolation /\ faults' \in 0..MaxFaults
  <2>1. budget \in 0..MaxIsolation /\ faults \in 0..MaxFaults /\ budget # 0
    BY <1>2 DEF TypeOK, OutOfBudget
  <2>2. faults' = faults \/ (faults < MaxFaults /\ faults' = faults + 1)
    BY <1>1
  <2>3. budget' \in 0..MaxIsolation
    BY <1>2, <2>1, BoundsNat
  <2>4. faults' \in 0..MaxFaults
    BY <2>1, <2>2, BoundsNat
  <2> QED
    BY <2>3, <2>4
<1>8. Disjoint(ks, unsent) /\ Disjoint(ks, UNION (halves \ {ks})) /\ Disjoint(ks, UNION chunks)
  BY <1>2, <1>3, IsolateShape
<1>9. CASE /\ end = "rejected" /\ Cardinality(ks) > 1
           /\ halves' = (halves \ {ks}) \cup Bisect(ks)
           /\ UNCHANGED <<report, chunks>>
  <2>1. /\ UNION Bisect(ks) = ks /\ \A a \in Bisect(ks) : a \subseteq ks
        /\ \A a, b \in Bisect(ks) : a = b \/ Disjoint(a, b)
    BY BisectIs
  <2>2. Waiting' = Waiting
    BY <1>2, <1>3, <1>9, <2>1 DEF Waiting
  <2>3. pc' = "done" => Waiting = {}
    BY <1>5, <1>9, <2>2 DEF Waiting
  <2>4. CountInv'
    BY <1>2, <1>9, <2>2, <2>3 DEF CountInv
  <2>5. ShapeInv'
    <3>1. \A a \in halves' : a \in halves \ {ks} \/ (a \subseteq ks /\ a \in Bisect(ks))
      BY <1>9, <2>1
    <3>2. \A a \in halves' : Disjoint(a, unsent') /\ \A b \in chunks' : Disjoint(b, a)
      BY <1>2, <1>8, <1>9, <3>1 DEF ShapeInv, Disjoint
    <3>3. \A a, b \in halves' : a = b \/ Disjoint(a, b)
      BY <1>8, <2>1, <3>1 DEF ShapeInv, Disjoint
    <3>4. ~connErr' /\ (pc' # "isolate" => chunks' = {} /\ halves' = {})
      BY <1>1, <1>5, <1>9
    <3> QED
      BY <1>2, <1>9, <3>2, <3>3, <3>4 DEF ShapeInv
  <2>6. TruthInv'
    <3>1. \A k \in Keys : \A w : Says(k, w)' = Says(k, w)
      BY <1>9 DEF Says
    <3>2. ~connErr /\ NoInnocentBlamed /\ TruthInv
      BY <1>2 DEF ShapeInv, TruthInv
    <3>3. NoInnocentBlamed'
      BY <1>6, <1>9, <3>2 DEF NoInnocentBlamed
    <3> QED
      BY <1>2, <1>4, <1>6, <1>9, <3>1, <3>2, <3>3 DEF TruthInv
  <2>7. TypeOK'
    BY <1>1, <1>2, <1>3, <1>4, <1>5, <1>7, <1>9, <2>1 DEF TypeOK
  <2> QED
    BY <2>4, <2>5, <2>6, <2>7
<1>10. CASE /\ end \in {"ok", "error"} \/ (end = "rejected" /\ Cardinality(ks) = 1)
            /\ Record(ks, end)
            /\ halves' = halves \ {ks}
            /\ UNCHANGED chunks
  <2>1. PICK r : Adds(ks, r) /\ \A k \in ks : r[k] = end
    BY <1>10, RecordIs
  <2>2. \A k \in ks : r[k] \in Reasons
    BY <1>10, <2>1 DEF Reasons
  <2>3. \A k \in ks : r[k] = "ok" => k \in stored'
    BY <1>1, <2>1 DEF Possible
  <2>4. \A k \in ks : r[k] = "rejected" => k \in Rejectable'
    <3>1. end = "rejected" => Cardinality(ks) = 1 /\ Rejects(ks)
      BY <1>1, <1>10 DEF Possible
    <3> QED
      BY <1>3, <1>6, <2>1, <3>1, OneKey
  <2>5. GoOn(FALSE, chunks, halves', unsent) /\ connErr' = FALSE
    BY <1>1, <1>10 DEF GoOn
  <2>6. /\ ShapeInv' /\ CountInv' /\ TruthInv' /\ report' \in [Keys -> Seq(Reasons)]
    BY <1>2, <1>3, <1>4, <1>10, <2>1, <2>2, <2>3, <2>4, <2>5, HalfSettled
  <2>7. TypeOK'
    BY <1>2, <1>4, <1>5, <1>7, <1>10, <2>5, <2>6 DEF TypeOK
  <2> QED
    BY <2>6, <2>7
<1>11. CASE /\ end = "lost"
            /\ Record(Unsettled \cup unsent, "not attempted")
            /\ halves' = {} /\ chunks' = {}
  <2>1. Unsettled \cup unsent = Waiting
    BY DEF Unsettled, Waiting
  <2>2. PICK r : Adds(Waiting, r) /\ \A k \in Waiting : r[k] = "not attempted"
    BY <1>11, <2>1, RecordIs
  <2>3. \A k \in Waiting : r[k] \in Reasons /\ r[k] # "ok" /\ r[k] # "rejected"
    BY <2>2 DEF Reasons
  <2>4. pc' = "done"
    BY <1>5, <1>11
  <2>5. CountInv'
    BY <1>2, <2>2, <2>3, <2>4, CountStep
  <2>6. ShapeInv'
    BY <1>11, <2>4 DEF ShapeInv
  <2>7. TruthInv'
    BY <1>2, <1>4, <1>11, <2>2, <2>3, TruthStep
  <2>8. report' \in [Keys -> Seq(Reasons)]
    BY <2>2, <2>3, AddsIs
  <2>9. connErr' \in BOOLEAN
    BY <1>1
  <2>10. TypeOK'
    BY <1>2, <1>4, <1>5, <1>7, <1>11, <2>8, <2>9 DEF TypeOK
  <2> QED
    BY <2>5, <2>6, <2>7, <2>10
<1> QED
  BY <1>1, <1>9, <1>10, <1>11

LEMMA RerunStep ==
    ASSUME BInv, Rerun
    PROVE  BInv'
<1> USE DEF BInv
<1>1. /\ pc = "done" /\ reruns < MaxReruns /\ reruns' = reruns + 1
      /\ input' = Failed /\ unsent' = Failed /\ refused' \in SUBSET refused
      /\ pc' = "window" /\ report' = NoReport /\ budget' = MaxIsolation /\ connErr' = FALSE
      /\ UNCHANGED <<flags, stored, chunks, halves, faults>>
  BY DEF Rerun
<1>2. chunks = {} /\ halves = {} /\ Failed \subseteq Keys
  BY <1>1 DEF ShapeInv, Failed, TypeOK
<1>3. \A k \in Keys : report'[k] = <<>> /\ Len(<<>>) = 0
  BY <1>1 DEF NoReport
<1>4. \A k \in Keys : k \in Failed \/ k \in stored
  <2>1. ASSUME NEW k \in input, k \notin Failed PROVE k \in stored
    <3>1. Len(report[k]) = 1 /\ k \in Keys
      BY <1>1 DEF CountInv, TypeOK
    <3>2. report[k][1] = "ok"
      BY <2>1, <3>1 DEF Failed
    <3> QED
      BY <3>1, <3>2 DEF TruthInv, Says
  <2> QED
    BY <2>1 DEF TruthInv
<1>5. TypeOK'
  <2>1. report' \in [Keys -> Seq(Reasons)]
    BY <1>1 DEF NoReport
  <2>2. reruns' \in 0..MaxReruns /\ budget' \in 0..MaxIsolation
    BY <1>1, BulkAssumption DEF TypeOK
  <2> QED
    BY <1>1, <1>2, <2>1, <2>2 DEF TypeOK
<1>6. ShapeInv'
  BY <1>1, <1>2 DEF ShapeInv
<1>7. CountInv'
  BY <1>1, <1>2, <1>3 DEF CountInv, Waiting
<1>8. TruthInv'
  BY <1>1, <1>2, <1>3, <1>4 DEF TruthInv, Says, NoInnocentBlamed
<1> QED
  BY <1>5, <1>6, <1>7, <1>8

LEMMA Initially == Init => BInv
<1> SUFFICES ASSUME Init PROVE BInv
  OBVIOUS
<1>1. /\ stored \subseteq Keys /\ refused \subseteq Keys /\ flags \in Flags
      /\ pc = IF Keys = {} THEN "done" ELSE "window"
      /\ input = Keys /\ unsent = Keys /\ report = NoReport /\ chunks = {} /\ halves = {}
      /\ budget = MaxIsolation /\ connErr = FALSE /\ faults = 0 /\ reruns = 0
  BY DEF Init
<1>2. \A k \in Keys : report[k] = <<>> /\ Len(<<>>) = 0
  BY <1>1 DEF NoReport
<1>3. TypeOK
  <2>1. report \in [Keys -> Seq(Reasons)]
    BY <1>1 DEF NoReport
  <2>2. budget \in 0..MaxIsolation /\ faults \in 0..MaxFaults /\ reruns \in 0..MaxReruns
    BY <1>1, BoundsNat
  <2>3. pc \in {"window", "isolate", "done"} /\ connErr \in BOOLEAN
    BY <1>1
  <2> QED
    BY <1>1, <2>1, <2>2, <2>3 DEF TypeOK
<1>4. ShapeInv
  BY <1>1 DEF ShapeInv
<1>5. CountInv
  BY <1>1, <1>2 DEF CountInv, Waiting
<1>6. TruthInv
  BY <1>1, <1>2 DEF TruthInv, Says, NoInnocentBlamed
<1> QED
  BY <1>3, <1>4, <1>5, <1>6 DEF BInv

LEMMA Invariance == Spec => []BInv
<1>1. BInv /\ [Next]_vars => BInv'
  <2> SUFFICES ASSUME BInv, [Next]_vars PROVE BInv'
    OBVIOUS
  <2>1. CASE UNCHANGED vars
    <3>1. TypeOK' /\ ShapeInv'
      BY <2>1 DEF vars, BInv, TypeOK, ShapeInv
    <3>2. CountInv' /\ TruthInv'
      BY <2>1 DEF vars, BInv, CountInv, TruthInv, Waiting, Says, Rejects, Rejectable, NoInnocentBlamed
    <3> QED
      BY <3>1, <3>2 DEF BInv
  <2> QED
    BY <2>1, WindowStep, CannotSendStep, TakeChunkStep, GiveUpStep, SendHalfStep, RerunStep
       DEF Next, Run
<1> QED
  BY <1>1, Initially, PTL DEF Spec

-------------------------------------------------------------------------------
(* The theorems.                                                           *)

THEOREM BulkTypeCorrect == Spec => []TypeOK
<1>1. BInv => TypeOK
  BY DEF BInv
<1> QED
  BY <1>1, Invariance, PTL

(* Every tuple of the file is reported once and truly, and none is lost    *)
(* between the report, the failed file and the server, re-runs included.   *)
THEOREM OutcomesAreAlwaysTrue == Spec => []OutcomesAreTrue
<1>1. BInv => OutcomesAreTrue
  <2> SUFFICES ASSUME BInv PROVE OutcomesAreTrue
    OBVIOUS
  <2>1. EveryTupleReportedOnce
    BY DEF BInv, CountInv, EveryTupleReportedOnce
  <2>2. ASSUME pc = "done", NEW k \in Keys PROVE k \in stored \cup Failed
    <3>1. CASE k \in input
      <4>1. Len(report[k]) = 1
        BY <2>1, <2>2, <3>1 DEF EveryTupleReportedOnce
      <4>2. report[k][1] = "ok" => k \in stored
        BY <4>1 DEF BInv, TruthInv, Says
      <4> QED
        BY <3>1, <4>1, <4>2 DEF Failed
    <3>2. CASE k \notin input
      BY <3>2 DEF BInv, TruthInv
    <3> QED
      BY <3>1, <3>2
  <2>3. NothingLost
    BY <2>2 DEF NothingLost
  <2> QED
    BY <2>1, <2>3 DEF OutcomesAreTrue, EveryTupleAccountedFor, BInv, TruthInv
<1> QED
  BY <1>1, Invariance, PTL
-------------------------------------------------------------------------------
(* The files.  A key is trimmed, and what is cut of it at a separator has no *)
(* space at its ends unless the key has one beside the separator (Tidy).    *)

Separators == {":", "#"}
Bare(s) == s = <<>> \/ (s[1] # " " /\ s[Len(s)] # " ")
Tidy(s) ==
    \A i \in 1..Len(s) : s[i] \in Separators =>
        (i > 1 => s[i - 1] # " ") /\ (i < Len(s) => s[i + 1] # " ")

(* Induction, by the least exception.                                      *)
LEMMA LeastIs ==
    ASSUME NEW T, T \subseteq Nat, T # {}
    PROVE  Min(T) \in T /\ \A n \in T : Min(T) <= n
<1> DEFINE R == OpToRel(<, Nat)
<1>1. IsWellFoundedOn(R, Nat)
  BY NatLessThanWellFounded
<1>2. \A x, y \in Nat : y < x => <<y, x>> \in R
  BY DEF OpToRel
<1> HIDE DEF R
<1>3. PICK x \in T : \A y \in T : ~ (<<y, x>> \in R)
  BY <1>1, WFMin
<1>4. \A y \in T : x <= y
  <2>1. \A y \in T : ~ (y < x)
    BY <1>2, <1>3
  <2> QED
    BY <2>1
<1> QED
  BY <1>4 DEF Min

LEMMA GreatestIs ==
    ASSUME NEW N \in Nat, NEW T, T \subseteq 1..N, T # {}
    PROVE  Max(T) \in T /\ \A n \in T : n <= Max(T)
<1> DEFINE U == {N - n : n \in T}
<1>1. U \subseteq Nat /\ U # {}
  OBVIOUS
<1>2. Min(U) \in U /\ \A n \in U : Min(U) <= n
  BY <1>1, LeastIs
<1>3. PICK x \in T : Min(U) = N - x
  BY <1>2
<1>4. ASSUME NEW n \in T PROVE n <= x
  <2>1. N - x <= N - n
    BY <1>2, <1>3
  <2> QED
    BY <2>1
<1> QED
  BY <1>4 DEF Max

LEMMA PieceIs ==
    ASSUME NEW s \in Seq(Characters), NEW l \in Nat, NEW h \in Nat, 1 <= l, h <= Len(s), l <= h + 1
    PROVE  /\ SubSeq(s, l, h) \in Seq(Characters) /\ Len(SubSeq(s, l, h)) = h - l + 1
           /\ \A i \in 1..(h - l + 1) : SubSeq(s, l, h)[i] = s[l + i - 1]
<1>1. \A i \in l..h : s[i] \in Characters
  BY ElementOfSeq
<1>2. (IF l <= h THEN h - l + 1 ELSE 0) = h - l + 1
  OBVIOUS
<1>3. l \in Int /\ h \in Int
  OBVIOUS
<1> QED
  BY <1>1, <1>2, <1>3, SubSeqProperties

Joined(s, b, c, a) ==
    /\ Len(s) = Len(b) + 1 + Len(a) /\ s[Len(b) + 1] = c
    /\ \A i \in 1..Len(b) : s[i] = b[i]
    /\ \A i \in 1..Len(a) : s[Len(b) + 1 + i] = a[i]

LEMMA CutIs ==
    ASSUME NEW s \in Strings, NEW c \in Characters
    PROVE  /\ Cut(s, c).before \in Strings /\ Cut(s, c).after \in Strings
           /\ Cut(s, c).found =>
                 /\ Joined(s, Cut(s, c).before, c, Cut(s, c).after)
                 /\ \A i \in 1..Len(Cut(s, c).before) : Cut(s, c).before[i] # c
           /\ ~Cut(s, c).found => Cut(s, c).before = s /\ Cut(s, c).after = <<>>
<1> DEFINE at == {i \in DOMAIN s : s[i] = c}
<1>0. s \in Seq(Characters) /\ Len(s) \in Nat /\ DOMAIN s = 1..Len(s)
  BY DEF Strings
<1>1. CASE at = {}
  <2>1. Cut(s, c) = [before |-> s, after |-> <<>>, found |-> FALSE]
    BY <1>1 DEF Cut
  <2>2. <<>> \in Strings
    BY DEF Strings
  <2> QED
    BY <2>1, <2>2
<1>2. CASE at # {}
  <2> DEFINE n == Min(at)
             b == SubSeq(s, 1, n - 1)
             a == SubSeq(s, n + 1, Len(s))
  <2>1. n \in 1..Len(s) /\ s[n] = c /\ \A i \in 1..Len(s) : s[i] = c => n <= i
    <3>0. \A i \in at : i \in 1..Len(s)
      BY <1>0, Zenon
    <3>1. at \subseteq Nat
      <4> HIDE DEF at
      <4>1. 1..Len(s) \subseteq Nat
        BY <1>0
      <4> QED
        BY <3>0, <4>1
    <3>2. n \in at /\ \A i \in at : n <= i
      BY <1>2, <3>1, LeastIs
    <3> QED
      BY <1>0, <3>2
  <2>2. Cut(s, c) = [before |-> b, after |-> a, found |-> TRUE]
    BY <1>2 DEF Cut
  <2> HIDE DEF n
  <2>3. b \in Seq(Characters) /\ Len(b) = n - 1 /\ \A i \in 1..(n - 1) : b[i] = s[i]
    <3>1. 1 \in Nat /\ n - 1 \in Nat /\ n - 1 <= Len(s) /\ 1 <= (n - 1) + 1
      BY <1>0, <2>1
    <3> HIDE DEF b
    <3>2. (n - 1) - 1 + 1 = n - 1 /\ \A i \in Int : 1 + i - 1 = i
      BY <2>1
    <3> QED
      BY <1>0, <3>1, <3>2, PieceIs DEF b
  <2>4. a \in Seq(Characters) /\ Len(a) = Len(s) - n /\ \A i \in 1..(Len(s) - n) : a[i] = s[n + i]
    <3>1. n + 1 \in Nat /\ 1 <= n + 1 /\ Len(s) \in Nat /\ n + 1 <= Len(s) + 1
      BY <1>0, <2>1
    <3> HIDE DEF a
    <3>2. Len(s) - (n + 1) + 1 = Len(s) - n /\ \A i \in Int : (n + 1) + i - 1 = n + i
      BY <1>0, <2>1
    <3>3. /\ a \in Seq(Characters) /\ Len(a) = Len(s) - (n + 1) + 1
          /\ \A i \in 1..(Len(s) - (n + 1) + 1) : a[i] = s[(n + 1) + i - 1]
      BY <1>0, <3>1, PieceIs DEF a
    <3>4. ASSUME NEW i \in 1..(Len(s) - n) PROVE a[i] = s[n + i]
      <4>1. i \in Int /\ i \in 1..(Len(s) - (n + 1) + 1)
        BY <1>0, <2>1, <3>2
      <4>2. a[i] = s[(n + 1) + i - 1] /\ (n + 1) + i - 1 = n + i
        BY <3>2, <3>3, <4>1, Zenon
      <4> QED
        BY <4>2, Zenon
    <3> QED
      BY <3>2, <3>3, <3>4
  <2> HIDE DEF a, b
  <2>5. Len(b) + 1 = n
    BY <2>1, <2>3
  <2>6. ASSUME NEW i \in 1..Len(b) PROVE b[i] = s[i] /\ b[i] # c
    <3>1. i \in 1..(n - 1) /\ i \in 1..Len(s) /\ ~ (n <= i)
      BY <1>0, <2>1, <2>3
    <3> QED
      BY <2>1, <2>3, <3>1
  <2>7. Len(s) = Len(b) + 1 + Len(a) /\ s[Len(b) + 1] = c
    BY <1>0, <2>1, <2>3, <2>4
  <2>8. \A i \in 1..Len(a) : a[i] = s[Len(b) + 1 + i]
    BY <1>0, <2>4, <2>5
  <2>9. /\ Cut(s, c).before = b /\ Cut(s, c).after = a /\ Cut(s, c).found
        /\ b \in Strings /\ a \in Strings
    BY <2>2, <2>3, <2>4 DEF Strings
  <2> QED
    BY <2>6, <2>7, <2>8, <2>9 DEF Joined
<1> QED
  BY <1>1, <1>2

LEMMA TrimIs ==
    ASSUME NEW s \in Strings
    PROVE  TrimSpace(s) \in Strings /\ Bare(TrimSpace(s))
<1> DEFINE inner == {i \in DOMAIN s : s[i] # " "}
<1>0. s \in Seq(Characters) /\ Len(s) \in Nat /\ DOMAIN s = 1..Len(s)
  BY DEF Strings
<1>1. CASE inner = {}
  <2>1. TrimSpace(s) = <<>>
    BY <1>1 DEF TrimSpace
  <2>2. <<>> \in Seq(Characters)
    OBVIOUS
  <2> QED
    BY <2>1, <2>2 DEF Bare, Strings
<1>2. CASE inner # {}
  <2>1. \A i \in inner : i \in 1..Len(s) /\ s[i] # " "
    BY <1>0, Zenon
  <2>2. TrimSpace(s) = SubSeq(s, Min(inner), Max(inner))
    BY <1>2 DEF TrimSpace
  <2> HIDE DEF inner
  <2> DEFINE l == Min(inner)
             h == Max(inner)
             p == SubSeq(s, l, h)
  <2>3. l \in inner /\ h \in inner /\ l <= h
    <3>1. inner \subseteq Nat /\ inner \subseteq 1..Len(s)
      <4>1. inner \subseteq 1..Len(s)
        BY <2>1, Zenon
      <4>2. 1..Len(s) \subseteq Nat
        BY <1>0
      <4> QED
        BY <4>1, <4>2
    <3>2. l \in inner /\ \A n \in inner : l <= n
      BY <1>2, <3>1, LeastIs
    <3>3. h \in inner
      BY <1>0, <1>2, <3>1, GreatestIs
    <3> QED
      BY <3>2, <3>3
  <2> HIDE DEF l, h
  <2>8. l \in Nat /\ h \in Nat /\ 1 <= l /\ h <= Len(s) /\ l <= h
    <3>1. l \in 1..Len(s) /\ h \in 1..Len(s)
      BY <2>1, <2>3, Zenon
    <3> QED
      BY <1>0, <2>3, <3>1
  <2>4. /\ l <= h + 1 /\ h - l + 1 \in 1..(h - l + 1) /\ 1 \in 1..(h - l + 1)
        /\ l + 1 - 1 = l /\ l + (h - l + 1) - 1 = h
    BY <2>8
  <2>5. /\ p \in Seq(Characters) /\ Len(p) = h - l + 1
        /\ \A i \in 1..(h - l + 1) : p[i] = s[l + i - 1]
    BY <1>0, <2>8, <2>4, PieceIs
  <2> HIDE DEF p
  <2>6. p[1] = s[l] /\ p[Len(p)] = s[h]
    BY <2>4, <2>5
  <2>7. TrimSpace(s) = p
    BY <2>2 DEF p, l, h
  <2> QED
    BY <2>1, <2>3, <2>5, <2>6, <2>7 DEF Bare, Strings
<1> QED
  BY <1>1, <1>2

LEMMA BareRests ==
    ASSUME NEW s \in Strings, Bare(s)
    PROVE  TrimSpace(s) = s
<1> DEFINE inner == {i \in DOMAIN s : s[i] # " "}
<1>0. s \in Seq(Characters) /\ Len(s) \in Nat /\ DOMAIN s = 1..Len(s)
  BY DEF Strings
<1>1. CASE s = <<>>
  <2>1. inner = {}
    BY <1>1
  <2> QED
    BY <1>1, <2>1 DEF TrimSpace
<1>2. CASE s # <<>>
  <2>1. \A i \in inner : i \in 1..Len(s)
    BY <1>0, Zenon
  <2>2. 1 \in inner /\ Len(s) \in inner
    <3>1. s[1] # " " /\ s[Len(s)] # " "
      BY <1>2 DEF Bare
    <3>2. 1 \in DOMAIN s /\ Len(s) \in DOMAIN s
      BY <1>0, <1>2
    <3> QED
      BY <3>1, <3>2
  <2>3. inner # {} /\ TrimSpace(s) = SubSeq(s, Min(inner), Max(inner))
    BY <2>2 DEF TrimSpace
  <2> HIDE DEF inner
  <2>4. Min(inner) = 1 /\ Max(inner) = Len(s)
    <3>1. inner \subseteq Nat /\ inner \subseteq 1..Len(s)
      BY <1>0, <2>1
    <3>2. /\ Min(inner) \in inner /\ Min(inner) <= 1
          /\ Max(inner) \in inner /\ Len(s) <= Max(inner)
      BY <1>0, <2>2, <2>3, <3>1, LeastIs, GreatestIs
    <3> QED
      BY <1>0, <2>1, <3>2
  <2>5. SubSeq(s, 1, Len(s)) = s
    BY <1>0
  <2> QED
    BY <2>3, <2>4, <2>5
<1> QED
  BY <1>1, <1>2

LEMMA JoinIs ==
    ASSUME NEW a \in Seq(Characters), NEW b \in Seq(Characters), NEW c \in Characters
    PROVE  a \o <<c>> \o b \in Seq(Characters) /\ Joined(a \o <<c>> \o b, a, c, b)
<1> DEFINE d == <<c>>
           e == a \o d
           s == e \o b
<1>1. d \in Seq(Characters) /\ Len(d) = 1 /\ d[1] = c /\ Len(a) \in Nat /\ Len(b) \in Nat
  OBVIOUS
<1> HIDE DEF d
<1>2. /\ e \in Seq(Characters) /\ Len(e) = Len(a) + Len(d)
      /\ \A i \in 1..Len(a) + Len(d) : e[i] = IF i <= Len(a) THEN a[i] ELSE d[i - Len(a)]
  BY <1>1, ConcatProperties
<1>3. (\A i \in 1..Len(a) : e[i] = a[i]) /\ e[Len(a) + 1] = c
  BY <1>1, <1>2
<1> HIDE DEF e
<1>9. e \in Seq(Characters)
  BY <1>2
<1>4. /\ s \in Seq(Characters) /\ Len(s) = Len(e) + Len(b)
      /\ \A i \in 1..Len(e) + Len(b) : s[i] = IF i <= Len(e) THEN e[i] ELSE b[i - Len(e)]
  BY <1>9, ConcatProperties
<1> HIDE DEF s
<1>5. \A i \in 1..Len(a) + 1 : s[i] = e[i]
  BY <1>1, <1>2, <1>4
<1>6. ASSUME NEW i \in 1..Len(b) PROVE s[Len(a) + 1 + i] = b[i]
  <2> DEFINE j == Len(a) + 1 + i
  <2>1. j \in 1..Len(e) + Len(b) /\ ~ (j <= Len(e)) /\ j - Len(e) = i
    BY <1>1, <1>2
  <2> HIDE DEF j
  <2>2. s[j] = b[i]
    BY <1>4, <2>1
  <2> QED
    BY <2>2 DEF j
<1>7. (\A i \in 1..Len(a) : s[i] = a[i]) /\ s[Len(a) + 1] = c
  BY <1>1, <1>3, <1>5
<1>8. Len(s) = Len(a) + 1 + Len(b)
  BY <1>1, <1>2, <1>4
<1> QED
  BY <1>4, <1>6, <1>7, <1>8 DEF s, e, d, Joined

LEMMA SeparatorIs == \A c \in Separators : c \in Characters /\ c # " "
BY DEF Separators, Characters

(* What a separator cuts a key into, and what it joins.                    *)
LEMMA PartsAreBare ==
    ASSUME NEW s \in Strings, Bare(s), Tidy(s), NEW c \in Separators
    PROVE  LET k == Cut(s, c)
           IN  /\ k.before \in Strings /\ Bare(k.before) /\ Tidy(k.before)
               /\ k.after \in Strings /\ Bare(k.after) /\ Tidy(k.after)
               /\ ~k.found => k.before = s /\ k.after = <<>>
<1> DEFINE k == Cut(s, c)
           a == k.after
           b == k.before
<1>0. c \in Characters /\ s \in Seq(Characters)
  BY SeparatorIs DEF Strings
<1>4. /\ b \in Strings /\ a \in Strings
      /\ k.found => Joined(s, b, c, a)
      /\ ~k.found => b = s /\ a = <<>>
  BY <1>0, CutIs
<1> HIDE DEF a, b
<1>1. /\ b \in Strings /\ a \in Strings
      /\ k.found => /\ Len(s) = Len(b) + 1 + Len(a) /\ s[Len(b) + 1] = c
                    /\ \A i \in 1..Len(b) : s[i] = b[i]
                    /\ \A i \in 1..Len(a) : s[Len(b) + 1 + i] = a[i]
      /\ ~k.found => b = s /\ a = <<>>
  BY <1>4 DEF Joined
<1>2. CASE ~k.found
  <2>0. b = s /\ a = <<>>
    BY <1>1, <1>2
  <2>1. Bare(<<>>) /\ Tidy(<<>>)
    <3>1. Len(<<>>) = 0 /\ 1..0 = {}
      BY EmptySeq
    <3> QED
      BY <3>1 DEF Bare, Tidy
  <2> QED
    BY <1>1, <1>2, <2>0, <2>1 DEF a, b
<1>3. CASE k.found
  <2>0. Len(a) \in Nat /\ Len(b) \in Nat
    BY <1>1 DEF Strings
  <2>1. Bare(b)
    <3> SUFFICES ASSUME b # <<>> PROVE b[1] # " " /\ b[Len(b)] # " "
      BY DEF Bare
    <3>1. Len(b) > 0
      BY <1>1 DEF Strings
    <3>2. 1 \in 1..Len(b) /\ Len(b) \in 1..Len(b) /\ Len(b) + 1 \in 1..Len(s) /\ Len(b) + 1 > 1 /\ Len(b) + 1 - 1 = Len(b) /\ s # <<>>
      BY <1>1, <1>3, <2>0, <3>1
    <3>3. s[Len(b)] # " "
      <4> DEFINE j == Len(b) + 1
      <4>1. j \in 1..Len(s) /\ j > 1 /\ j - 1 = Len(b) /\ s[j] = c
        BY <1>1, <1>3, <3>2
      <4> HIDE DEF j
      <4> QED
        BY <4>1 DEF Tidy
    <3> QED
      BY <1>1, <1>3, <3>2, <3>3 DEF Bare
  <2>2. Bare(a)
    <3> SUFFICES ASSUME a # <<>> PROVE a[1] # " " /\ a[Len(a)] # " "
      BY DEF Bare
    <3>1. Len(a) > 0
      BY <1>1 DEF Strings
    <3>2. 1 \in 1..Len(a) /\ Len(a) \in 1..Len(a) /\ Len(b) + 1 \in 1..Len(s) /\ Len(b) + 1 < Len(s) /\ Len(b) + 1 + Len(a) = Len(s) /\ s # <<>>
      BY <1>1, <1>3, <2>0, <3>1
    <3>3. s[Len(b) + 1 + 1] # " "
      BY <1>1, <1>3, <3>2 DEF Tidy
    <3>4. a[1] = s[Len(b) + 1 + 1] /\ a[Len(a)] = s[Len(s)]
      BY <1>1, <1>3, <3>2
    <3> QED
      BY <3>2, <3>3, <3>4 DEF Bare
  <2>3. Tidy(b)
    <3> SUFFICES ASSUME NEW i \in 1..Len(b), b[i] \in Separators
                 PROVE  (i > 1 => b[i - 1] # " ") /\ (i < Len(b) => b[i + 1] # " ")
      BY DEF Tidy
    <3>1. i \in 1..Len(s) /\ s[i] \in Separators /\ (i < Len(b) => i < Len(s) /\ i + 1 \in 1..Len(b)) /\ (i > 1 => i - 1 \in 1..Len(b))
      BY <1>1, <1>3, <2>0
    <3>2. (i > 1 => s[i - 1] # " ") /\ (i < Len(b) => s[i + 1] # " ")
      BY <3>1 DEF Tidy
    <3> QED
      BY <1>1, <1>3, <3>1, <3>2
  <2>4. Tidy(a)
    <3> SUFFICES ASSUME NEW i \in 1..Len(a), a[i] \in Separators
                 PROVE  (i > 1 => a[i - 1] # " ") /\ (i < Len(a) => a[i + 1] # " ")
      BY DEF Tidy
    <3> DEFINE j == Len(b) + 1 + i
    <3>1. /\ j \in 1..Len(s) /\ s[j] \in Separators /\ j > 1
          /\ i < Len(a) => j < Len(s) /\ i + 1 \in 1..Len(a) /\ Len(b) + 1 + (i + 1) = j + 1
          /\ i > 1 => i - 1 \in 1..Len(a) /\ Len(b) + 1 + (i - 1) = j - 1
      BY <1>1, <1>3, <2>0
    <3> HIDE DEF j
    <3>2. s[j - 1] # " " /\ (i < Len(a) => s[j + 1] # " ")
      BY <3>1 DEF Tidy
    <3> QED
      BY <1>1, <1>3, <3>1, <3>2
  <2> QED
    BY <1>1, <1>3, <2>1, <2>2, <2>3, <2>4 DEF a, b
<1> QED
  BY <1>2, <1>3

LEMMA JoinIsTidy ==
    ASSUME NEW a \in Strings, NEW b \in Strings, NEW c \in Separators,
           a # <<>>, b # <<>>, Bare(a), Bare(b), Tidy(a), Tidy(b)
    PROVE  /\ a \o <<c>> \o b \in Strings /\ a \o <<c>> \o b # <<>>
           /\ Bare(a \o <<c>> \o b) /\ Tidy(a \o <<c>> \o b)
<1> DEFINE s == a \o <<c>> \o b
           n == Len(a)
<1>0. c \in Characters /\ c # " " /\ a \in Seq(Characters) /\ b \in Seq(Characters)
  BY SeparatorIs DEF Strings
<1>1. n \in Nat /\ Len(b) \in Nat /\ n > 0 /\ Len(b) > 0
  <2>1. Len(a) \in Nat /\ Len(b) \in Nat /\ Len(a) # 0 /\ Len(b) # 0
    BY <1>0, EmptySeq
  <2> QED
    BY <2>1
<1>2. /\ s \in Seq(Characters) /\ Len(s) = n + 1 + Len(b) /\ s[n + 1] = c
      /\ \A i \in 1..n : s[i] = a[i]
      /\ \A i \in 1..Len(b) : s[n + 1 + i] = b[i]
  <2>1. s \in Seq(Characters) /\ Joined(s, a, c, b)
    BY <1>0, JoinIs
  <2> HIDE DEF s
  <2> QED
    BY <2>1 DEF Joined
<1> HIDE DEF s, n
<1>3. Bare(s)
  <2>1. 1 \in 1..n /\ Len(b) \in 1..Len(b)
    BY <1>1
  <2>2. s[1] = a[1] /\ s[Len(s)] = b[Len(b)]
    BY <1>2, <2>1
  <2> QED
    BY <2>2 DEF Bare
<1>4. Tidy(s)
  <2> SUFFICES ASSUME NEW i \in 1..Len(s), s[i] \in Separators
               PROVE  (i > 1 => s[i - 1] # " ") /\ (i < Len(s) => s[i + 1] # " ")
    BY DEF Tidy
  <2>1. CASE i \in 1..n
    <3>1. i > 1 => s[i - 1] # " "
      <4>1. i > 1 => i - 1 \in 1..n
        BY <1>1, <2>1
      <4> QED
        BY <1>2, <2>1, <4>1 DEF Tidy, n
    <3>2. s[i + 1] # " "
      <4>0. i = n \/ i < n
        BY <1>1, <2>1
      <4>1. CASE i = n
        BY <1>0, <1>2, <4>1
      <4>2. CASE i < n
        <5>1. i + 1 \in 1..n
          BY <1>1, <2>1, <4>2
        <5> QED
          BY <1>2, <2>1, <4>2, <5>1 DEF Tidy, n
      <4> QED
        BY <4>0, <4>1, <4>2, Zenon
    <3> QED
      BY <3>1, <3>2
  <2>2. CASE i = n + 1
    <3>1. n \in 1..n /\ 1 \in 1..Len(b) /\ i - 1 = n /\ i + 1 = n + 1 + 1
      BY <1>1, <2>2
    <3>2. s[i - 1] = a[n] /\ s[i + 1] = b[1]
      BY <1>2, <3>1
    <3> QED
      BY <3>2 DEF Bare, n
  <2>3. CASE i > n + 1
    <3> DEFINE j == i - (n + 1)
    <3>1. j \in 1..Len(b) /\ i = n + 1 + j /\ (i < Len(s) => j < Len(b) /\ j + 1 \in 1..Len(b) /\ i + 1 = n + 1 + (j + 1))
      BY <1>1, <1>2, <2>3
    <3>2. j > 1 => j - 1 \in 1..Len(b) /\ i - 1 = n + 1 + (j - 1)
      BY <1>1, <3>1
    <3>3. j = 1 => i - 1 = n + 1
      BY <1>1, <3>1
    <3> HIDE DEF j
    <3>4. b[j] \in Separators
      BY <1>2, <3>1
    <3>5. s[i - 1] # " "
      <4>1. CASE j = 1
        BY <1>0, <1>2, <3>3, <4>1
      <4>2. CASE j > 1
        <5>1. b[j - 1] # " "
          BY <3>1, <3>4, <4>2 DEF Tidy
        <5> QED
          BY <1>2, <3>2, <4>2, <5>1
      <4>3. j = 1 \/ j > 1
        BY <1>1, <3>1
      <4> QED
        BY <4>1, <4>2, <4>3, Zenon
    <3>6. i < Len(s) => s[i + 1] # " "
      BY <1>2, <3>1, <3>4 DEF Tidy
    <3> QED
      BY <3>5, <3>6
  <2>4. i \in 1..n \/ i = n + 1 \/ i > n + 1
    BY <1>1, <1>2
  <2> QED
    BY <2>1, <2>2, <2>3, <2>4, Zenon
<1>5. s # <<>>
  BY <1>1, <1>2
<1> QED
  BY <1>2, <1>3, <1>4, <1>5 DEF s, Strings

(* What was cut at a separator is joined by it again.                      *)
LEMMA CutRejoins ==
    ASSUME NEW s \in Strings, NEW c \in Separators, Cut(s, c).found
    PROVE  Cut(s, c).before \o <<c>> \o Cut(s, c).after = s
<1> DEFINE b == Cut(s, c).before
           a == Cut(s, c).after
<1>0. c \in Characters
  BY SeparatorIs
<1>1. /\ b \in Seq(Characters) /\ a \in Seq(Characters) /\ s \in Seq(Characters)
      /\ Joined(s, b, c, a)
  BY <1>0, CutIs DEF Strings
<1> HIDE DEF a, b
<1> DEFINE t == b \o <<c>> \o a
<1>2. t \in Seq(Characters) /\ Joined(t, b, c, a)
  BY <1>0, <1>1, JoinIs
<1> HIDE DEF t
<1>3. ASSUME NEW i \in 1..Len(s) PROVE t[i] = s[i]
  <2>1. CASE i \in 1..Len(b)
    BY <1>1, <1>2, <2>1 DEF Joined
  <2>2. CASE i = Len(b) + 1
    BY <1>1, <1>2, <2>2 DEF Joined
  <2>3. CASE i > Len(b) + 1
    <3> DEFINE j == i - (Len(b) + 1)
    <3>1. j \in 1..Len(a) /\ i = Len(b) + 1 + j
      BY <1>1, <2>3 DEF Joined
    <3> HIDE DEF j
    <3> QED
      BY <1>1, <1>2, <3>1 DEF Joined
  <2> QED
    BY <1>1, <2>1, <2>2, <2>3
<1>4. t = s
  BY <1>1, <1>2, <1>3, SeqEqual DEF Joined
<1> QED
  BY <1>4 DEF t, a, b

-------------------------------------------------------------------------------
(* The lines of a file that are not blank.                                 *)

LEMMA RankIs ==
    ASSUME NEW n \in Nat, NEW full, full \subseteq 1..n, NEW k \in 1..Cardinality(full)
    PROVE  \E i \in full : Cardinality({j \in full : j <= i}) = k
<1> DEFINE R(i) == {j \in full : j <= i}
           T == {i \in 0..n : Cardinality(R(i)) >= k}
<1>1. IsFiniteSet(full)
  <2>1. 0 \in Int /\ 1 \in Int /\ n \in Int
    OBVIOUS
  <2>2. IsFiniteSet(1..n)
    BY <2>1, FS_Interval
  <2> QED
    BY <2>2, FS_Subset
<1>2. \A i : R(i) \subseteq full /\ IsFiniteSet(R(i)) /\ Cardinality(R(i)) \in Nat
  <2>1. \A i : R(i) \subseteq full
    OBVIOUS
  <2> QED
    BY <1>1, <2>1, FS_Subset, FS_CardinalityType
<1>3. k \in Nat /\ k >= 1 /\ k <= Cardinality(full)
  BY <1>1, FS_CardinalityType
<1>4. R(n) = full /\ R(0) = {}
  <2>1. \A j \in full : j \in Nat /\ j <= n /\ ~ (j <= 0)
    OBVIOUS
  <2> QED
    BY <2>1
<1>5. ASSUME NEW i \in 1..n
      PROVE  R(i) = R(i - 1) \cup ({i} \cap full) /\ i \notin R(i - 1)
  <2>1. \A j \in full : j <= i <=> (j <= i - 1 \/ j = i)
    OBVIOUS
  <2>2. ~ (i <= i - 1)
    OBVIOUS
  <2>3. \A j : j \in R(i) <=> j \in R(i - 1) \cup ({i} \cap full)
    <3>1. i <= i
      OBVIOUS
    <3> QED
      BY <2>1, <3>1
  <2> QED
    BY <2>2, <2>3
<1> HIDE DEF R
<1>6. n \in T /\ T \subseteq Nat
  BY <1>3, <1>4
<1> DEFINE m == Min(T)
<1>7. m \in T /\ \A i \in T : m <= i
  BY <1>6, LeastIs
<1> HIDE DEF m
<1>8. m \in 1..n /\ m - 1 \in 0..n /\ m - 1 \notin T
  <2>1. 0 \notin T
    BY <1>3, <1>4, FS_EmptySet
  <2>2. m \in 1..n
    BY <1>7, <2>1
  <2> QED
    BY <1>7, <2>2
<1>9. Cardinality(R(m)) >= k /\ ~ (Cardinality(R(m - 1)) >= k)
  BY <1>7, <1>8
<1>10. m \in full
  <2> SUFFICES ASSUME m \notin full PROVE FALSE
    OBVIOUS
  <2>1. {m} \cap full = {}
    OBVIOUS
  <2>2. R(m) = R(m - 1)
    BY <1>5, <1>8, <2>1
  <2> QED
    BY <1>9, <2>2
<1>11. Cardinality(R(m)) = Cardinality(R(m - 1)) + 1
  <2>1. R(m) = R(m - 1) \cup {m} /\ m \notin R(m - 1)
    BY <1>5, <1>8, <1>10
  <2> QED
    BY <1>2, <2>1, FS_AddElement
<1>12. Cardinality(R(m)) = k
  BY <1>2, <1>3, <1>9, <1>11
<1> QED
  BY <1>10, <1>12 DEF R

LEMMA FilledIs ==
    ASSUME NEW S, NEW lines \in Seq(S)
    PROVE  /\ Filled(lines) \in Seq(S)
           /\ (\A i \in 1..Len(lines) : lines[i].form # "blank") => Filled(lines) = lines
<1> DEFINE full == {i \in DOMAIN lines : lines[i].form # "blank"}
           n == Len(lines)
           nth(k) == CHOOSE i \in full : Cardinality({j \in full : j <= i}) = k
           c == Cardinality(full)
<1>1. n \in Nat /\ DOMAIN lines = 1..n /\ \A i \in 1..n : lines[i] \in S
  OBVIOUS
<1>2. full \subseteq 1..n
  BY <1>1
<1>3. c \in Nat
  <2> HIDE DEF full
  <2>1. 1 \in Int /\ n \in Int
    BY <1>1
  <2>2. IsFiniteSet(1..n)
    BY <2>1, FS_Interval
  <2>3. IsFiniteSet(full)
    BY <1>2, <2>2, FS_Subset
  <2> QED
    BY <2>3, FS_CardinalityType
<1>4. Filled(lines) = [k \in 1..c |-> lines[nth(k)]]
  BY DEF Filled
<1> HIDE DEF full
<1> HIDE DEF n
<1>8. \A k \in 1..c : \E i \in full : Cardinality({j \in full : j <= i}) = k
  BY <1>1, <1>2, RankIs
<1>5. \A k \in 1..c : nth(k) \in full
  BY <1>8
<1>6. Filled(lines) \in Seq(S)
  <2> HIDE DEF nth, c
  <2>1. \A k \in 1..c : lines[nth(k)] \in S
    BY <1>1, <1>2, <1>5
  <2> QED
    BY <1>3, <1>4, <2>1
<1>7. ASSUME \A i \in 1..Len(lines) : lines[i].form # "blank"
      PROVE  Filled(lines) = lines
  <2>1. full = 1..n
    BY <1>1, <1>7 DEF full, n
  <2>2. c = n
    BY <1>1, <2>1, FS_Interval
  <2>3. ASSUME NEW k \in 1..n PROVE nth(k) = k
    <3>1. ASSUME NEW i \in 1..n PROVE Cardinality({j \in full : j <= i}) = i
      <4>1. {j \in full : j <= i} = 1..i
        BY <1>1, <2>1
      <4>2. Cardinality(1..i) = i
        BY FS_Interval
      <4> QED
        BY <4>1, <4>2
    <3>2. nth(k) \in full /\ Cardinality({j \in full : j <= nth(k)}) = k
      <4>1. \E i \in full : Cardinality({j \in full : j <= i}) = k
        BY <1>8, <2>2
      <4> QED
        BY <4>1
    <3> QED
      BY <2>1, <3>1, <3>2
  <2> HIDE DEF nth, c
  <2>4. Filled(lines) = [k \in 1..n |-> lines[k]]
    BY <1>4, <2>2, <2>3
  <2> QED
    BY <1>1, <2>4
<1> QED
  BY <1>6, <1>7


-------------------------------------------------------------------------------
(* What a file is read as.                                                 *)

LEMMA EntriesIs ==
    ASSUME NEW es \in Seq([form : Forms, tuple : Tuples]), NEW forms
    PROVE  EntriesOf(es, forms) \in Seq(Tuples) \cup {Refused}
<1> DEFINE ts == [i \in DOMAIN es |-> es[i].tuple]
<1>1. DOMAIN es = 1..Len(es) /\ Len(es) \in Nat /\ \A i \in 1..Len(es) : es[i].tuple \in Tuples
  <2>1. \A e \in [form : Forms, tuple : Tuples] : e.tuple \in Tuples
    OBVIOUS
  <2>2. \A i \in 1..Len(es) : es[i] \in [form : Forms, tuple : Tuples]
    BY ElementOfSeq
  <2>3. DOMAIN es = 1..Len(es) /\ Len(es) \in Nat
    OBVIOUS
  <2> QED
    BY <2>1, <2>2, <2>3, Zenon
<1>2. ts \in Seq(Tuples)
  BY <1>1
<1>3. EntriesOf(es, forms) = ts \/ EntriesOf(es, forms) = Refused
  BY DEF EntriesOf
<1> QED
  BY <1>2, <1>3

LEMMA ColumnsAre ==
    /\ Len(CsvColumns) = 8 /\ DOMAIN CsvColumns = 1..8
    /\ ToSet(CsvColumns) = {"user_type", "user_id", "user_relation", "relation",
                            "object_type", "object_id", "condition_name", "condition_context"}
    /\ CsvHeaderIsSound(CsvColumns)
<1>1. /\ Len(CsvColumns) = 8 /\ DOMAIN CsvColumns = 1..8
      /\ CsvColumns[1] = "user_type" /\ CsvColumns[2] = "user_id"
      /\ CsvColumns[3] = "user_relation" /\ CsvColumns[4] = "relation"
      /\ CsvColumns[5] = "object_type" /\ CsvColumns[6] = "object_id"
      /\ CsvColumns[7] = "condition_name" /\ CsvColumns[8] = "condition_context"
  BY DEF CsvColumns
<1>2. 1..8 = {1, 2, 3, 4, 5, 6, 7, 8}
  OBVIOUS
<1>3. ToSet(CsvColumns) = {"user_type", "user_id", "user_relation", "relation",
                           "object_type", "object_id", "condition_name", "condition_context"}
  BY <1>1, <1>2 DEF ToSet
<1>4. \A i, j \in 1..8 : CsvColumns[i] = CsvColumns[j] => i = j
  BY <1>1, <1>2
<1>5. CsvRequired \subseteq ToSet(CsvColumns)
  BY <1>3 DEF CsvRequired
<1> QED
  BY <1>1, <1>3, <1>4, <1>5 DEF CsvHeaderIsSound

(* A key of a CSV file: nothing of it is trimmed away, whole or in parts.  *)
CsvKey(t) ==
    /\ t \in Tuples /\ Trimmed(t) = t
    /\ Tidy(t.user) /\ Tidy(t.object)
    /\ t.condition # NoCondition =>
          t.condition.name # <<>> /\ t.condition.context \in {<<>>, <<"{}">>}

CsvFieldsAreClean(f) ==
    \A name \in ToSet(CsvColumns) : f[name] \in Strings /\ Bare(f[name]) /\ Tidy(f[name])

LEMMA TrimmedIs ==
    ASSUME NEW t \in Tuples
    PROVE  /\ Trimmed(t) \in Tuples /\ Trimmed(Trimmed(t)) = Trimmed(t)
<1> DEFINE u == Trimmed(t)
<1>1. /\ t.user \in Strings /\ t.relation \in Strings /\ t.object \in Strings
      /\ t.condition # NoCondition => t.condition \in [name : Strings, context : Strings]
  BY DEF Tuples
<1>2. \A s \in Strings : TrimSpace(s) \in Strings /\ TrimSpace(TrimSpace(s)) = TrimSpace(s)
  BY TrimIs, BareRests
<1>3. /\ u.user = TrimSpace(t.user) /\ u.relation = TrimSpace(t.relation)
      /\ u.object = TrimSpace(t.object)
      /\ u.condition = IF t.condition = NoCondition THEN NoCondition
                       ELSE [t.condition EXCEPT !.name = TrimSpace(@)]
      /\ u = [user |-> u.user, relation |-> u.relation, object |-> u.object,
              condition |-> u.condition]
  BY DEF Trimmed
<1> HIDE DEF u
<1>4. u.condition # NoCondition =>
         /\ u.condition \in [name : Strings, context : Strings]
         /\ [u.condition EXCEPT !.name = TrimSpace(@)] = u.condition
  <2> SUFFICES ASSUME u.condition # NoCondition
               PROVE  /\ u.condition \in [name : Strings, context : Strings]
                      /\ [u.condition EXCEPT !.name = TrimSpace(@)] = u.condition
    OBVIOUS
  <2>1. /\ t.condition \in [name : Strings, context : Strings]
        /\ u.condition = [t.condition EXCEPT !.name = TrimSpace(@)]
    BY <1>1, <1>3
  <2>2. /\ u.condition \in [name : Strings, context : Strings]
        /\ u.condition.name = TrimSpace(t.condition.name)
    BY <1>2, <2>1
  <2>3. TrimSpace(u.condition.name) = u.condition.name
    BY <1>2, <2>1, <2>2
  <2> QED
    BY <2>2, <2>3
<1>5. u \in Tuples
  BY <1>1, <1>2, <1>3, <1>4 DEF Tuples
<1>6. /\ TrimSpace(u.user) = u.user /\ TrimSpace(u.relation) = u.relation
      /\ TrimSpace(u.object) = u.object
  BY <1>1, <1>2, <1>3
<1>7. Trimmed(u) = u
  BY <1>3, <1>4, <1>6 DEF Trimmed
<1> QED
  BY <1>5, <1>7 DEF u

LEMMA RowIsClean ==
    ASSUME NEW f, CsvFieldsAreClean(f), CsvRowIsSound(f)
    PROVE  CsvKey(CsvRow(f))
<1> DEFINE t == CsvRow(f)
           o == f["object_type"] \o <<":">> \o f["object_id"]
           p == f["user_type"] \o <<":">> \o f["user_id"]
           r == f["user_relation"]
           u == p \o (IF r = <<>> THEN <<>> ELSE <<"#">> \o r)
           n == f["condition_name"]
           c == f["condition_context"]
<1>1. \A name \in {"user_type", "user_id", "user_relation", "relation",
                   "object_type", "object_id", "condition_name", "condition_context"} :
         f[name] \in Strings /\ Bare(f[name]) /\ Tidy(f[name])
  BY ColumnsAre DEF CsvFieldsAreClean
<1>2. /\ f["user_type"] # <<>> /\ f["user_id"] # <<>>
      /\ f["object_type"] # <<>> /\ f["object_id"] # <<>>
      /\ c # <<>> => n # <<>>
      /\ c \in {<<>>, <<"{}">>}
  BY DEF CsvRowIsSound, CsvRequired
<1>3. t = [user |-> u, relation |-> f["relation"], object |-> o,
           condition |-> IF n = <<>> THEN NoCondition ELSE [name |-> n, context |-> c]]
  BY DEF CsvRow
<1>4. ":" \in Separators /\ "#" \in Separators /\ "#" \in Characters
  BY DEF Separators, Characters
<1>5. o \in Strings /\ o # <<>> /\ Bare(o) /\ Tidy(o)
  BY <1>1, <1>2, <1>4, JoinIsTidy
<1>6. p \in Strings /\ p # <<>> /\ Bare(p) /\ Tidy(p)
  BY <1>1, <1>2, <1>4, JoinIsTidy
<1>7. r \in Strings /\ Bare(r) /\ Tidy(r) /\ n \in Strings /\ Bare(n) /\ c \in Strings
      /\ f["relation"] \in Strings /\ Bare(f["relation"])
  BY <1>1
<1> HIDE DEF o, p, r, n, c
<1>8. u \in Strings /\ Bare(u) /\ Tidy(u)
  <2>1. CASE r = <<>>
    <3>1. u = p
      <4>1. p \in Seq(Characters)
        BY <1>6 DEF Strings
      <4> QED
        BY <2>1, <4>1, ConcatEmptySeq
    <3> QED
      BY <1>6, <3>1
  <2>2. CASE r # <<>>
    <3>1. u = p \o <<"#">> \o r
      <4>1. p \in Seq(Characters) /\ <<"#">> \in Seq(Characters) /\ r \in Seq(Characters)
        BY <1>4, <1>6, <1>7 DEF Strings
      <4> QED
        BY <2>2, <4>1, ConcatAssociative
    <3> QED
      BY <1>4, <1>6, <1>7, <2>2, <3>1, JoinIsTidy
  <2> QED
    BY <2>1, <2>2
<1> HIDE DEF u
<1>9. \A s \in {u, o, f["relation"], n} : TrimSpace(s) = s
  BY <1>5, <1>7, <1>8, BareRests
<1>10. t \in Tuples
  BY <1>3, <1>5, <1>7, <1>8 DEF Tuples
<1>11. /\ t.user = u /\ t.object = o /\ t.relation = f["relation"]
       /\ t.condition = IF n = <<>> THEN NoCondition ELSE [name |-> n, context |-> c]
  BY <1>3
<1> HIDE DEF t
<1>12. t.condition # NoCondition =>
          /\ [t.condition EXCEPT !.name = TrimSpace(@)] = t.condition
          /\ t.condition.name # <<>> /\ t.condition.context \in {<<>>, <<"{}">>}
  <2> SUFFICES ASSUME t.condition # NoCondition
               PROVE  /\ [t.condition EXCEPT !.name = TrimSpace(@)] = t.condition
                      /\ t.condition.name # <<>> /\ t.condition.context \in {<<>>, <<"{}">>}
    OBVIOUS
  <2>1. n # <<>> /\ t.condition = [name |-> n, context |-> c]
    BY <1>11
  <2>2. TrimSpace(n) = n
    BY <1>9
  <2> DEFINE d == [name |-> n, context |-> c]
  <2>3. [d EXCEPT !.name = TrimSpace(@)] = d /\ d.name = n /\ d.context = c
    BY <2>2
  <2> QED
    BY <1>2, <2>1, <2>3
<1>13. Trimmed(t) = t
  BY <1>3, <1>9, <1>11, <1>12 DEF Trimmed
<1> QED
  BY <1>5, <1>8, <1>10, <1>11, <1>12, <1>13 DEF CsvKey, t

(* A CSV file whose fields have no space beside a separator within them.   *)
TidyFiles ==
    \A f \in InputFiles : f.syntax = "csv" =>
        \A i \in 1..Len(f.rows) : \A j \in 1..Len(f.rows[i]) : Tidy(TrimSpace(f.rows[i][j]))

(* What is read of a CSV file of the user's.                               *)
LEMMA CsvIsRead ==
    ASSUME NEW f \in InputFiles, f.syntax = "csv", TidyFiles, ParseCSV(f) # Refused
    PROVE  /\ ParseCSV(f) \in Seq(Tuples)
           /\ \A i \in DOMAIN ParseCSV(f) : CsvKey(ParseCSV(f)[i])
<1> DEFINE F(i) == Fields(f.header, f.rows[i])
           ts == [i \in DOMAIN f.rows |-> CsvRow(F(i))]
           n == Len(f.rows)
<1>1. /\ ParseCSV(f) = ts /\ CsvHeaderIsSound(f.header)
      /\ \A i \in DOMAIN f.rows : Len(f.rows[i]) = Len(f.header) /\ CsvRowIsSound(F(i))
  BY DEF ParseCSV
<1>2. f.header \in Seq(ToSet(f.header)) /\ f.rows \in Seq(Seq(Strings))
  BY FileAssumption
<1>3. n \in Nat /\ DOMAIN f.rows = 1..n /\ \A i \in 1..n : f.rows[i] \in Seq(Strings)
  BY <1>2, ElementOfSeq
<1>4. Len(f.header) \in Nat /\ DOMAIN f.header = 1..Len(f.header)
  BY <1>2
<1>5. ASSUME NEW i \in 1..n PROVE CsvKey(CsvRow(F(i)))
  <2> DEFINE row == f.rows[i]
  <2>1. row \in Seq(Strings) /\ Len(row) = Len(f.header) /\ CsvRowIsSound(F(i))
    BY <1>1, <1>3
  <2>2. ASSUME NEW name \in ToSet(CsvColumns)
        PROVE  F(i)[name] \in Strings /\ Bare(F(i)[name]) /\ Tidy(F(i)[name])
    <3>1. CASE name \in ToSet(f.header)
      <4> DEFINE at == CHOOSE j \in DOMAIN f.header : f.header[j] = name
      <4>1. at \in DOMAIN f.header
        <5>1. \E j \in DOMAIN f.header : f.header[j] = name
          BY <3>1 DEF ToSet
        <5> QED
          BY <5>1
      <4>2. F(i)[name] = TrimSpace(row[at])
        BY <3>1 DEF Fields
      <4> HIDE DEF at, row
      <4>3. at \in 1..Len(row) /\ row[at] \in Strings
        <5>1. at \in 1..Len(row)
          BY <1>4, <2>1, <4>1
        <5> QED
          BY <2>1, <5>1, ElementOfSeq
      <4>4. Tidy(TrimSpace(row[at]))
        BY <4>3 DEF TidyFiles, row
      <4> QED
        BY <4>2, <4>3, <4>4, TrimIs
    <3>2. CASE name \notin ToSet(f.header)
      <4>1. F(i)[name] = <<>>
        BY <3>2 DEF Fields
      <4>2. <<>> \in Strings /\ Bare(<<>>) /\ Tidy(<<>>)
        <5>1. <<>> \in Seq(Characters) /\ Len(<<>>) = 0 /\ 1..0 = {}
          BY EmptySeq
        <5> QED
          BY <5>1 DEF Strings, Bare, Tidy
      <4> QED
        BY <4>1, <4>2
    <3> QED
      BY <3>1, <3>2
  <2>3. CsvFieldsAreClean(F(i))
    BY <2>2 DEF CsvFieldsAreClean
  <2> QED
    BY <2>1, <2>3, RowIsClean
<1> HIDE DEF F
<1>6. \A i \in 1..n : CsvRow(F(i)) \in Tuples
  BY <1>5 DEF CsvKey
<1>7. ts \in Seq(Tuples) /\ DOMAIN ts = 1..n /\ \A i \in 1..n : ts[i] = CsvRow(F(i))
  BY <1>3, <1>6
<1> HIDE DEF ts, n
<1> QED
  BY <1>1, <1>5, <1>7

(* What is sent of a file in a format.                                     *)
KeyIs(t, format, del) ==
    /\ t \in Tuples /\ Acceptable(t, del) /\ Trimmed(t) = t
    /\ format = "csv" => CsvKey(t)

LEMMA ParsedIs ==
    ASSUME NEW f \in InputFiles, NEW g \in Formats, TidyFiles, ParseTupleFile(f, g) # Refused
    PROVE  /\ ParseTupleFile(f, g) \in Seq(Tuples)
           /\ g = "csv" => \A i \in DOMAIN ParseTupleFile(f, g) : CsvKey(ParseTupleFile(f, g)[i])
<1>1. CASE f.syntax = "csv"
  <2>1. g = "csv" /\ ParseTupleFile(f, g) = ParseCSV(f)
    BY <1>1 DEF ParseTupleFile, Formats
  <2> QED
    BY <1>1, <2>1, CsvIsRead
<1>2. CASE f.syntax # "csv"
  <2>1. f.entries \in Seq([form : Forms, tuple : Tuples])
    BY <1>2, FileAssumption
  <2>2. ParseDocument(f) \in Seq(Tuples) \cup {Refused}
    <3>1. \A forms : EntriesOf(f.entries, forms) \in Seq(Tuples) \cup {Refused}
      BY <2>1, EntriesIs
    <3>2. ParseDocument(f) = Refused \/ \E forms : ParseDocument(f) = EntriesOf(f.entries, forms)
      BY DEF ParseDocument
    <3> QED
      BY <3>1, <3>2
  <2>3. ParseLines(f) \in Seq(Tuples) \cup {Refused}
    BY <2>1, FilledIs, EntriesIs DEF ParseLines
  <2>4. g # "csv" /\ ParseTupleFile(f, g) \in {ParseDocument(f), ParseLines(f), Refused}
    BY <1>2 DEF ParseTupleFile
  <2> QED
    BY <2>2, <2>3, <2>4
<1> QED
  BY <1>1, <1>2

LEMMA LoadedIs ==
    ASSUME NEW f \in InputFiles, NEW g \in Formats, NEW del \in BOOLEAN, TidyFiles,
           LoadTuples(f, g, del) # Refused
    PROVE  /\ LoadTuples(f, g, del) \in Seq(Tuples)
           /\ \A i \in DOMAIN LoadTuples(f, g, del) : KeyIs(LoadTuples(f, g, del)[i], g, del)
<1> DEFINE raw == ParseTupleFile(f, g)
           keys == [i \in DOMAIN raw |-> Trimmed(raw[i])]
<1>1. /\ raw # Refused /\ LoadTuples(f, g, del) = keys
      /\ \A i \in DOMAIN keys : Acceptable(keys[i], del)
  BY DEF LoadTuples
<1>2. raw \in Seq(Tuples) /\ (g = "csv" => \A i \in DOMAIN raw : CsvKey(raw[i]))
  BY <1>1, ParsedIs
<1> HIDE DEF raw
<1>3. DOMAIN raw = 1..Len(raw) /\ Len(raw) \in Nat /\ \A i \in DOMAIN raw : raw[i] \in Tuples
  BY <1>2, ElementOfSeq
<1>4. \A i \in DOMAIN raw : Trimmed(raw[i]) \in Tuples /\ Trimmed(Trimmed(raw[i])) = Trimmed(raw[i])
  BY <1>3, TrimmedIs
<1>5. keys \in Seq(Tuples)
  BY <1>3, <1>4
<1>6. ASSUME NEW i \in DOMAIN keys PROVE KeyIs(keys[i], g, del)
  <2>1. i \in DOMAIN raw /\ keys[i] = Trimmed(raw[i])
    OBVIOUS
  <2>2. g = "csv" => CsvKey(keys[i])
    <3>1. g = "csv" => CsvKey(raw[i]) /\ Trimmed(raw[i]) = raw[i]
      BY <1>2, <2>1 DEF CsvKey
    <3> QED
      BY <2>1, <3>1
  <2> QED
    BY <1>1, <1>4, <2>1, <2>2 DEF KeyIs
<1> HIDE DEF keys
<1> QED
  BY <1>1, <1>5, <1>6

-------------------------------------------------------------------------------
(* What is written is read again.                                          *)

(* A string with a type and an id is what it is cut into.                  *)
LEMMA ObjectSplits ==
    ASSUME NEW s \in Strings, Bare(s), Tidy(s), HasTypeAndID(s)
    PROVE  LET k == SplitObject(s)
           IN  /\ k.before \in Strings /\ Bare(k.before) /\ k.before # <<>>
               /\ k.after \in Strings /\ Bare(k.after) /\ k.after # <<>>
               /\ k.before \o <<":">> \o k.after = s
<1> DEFINE k == Cut(s, ":")
<1>1. ":" \in Separators
  BY DEF Separators
<1>2. k.before # <<>> /\ k.after # <<>> /\ k = SplitObject(s)
  BY DEF HasTypeAndID, SplitObject
<1>3. /\ k.before \in Strings /\ Bare(k.before) /\ k.after \in Strings /\ Bare(k.after)
      /\ k.found
  BY <1>1, <1>2, PartsAreBare
<1>4. k.before \o <<":">> \o k.after = s
  BY <1>1, <1>3, CutRejoins
<1> HIDE DEF k
<1> QED
  BY <1>2, <1>3, <1>4

LEMMA UserSplits ==
    ASSUME NEW s \in Strings, Bare(s), Tidy(s), ValidUserShape(s)
    PROVE  LET u == SplitUser(s)
           IN  /\ \A i \in {1, 2, 3} : u[i] \in Strings /\ Bare(u[i])
               /\ u[1] # <<>> /\ u[2] # <<>>
               /\ u[1] \o <<":">> \o u[2]
                     \o (IF u[3] = <<>> THEN <<>> ELSE <<"#">> \o u[3]) = s
<1> DEFINE c == Cut(s, "#")
           k == SplitObject(c.before)
           a == c.after
           b == c.before
<1>1. "#" \in Separators /\ "#" \in Characters
  BY DEF Separators, Characters
<1>2. HasTypeAndID(b) /\ (c.found => a # <<>>)
  BY DEF ValidUserShape
<1>3. /\ b \in Strings /\ Bare(b) /\ Tidy(b) /\ a \in Strings /\ Bare(a)
      /\ ~c.found => b = s /\ a = <<>>
  BY <1>1, PartsAreBare
<1>4. /\ k.before \in Strings /\ Bare(k.before) /\ k.before # <<>>
      /\ k.after \in Strings /\ Bare(k.after) /\ k.after # <<>>
      /\ k.before \o <<":">> \o k.after = b
  BY <1>2, <1>3, ObjectSplits
<1>5. SplitUser(s) = <<k.before, k.after, a>>
  BY DEF SplitUser
<1>6. c.found => b \o <<"#">> \o a = s
  BY <1>1, CutRejoins
<1> HIDE DEF k, a, b, c
<1> DEFINE u == SplitUser(s)
<1>7. u[1] = k.before /\ u[2] = k.after /\ u[3] = a
  BY <1>5
<1> HIDE DEF u
<1>8. b \o (IF a = <<>> THEN <<>> ELSE <<"#">> \o a) = s
  <2>0. b \in Seq(Characters) /\ a \in Seq(Characters) /\ <<"#">> \in Seq(Characters)
    BY <1>1, <1>3 DEF Strings
  <2>1. CASE a = <<>>
    <3>1. b = s
      BY <1>2, <1>3, <2>1
    <3>2. b \o <<>> = b
      BY <2>0, ConcatEmptySeq
    <3> QED
      BY <2>1, <3>1, <3>2
  <2>2. CASE a # <<>>
    <3>1. b \o <<"#">> \o a = s
      BY <1>3, <1>6, <2>2
    <3>2. b \o <<"#">> \o a = b \o (<<"#">> \o a)
      BY <2>0, ConcatAssociative
    <3> QED
      BY <2>2, <3>1, <3>2
  <2> QED
    BY <2>1, <2>2
<1>9. u[1] \o <<":">> \o u[2] \o (IF u[3] = <<>> THEN <<>> ELSE <<"#">> \o u[3]) = s
  BY <1>4, <1>7, <1>8
<1>10. /\ \A i \in {1, 2, 3} : u[i] \in Strings /\ Bare(u[i])
       /\ u[1] # <<>> /\ u[2] # <<>>
  BY <1>3, <1>4, <1>7
<1> QED
  BY <1>9, <1>10 DEF u

LEMMA FieldsAre ==
    ASSUME NEW row
    PROVE  LET f == Fields(CsvColumns, row)
           IN  /\ f["user_type"] = TrimSpace(row[1]) /\ f["user_id"] = TrimSpace(row[2])
               /\ f["user_relation"] = TrimSpace(row[3]) /\ f["relation"] = TrimSpace(row[4])
               /\ f["object_type"] = TrimSpace(row[5]) /\ f["object_id"] = TrimSpace(row[6])
               /\ f["condition_name"] = TrimSpace(row[7])
               /\ f["condition_context"] = TrimSpace(row[8])
<1> DEFINE at(name) == CHOOSE i \in DOMAIN CsvColumns : CsvColumns[i] = name
<1>1. /\ CsvColumns[1] = "user_type" /\ CsvColumns[2] = "user_id"
      /\ CsvColumns[3] = "user_relation" /\ CsvColumns[4] = "relation"
      /\ CsvColumns[5] = "object_type" /\ CsvColumns[6] = "object_id"
      /\ CsvColumns[7] = "condition_name" /\ CsvColumns[8] = "condition_context"
  BY DEF CsvColumns
<1>2. /\ DOMAIN CsvColumns = 1..8
      /\ \A i, j \in 1..8 : CsvColumns[i] = CsvColumns[j] => i = j
  BY ColumnsAre DEF CsvHeaderIsSound
<1>3. ASSUME NEW i \in 1..8 PROVE at(CsvColumns[i]) = i
  BY <1>2
<1>4. ASSUME NEW i \in 1..8
      PROVE  Fields(CsvColumns, row)[CsvColumns[i]] = TrimSpace(row[i])
  <2> DEFINE name == CsvColumns[i]
  <2>1. name \in ToSet(CsvColumns)
    BY <1>2 DEF ToSet
  <2> HIDE DEF name
  <2>2. Fields(CsvColumns, row)[name] = TrimSpace(row[at(name)])
    BY <2>1 DEF Fields
  <2>3. at(name) = i
    BY <1>3 DEF name
  <2> HIDE DEF at
  <2> QED
    BY <2>2, <2>3 DEF name
<1>5. 1..8 = {1, 2, 3, 4, 5, 6, 7, 8}
  OBVIOUS
<1> HIDE DEF at
<1> QED
  BY <1>1, <1>4, <1>5

LEMMA RowReadsBack ==
    ASSUME NEW t, CsvKey(t), WellFormed(t)
    PROVE  LET f == Fields(CsvColumns, CsvFields(t))
           IN  Len(CsvFields(t)) = 8 /\ CsvRowIsSound(f) /\ CsvRow(f) = t
<1> DEFINE row == CsvFields(t)
           f == Fields(CsvColumns, row)
           u == SplitUser(t.user)
           o == SplitObject(t.object)
           n == IF t.condition = NoCondition THEN <<>> ELSE t.condition.name
           c == IF t.condition = NoCondition THEN <<>> ELSE t.condition.context
<1>1. /\ t \in Tuples /\ Trimmed(t) = t /\ Tidy(t.user) /\ Tidy(t.object)
      /\ t.condition # NoCondition =>
            t.condition.name # <<>> /\ t.condition.context \in {<<>>, <<"{}">>}
  BY DEF CsvKey
<1>2. /\ t.user \in Strings /\ t.relation \in Strings /\ t.object \in Strings
      /\ t.condition # NoCondition => t.condition \in [name : Strings, context : Strings]
      /\ t = [user |-> t.user, relation |-> t.relation, object |-> t.object,
              condition |-> t.condition]
  BY <1>1 DEF Tuples
<1>3. /\ TrimSpace(t.user) = t.user /\ TrimSpace(t.relation) = t.relation
      /\ TrimSpace(t.object) = t.object
      /\ t.condition # NoCondition => [t.condition EXCEPT !.name = TrimSpace(@)] = t.condition
  <2> DEFINE v == Trimmed(t)
  <2>1. /\ v.user = TrimSpace(t.user) /\ v.relation = TrimSpace(t.relation)
        /\ v.object = TrimSpace(t.object)
        /\ t.condition # NoCondition => v.condition = [t.condition EXCEPT !.name = TrimSpace(@)]
    BY DEF Trimmed
  <2>2. v = t
    BY <1>1
  <2> HIDE DEF v
  <2> QED
    BY <2>1, <2>2
<1>4. ValidUserShape(t.user) /\ t.relation # <<>> /\ HasTypeAndID(t.object)
  BY DEF WellFormed, ConcreteObject
<1>5. /\ \A i \in {1, 2, 3} : u[i] \in Strings /\ Bare(u[i])
      /\ u[1] # <<>> /\ u[2] # <<>>
      /\ u[1] \o <<":">> \o u[2] \o (IF u[3] = <<>> THEN <<>> ELSE <<"#">> \o u[3]) = t.user
  <2>1. Bare(t.user)
    BY <1>2, <1>3, TrimIs
  <2> QED
    BY <1>1, <1>2, <1>4, <2>1, UserSplits
<1>6. /\ o.before \in Strings /\ Bare(o.before) /\ o.before # <<>>
      /\ o.after \in Strings /\ Bare(o.after) /\ o.after # <<>>
      /\ o.before \o <<":">> \o o.after = t.object
  <2>1. Bare(t.object)
    BY <1>2, <1>3, TrimIs
  <2> QED
    BY <1>1, <1>2, <1>4, <2>1, ObjectSplits
<1>7. /\ TrimSpace(n) = n /\ TrimSpace(c) = c
      /\ c \in {<<>>, <<"{}">>} /\ (c # <<>> => n # <<>>)
      /\ t.condition = IF n = <<>> THEN NoCondition ELSE [name |-> n, context |-> c]
  <2>1. CASE t.condition = NoCondition
    <3>1. n = <<>> /\ c = <<>>
      BY <2>1
    <3>2. TrimSpace(<<>>) = <<>>
      <4>1. <<>> \in Strings /\ Bare(<<>>)
        BY DEF Bare, Strings
      <4> QED
        BY <4>1, BareRests
    <3> HIDE DEF n, c
    <3> QED
      BY <2>1, <3>1, <3>2
  <2>2. CASE t.condition # NoCondition
    <3>1. /\ n = t.condition.name /\ c = t.condition.context /\ n # <<>>
          /\ c \in {<<>>, <<"{}">>} /\ c \in Strings
          /\ t.condition = [name |-> n, context |-> c]
      BY <1>1, <1>2, <2>2
    <3>2. TrimSpace(n) = n
      <4> DEFINE d == t.condition
      <4>1. d \in [name : Strings, context : Strings] /\ [d EXCEPT !.name = TrimSpace(@)] = d
        BY <1>2, <1>3, <2>2
      <4> HIDE DEF d
      <4>2. TrimSpace(d.name) = d.name
        BY <4>1
      <4> QED
        BY <3>1, <4>2 DEF d
    <3>3. TrimSpace(c) = c
      <4>1. Bare(c)
        <5>1. <<"{}">>[1] # " " /\ Len(<<"{}">>) = 1
          OBVIOUS
        <5> QED
          BY <3>1, <5>1 DEF Bare
      <4> QED
        BY <3>1, <4>1, BareRests
    <3> HIDE DEF n, c
    <3> QED
      BY <3>1, <3>2, <3>3
  <2> QED
    BY <2>1, <2>2
<1>8. /\ Len(row) = 8
      /\ row[1] = u[1] /\ row[2] = u[2] /\ row[3] = u[3] /\ row[4] = t.relation
      /\ row[5] = o.before /\ row[6] = o.after /\ row[7] = n /\ row[8] = c
  BY DEF CsvFields
<1> HIDE DEF row, u, o, n, c
<1>9. /\ TrimSpace(u[1]) = u[1] /\ TrimSpace(u[2]) = u[2] /\ TrimSpace(u[3]) = u[3]
      /\ TrimSpace(o.before) = o.before /\ TrimSpace(o.after) = o.after
  BY <1>5, <1>6, BareRests
<1>10. /\ f["user_type"] = u[1] /\ f["user_id"] = u[2] /\ f["user_relation"] = u[3]
       /\ f["relation"] = t.relation /\ f["object_type"] = o.before
       /\ f["object_id"] = o.after /\ f["condition_name"] = n /\ f["condition_context"] = c
  <2>1. /\ f["user_type"] = TrimSpace(row[1]) /\ f["user_id"] = TrimSpace(row[2])
        /\ f["user_relation"] = TrimSpace(row[3]) /\ f["relation"] = TrimSpace(row[4])
        /\ f["object_type"] = TrimSpace(row[5]) /\ f["object_id"] = TrimSpace(row[6])
        /\ f["condition_name"] = TrimSpace(row[7])
        /\ f["condition_context"] = TrimSpace(row[8])
    BY FieldsAre
  <2> HIDE DEF f
  <2> QED
    BY <1>3, <1>7, <1>8, <1>9, <2>1
<1> HIDE DEF f
<1>11. CsvRowIsSound(f)
  BY <1>4, <1>5, <1>6, <1>7, <1>10 DEF CsvRowIsSound, CsvRequired
<1>12. CsvRow(f) = [user |-> t.user, relation |-> t.relation, object |-> t.object,
                    condition |-> t.condition]
  BY <1>5, <1>6, <1>7, <1>10 DEF CsvRow
<1>13. CsvRow(f) = t
  BY <1>2, <1>12
<1> QED
  BY <1>8, <1>11, <1>13 DEF f, row

(* A failed file is read in its own format, or, JSON as YAML, as the tuples *)
(* that it was written of; anything else refuses it.                        *)
LEMMA EncodedParses ==
    ASSUME NEW keys \in Seq(Tuples), NEW fmt \in Formats, NEW g \in Formats,
           fmt = "csv" => \A i \in DOMAIN keys : CsvKey(keys[i]) /\ WellFormed(keys[i])
    PROVE  LET raw == ParseTupleFile(EncodeTupleFile(keys, fmt), g)
           IN  (raw = keys \/ raw = Refused) /\ (g = fmt => raw = keys)
<1> DEFINE bare == [i \in DOMAIN keys |-> [form |-> "bare", tuple |-> keys[i]]]
           file == EncodeTupleFile(keys, fmt)
           raw == ParseTupleFile(file, g)
<1>1. keys \in Seq(Tuples) /\ DOMAIN keys = 1..Len(keys) /\ Len(keys) \in Nat
  OBVIOUS
<1>2. DOMAIN bare = DOMAIN keys /\ \A i \in DOMAIN bare : bare[i].form = "bare" /\ bare[i].tuple = keys[i]
  OBVIOUS
<1>3. bare \in Seq([form : {"bare"}, tuple : Tuples])
  <2>1. \A i \in DOMAIN keys : [form |-> "bare", tuple |-> keys[i]] \in [form : {"bare"}, tuple : Tuples]
    BY <1>1, ElementOfSeq
  <2> QED
    BY <1>1, <2>1
<1> HIDE DEF bare
<1>4. \A forms : "bare" \in forms => EntriesOf(bare, forms) = keys
  <2>1. [i \in DOMAIN bare |-> bare[i].tuple] = keys
    BY <1>1, <1>2
  <2> QED
    BY <1>2, <2>1 DEF EntriesOf
<1>5. CASE fmt \in {"json", "yaml"}
  <2>1. file = [syntax |-> fmt, shape |-> "array", entries |-> bare]
    BY <1>5 DEF EncodeTupleFile, bare
  <2> HIDE DEF file
  <2>2. file.syntax = fmt /\ file.shape = "array" /\ file.entries = bare
    BY <2>1
  <2>3. ~ArrayIsExport(bare)
    <3> SUFFICES ASSUME bare # <<>> PROVE bare[1].form # "key"
      BY DEF ArrayIsExport
    <3>1. 1 \in DOMAIN bare
      BY <1>3
    <3> QED
      BY <1>2, <3>1
  <2>4. ParseDocument(file) = keys
    BY <1>4, <2>2, <2>3 DEF ParseDocument
  <2>5. raw \in {ParseDocument(file), Refused} /\ (g = fmt => raw = ParseDocument(file))
    BY <1>5, <2>2 DEF ParseTupleFile
  <2> QED
    BY <2>4, <2>5 DEF file
<1>6. CASE fmt = "jsonl"
  <2>1. file = [syntax |-> "jsonl", shape |-> "lines", entries |-> bare]
    BY <1>6 DEF EncodeTupleFile, bare
  <2> HIDE DEF file
  <2>2. file.syntax = "jsonl" /\ file.entries = bare
    BY <2>1
  <2>3. Filled(bare) = bare
    <3>1. \A i \in 1..Len(bare) : bare[i].form # "blank"
      BY <1>2, <1>3
    <3> QED
      BY <1>3, <3>1, FilledIs
  <2>4. ParseLines(file) = keys
    BY <1>4, <2>2, <2>3 DEF ParseLines
  <2>5. raw \in {ParseLines(file), Refused} /\ (g = fmt => raw = ParseLines(file))
    BY <1>6, <2>2 DEF ParseTupleFile
  <2> QED
    BY <2>4, <2>5 DEF file
<1>7. CASE fmt = "csv"
  <2>1. file = [syntax |-> "csv", header |-> CsvColumns,
                rows |-> [i \in DOMAIN keys |-> CsvFields(keys[i])]]
    BY <1>7 DEF EncodeTupleFile
  <2> HIDE DEF file
  <2>2. /\ file.syntax = "csv" /\ file.header = CsvColumns /\ DOMAIN file.rows = DOMAIN keys
        /\ \A i \in DOMAIN keys : file.rows[i] = CsvFields(keys[i])
    BY <2>1
  <2>3. \A i \in DOMAIN keys :
           /\ Len(CsvFields(keys[i])) = 8 /\ CsvRowIsSound(Fields(CsvColumns, CsvFields(keys[i])))
           /\ CsvRow(Fields(CsvColumns, CsvFields(keys[i]))) = keys[i]
    BY <1>7, RowReadsBack
  <2>4. ParseCSV(file) = [i \in DOMAIN file.rows |-> CsvRow(Fields(file.header, file.rows[i]))]
    BY <2>2, <2>3, ColumnsAre DEF ParseCSV
  <2>5. ParseCSV(file) = [i \in DOMAIN keys |-> keys[i]]
    BY <2>2, <2>3, <2>4
  <2>6. ParseCSV(file) = keys
    BY <1>1, <2>5
  <2>7. raw \in {ParseCSV(file), Refused} /\ (g = fmt => raw = ParseCSV(file))
    BY <1>7, <2>2 DEF ParseTupleFile
  <2> QED
    BY <2>6, <2>7 DEF file
<1> QED
  BY <1>5, <1>6, <1>7 DEF Formats

LEMMA ReadsItsOwn ==
    ASSUME NEW keys \in Seq(Tuples), NEW fmt \in Formats, NEW g \in Formats, NEW del \in BOOLEAN,
           NEW d \in {del, FALSE}, \A i \in DOMAIN keys : KeyIs(keys[i], fmt, del)
    PROVE  LET again == LoadTuples(EncodeTupleFile(keys, fmt), g, d)
               same == IF keys = <<>> THEN Refused ELSE keys
           IN  (again = same \/ again = Refused) /\ (g = fmt => again = same)
<1> DEFINE raw == ParseTupleFile(EncodeTupleFile(keys, fmt), g)
           trimmed == [i \in DOMAIN raw |-> Trimmed(raw[i])]
           again == LoadTuples(EncodeTupleFile(keys, fmt), g, d)
<1>1. (raw = keys \/ raw = Refused) /\ (g = fmt => raw = keys)
  <2>1. fmt = "csv" => \A i \in DOMAIN keys : CsvKey(keys[i]) /\ WellFormed(keys[i])
    BY DEF KeyIs, Acceptable
  <2> QED
    BY <2>1, EncodedParses
<1>2. \A i \in DOMAIN keys : Acceptable(keys[i], d) /\ Trimmed(keys[i]) = keys[i]
  BY DEF KeyIs, Acceptable
<1>3. keys # Refused /\ keys = [i \in DOMAIN keys |-> keys[i]]
  BY FileAssumption
<1>4. again = IF raw = Refused THEN Refused
              ELSE IF trimmed # <<>> /\ \A i \in DOMAIN trimmed : Acceptable(trimmed[i], d)
                   THEN trimmed ELSE Refused
  BY DEF LoadTuples
<1>5. ASSUME raw = keys PROVE again = IF keys = <<>> THEN Refused ELSE keys
  <2>1. trimmed = keys
    BY <1>2, <1>3, <1>5
  <2> HIDE DEF raw, trimmed, again
  <2> QED
    BY <1>2, <1>3, <1>4, <1>5, <2>1
<1>6. ASSUME raw = Refused PROVE again = Refused
  BY <1>4, <1>6
<1> HIDE DEF raw, again
<1> QED
  BY <1>1, <1>5, <1>6 DEF again

-------------------------------------------------------------------------------
(* A run over a file: what was sent is made of the keys of its format, what *)
(* was saved is made of what was sent, and what was read is what was saved. *)

Sent == bulk.keys \notin {Unread, Refused}
AllKeys(ks) == \A i \in DOMAIN ks : KeyIs(ks[i], bulk.format, bulk.del)

FileInv ==
    /\ bulk = [file |-> bulk.file, del |-> bulk.del, format |-> bulk.format,
               keys |-> bulk.keys, failed |-> bulk.failed, saved |-> bulk.saved,
               reader |-> bulk.reader, again |-> bulk.again]
    /\ bulk.del \in BOOLEAN /\ (visit = "files" => bulk.file \in InputFiles)
    /\ Sent => bulk.format \in Formats /\ bulk.keys \in Seq(Tuples) /\ AllKeys(bulk.keys)
    /\ bulk.saved # Unread =>
          /\ Sent /\ bulk.failed \in Seq(Tuples) /\ AllKeys(bulk.failed)
          /\ bulk.saved = EncodeTupleFile(bulk.failed, bulk.format)
    /\ bulk.reader # Unread => bulk.saved # Unread /\ FailedFileReadsBack

LEMMA FileInitHolds == BulkInit => FileInv
<1> SUFFICES ASSUME BulkInit PROVE FileInv
  OBVIOUS
<1>1. CASE visit = "requests" /\ NoFile
  BY <1>1 DEF NoFile, FileInv, Sent, FailedFileReadsBack
<1>2. CASE visit = "files" /\ FileInit
  BY <1>2 DEF FileInit, FileInv, Sent, FailedFileReadsBack
<1> QED
  BY <1>1, <1>2 DEF BulkInit

LEMMA FormatsAre ==
    ASSUME NEW ext, NEW override
    PROVE  ResolveBulkFormat(ext, override) \in Formats \cup {Refused}
BY DEF ResolveBulkFormat, Formats

LEMMA LoadFileHolds ==
    ASSUME FileInv, visit = "files", LoadFile, UNCHANGED visit, TidyFiles
    PROVE  FileInv'
<1>1. PICK format \in Formats \cup {Refused} :
         bulk' = [bulk EXCEPT !.format = format,
                     !.keys = IF format = Refused THEN Refused
                              ELSE LoadTuples(bulk.file, format, bulk.del)]
  BY FormatsAre DEF LoadFile
<1> DEFINE ks == IF format = Refused THEN Refused ELSE LoadTuples(bulk.file, format, bulk.del)
<1>2. bulk.saved = Unread /\ bulk.reader = Unread
  BY DEF FileInv, LoadFile, Sent
<1>3. bulk' = [file |-> bulk.file, del |-> bulk.del, format |-> format, keys |-> ks,
               failed |-> bulk.failed, saved |-> Unread, reader |-> Unread, again |-> bulk.again]
  BY <1>1, <1>2 DEF FileInv
<1>4. ks # Refused =>
         /\ format \in Formats /\ ks \in Seq(Tuples)
         /\ \A i \in DOMAIN ks : KeyIs(ks[i], format, bulk.del)
  <2> SUFFICES ASSUME ks # Refused
               PROVE  /\ format \in Formats /\ ks \in Seq(Tuples)
                      /\ \A i \in DOMAIN ks : KeyIs(ks[i], format, bulk.del)
    OBVIOUS
  <2>1. format \in Formats /\ ks = LoadTuples(bulk.file, format, bulk.del)
    OBVIOUS
  <2>2. bulk.file \in InputFiles /\ bulk.del \in BOOLEAN
    BY DEF FileInv
  <2> HIDE DEF ks
  <2> QED
    BY <2>1, <2>2, LoadedIs
<1> HIDE DEF ks
<1>5. /\ bulk'.format = format /\ bulk'.keys = ks /\ bulk'.del = bulk.del
      /\ bulk'.file = bulk.file /\ bulk'.saved = Unread /\ bulk'.reader = Unread
      /\ bulk' = [file |-> bulk'.file, del |-> bulk'.del, format |-> bulk'.format,
                  keys |-> bulk'.keys, failed |-> bulk'.failed, saved |-> bulk'.saved,
                  reader |-> bulk'.reader, again |-> bulk'.again]
  BY <1>3
<1>6. bulk'.del \in BOOLEAN /\ bulk'.file \in InputFiles
  BY <1>5 DEF FileInv
<1> QED
  BY <1>4, <1>5, <1>6 DEF FileInv, Sent, AllKeys

LEMMA SaveFailedHolds ==
    ASSUME FileInv, SaveFailed, UNCHANGED visit
    PROVE  FileInv'
<1>0. PICK n \in 0..Len(bulk.keys) : \E order \in [1..n -> DOMAIN bulk.keys] :
         bulk' = [bulk EXCEPT !.failed = [i \in 1..n |-> bulk.keys[order[i]]],
                     !.saved = EncodeTupleFile([i \in 1..n |-> bulk.keys[order[i]]], bulk.format)]
  BY DEF SaveFailed
<1>1. PICK order \in [1..n -> DOMAIN bulk.keys] :
         bulk' = [bulk EXCEPT !.failed = [i \in 1..n |-> bulk.keys[order[i]]],
                     !.saved = EncodeTupleFile([i \in 1..n |-> bulk.keys[order[i]]], bulk.format)]
  BY <1>0
<1> DEFINE failed == [i \in 1..n |-> bulk.keys[order[i]]]
<1>2. /\ Sent /\ bulk.saved = Unread /\ bulk.reader = Unread
      /\ bulk.keys \in Seq(Tuples) /\ AllKeys(bulk.keys) /\ bulk.format \in Formats
  BY DEF SaveFailed, FileInv, Sent
<1>3. \A i \in 1..n : order[i] \in DOMAIN bulk.keys
  OBVIOUS
<1>4. DOMAIN failed = 1..n /\ \A i \in 1..n : failed[i] = bulk.keys[order[i]]
  OBVIOUS
<1>5. failed \in Seq(Tuples)
  <2>1. DOMAIN bulk.keys = 1..Len(bulk.keys) /\ Len(bulk.keys) \in Nat
    BY <1>2
  <2>2. n \in Nat
    BY <2>1
  <2>3. \A i \in DOMAIN bulk.keys : bulk.keys[i] \in Tuples
    BY <1>2, <2>1, ElementOfSeq
  <2> QED
    BY <1>3, <2>2, <2>3
<1>6. \A i \in DOMAIN failed : KeyIs(failed[i], bulk.format, bulk.del)
  BY <1>2, <1>3, <1>4 DEF AllKeys
<1> HIDE DEF failed
<1>7. bulk' = [file |-> bulk.file, del |-> bulk.del, format |-> bulk.format, keys |-> bulk.keys,
               failed |-> failed, saved |-> EncodeTupleFile(failed, bulk.format),
               reader |-> Unread, again |-> bulk.again]
  BY <1>1, <1>2 DEF FileInv, failed
<1>8. /\ bulk'.file = bulk.file /\ bulk'.format = bulk.format /\ bulk'.keys = bulk.keys
      /\ bulk'.del = bulk.del /\ bulk'.failed = failed /\ bulk'.reader = Unread
      /\ bulk'.saved = EncodeTupleFile(failed, bulk.format)
      /\ bulk' = [file |-> bulk'.file, del |-> bulk'.del, format |-> bulk'.format,
                  keys |-> bulk'.keys, failed |-> bulk'.failed, saved |-> bulk'.saved,
                  reader |-> bulk'.reader, again |-> bulk'.again]
  BY <1>7
<1>9. bulk'.del \in BOOLEAN /\ (visit' = "files" => bulk'.file \in InputFiles)
  BY <1>8 DEF FileInv
<1> QED
  BY <1>2, <1>5, <1>6, <1>8, <1>9 DEF FileInv, Sent, AllKeys

(* What reads the failed file, with the flag of the run or as a query.     *)
LEMMA ReadsHold ==
    ASSUME FileInv, RunAgain \/ QueryWith, UNCHANGED visit
    PROVE  FileInv'
<1>1. /\ bulk.saved # Unread /\ Sent /\ bulk.failed \in Seq(Tuples) /\ AllKeys(bulk.failed)
      /\ bulk.format \in Formats /\ bulk.keys \in Seq(Tuples) /\ AllKeys(bulk.keys)
      /\ bulk.saved = EncodeTupleFile(bulk.failed, bulk.format) /\ bulk.del \in BOOLEAN
  BY DEF FileInv, RunAgain, QueryWith
<1> DEFINE Reads(r, a) ==
             /\ bulk' = [bulk EXCEPT !.reader = r, !.again = a]
             /\ LET same == IF bulk.failed = <<>> THEN Refused ELSE bulk.failed
                IN  \/ a = same
                    \/ /\ a = Refused /\ r # bulk.format
                       /\ r = "stdin" => bulk.format \notin {"json", "jsonl"}
<1> DEFINE same == IF bulk.failed = <<>> THEN Refused ELSE bulk.failed
<1>9. \A g \in Formats : \A d \in {bulk.del, FALSE} :
         LET again == LoadTuples(bulk.saved, g, d)
         IN  (again = same \/ again = Refused) /\ (g = bulk.format => again = same)
  <2> DEFINE ks == bulk.failed
             fmt == bulk.format
             del == bulk.del
  <2>1. /\ ks \in Seq(Tuples) /\ fmt \in Formats /\ del \in BOOLEAN
        /\ \A i \in DOMAIN ks : KeyIs(ks[i], fmt, del)
    BY <1>1 DEF AllKeys
  <2> HIDE DEF ks, fmt, del
  <2>2. \A g \in Formats : \A d \in {del, FALSE} :
           LET again == LoadTuples(EncodeTupleFile(ks, fmt), g, d)
               whole == IF ks = <<>> THEN Refused ELSE ks
           IN  (again = whole \/ again = Refused) /\ (g = fmt => again = whole)
    BY <2>1, ReadsItsOwn
  <2> QED
    BY <1>1, <2>2 DEF ks, fmt, del
<1>2. \E r, a : Reads(r, a)
  <2>1. CASE RunAgain
    <3>1. PICK format \in Formats :
             bulk' = [bulk EXCEPT !.reader = format, !.again = LoadTuples(bulk.saved, format, bulk.del)]
      BY <2>1, FormatsAre DEF RunAgain
    <3> DEFINE a == LoadTuples(bulk.saved, format, bulk.del)
    <3>2. (a = same \/ a = Refused) /\ (format = bulk.format => a = same)
      BY <1>9
    <3>3. format # "stdin"
      BY DEF Formats
    <3>4. bulk' = [bulk EXCEPT !.reader = format, !.again = a]
      BY <3>1
    <3> HIDE DEF a
    <3>5. Reads(format, a)
      BY <3>2, <3>3, <3>4
    <3> HIDE DEF Reads
    <3> QED
      BY <3>5, Zenon
  <2>2. CASE QueryWith
    <3> DEFINE g == SniffStdinFormat(bulk.saved)
               a == LoadTuples(bulk.saved, g, FALSE)
    <3>1. bulk' = [bulk EXCEPT !.reader = "stdin", !.again = a]
      BY <2>2 DEF QueryWith
    <3>2. g \in Formats /\ (bulk.format \in {"json", "jsonl"} => g = bulk.format)
      <4>1. g \in {"json", "jsonl"}
        BY DEF SniffStdinFormat
      <4>2. bulk.format = "json" => bulk.saved.syntax = "json" /\ bulk.saved.shape = "array"
        BY <1>1 DEF EncodeTupleFile
      <4>3. bulk.format = "jsonl" => bulk.saved.syntax = "jsonl"
        BY <1>1 DEF EncodeTupleFile
      <4> QED
        BY <4>1, <4>2, <4>3 DEF Formats, SniffStdinFormat
    <3> HIDE DEF g
    <3>3. (a = same \/ a = Refused) /\ (g = bulk.format => a = same)
      BY <1>9, <3>2
    <3>4. "stdin" # bulk.format
      BY <1>1 DEF Formats
    <3> HIDE DEF a
    <3>5. Reads("stdin", a)
      BY <3>1, <3>2, <3>3, <3>4
    <3> HIDE DEF Reads
    <3> QED
      BY <3>5, Zenon
  <2> QED
    BY <2>1, <2>2
<1>3. PICK r, a : Reads(r, a)
  BY <1>2
<1>4. bulk' = [file |-> bulk.file, del |-> bulk.del, format |-> bulk.format, keys |-> bulk.keys,
               failed |-> bulk.failed, saved |-> bulk.saved, reader |-> r, again |-> a]
  BY <1>3 DEF FileInv
<1>5. /\ bulk'.file = bulk.file /\ bulk'.format = bulk.format /\ bulk'.keys = bulk.keys
      /\ bulk'.del = bulk.del /\ bulk'.failed = bulk.failed /\ bulk'.reader = r
      /\ bulk'.saved = bulk.saved /\ bulk'.again = a
      /\ bulk' = [file |-> bulk'.file, del |-> bulk'.del, format |-> bulk'.format,
                  keys |-> bulk'.keys, failed |-> bulk'.failed, saved |-> bulk'.saved,
                  reader |-> bulk'.reader, again |-> bulk'.again]
  BY <1>4
<1>6. bulk'.del \in BOOLEAN /\ (visit' = "files" => bulk'.file \in InputFiles)
  BY <1>5 DEF FileInv
<1>7. /\ Sent' /\ bulk'.failed \in Seq(Tuples) /\ AllKeys(bulk.failed)'
      /\ bulk'.format \in Formats /\ bulk'.keys \in Seq(Tuples) /\ AllKeys(bulk.keys)'
      /\ bulk'.saved = EncodeTupleFile(bulk'.failed, bulk'.format) /\ bulk'.saved # Unread
  BY <1>1, <1>5 DEF Sent, AllKeys
<1>8. FailedFileReadsBack'
  <2>1. \A i \in DOMAIN bulk'.keys : Acceptable(bulk'.keys[i], bulk'.del)
    BY <1>7 DEF AllKeys, KeyIs
  <2> QED
    BY <1>3, <1>5, <2>1 DEF FailedFileReadsBack, ReadsBack
<1> QED
  BY <1>5, <1>6, <1>7, <1>8 DEF FileInv

LEMMA FilesStayInvariant == ASSUME TidyFiles PROVE BulkSpec => []FileInv
<1>1. FileInv /\ [BulkNext]_<<vars, bulk, visit>> => FileInv'
  <2> SUFFICES ASSUME FileInv, [BulkNext]_<<vars, bulk, visit>> PROVE FileInv'
    OBVIOUS
  <2>1. CASE ReadAndWrite
    BY <2>1, LoadFileHolds, SaveFailedHolds, ReadsHold DEF ReadAndWrite, FileNext
  <2>2. CASE UNCHANGED <<bulk, visit>>
    BY <2>2 DEF FileInv, Sent, AllKeys, FailedFileReadsBack, ReadsBack
  <2>3. ReadAndWrite \/ UNCHANGED <<bulk, visit>>
    BY DEF BulkNext, Requests, RunFailedFile
  <2> QED
    BY <2>1, <2>2, <2>3
<1> QED
  BY <1>1, FileInitHolds, PTL DEF BulkSpec

(* Of files in which no field of a CSV row has a space beside a separator   *)
(* within it, a failed file is directly re-runnable: read in the format it  *)
(* has, or by a query that sniffs JSON or JSONL, it is exactly the tuples   *)
(* that failed, and nothing else takes it for other tuples                 *)
(* (encodeTupleFile, decodeTuples and what they call).                     *)
THEOREM FailedFilesReadBack == ASSUME TidyFiles PROVE BulkSpec => []FailedFileReadsBack
<1>1. FileInv => FailedFileReadsBack
  BY DEF FileInv, Sent, AllKeys, KeyIs, FailedFileReadsBack
<1> QED
  BY <1>1, FilesStayInvariant, PTL

-------------------------------------------------------------------------------
(* The changelog.  CursorIsSound is not inductive: it is kept because a run *)
(* that goes on knows that what lies before the token it started from was  *)
(* printed or cut by earlier runs (Behind), and how far the token it is    *)
(* about to save may lag behind what it has collected (Reading, Kept).     *)

Done == printed \cup cut

(* A run that goes on started from the saved cursor, and everything before *)
(* it has been printed or cut.                                             *)
Behind == phase # "idle" => 1..begin \subseteq Done
Unsaved == phase \in {"read", "save"} => cursor = begin

(* The pages follow each other and do not leave the log.                   *)
Reading ==
    /\ cursor <= log
    /\ phase # "idle" => begin <= upto /\ upto <= log
    /\ phase = "read" => token = upto

(* The token that a run returns is at most a page behind its last change.  *)
Lags(t) == t <= upto /\ upto - t < PageSize /\ (maxResults = 0 => t = upto)
Kept == (phase = "save" => Lags(next)) /\ (phase = "print" => Lags(cursor))

PollInv == PollTypeOK /\ Behind /\ Unsaved /\ Reading /\ Kept /\ NothingSkipped

LEMMA PollNumbers ==
    PageSize \in Nat \ {0} /\ Caps \subseteq Nat /\ MaxLog \in Nat /\ MaxFailures \in Nat
BY PollAssumption

USE PollNumbers

(* A page ends behind its token, not beyond the log, a page further at     *)
(* most.                                                                   *)
LEMMA PageIsBounded ==
    ASSUME PollTypeOK, NEW t \in 0..log
    PROVE  /\ PageEnd(t) \in t..log
           /\ PageEnd(t) - t <= PageSize
  BY SMT DEF PollTypeOK, PageEnd, Smaller

(* At first nothing has been asked for.                                    *)
LEMMA PollInitHolds == PollInit => PollInv
  BY SMT DEF PollInit, PollInv, PollTypeOK, Behind, Unsaved, Reading, Kept, Lags, NothingSkipped, Done, Changes

(* A page leaves the token that Lags describes, when it ends the run.      *)
LEMMA ReadPageHolds == PollInv /\ ReadPage => PollInv'
  <1> SUFFICES ASSUME PollInv, ReadPage PROVE PollInv'
    OBVIOUS
  <1>1. /\ PageEnd(token) \in token..log /\ PageEnd(token) - token <= PageSize
        /\ token \in 0..log /\ log \in 0..MaxLog
    <2>1. token \in 0..log /\ log \in 0..MaxLog
      BY SMT DEF PollInv, PollTypeOK, Reading, ReadPage
    <2>2. PollTypeOK
      BY DEF PollInv
    <2> QED
      BY <2>1, <2>2, PageIsBounded
  <1>2. CASE Capped
    <2>1. /\ upto' = CapAt /\ next' = TokenAtCap /\ phase' = "save" /\ token' = token
          /\ UNCHANGED <<maxResults, log, cursor, begin, printed, cut, failures>>
      BY <1>2 DEF ReadPage, Return
    <2>2. maxResults \in Nat /\ begin \in Nat /\ MaxLog \in Nat
      <3>1. maxResults \in Caps /\ begin \in 0..MaxLog
        BY DEF PollInv, PollTypeOK
      <3>2. Caps \subseteq Nat /\ MaxLog \in Nat
        BY PollNumbers
      <3> QED
        BY <3>1, <3>2, SMT
    <2>3. CapAt \in Nat /\ token < CapAt /\ CapAt <= PageEnd(token) /\ maxResults > 0
      BY <1>2, <2>2, SMT DEF Capped, CapAt
    <2>4. TokenAtCap <= CapAt /\ CapAt - TokenAtCap < PageSize /\ TokenAtCap \in 0..MaxLog
      BY <1>1, <2>2, <2>3, SMT DEF TokenAtCap
    <2> QED
      BY <1>1, <2>1, <2>2, <2>3, <2>4, SMT
      DEF PollInv, PollTypeOK, Behind, Unsaved, Reading, Kept, Lags, NothingSkipped, Done, Changes, ReadPage
  <1>3. CASE ~Capped
    <2>1. /\ upto' = PageEnd(token) /\ token' = PageEnd(token)
          /\ \/ phase' = "save" /\ next' = PageEnd(token)
             \/ phase' = phase /\ next' = next
          /\ UNCHANGED <<maxResults, log, cursor, begin, printed, cut, failures>>
      BY <1>3 DEF ReadPage, Return
    <2> QED
      BY <1>1, <2>1, SMT
      DEF PollInv, PollTypeOK, Behind, Unsaved, Reading, Kept, Lags, NothingSkipped, Done, Changes, ReadPage
  <1> QED
    BY <1>2, <1>3

(* What a run does with what it has collected: all of it is printed or     *)
(* counted as cut.                                                         *)
LEMMA OutputHolds == PollInv /\ (PrintChanges \/ PrintFault) => PollInv'
  <1> SUFFICES ASSUME PollInv, PrintChanges \/ PrintFault PROVE PollInv'
    OBVIOUS
  <1>1. /\ Collected \subseteq Done' /\ Done \subseteq Done' /\ phase = "print" /\ phase' = "idle"
        /\ printed' \subseteq Changes /\ cut' \subseteq Changes
    <2>1. CASE PrintChanges
      BY <2>1 DEF PrintChanges, Done, Collected, PollInv, PollTypeOK
    <2>2. CASE PrintFault
      <3>1. PICK n \in begin..upto :
              /\ printed' = printed \cup {m \in Collected : m <= n}
              /\ cut' = cut \cup {m \in Collected : m > n}
        BY <2>2 DEF PrintFault
      <3>2. \A m \in Collected : m <= n \/ m > n
        BY <3>1, SMT DEF Collected, Changes, PollInv, PollTypeOK
      <3>3. phase = "print" /\ phase' = "idle" /\ printed \subseteq Changes /\ cut \subseteq Changes
        BY <2>2 DEF PrintFault, PollInv, PollTypeOK
      <3> QED
        BY <3>1, <3>2, <3>3 DEF Done, Collected
    <2> QED
      BY <2>1, <2>2
  <1>2. 1..cursor \subseteq Done \cup Collected
    BY <1>1 DEF PollInv, NothingSkipped, Done
  <1>3. /\ UNCHANGED <<maxResults, log, cursor, run>> /\ failures' \in 0..MaxFailures
    BY SMT DEF PrintChanges, PrintFault, PollFails, PollInv, PollTypeOK
  <1>4. NothingSkipped'
    BY <1>1, <1>2, <1>3 DEF NothingSkipped, Done
  <1> QED
    BY <1>1, <1>3, <1>4, SMT DEF PollInv, PollTypeOK, Behind, Unsaved, Reading, Kept, run

(* Every step keeps the invariant.                                         *)
LEMMA PollStepHolds == PollInv /\ [PollNext]_pollVars => PollInv'
  <1> SUFFICES ASSUME PollInv, [PollNext]_pollVars PROVE PollInv'
    OBVIOUS
  <1> USE DEF PollInv, PollTypeOK, Behind, Unsaved, Reading, Kept, Lags, NothingSkipped, Done, Changes, run
  <1>1. CASE StoreChanges
    BY <1>1, SMT DEF StoreChanges, Collected
  <1>2. CASE Start
    BY <1>2, SMT DEF Start
  <1>3. CASE ReadPage
    BY <1>3, ReadPageHolds
  <1>4. CASE SaveCursor
    <2>1. /\ cursor' = next /\ phase' = "print" /\ phase = "save"
          /\ UNCHANGED <<maxResults, log, begin, token, upto, next, printed, cut, failures>>
      BY <1>4 DEF SaveCursor, SavedToken
    <2>2. \A n \in 1..next : n \in 1..begin \/ n \in Collected
      BY <2>1, SMT DEF Collected
    <2>3. NothingSkipped'
      BY <2>1, <2>2 DEF Collected
    <2> QED
      BY <2>1, <2>3, SMT
  <1>5. CASE PrintChanges \/ PrintFault
    BY <1>5, OutputHolds
  <1>6. CASE ReadFault
    BY <1>6, SMT DEF ReadFault, PollFails
  <1>7. CASE SaveFault
    BY <1>7, SMT DEF SaveFault, PollFails
  <1>8. CASE UNCHANGED pollVars
    BY <1>8, SMT DEF pollVars, Collected
  <1> QED
    BY <1>1, <1>2, <1>3, <1>4, <1>5, <1>6, <1>7, <1>8 DEF PollNext, Poll

LEMMA PollInvariance == PollSpec => []PollInv
  BY PollInitHolds, PollStepHolds, PTL DEF PollSpec

(* The types of ChangesPoll are right in every reachable state.            *)
THEOREM PollTypeCorrect == PollSpec => []PollTypeOK
  <1>1. PollInv => PollTypeOK
    BY DEF PollInv
  <1> QED
    BY <1>1, PollInvariance, PTL

(* The cursor of `tuples changes' never passes a change that was neither   *)
(* printed nor cut, and never falls back a whole page behind what a run    *)
(* has read, whatever the page size, the cap and the failures.             *)
THEOREM CursorIsAlwaysSound == PollSpec => []CursorIsSound
  <1>1. PollInv => CursorIsSound
    BY SMT DEF PollInv, CursorIsSound, ReplayIsShort, Kept, Lags
  <1> QED
    BY <1>1, PollInvariance, PTL
=============================================================================
