--------------------------- MODULE PlaygroundTuiProofs ---------------------------
(***************************************************************************)
(* What the sections of the playground promise.                            *)
(*                                                                         *)
(* An answer about a query or an assertion is labelled by where the user   *)
(* is: the invariant has what it was for still there, unless it is no      *)
(* longer current or the user rushed (PanelsInv).                          *)
(*                                                                         *)
(* The log of calls has an invariant of its own: the ring, wherever it has *)
(* wrapped, is the end of what was added (Holds), and the row counts from  *)
(* the newest entry but for the notices that are on their way (ChosenInv). *)
(***************************************************************************)
EXTENDS PlaygroundTui, FiniteSetTheorems, SequenceTheorems, TLAPS

-------------------------------------------------------------------------------
(* The log of calls.                                                       *)

LogEntries == [id : Nat, attempt : Nat]
LogCalls == [id : Nat, url : Urls, attempt : Nat, phase : {"sent", "body", "read"}]
LogTypeInv ==
    /\ ring \in [entries : [1..Capacity -> LogEntries \cup {NoEntry}],
                 index : 0..(Capacity - 1), full : BOOLEAN]
    /\ tries \in [url : Urls \cup {NoEntry}, attempt : Nat]
    /\ calls \subseteq LogCalls
    /\ notices \in Nat /\ sent \in Nat /\ logKeys \in Nat
    /\ list \in [open : BOOLEAN, sel : Nat, detail : LogEntries \cup {NoEntry}]
    /\ recorded \in Seq(LogEntries)
    /\ pin \in LogEntries \cup {NoEntry} /\ eager \in BOOLEAN

(* Where in the ring the latest entries are.                               *)
Holds(r, rec) ==
    LET n == Len(rec)
    IN  IF r.full
        THEN /\ n >= Capacity
             /\ \A i \in 1..r.index : r.entries[i] = rec[n - r.index + i]
             /\ \A i \in (r.index + 1)..Capacity : r.entries[i] = rec[n - r.index - Capacity + i]
        ELSE r.index = n /\ \A i \in 1..n : r.entries[i] = rec[i]

(* A call is recorded once: not before its body has been read or closed,   *)
(* and then it is read at most.                                            *)
OnceInv ==
    /\ \A c \in calls : c.id <= sent
    /\ \A c, d \in calls : c.id = d.id => c = d
    /\ \A i \in 1..Len(recorded) : recorded[i].id <= sent
    /\ \A i, j \in 1..Len(recorded) : recorded[i].id = recorded[j].id => i = j
    /\ \A c \in calls : \A i \in 1..Len(recorded) : recorded[i].id = c.id => c.phase = "read"

(* How far the chosen entry is from the newest: as the row says once the   *)
(* notices have arrived, or it has left the ring and the row is the last.  *)
RowFollows ==
    /\ list.open /\ pin = NoEntry => list.sel = 0
    /\ pin # NoEntry =>
          /\ list.open /\ list.sel > 0
          /\ \E p \in 1..Len(recorded) :
                /\ recorded[p] = pin
                /\ \/ list.sel = Len(recorded) - notices - p /\ list.sel < Capacity
                   \/ Len(recorded) - p >= Capacity /\ list.sel = Capacity - 1

ChosenInv ==
    /\ eager \/ RowFollows
    /\ list.open /\ notices = 0 => list.detail = Entry(list.sel, ring)

LogInv == LogTypeInv /\ Holds(ring, recorded) /\ OnceInv /\ ChosenInv

(* The ring, seen as a sequence.                                           *)
LEMMA LogNumbers == Capacity \in Nat \ {0} /\ NoEntry \notin LogEntries
BY ApiLogAssumption DEF LogEntries

Rings == [entries : [1..Capacity -> LogEntries \cup {NoEntry}], index : 0..(Capacity - 1), full : BOOLEAN]
Kept(n) == IF n >= Capacity THEN Capacity ELSE n

LEMMA SnapshotIs ==
    ASSUME NEW r \in Rings, NEW rec \in Seq(LogEntries), Holds(r, rec)
    PROVE  /\ Snapshot(r) \in Seq(LogEntries \cup {NoEntry})
           /\ Len(Snapshot(r)) = Kept(Len(rec)) /\ Len(rec) \in Nat
           /\ \A j \in 1..Len(Snapshot(r)) : Snapshot(r)[j] = rec[Len(rec) - Kept(Len(rec)) + j]
<1> DEFINE C == Capacity
           n == Len(rec)
           k == r.index
           E == r.entries
           X == LogEntries \cup {NoEntry}
<1>1. C \in Nat \ {0} /\ n \in Nat /\ k \in 0..(C - 1) /\ k \in Nat /\ E \in [1..C -> X]
  BY LogNumbers DEF Rings
<1>2. E \in Seq(X) /\ Len(E) = C
  BY <1>1
<1> HIDE DEF C, k, E, X
<1>3. CASE r.full
  <2> DEFINE a == SubSeq(E, k + 1, C)
             b == SubSeq(E, 1, k)
  <2>1. n >= C /\ (\A i \in 1..k : E[i] = rec[n - k + i])
        /\ \A i \in (k + 1)..C : E[i] = rec[n - k - C + i]
    BY <1>3 DEF Holds, C, k, E
  <2>2. a \in Seq(X) /\ Len(a) = C - k /\ \A i \in 1..(C - k) : a[i] = E[k + i]
    <3>1. k \in Nat /\ C \in Nat /\ k < C /\ Len(E) = C
      BY <1>1, <1>2
    <3>2. k + 1 \in Int /\ C \in Int /\ k + 1 <= C /\ \A i \in (k + 1)..C : i \in 1..Len(E)
      BY <3>1
    <3>3. \A i \in (k + 1)..C : E[i] \in X
      BY <1>2, <3>2, ElementOfSeq
    <3>4. /\ a \in Seq(X) /\ Len(a) = C - (k + 1) + 1
          /\ \A i \in 1..(C - (k + 1) + 1) : a[i] = E[(k + 1) + i - 1]
      <4> DEFINE lo == k + 1
      <4>1. lo \in Int /\ C \in Int /\ lo <= C /\ \A i \in lo..C : E[i] \in X
        BY <3>2, <3>3
      <4> HIDE DEF lo
      <4>2. /\ SubSeq(E, lo, C) \in Seq(X) /\ Len(SubSeq(E, lo, C)) = C - lo + 1
            /\ \A i \in 1..(C - lo + 1) : SubSeq(E, lo, C)[i] = E[lo + i - 1]
        BY <4>1, SubSeqProperties
      <4> QED
        BY <4>2 DEF lo
    <3> HIDE DEF a
    <3>5. C - (k + 1) + 1 = C - k
      BY <3>1
    <3>6. ASSUME NEW i \in 1..(C - k)
          PROVE  a[i] = E[k + i]
      <4>1. (k + 1) + i - 1 = k + i /\ i \in 1..(C - (k + 1) + 1)
        BY <3>1, <3>5
      <4>2. a[i] = E[(k + 1) + i - 1]
        BY <3>4, <4>1
      <4> QED
        BY <4>1, <4>2, Zenon
    <3> QED
      BY <3>4, <3>5, <3>6, Zenon
  <2>3. b \in Seq(X) /\ Len(b) = k /\ \A i \in 1..k : b[i] = E[i]
    BY <1>1, <1>2, SubSeqProperties
  <2> DEFINE s == a \o b
  <2>4. Snapshot(r) = s
    BY <1>3 DEF Snapshot, C, k, E
  <2> HIDE DEF a, b
  <2>5. s \in Seq(X) /\ Len(s) = Len(a) + Len(b)
        /\ \A i \in 1..(Len(a) + Len(b)) : s[i] = IF i <= Len(a) THEN a[i] ELSE b[i - Len(a)]
    BY <2>2, <2>3, ConcatProperties
  <2> HIDE DEF s
  <2>6. Len(s) = C
    BY <1>1, <2>2, <2>3, <2>5
  <2>7. ASSUME NEW j \in 1..C
        PROVE  s[j] = rec[n - C + j]
    <3>1. CASE j <= C - k
      <4>1. s[j] = a[j] /\ a[j] = E[k + j] /\ k + j \in (k + 1)..C
        BY <1>1, <2>2, <2>3, <2>5, <3>1
      <4>2. E[k + j] = rec[n - k - C + (k + j)] /\ n - k - C + (k + j) = n - C + j
        BY <1>1, <2>1, <4>1
      <4> QED
        BY <4>1, <4>2
    <3>2. CASE ~(j <= C - k)
      <4> DEFINE i == j - (C - k)
      <4>1. i \in 1..k /\ j \in 1..(Len(a) + Len(b)) /\ ~(j <= Len(a)) /\ j - Len(a) = i /\ n - k + i = n - C + j
        BY <1>1, <2>2, <2>3, <3>2
      <4>2. s[j] = b[i]
        BY <2>5, <4>1, Zenon
      <4>3. b[i] = E[i] /\ E[i] = rec[n - k + i]
        BY <2>1, <2>3, <4>1
      <4> QED
        BY <4>1, <4>2, <4>3
    <3> QED
      BY <3>1, <3>2
  <2> QED
    BY <1>1, <2>1, <2>4, <2>5, <2>6, <2>7 DEF Kept, C, X
<1>4. CASE ~r.full
  <2>1. k = n /\ \A i \in 1..n : E[i] = rec[i]
    BY <1>4 DEF Holds, k, E
  <2> DEFINE s == SubSeq(E, 1, k)
  <2>2. Snapshot(r) = s
    BY <1>4 DEF Snapshot, k, E
  <2>3. s \in Seq(X) /\ Len(s) = n /\ \A i \in 1..n : s[i] = E[i]
    BY <1>1, <1>2, <2>1, SubSeqProperties
  <2> HIDE DEF s
  <2>4. Kept(n) = n
    BY <1>1, <2>1 DEF Kept, C
  <2>5. \A j \in 1..n : s[j] = rec[n - n + j]
    BY <1>1, <2>1, <2>3
  <2> QED
    BY <1>1, <2>2, <2>3, <2>4, <2>5 DEF X
<1> QED
  BY <1>3, <1>4

LEMMA AddedHolds ==
    ASSUME NEW r \in Rings, NEW rec \in Seq(LogEntries), Holds(r, rec), NEW e \in LogEntries
    PROVE  Added(r, e) \in Rings /\ Holds(Added(r, e), Append(rec, e))
<1> DEFINE C == Capacity
           n == Len(rec)
           k == r.index
           E == r.entries
           q == Append(rec, e)
           F == [E EXCEPT ![k + 1] = e]
           s == Added(r, e)
<1>1. C \in Nat \ {0} /\ n \in Nat /\ k \in 0..(C - 1) /\ k \in Nat /\ E \in [1..C -> LogEntries \cup {NoEntry}]
      /\ r.full \in BOOLEAN
  BY LogNumbers DEF Rings
<1>2. q \in Seq(LogEntries) /\ Len(q) = n + 1 /\ q[n + 1] = e /\ \A i \in 1..n : q[i] = rec[i]
  <2> HIDE DEF LogEntries
  <2> QED
    BY AppendProperties
<1>3. s.entries = F /\ s.index = (k + 1) % C /\ s.full = (r.full \/ k + 1 = C)
      /\ s = [entries |-> F, index |-> (k + 1) % C, full |-> (r.full \/ k + 1 = C)]
  BY DEF Added
<1> HIDE DEF C, k, E, q, s
<1>4. (k + 1) % C = IF k + 1 = C THEN 0 ELSE k + 1
  BY <1>1
<1>5. F \in [1..C -> LogEntries \cup {NoEntry}] /\ F[k + 1] = e /\ \A i \in 1..C : i # k + 1 => F[i] = E[i]
  BY <1>1
<1> HIDE DEF F
<1>6. s \in Rings
  BY <1>1, <1>3, <1>4, <1>5 DEF Rings, C
<1>7. CASE k + 1 = C
  <2>1. s.index = 0 /\ s.full
    BY <1>3, <1>4, <1>7
  <2>2. \A i \in 1..C : i = k + 1 \/ i \in 1..k
    BY <1>1, <1>7
  <2>3. n + 1 >= C /\ \A i \in 1..k : E[i] = rec[n - k + i]
    BY <1>1, <1>7 DEF Holds, C, k, E
  <2>4. ASSUME NEW i \in 1..C PROVE F[i] = q[n + 1 - C + i]
    <3>1. CASE i = k + 1
      <4>1. n + 1 - C + i = n + 1
        BY <1>1, <1>7, <3>1
      <4> QED
        BY <1>2, <1>5, <3>1, <4>1
    <3>2. CASE i \in 1..k
      <4>1. n + 1 - C + i = n - k + i /\ n - k + i \in 1..n /\ i # k + 1
        <5>1. n \in Nat /\ k \in Nat /\ k <= n /\ C = k + 1
          BY <1>1, <1>7, <2>3
        <5> HIDE DEF n
        <5> QED
          BY <3>2, <5>1
      <4> QED
        BY <1>2, <1>5, <2>3, <3>2, <4>1
    <3> QED
      BY <2>2, <3>1, <3>2
  <2>5. \A i \in (0 + 1)..C : F[i] = q[(n + 1) - 0 - C + i]
    BY <1>1, <2>4
  <2>6. \A i \in 1..0 : F[i] = q[(n + 1) - 0 + i]
    OBVIOUS
  <2>7. \A i \in 1..s.index : s.entries[i] = q[Len(q) - s.index + i]
    BY <1>2, <1>3, <2>1, <2>6
  <2>8. \A i \in (s.index + 1)..C : s.entries[i] = q[Len(q) - s.index - C + i]
    BY <1>2, <1>3, <2>1, <2>5
  <2>9. Len(q) >= C
    BY <1>2, <2>3
  <2>10. Holds(s, q)
    BY <2>1, <2>7, <2>8, <2>9 DEF Holds, C
  <2> QED
    BY <1>6, <2>10 DEF s, q
<1>8. CASE k + 1 # C /\ r.full
  <2>1. s.index = k + 1 /\ s.full
    BY <1>3, <1>4, <1>8
  <2>2. n >= C /\ (\A i \in 1..k : E[i] = rec[n - k + i])
        /\ \A i \in (k + 1)..C : E[i] = rec[n - k - C + i]
    BY <1>8 DEF Holds, C, k, E
  <2>3. ASSUME NEW i \in 1..(k + 1) PROVE F[i] = q[(n + 1) - (k + 1) + i]
    <3>1. CASE i = k + 1
      <4>1. (n + 1) - (k + 1) + i = n + 1
        BY <1>1, <3>1
      <4> QED
        BY <1>2, <1>5, <3>1, <4>1
    <3>2. CASE i # k + 1
      <4>1. i \in 1..k /\ i \in 1..C /\ (n + 1) - (k + 1) + i = n - k + i /\ n - k + i \in 1..n
        BY <1>1, <2>2, <3>2
      <4> QED
        BY <1>2, <1>5, <2>2, <3>2, <4>1
    <3> QED
      BY <3>1, <3>2
  <2>4. ASSUME NEW i \in ((k + 1) + 1)..C PROVE F[i] = q[(n + 1) - (k + 1) - C + i]
    <3>1. i \in (k + 1)..C /\ i # k + 1 /\ i \in 1..C /\ (n + 1) - (k + 1) - C + i = n - k - C + i
          /\ n - k - C + i \in 1..n
      BY <1>1, <2>2
    <3> QED
      BY <1>2, <1>5, <2>2, <3>1
  <2>5. n + 1 >= C
    BY <1>1, <2>2
  <2>6. \A i \in 1..s.index : s.entries[i] = q[Len(q) - s.index + i]
    BY <1>2, <1>3, <2>1, <2>3
  <2>7. \A i \in (s.index + 1)..C : s.entries[i] = q[Len(q) - s.index - C + i]
    BY <1>2, <1>3, <2>1, <2>4
  <2>8. Len(q) >= C
    BY <1>2, <2>5
  <2>9. Holds(s, q)
    BY <2>1, <2>6, <2>7, <2>8 DEF Holds, C
  <2> QED
    BY <1>6, <2>9 DEF s, q
<1>9. CASE k + 1 # C /\ ~r.full
  <2>1. s.index = k + 1 /\ ~s.full
    BY <1>3, <1>4, <1>9
  <2>2. k = n /\ \A i \in 1..n : E[i] = rec[i]
    BY <1>9 DEF Holds, k, E
  <2>3. ASSUME NEW i \in 1..(n + 1) PROVE F[i] = q[i]
    <3>1. CASE i = n + 1
      BY <1>2, <1>5, <2>2, <3>1
    <3>2. CASE i # n + 1
      <4>1. i \in 1..n /\ i \in 1..C
        BY <1>1, <2>2, <3>2
      <4> QED
        BY <1>2, <1>5, <2>2, <3>2, <4>1
    <3> QED
      BY <3>1, <3>2
  <2> QED
    <3>1. s.index = Len(q) /\ \A i \in 1..Len(q) : s.entries[i] = q[i]
      BY <1>2, <1>3, <2>1, <2>2, <2>3
    <3>2. Holds(s, q)
      BY <2>1, <3>1 DEF Holds
    <3> QED
      BY <1>6, <3>2 DEF s, q
<1> QED
  BY <1>6, <1>7, <1>8, <1>9 DEF s, q

(* The rows of the section, the newest first.                              *)
LEMMA RowIs ==
    ASSUME NEW r \in Rings, NEW rec \in Seq(LogEntries), Holds(r, rec), NEW i \in Nat
    PROVE  /\ Len(rec) \in Nat /\ LogRows(r) = Kept(Len(rec)) /\ Kept(Len(rec)) \in Nat
           /\ Kept(Len(rec)) <= Len(rec) /\ Kept(Len(rec)) <= Capacity /\ (Len(rec) > 0 => Kept(Len(rec)) > 0)
           /\ Clamped(i, r) \in Nat
           /\ Clamped(i, r) = IF i < Kept(Len(rec)) THEN i ELSE IF Len(rec) = 0 THEN i ELSE Kept(Len(rec)) - 1
           /\ Len(rec) > 0 => /\ Entry(i, r) = rec[Len(rec) - Clamped(i, r)]
                              /\ Len(rec) - Clamped(i, r) \in 1..Len(rec)
                              /\ Entry(i, r) \in LogEntries
           /\ Len(rec) = 0 => Entry(i, r) = NoEntry
           /\ Entry(Clamped(i, r), r) = Entry(i, r)
<1> DEFINE n == Len(rec)
           t == Kept(n)
           x == Clamped(i, r)
<1>1. n \in Nat /\ Capacity \in Nat \ {0} /\ Len(Snapshot(r)) = t
      /\ \A j \in 1..t : Snapshot(r)[j] = rec[n - t + j]
  BY LogNumbers, SnapshotIs
<1>2. t \in Nat /\ t <= n /\ t <= Capacity /\ (n > 0 => t > 0) /\ (n = 0 => t = 0)
  BY <1>1 DEF Kept
<1> HIDE DEF n, t
<1>3. LogRows(r) = t
  BY <1>1 DEF LogRows
<1>4. x = IF i < t THEN i ELSE IF n = 0 THEN i ELSE t - 1
  BY <1>1, <1>2, <1>3 DEF Clamped
<1>5. x \in Nat /\ (n > 0 => x < t)
  BY <1>1, <1>2, <1>4
<1>6. Clamped(x, r) = x
  BY <1>2, <1>3, <1>4, <1>5 DEF Clamped
<1> HIDE DEF x
<1>7. ASSUME n > 0
      PROVE  Entry(i, r) = rec[n - x] /\ n - x \in 1..n
  <2>1. t - x \in 1..t /\ n - t + (t - x) = n - x /\ n - x \in 1..n
    BY <1>1, <1>2, <1>5, <1>7
  <2>2. Entry(i, r) = Snapshot(r)[t - x]
    BY <1>2, <1>3, <1>7 DEF Entry, x
  <2> QED
    BY <1>1, <2>1, <2>2
<1>8. n > 0 => Entry(i, r) \in LogEntries
  <2> HIDE DEF LogEntries
  <2> QED
    BY <1>7, ElementOfSeq DEF n
<1>9. n = 0 => Entry(i, r) = NoEntry
  BY <1>2, <1>3 DEF Entry
<1>10. Entry(x, r) = Entry(i, r)
  BY <1>3, <1>6 DEF Entry, x
<1> QED
  BY <1>1, <1>2, <1>3, <1>4, <1>5, <1>7, <1>8, <1>9, <1>10 DEF n, t, x

LEMMA LogInitHolds == LogInit => LogInv
<1> SUFFICES ASSUME LogInit PROVE LogInv
  OBVIOUS
<1> USE DEF LogInit
<1>1. LogTypeInv
  <2>1. ring \in [entries : [1..Capacity -> LogEntries \cup {NoEntry}], index : 0..(Capacity - 1), full : BOOLEAN]
    BY LogNumbers DEF NewRing
  <2>2. recorded \in Seq(LogEntries)
    OBVIOUS
  <2> QED
    BY <2>1, <2>2 DEF LogTypeInv
<1>2. Holds(ring, recorded)
  BY DEF Holds, NewRing
<1>3. OnceInv
  BY DEF OnceInv
<1>4. ChosenInv
  BY DEF ChosenInv, RowFollows
<1> QED
  BY <1>1, <1>2, <1>3, <1>4 DEF LogInv

LEMMA LogTypes ==
    ASSUME LogInv
    PROVE  /\ LogTypeInv /\ Holds(ring, recorded) /\ OnceInv /\ ChosenInv
           /\ ring \in Rings /\ recorded \in Seq(LogEntries) /\ Len(recorded) \in Nat
           /\ list.open \in BOOLEAN /\ list.sel \in Nat /\ notices \in Nat /\ sent \in Nat
           /\ \A c \in calls : c.id \in Nat /\ c.attempt \in Nat /\ c.url \in Urls
BY DEF LogInv, LogTypeInv, Rings, LogCalls

(* A call that is recorded: its entry is the newest, and the row moves when *)
(* the notice arrives.                                                     *)
LEMMA RecordHolds ==
    ASSUME LogInv, NEW c \in calls, c.phase # "read", NEW a \in Nat,
           ring' = Added(ring, [id |-> c.id, attempt |-> a]),
           recorded' = Append(recorded, [id |-> c.id, attempt |-> a]),
           notices' = notices + 1, sent' = sent, UNCHANGED <<list, pin, eager, logKeys>>,
           tries' \in [url : Urls \cup {NoEntry}, attempt : Nat], calls' \subseteq LogCalls,
           \A d \in calls' : d \in calls \ {c} \/ (d.id = c.id /\ d.phase = "read"),
           \A d, f \in calls' : d.id = f.id => d = f
    PROVE  LogInv'
<1> DEFINE e == [id |-> c.id, attempt |-> a]
           n == Len(recorded)
<1>1. /\ LogTypeInv /\ Holds(ring, recorded) /\ OnceInv /\ ChosenInv
      /\ ring \in Rings /\ recorded \in Seq(LogEntries) /\ n \in Nat /\ notices \in Nat /\ list.sel \in Nat
      /\ c.id \in Nat
  BY LogTypes
<1>2. e \in LogEntries /\ e.id = c.id
  BY <1>1 DEF LogEntries
<1>3. ring' \in Rings /\ Holds(ring', recorded')
  BY <1>1, <1>2, AddedHolds
<1> HIDE DEF e
<1>4. recorded' \in Seq(LogEntries) /\ Len(recorded') = n + 1 /\ recorded'[n + 1] = e
      /\ \A i \in 1..n : recorded'[i] = recorded[i]
  <2>1. recorded' = Append(recorded, e)
    BY DEF e
  <2> HIDE DEF LogEntries
  <2> QED
    BY <1>1, <1>2, <2>1, AppendProperties
<1>5. LogTypeInv'
  BY <1>1, <1>3, <1>4 DEF LogTypeInv, Rings
<1>6. \A i \in 1..Len(recorded') : i = n + 1 \/ i \in 1..n
  BY <1>1, <1>4
<1>7. \A i \in 1..n : recorded[i].id # c.id
  BY <1>1 DEF OnceInv
<1>8. OnceInv'
  <2>1. \A d \in calls' : d.id <= sent'
    BY <1>1 DEF OnceInv
  <2>2. \A i \in 1..Len(recorded') : recorded'[i].id <= sent'
    BY <1>1, <1>2, <1>4, <1>6 DEF OnceInv
  <2>3. \A i, j \in 1..Len(recorded') : recorded'[i].id = recorded'[j].id => i = j
    BY <1>1, <1>2, <1>4, <1>6, <1>7 DEF OnceInv
  <2>4. \A d \in calls' : \A i \in 1..Len(recorded') : recorded'[i].id = d.id => d.phase = "read"
    <3> SUFFICES ASSUME NEW d \in calls', NEW i \in 1..Len(recorded'), recorded'[i].id = d.id
                 PROVE  d.phase = "read"
      OBVIOUS
    <3>1. CASE d.id = c.id /\ d.phase = "read"
      BY <3>1
    <3>2. CASE d \in calls \ {c}
      <4>1. d.id # c.id
        BY <1>1, <3>2 DEF OnceInv
      <4>2. i \in 1..n /\ recorded'[i] = recorded[i]
        BY <1>2, <1>4, <1>6, <4>1
      <4> QED
        BY <1>1, <3>2, <4>2 DEF OnceInv
    <3> QED
      BY <3>1, <3>2
  <2> QED
    BY <2>1, <2>2, <2>3, <2>4 DEF OnceInv
<1>9. ChosenInv'
  <2>1. ASSUME pin # NoEntry, RowFollows
        PROVE  /\ list.open /\ list.sel > 0
               /\ \E p \in 1..Len(recorded') :
                     /\ recorded'[p] = pin
                     /\ \/ list.sel = Len(recorded') - notices' - p /\ list.sel < Capacity
                        \/ Len(recorded') - p >= Capacity /\ list.sel = Capacity - 1
    <3>1. PICK p \in 1..n :
             /\ recorded[p] = pin
             /\ \/ list.sel = n - notices - p /\ list.sel < Capacity
                \/ n - p >= Capacity /\ list.sel = Capacity - 1
      BY <1>1, <2>1 DEF RowFollows
    <3>2. p \in 1..Len(recorded') /\ recorded'[p] = pin
      BY <1>1, <1>4, <3>1
    <3>3. Len(recorded') - notices' - p = n - notices - p /\ (n - p >= Capacity => Len(recorded') - p >= Capacity)
      BY <1>1, <1>4, LogNumbers
    <3> QED
      BY <1>1, <2>1, <3>1, <3>2, <3>3 DEF RowFollows
  <2>2. notices' # 0
    BY <1>1
  <2>3. RowFollows => RowFollows'
    BY <2>1 DEF RowFollows
  <2> QED
    BY <1>1, <2>2, <2>3 DEF ChosenInv
<1> QED
  BY <1>3, <1>5, <1>8, <1>9 DEF LogInv

(* A call that adds no entry.                                              *)
LEMMA NoRecordHolds ==
    ASSUME LogInv, UNCHANGED <<ring, recorded, notices, list, pin, eager, logKeys>>,
           sent' \in Nat, tries' \in [url : Urls \cup {NoEntry}, attempt : Nat], calls' \subseteq LogCalls,
           OnceInv'
    PROVE  LogInv'
<1>1. LogTypeInv /\ Holds(ring, recorded) /\ ChosenInv
  BY DEF LogInv
<1>2. LogTypeInv'
  BY <1>1 DEF LogTypeInv
<1>3. ChosenInv'
  BY <1>1 DEF ChosenInv, RowFollows
<1> QED
  BY <1>1, <1>2, <1>3 DEF LogInv

LEMMA CallsHold ==
    ASSUME LogInv, NEW u \in Urls, Call(u)
    PROVE  LogInv'
<1> DEFINE d == [id |-> sent + 1, url |-> u, attempt |-> 0, phase |-> "sent"]
<1>1. LogTypeInv /\ OnceInv /\ sent \in Nat /\ \A c \in calls : c.id \in Nat
  BY LogTypes
<1>2. sent' = sent + 1 /\ calls' = calls \cup {d} /\ UNCHANGED <<ring, tries, notices, recorded, list, pin, eager, logKeys>>
  BY DEF Call, NoRows
<1>3. d \in LogCalls /\ d.id = sent + 1 /\ d.phase = "sent"
  BY <1>1 DEF LogCalls
<1> HIDE DEF d
<1>4. \A c \in calls : c.id # d.id
  BY <1>1, <1>3 DEF OnceInv
<1>5. OnceInv'
  <2>1. \A i \in 1..Len(recorded) : recorded[i].id \in Nat /\ recorded[i].id <= sent /\ recorded[i].id # d.id
    <3>1. recorded \in Seq(LogEntries)
      BY <1>1 DEF LogTypeInv
    <3>2. \A i \in 1..Len(recorded) : recorded[i] \in LogEntries
      <4> HIDE DEF LogEntries
      <4> QED
        BY <3>1, ElementOfSeq
    <3> QED
      BY <1>1, <1>3, <3>2 DEF OnceInv, LogEntries
  <2>2. \A c \in calls' : c.id <= sent'
    BY <1>1, <1>2, <1>3 DEF OnceInv
  <2>3. \A c, f \in calls' : c.id = f.id => c = f
    BY <1>1, <1>2, <1>4 DEF OnceInv
  <2>4. \A c \in calls' : \A i \in 1..Len(recorded') : recorded'[i].id = c.id => c.phase = "read"
    BY <1>1, <1>2, <2>1 DEF OnceInv
  <2>5. /\ \A i \in 1..Len(recorded') : recorded'[i].id <= sent'
        /\ \A i, j \in 1..Len(recorded') : recorded'[i].id = recorded'[j].id => i = j
    BY <1>1, <1>2, <2>1 DEF OnceInv
  <2> QED
    BY <2>2, <2>3, <2>4, <2>5 DEF OnceInv
<1>6. tries' \in [url : Urls \cup {NoEntry}, attempt : Nat] /\ calls' \subseteq LogCalls /\ sent' \in Nat
  BY <1>1, <1>2, <1>3 DEF LogTypeInv
<1> QED
  BY <1>2, <1>5, <1>6, NoRecordHolds

(* What remains of the calls when one is done with or has gone on.         *)
LEMMA CallsLeft ==
    ASSUME LogInv, NEW c \in calls,
           \/ calls' = calls \ {c}
           \/ \E d \in LogCalls : d.id = c.id /\ calls' = (calls \ {c}) \cup {d}
    PROVE  calls' \subseteq LogCalls /\ \A d, f \in calls' : d.id = f.id => d = f
BY DEF LogInv, LogTypeInv, OnceInv

LEMMA RespondsHold ==
    ASSUME LogInv, NEW c \in calls, Respond(c)
    PROVE  LogInv'
<1> DEFINE a == NextAttempt(c)
           d == [c EXCEPT !.attempt = NextAttempt(c), !.phase = "body"]
<1>1. LogTypeInv /\ OnceInv /\ sent \in Nat /\ c \in LogCalls
  BY LogTypes DEF LogTypeInv
<1>2. a \in Nat
  BY <1>1 DEF NextAttempt, LogTypeInv
<1>3. /\ c.phase = "sent" /\ tries' = [url |-> c.url, attempt |-> a] /\ sent' = sent
      /\ UNCHANGED <<list, pin, eager, logKeys>>
      /\ \/ calls' = calls \ {c} /\ Record(d)
         \/ calls' = (calls \ {c}) \cup {d} /\ UNCHANGED <<ring, recorded, notices>>
  BY DEF Respond, NoRows, DoneWith
<1>4. d \in LogCalls /\ d.id = c.id /\ d.attempt = a /\ d.phase = "body"
  BY <1>1, <1>2 DEF LogCalls
<1>5. tries' \in [url : Urls \cup {NoEntry}, attempt : Nat]
  BY <1>1, <1>2, <1>3 DEF LogCalls
<1> HIDE DEF a, d
<1>6. calls' \subseteq LogCalls /\ \A x, f \in calls' : x.id = f.id => x = f
  BY <1>3, <1>4, CallsLeft
<1>7. CASE calls' = calls \ {c} /\ Record(d)
  <2>1. /\ ring' = Added(ring, [id |-> c.id, attempt |-> a])
        /\ recorded' = Append(recorded, [id |-> c.id, attempt |-> a])
        /\ notices' = notices + 1
    BY <1>4, <1>7 DEF Record
  <2>2. \A x \in calls' : x \in calls \ {c} \/ (x.id = c.id /\ x.phase = "read")
    BY <1>7
  <2> QED
    BY <1>2, <1>3, <1>5, <1>6, <2>1, <2>2, RecordHolds
<1>8. CASE calls' = (calls \ {c}) \cup {d} /\ UNCHANGED <<ring, recorded, notices>>
  <2>1. OnceInv'
    BY <1>1, <1>3, <1>4, <1>6, <1>8 DEF OnceInv
  <2> QED
    BY <1>1, <1>3, <1>5, <1>6, <1>8, <2>1, NoRecordHolds
<1> QED
  BY <1>3, <1>7, <1>8

LEMMA BodyReadsHold ==
    ASSUME LogInv, NEW c \in calls, ReadToEnd(c)
    PROVE  LogInv'
<1> DEFINE d == [c EXCEPT !.phase = "read"]
<1>1. c \in LogCalls /\ tries \in [url : Urls \cup {NoEntry}, attempt : Nat]
  BY DEF LogInv, LogTypeInv
<1>2. c.phase = "body" /\ calls' = (calls \ {c}) \cup {d} /\ Record(c) /\ UNCHANGED <<tries, sent, list, pin, eager, logKeys>>
  BY DEF ReadToEnd, NoRows
<1>3. d \in LogCalls /\ d.id = c.id /\ d.phase = "read" /\ c.attempt \in Nat
  BY <1>1 DEF LogCalls
<1> HIDE DEF d
<1>4. calls' \subseteq LogCalls /\ \A x, f \in calls' : x.id = f.id => x = f
  BY <1>2, <1>3, CallsLeft
<1>5. \A x \in calls' : x \in calls \ {c} \/ (x.id = c.id /\ x.phase = "read")
  BY <1>2, <1>3
<1>6. /\ ring' = Added(ring, [id |-> c.id, attempt |-> c.attempt])
      /\ recorded' = Append(recorded, [id |-> c.id, attempt |-> c.attempt])
      /\ notices' = notices + 1
  BY <1>2 DEF Record
<1> QED
  BY <1>1, <1>2, <1>3, <1>4, <1>5, <1>6, RecordHolds

LEMMA ClosesHold ==
    ASSUME LogInv, NEW c \in calls, CloseBody(c)
    PROVE  LogInv'
<1>1. LogTypeInv /\ OnceInv /\ sent \in Nat /\ c \in LogCalls /\ c.attempt \in Nat
      /\ tries \in [url : Urls \cup {NoEntry}, attempt : Nat]
  BY DEF LogInv, LogTypeInv, LogCalls
<1>2. /\ calls' = calls \ {c} /\ UNCHANGED <<tries, sent, list, pin, eager, logKeys>>
      /\ IF c.phase = "body" THEN Record(c) ELSE UNCHANGED <<ring, recorded, notices>>
  BY DEF CloseBody, NoRows, DoneWith
<1>3. calls' \subseteq LogCalls /\ \A x, f \in calls' : x.id = f.id => x = f
  BY <1>2, CallsLeft
<1>4. CASE c.phase = "body"
  <2>1. /\ ring' = Added(ring, [id |-> c.id, attempt |-> c.attempt])
        /\ recorded' = Append(recorded, [id |-> c.id, attempt |-> c.attempt])
        /\ notices' = notices + 1
    BY <1>2, <1>4 DEF Record
  <2>2. \A x \in calls' : x \in calls \ {c} \/ (x.id = c.id /\ x.phase = "read")
    BY <1>2
  <2> QED
    BY <1>1, <1>2, <1>3, <1>4, <2>1, <2>2, RecordHolds
<1>5. CASE c.phase # "body"
  <2>1. OnceInv'
    BY <1>1, <1>2, <1>5 DEF OnceInv
  <2> QED
    BY <1>1, <1>2, <1>3, <1>5, <2>1, NoRecordHolds
<1> QED
  BY <1>4, <1>5

-------------------------------------------------------------------------------
(* The section.  A key leaves the calls alone; its row is on an entry that *)
(* is there.                                                               *)
LEMMA SectionHolds ==
    ASSUME LogInv, UNCHANGED <<tries, calls, sent>>, logKeys' \in Nat, notices' \in Nat,
           ring' \in Rings, recorded' \in Seq(LogEntries), Holds(ring', recorded'),
           recorded' \in {recorded, <<>>},
           list' \in [open : BOOLEAN, sel : Nat, detail : LogEntries \cup {NoEntry}],
           pin' \in LogEntries \cup {NoEntry}, eager' \in BOOLEAN,
           ChosenInv'
    PROVE  LogInv'
<1>1. LogTypeInv /\ OnceInv
  BY DEF LogInv
<1>2. LogTypeInv'
  BY <1>1 DEF LogTypeInv, Rings
<1>3. OnceInv'
  <2>1. CASE recorded' = recorded
    BY <1>1, <2>1 DEF OnceInv
  <2>2. CASE recorded' = <<>>
    BY <1>1, <2>2 DEF OnceInv
  <2> QED
    BY <2>1, <2>2
<1> QED
  BY <1>2, <1>3 DEF LogInv

LEMMA RefreshedType ==
    ASSUME NEW r \in Rings, NEW rec \in Seq(LogEntries), Holds(r, rec), NEW i \in Nat
    PROVE  /\ Refreshed(i, r) \in [open : BOOLEAN, sel : Nat, detail : LogEntries \cup {NoEntry}]
           /\ Refreshed(i, r).open /\ Refreshed(i, r).sel = Clamped(i, r)
           /\ Refreshed(i, r).detail = Entry(Refreshed(i, r).sel, r)
<1>1. Clamped(i, r) \in Nat /\ Entry(i, r) \in LogEntries \cup {NoEntry} /\ Entry(Clamped(i, r), r) = Entry(i, r)
  BY RowIs
<1> QED
  BY <1>1 DEF Refreshed

LEMMA KeyType ==
    ASSUME LogInv, LogKey
    PROVE  logKeys' \in Nat /\ UNCHANGED <<tries, calls, notices, sent>>
BY DEF LogKey, LogInv, LogTypeInv

LEMMA EntersHold ==
    ASSUME LogInv, EnterLog \/ LeaveLog
    PROVE  LogInv'
<1>1. /\ LogTypeInv /\ Holds(ring, recorded) /\ ring \in Rings /\ recorded \in Seq(LogEntries)
      /\ notices \in Nat /\ list.sel \in Nat /\ ChosenInv
  BY LogTypes
<1>2. logKeys' \in Nat /\ UNCHANGED <<tries, calls, notices, sent>>
  BY KeyType DEF EnterLog, LeaveLog
<1>3. ring' = ring /\ recorded' = recorded /\ pin' = NoEntry /\ eager' = FALSE
  BY DEF EnterLog, LeaveLog
<1>4. CASE EnterLog
  <2>1. list' = Refreshed(0, ring)
    BY <1>4 DEF EnterLog
  <2>2. /\ list' \in [open : BOOLEAN, sel : Nat, detail : LogEntries \cup {NoEntry}]
        /\ list'.sel = Clamped(0, ring) /\ list'.detail = Entry(list'.sel, ring)
    BY <1>1, <2>1, RefreshedType
  <2>3. Clamped(0, ring) = 0
    BY <1>1, RowIs
  <2>4. ChosenInv'
    BY <1>3, <2>2, <2>3 DEF ChosenInv, RowFollows
  <2> QED
    BY <1>1, <1>2, <1>3, <2>2, <2>4, SectionHolds
<1>5. CASE LeaveLog
  <2>1. list' = [list EXCEPT !.open = FALSE]
    BY <1>5 DEF LeaveLog
  <2>2. list' \in [open : BOOLEAN, sel : Nat, detail : LogEntries \cup {NoEntry}] /\ ~list'.open
    BY <1>1, <2>1 DEF LogTypeInv
  <2>3. ChosenInv'
    BY <1>3, <2>2 DEF ChosenInv, RowFollows
  <2> QED
    BY <1>1, <1>2, <1>3, <2>2, <2>3, SectionHolds
<1> QED
  BY <1>4, <1>5

LEMMA ChoosesHold ==
    ASSUME LogInv, RowUp \/ RowDown
    PROVE  LogInv'
<1>1. /\ LogTypeInv /\ Holds(ring, recorded) /\ ring \in Rings /\ recorded \in Seq(LogEntries)
      /\ notices \in Nat /\ list.sel \in Nat /\ ChosenInv /\ Len(recorded) \in Nat /\ eager \in BOOLEAN
  BY LogTypes DEF LogTypeInv
<1> DEFINE n == Len(recorded)
<1>2. PICK i \in Nat : Choose(i) /\ (~eager /\ notices = 0 /\ i # 0 => n > 0 /\ i < Kept(n))
  <2>1. CASE RowUp
    <3>1. list.sel > 0 /\ Choose(list.sel - 1) /\ list.open
      BY <2>1 DEF RowUp, Choose
    <3>2. list.sel - 1 \in Nat
      BY <1>1, <3>1
    <3>3. ASSUME ~eager, notices = 0
          PROVE  n > 0 /\ list.sel - 1 < Kept(n)
      <4>1. RowFollows /\ pin # NoEntry
        BY <1>1, <3>1, <3>3 DEF ChosenInv, RowFollows
      <4>2. PICK p \in 1..n : \/ list.sel = n - notices - p /\ list.sel < Capacity
                              \/ n - p >= Capacity /\ list.sel = Capacity - 1
        BY <4>1 DEF RowFollows
      <4>3. n > 0 /\ list.sel < Kept(n)
        BY <1>1, <3>3, <4>2, LogNumbers DEF Kept
      <4>4. Kept(n) \in Nat
        BY <1>1, RowIs
      <4> QED
        BY <1>1, <3>1, <4>3, <4>4
    <3> QED
      BY <3>1, <3>2, <3>3
  <2>2. CASE RowDown
    <3>1. list.sel + 1 < LogRows(ring) /\ Choose(list.sel + 1)
      BY <2>2 DEF RowDown
    <3>2. LogRows(ring) = Kept(n) /\ Kept(n) \in Nat /\ Kept(n) <= n
      BY <1>1, RowIs
    <3>3. n > 0 /\ list.sel + 1 \in Nat
      BY <1>1, <3>1, <3>2
    <3> QED
      BY <3>1, <3>2, <3>3
  <2> QED
    BY <2>1, <2>2
<1>3. /\ logKeys' \in Nat /\ UNCHANGED <<tries, calls, notices, sent>>
      /\ ring' = ring /\ recorded' = recorded /\ list' = Refreshed(i, ring)
      /\ pin' = IF i = 0 THEN NoEntry ELSE Entry(i, ring)
      /\ eager' = (eager \/ notices > 0)
  BY <1>2, KeyType DEF Choose
<1>4. /\ list' \in [open : BOOLEAN, sel : Nat, detail : LogEntries \cup {NoEntry}]
      /\ list'.open /\ list'.sel = Clamped(i, ring) /\ list'.detail = Entry(list'.sel, ring)
  BY <1>1, <1>3, RefreshedType
<1>5. /\ Kept(n) \in Nat /\ Kept(n) <= Capacity /\ Kept(n) <= n /\ (n > 0 => Kept(n) > 0)
      /\ Clamped(i, ring) = IF i < Kept(n) THEN i ELSE IF n = 0 THEN i ELSE Kept(n) - 1
      /\ n > 0 => /\ Entry(i, ring) = recorded[n - Clamped(i, ring)]
                  /\ n - Clamped(i, ring) \in 1..n
                  /\ Entry(i, ring) \in LogEntries
      /\ n = 0 => Entry(i, ring) = NoEntry
  BY <1>1, RowIs
<1>6. pin' \in LogEntries \cup {NoEntry} /\ eager' \in BOOLEAN
  BY <1>1, <1>3, <1>5
<1>7. ASSUME ~eager'
      PROVE  RowFollows'
  <2>1. ~eager /\ notices = 0
    <3>1. ~eager /\ ~(notices > 0)
      BY <1>3, <1>7, Zenon
    <3> QED
      BY <1>1, <3>1
  <2>2. Clamped(i, ring) = i
    BY <1>1, <1>2, <1>5, <2>1
  <2>3. CASE i = 0
    BY <1>3, <1>4, <2>2, <2>3 DEF RowFollows
  <2>4. CASE i # 0
    <3>1. n > 0 /\ i < Kept(n)
      BY <1>2, <2>1, <2>4
    <3>2. pin' = recorded[n - i] /\ pin' # NoEntry /\ n - i \in 1..n
      BY <1>3, <1>5, <2>2, <2>4, <3>1, LogNumbers
    <3>3. list'.sel = n - notices' - (n - i) /\ list'.sel < Capacity /\ list'.sel > 0
      BY <1>1, <1>3, <1>4, <1>5, <2>1, <2>2, <2>4, <3>1, LogNumbers
    <3> QED
      BY <1>3, <1>4, <3>2, <3>3 DEF RowFollows
  <2> QED
    BY <2>3, <2>4
<1>8. ChosenInv'
  BY <1>3, <1>4, <1>7 DEF ChosenInv
<1> QED
  BY <1>1, <1>3, <1>4, <1>6, <1>8, SectionHolds

LEMMA ClearsHold ==
    ASSUME LogInv, ClearLog
    PROVE  LogInv'
<1>1. logKeys' \in Nat /\ UNCHANGED <<tries, calls, notices, sent>> /\ notices \in Nat
  BY KeyType, LogTypes DEF ClearLog
<1>2. ring' = NewRing /\ recorded' = <<>> /\ list' = Refreshed(0, NewRing) /\ pin' = NoEntry
      /\ eager' = FALSE
  BY DEF ClearLog
<1>3. NewRing \in Rings /\ <<>> \in Seq(LogEntries) /\ Holds(NewRing, <<>>)
  <2>1. NewRing \in Rings
    BY LogNumbers DEF NewRing, Rings
  <2>2. Holds(NewRing, <<>>)
    BY DEF NewRing, Holds
  <2> QED
    BY <2>1, <2>2
<1>4. /\ list' \in [open : BOOLEAN, sel : Nat, detail : LogEntries \cup {NoEntry}]
      /\ list'.sel = Clamped(0, NewRing) /\ list'.detail = Entry(list'.sel, NewRing)
  BY <1>2, <1>3, RefreshedType
<1>5. Clamped(0, NewRing) = 0
  BY <1>3, RowIs
<1>6. ChosenInv'
  BY <1>2, <1>4, <1>5 DEF ChosenInv, RowFollows
<1> QED
  BY <1>1, <1>2, <1>3, <1>4, <1>6, SectionHolds

LEMMA NoticesHold ==
    ASSUME LogInv, Notice
    PROVE  LogInv'
<1>1. /\ LogTypeInv /\ Holds(ring, recorded) /\ ring \in Rings /\ recorded \in Seq(LogEntries)
      /\ notices \in Nat /\ list.sel \in Nat /\ ChosenInv /\ Len(recorded) \in Nat /\ logKeys \in Nat
      /\ pin \in LogEntries \cup {NoEntry} /\ eager \in BOOLEAN
  BY LogTypes DEF LogTypeInv
<1> DEFINE n == Len(recorded)
           i == Moved(list.sel)
<1>2. notices > 0 /\ notices' = notices - 1 /\ UNCHANGED <<ring, tries, calls, recorded, pin, eager, sent, logKeys>>
      /\ list' = IF list.open THEN Refreshed(i, ring) ELSE list
  BY DEF Notice
<1>3. notices' \in Nat
  BY <1>1, <1>2
<1>4. i \in Nat /\ i = IF list.sel > 0 THEN list.sel + 1 ELSE 0
  BY <1>1 DEF Moved
<1> HIDE DEF i
<1>5. CASE ~list.open
  <2>1. list' = list
    BY <1>2, <1>5
  <2>2. ChosenInv'
    BY <1>1, <1>2, <1>5, <2>1 DEF ChosenInv, RowFollows
  <2>3. list' \in [open : BOOLEAN, sel : Nat, detail : LogEntries \cup {NoEntry}]
    BY <1>1, <2>1 DEF LogTypeInv
  <2> QED
    BY <1>1, <1>2, <1>3, <2>2, <2>3, SectionHolds
<1>6. CASE list.open
  <2>1. list' = Refreshed(i, ring)
    BY <1>2, <1>6
  <2>2. /\ list' \in [open : BOOLEAN, sel : Nat, detail : LogEntries \cup {NoEntry}]
        /\ list'.open /\ list'.sel = Clamped(i, ring) /\ list'.detail = Entry(list'.sel, ring)
    BY <1>1, <1>4, <2>1, RefreshedType
  <2>3. /\ Kept(n) \in Nat /\ (n > 0 => Kept(n) > 0)
        /\ Clamped(i, ring) = IF i < Kept(n) THEN i ELSE IF n = 0 THEN i ELSE Kept(n) - 1
    BY <1>1, <1>4, RowIs
  <2>4. CASE ~eager /\ pin = NoEntry
    <3>1. i = 0
      BY <1>1, <1>4, <1>6, <2>4 DEF ChosenInv, RowFollows
    <3>2. Clamped(i, ring) = 0
      BY <1>1, <2>3, <3>1
    <3>3. ChosenInv'
      BY <1>2, <2>2, <2>4, <3>2 DEF ChosenInv, RowFollows
    <3> QED
      BY <1>1, <1>2, <1>3, <2>2, <3>3, SectionHolds
  <2>5. CASE ~eager /\ pin # NoEntry
    <3>1. list.sel > 0
      BY <1>1, <2>5 DEF ChosenInv, RowFollows
    <3>2. PICK p \in 1..n :
             /\ recorded[p] = pin
             /\ \/ list.sel = n - notices - p /\ list.sel < Capacity
                \/ n - p >= Capacity /\ list.sel = Capacity - 1
      BY <1>1, <2>5 DEF ChosenInv, RowFollows
    <3>3. i = list.sel + 1
      BY <1>4, <3>1
    <3>4. n \in Nat /\ p \in 1..n /\ Capacity \in Nat \ {0} /\ notices \in Nat \ {0} /\ list.sel \in Nat \ {0}
      BY <1>1, <1>2, <3>1, <3>2, LogNumbers
    <3>5. /\ list'.sel > 0
          /\ \/ list'.sel = n - notices' - p /\ list'.sel < Capacity
             \/ n - p >= Capacity /\ list'.sel = Capacity - 1
      <4>1. list'.sel = IF list.sel + 1 < Kept(n) THEN list.sel + 1 ELSE Kept(n) - 1
        BY <2>2, <2>3, <3>3, <3>4
      <4>2. CASE list.sel = n - notices - p /\ list.sel < Capacity
        BY <1>2, <3>4, <4>1, <4>2 DEF Kept
      <4>3. CASE n - p >= Capacity /\ list.sel = Capacity - 1
        BY <1>2, <3>4, <4>1, <4>3 DEF Kept
      <4> QED
        BY <3>2, <4>2, <4>3
    <3>6. ChosenInv'
      BY <1>2, <2>2, <2>5, <3>2, <3>5 DEF ChosenInv, RowFollows
    <3> QED
      BY <1>1, <1>2, <1>3, <2>2, <3>6, SectionHolds
  <2>6. CASE eager
    <3>1. ChosenInv'
      BY <1>2, <2>2, <2>6 DEF ChosenInv
    <3> QED
      BY <1>1, <1>2, <1>3, <2>2, <3>1, SectionHolds
  <2> QED
    BY <1>1, <2>4, <2>5, <2>6
<1> QED
  BY <1>5, <1>6

LEMMA LogStuttersHold == LogInv /\ UNCHANGED logVars => LogInv'
<1> SUFFICES ASSUME LogInv, UNCHANGED logVars PROVE LogInv'
  OBVIOUS
<1>1. UNCHANGED <<ring, tries, calls, notices, list, recorded, pin, eager, sent, logKeys>>
  BY DEF logVars
<1>2. LogTypeInv /\ Holds(ring, recorded) /\ OnceInv /\ ChosenInv
  BY DEF LogInv
<1>3. LogTypeInv'
  BY <1>1, <1>2 DEF LogTypeInv
<1>4. OnceInv'
  BY <1>1, <1>2 DEF OnceInv
<1>5. ChosenInv'
  BY <1>1, <1>2 DEF ChosenInv, RowFollows
<1> QED
  BY <1>1, <1>2, <1>3, <1>4, <1>5 DEF LogInv

LEMMA LogStepsHold == LogInv /\ [LogNext]_logVars => LogInv'
<1> SUFFICES ASSUME LogInv, [LogNext]_logVars PROVE LogInv'
  OBVIOUS
<1>1. ASSUME NEW u \in Urls, Call(u) PROVE LogInv'
  BY <1>1, CallsHold
<1>2. ASSUME NEW c \in calls, Respond(c) PROVE LogInv'
  BY <1>2, RespondsHold
<1>3. ASSUME NEW c \in calls, ReadToEnd(c) PROVE LogInv'
  BY <1>3, BodyReadsHold
<1>4. ASSUME NEW c \in calls, CloseBody(c) PROVE LogInv'
  BY <1>4, ClosesHold
<1>5. CASE EnterLog \/ LeaveLog
  BY <1>5, EntersHold
<1>6. CASE RowUp \/ RowDown
  BY <1>6, ChoosesHold
<1>7. CASE ClearLog
  BY <1>7, ClearsHold
<1>8. CASE Notice
  BY <1>8, NoticesHold
<1>9. CASE UNCHANGED logVars
  BY <1>9, LogStuttersHold
<1> QED
  BY <1>1, <1>2, <1>3, <1>4, <1>5, <1>6, <1>7, <1>8, <1>9 DEF LogNext

(* What the invariant says of the ring and of the row.                     *)
LEMMA LogInvMeansRing == LogInv => RingIsRecent
<1> SUFFICES ASSUME LogInv PROVE RingIsRecent
  OBVIOUS
<1> DEFINE n == Len(recorded)
           first == IF n > Capacity THEN n - Capacity + 1 ELSE 1
           s == Snapshot(ring)
           q == SubSeq(recorded, first, n)
<1>1. Holds(ring, recorded) /\ OnceInv /\ ring \in Rings /\ recorded \in Seq(LogEntries) /\ n \in Nat
  BY LogTypes
<1>2. /\ s \in Seq(LogEntries \cup {NoEntry}) /\ Len(s) = Kept(n)
      /\ \A j \in 1..Len(s) : s[j] = recorded[n - Kept(n) + j]
  BY <1>1, SnapshotIs
<1>3. first \in Nat /\ first \in 1..(n + 1) /\ n \in (first - 1)..n /\ n - first + 1 = Kept(n) /\ Kept(n) \in Nat
      /\ first - 1 = n - Kept(n)
  <2> HIDE DEF n
  <2>1. CASE n > Capacity
    BY <1>1, <2>1, LogNumbers DEF Kept
  <2>2. CASE ~(n > Capacity)
    BY <1>1, <2>2, LogNumbers DEF Kept
  <2> QED
    BY <2>1, <2>2
<1>4. DOMAIN recorded = 1..n
  BY <1>1
<1>5. q \in Seq(LogEntries) /\ Len(q) = n - first + 1 /\ \A j \in 1..(n - first + 1) : q[j] = recorded[first + j - 1]
  <2> HIDE DEF LogEntries, first
  <2>1. first \in 1..(Len(recorded) + 1) /\ n \in (first - 1)..Len(recorded)
    BY <1>3
  <2> QED
    BY <1>1, <1>3, <2>1, SubSeqProperties
<1> HIDE DEF first, q, s
<1>6. Len(q) = Len(s) /\ \A j \in 1..Len(s) : q[j] = s[j]
  <2>1. \A j \in 1..Kept(n) : first + j - 1 = n - Kept(n) + j
    BY <1>1, <1>3
  <2> QED
    BY <1>2, <1>3, <1>5, <2>1
<1>7. q \in Seq(LogEntries \cup {NoEntry})
  <2>1. \A j \in 1..Len(q) : q[j] \in LogEntries
    <3> HIDE DEF LogEntries
    <3> QED
      BY <1>5, ElementOfSeq
  <2> HIDE DEF LogEntries
  <2> QED
    BY <1>5, <2>1
<1>8. q = s
  <2> HIDE DEF LogEntries
  <2> QED
    BY <1>2, <1>6, <1>7, SeqEqual
<1> QED
  BY <1>1, <1>4, <1>8 DEF RingIsRecent, OnceInv, first, q, s

LEMMA LogInvMeansPin == LogInv => PinStays
<1> SUFFICES ASSUME LogInv, list.open, notices = 0
             PROVE  /\ list.detail = Entry(list.sel, ring)
                    /\ ~eager =>
                       IF pin = NoEntry THEN list.sel = 0
                       ELSE IF Contains(Snapshot(ring), pin) THEN list.detail = pin
                       ELSE list.sel = LogRows(ring) - 1
  BY DEF PinStays
<1> DEFINE n == Len(recorded)
           s == Snapshot(ring)
<1>1. /\ Holds(ring, recorded) /\ OnceInv /\ ChosenInv /\ ring \in Rings /\ recorded \in Seq(LogEntries)
      /\ n \in Nat /\ list.sel \in Nat /\ Capacity \in Nat \ {0}
  BY LogTypes, LogNumbers
<1>2. list.detail = Entry(list.sel, ring) /\ (~eager /\ pin = NoEntry => list.sel = 0)
  BY <1>1 DEF ChosenInv, RowFollows
<1>3. CASE ~eager /\ pin # NoEntry
  <2>1. PICK p \in 1..n :
           /\ recorded[p] = pin
           /\ \/ list.sel = n - notices - p /\ list.sel < Capacity
              \/ n - p >= Capacity /\ list.sel = Capacity - 1
    BY <1>1, <1>3 DEF ChosenInv, RowFollows
  <2>2. Len(s) = Kept(n) /\ \A j \in 1..Kept(n) : s[j] = recorded[n - Kept(n) + j]
    BY <1>1, SnapshotIs
  <2>3. LogRows(ring) = Kept(n) /\ Kept(n) = IF n >= Capacity THEN Capacity ELSE n
    BY <1>1, RowIs DEF Kept
  <2> HIDE DEF s
  <2>4. CASE list.sel = n - p /\ list.sel < Capacity
    <3>1. p \in 1..n /\ n - p < Kept(n) /\ n > 0 /\ n - list.sel = p
      BY <1>1, <2>1, <2>3, <2>4
    <3>2. Clamped(list.sel, ring) = list.sel
      <4>1. Clamped(list.sel, ring) =
               IF list.sel < Kept(n) THEN list.sel ELSE IF n = 0 THEN list.sel ELSE Kept(n) - 1
        BY <1>1, RowIs
      <4>2. list.sel < Kept(n)
        BY <2>4, <3>1
      <4> QED
        BY <4>1, <4>2
    <3>3. Entry(list.sel, ring) = recorded[n - list.sel]
      <4>1. n > 0 => Entry(list.sel, ring) = recorded[n - Clamped(list.sel, ring)]
        BY <1>1, RowIs
      <4> QED
        BY <3>1, <3>2, <4>1
    <3>4. list.detail = pin
      BY <1>2, <2>1, <3>1, <3>3
    <3>5. Contains(s, pin)
      <4> DEFINE k == Kept(n)
      <4>1. p - n + k \in 1..k /\ n - k + (p - n + k) = p
        <5>1. k \in Nat
          BY <1>1, <2>3
        <5>2. n \in Nat /\ p \in 1..n /\ n - p < k
          BY <1>1, <3>1
        <5> HIDE DEF k, n
        <5> QED
          BY <5>1, <5>2
      <4>2. s[p - n + Kept(n)] = pin
        BY <2>1, <2>2, <4>1
      <4> QED
        BY <2>2, <4>1, <4>2 DEF Contains
    <3> QED
      BY <1>2, <1>3, <3>4, <3>5 DEF s
  <2>5. CASE n - p >= Capacity /\ list.sel = Capacity - 1
    <3>1. Kept(n) = Capacity
      BY <1>1, <2>1, <2>3, <2>5
    <3>2. ~Contains(s, pin)
      <4> SUFFICES ASSUME NEW j \in 1..Kept(n), s[j] = pin PROVE FALSE
        BY <2>2 DEF Contains
      <4>1. n - Kept(n) + j \in 1..n /\ n - Kept(n) + j # p
        BY <1>1, <2>1, <2>5, <3>1
      <4>2. recorded[n - Kept(n) + j] = recorded[p]
        BY <2>1, <2>2
      <4> QED
        BY <1>1, <2>1, <4>1, <4>2 DEF OnceInv
    <3> QED
      BY <1>2, <1>3, <2>3, <2>5, <3>1, <3>2 DEF s
  <2> QED
    BY <1>1, <2>1, <2>4, <2>5
<1> QED
  BY <1>2, <1>3

(* The log is the latest calls in the order they were added, each once,    *)
(* however its body is read and closed; and once the notices have arrived  *)
(* the section shows the call that was chosen, or the oldest left when that *)
(* one was pushed out (Recorder, roundTripper, apiLogMsg), until a row is  *)
(* chosen before a notice has arrived, which opens another one.            *)
THEOREM LogIsAlwaysFaithful == LogSpec => []LogIsFaithful
<1>1. LogInit => LogInv
  BY LogInitHolds
<1>2. LogInv /\ [LogNext]_logVars => LogInv'
  BY LogStepsHold
<1>3. LogInv => LogIsFaithful
  BY LogInvMeansRing, LogInvMeansPin DEF LogIsFaithful
<1> QED
  BY <1>1, <1>2, <1>3, PTL DEF LogSpec

(* The log of the whole playground: a step of another section leaves it.   *)
LEMMA LogStarts == PlaygroundInit => LogInv
BY LogInitHolds DEF PlaygroundInit

LEMMA LogStays == LogInv /\ [PlaygroundNext]_<<vars, panelVars, logVars, visit>> => LogInv'
<1>1. [PlaygroundNext]_<<vars, panelVars, logVars, visit>> => [LogNext]_logVars
  BY DEF PlaygroundNext
<1> QED
  BY <1>1, LogStepsHold

(* The same of the log while the rest of the playground is in use: what the *)
(* other sections do leaves it as it is (runtime.go, apilog).               *)
THEOREM TheLogStaysFaithful == PlaygroundSpec => []LogIsFaithful
<1>1. LogInv => LogIsFaithful
  BY LogInvMeansRing, LogInvMeansPin DEF LogIsFaithful
<1> QED
  BY <1>1, LogStarts, LogStays, PTL DEF PlaygroundSpec

-------------------------------------------------------------------------------
(* The workbench: its types.                                               *)

Names == Stores \cup {None}
ModelIds == Stores \X Nat
Texts == [of : Names, done : SUBSET Rewrites, wrong : BOOLEAN]
Contents == {"absent", "one", "two", "bad"}
Workspaces == [root : Samples, text : [Files -> Contents], files : SUBSET Files]

Questions == [do : {"store"}, store : Stores] \cup [do : {"file"}, root : Samples, file : Files]
Interfaces ==
    [store : Names, model : ModelIds \cup {None}, dsl : Texts \cup {None}, list : SUBSET Stores,
     section : {"stores", "model", "tests"}, applying : BOOLEAN, creating : BOOLEAN,
     deleting : BOOLEAN, confirm : Questions \cup {None}, editor : BOOLEAN]
Benches ==
    [proto : Texts \cup {None}, applied : SUBSET Rewrites, is : {"noGraph", "differs", "same"}]
Optimizers ==
    [view : {"none", "bench", "review"}, running : BOOLEAN, proto : Texts \cup {None},
     accepted : SUBSET Rewrites, applied : SUBSET Rewrites, selBench : Benches \cup {None},
     writeBench : Benches \cup {None}, err : BOOLEAN, dialog : BOOLEAN]
Workbenches ==
    [at : Names, files : SUBSET Files, running : BOOLEAN,
     results : [ws : Workspaces, filter : SUBSET Files] \cup {None}, prompt : BOOLEAN]

Replies == {"ok", "failed", NoAnswer}
StoreReads == [kind : {"stores"}]
ModelReads == [kind : {"model"}, store : Names, id : ModelIds \cup {None}]
BenchRuns ==
    [kind : {"bench"}, of : {"profile", "selection", "write"}, proto : Texts \cup {None},
     applied : SUBSET Rewrites, store : Names, model : ModelIds \cup {None}]
ModelWrites ==
    [kind : {"apply"}, store : Names, model : ModelIds \cup {None}, text : Texts,
     optimized : BOOLEAN, current : BOOLEAN, answer : Replies]
StoreWrites == [kind : {"create", "delete"}, store : Stores, answer : Replies]
Suites == [kind : {"suite"}, ws : Workspaces, filter : SUBSET Files]
Editors == [kind : {"edited"}, root : Samples, failed : BOOLEAN]
Tasks ==
    StoreReads \cup ModelReads \cup BenchRuns \cup ModelWrites \cup StoreWrites
      \cup Suites \cup Editors

TypeInv ==
    /\ m \in Interfaces
    /\ opt \in Optimizers /\ (opt.view # "none" \/ opt.dialog => opt.proto # None)
    /\ wb \in Workbenches
    /\ workspaces \in [Names -> Workspaces \cup {None}]
    /\ tasks \subseteq Tasks
    /\ models \in [Stores -> Seq(Texts) \cup {None, Gone}]
    /\ disk \in [Samples -> [Files -> Contents]]
    /\ tab \in {"model", "tests"}
    /\ missed \in BOOLEAN /\ stray \subseteq Samples

(* A list that is read by its id names a model of its store, and the store  *)
(* that is being made is not there yet.                                    *)
IdInv ==
    /\ \A t \in tasks : t.kind = "model" /\ t.id # None =>
          /\ t.store \in Stores /\ models[t.store] # None
          /\ t.store \in Existing => t.id[2] \in 1..Len(models[t.store])
    /\ \A t \in tasks : t.kind = "create" =>
          /\ m.creating /\ (t.answer = NoAnswer => models[t.store] = None)
          /\ \A u \in tasks : u.kind = "create" => u = t

(* A task is of one kind.                                                  *)
LEMMA KindsDiffer ==
    ASSUME NEW t \in Tasks
    PROVE  /\ t.kind = "stores" => t \in StoreReads
           /\ t.kind = "model" => t \in ModelReads
           /\ t.kind = "bench" => t \in BenchRuns
           /\ t.kind = "apply" => t \in ModelWrites
           /\ t.kind \in {"create", "delete"} => t \in StoreWrites
           /\ t.kind = "suite" => t \in Suites
           /\ t.kind = "edited" => t \in Editors
BY DEF Tasks, StoreReads, ModelReads, BenchRuns, ModelWrites, StoreWrites, Suites, Editors

(* What happens to the tasks that stay.                                    *)
LEMMA SupersededIs ==
    ASSUME NEW T, NEW K
    PROVE  \A t : t \in Superseded(K, T) <=> t \in T /\ t.kind \notin K
BY DEF Superseded

LEMMA DisownedIs ==
    ASSUME NEW T \in SUBSET Tasks
    PROVE  /\ Disowned(T) \subseteq Tasks
           /\ \A t \in Disowned(T) : t \in T \/ (t.kind = "apply" /\ ~t.current)
           /\ \A t \in T : t.kind # "apply" => t \in Disowned(T)
           /\ \A t \in Disowned(T) : t.kind = "apply" => ~t.current /\ \E u \in T :
                 u.kind = "apply" /\ u.store = t.store /\ u.text = t.text
<1> DEFINE Less(t) == [t EXCEPT !.current = FALSE]
<1>1. ASSUME NEW t \in T, t.kind = "apply"
      PROVE  /\ Less(t) \in Tasks /\ Less(t).kind = "apply" /\ ~Less(t).current
             /\ Less(t).store = t.store /\ Less(t).text = t.text
  <2>1. t \in ModelWrites
    BY <1>1, KindsDiffer
  <2>2. /\ Less(t) \in ModelWrites /\ Less(t).kind = "apply" /\ ~Less(t).current
        /\ Less(t).store = t.store /\ Less(t).text = t.text
    BY <2>1 DEF ModelWrites
  <2> QED
    BY <2>2 DEF Tasks
<1>2. Disowned(T) = {IF t.kind = "apply" THEN Less(t) ELSE t : t \in T}
  BY DEF Disowned
<1> HIDE DEF Less
<1>3. \A t \in Disowned(T) :
         (t \in T /\ t.kind # "apply") \/ \E u \in T : u.kind = "apply" /\ t = Less(u)
  BY <1>2
<1>4. \A t \in T : t.kind # "apply" => t \in Disowned(T)
  BY <1>2
<1> QED
  BY <1>1, <1>3, <1>4

(* A request that has been carried out is the same but for its answer.     *)
LEMMA RepliedIs ==
    ASSUME NEW t \in Tasks, Mutation(t), NEW a \in Replies
    PROVE  LET u == [t EXCEPT !.answer = a]
           IN  /\ u \in Tasks /\ u.kind = t.kind /\ u.store = t.store /\ u.answer = a
               /\ t.kind = "apply" => u.text = t.text /\ u.current = t.current
                                        /\ u.model = t.model /\ u.optimized = t.optimized
BY KindsDiffer DEF ModelWrites, StoreWrites, Tasks, Mutation

USE WorkbenchAssumption DEF WorkbenchAssumption

LEMMA ParsedTyped ==
    ASSUME NEW r \in Samples, NEW d \in [Files -> Contents]
    PROVE  /\ Parsed(r, d) \in Workspaces /\ Parsed(r, d).root = r /\ Parsed(r, d).text = d
           /\ Parsed(r, d).files \subseteq Files
BY DEF Parsed, Present, Workspaces

LEMMA ClosedTyped == Closed \in Optimizers /\ Closed.proto = None /\ Closed.view = "none" /\ ~Closed.dialog
<1>1. /\ Closed.view = "none" /\ Closed.proto = None
      /\ ~Closed.dialog /\ ~Closed.running /\ ~Closed.err
      /\ Closed.selBench = None /\ Closed.writeBench = None
      /\ Closed.accepted = {} /\ Closed.applied = {}
  BY DEF Closed
<1>2. Closed \in Optimizers
  BY DEF Closed, Optimizers
<1> QED
  BY <1>1, <1>2

LEMMA FollowsTyped ==
    ASSUME TypeInv, NEW s \in Names, Follows(s)
    PROVE  wb' \in Workbenches /\ missed' \in BOOLEAN /\ UNCHANGED <<workspaces, stray>>
<1>0. UNCHANGED <<workspaces, stray>>
  BY DEF Follows
<1>1. missed' \in BOOLEAN
  BY DEF Follows, TypeInv
<1>2. CASE Same(s)
  BY <1>0, <1>1, <1>2 DEF Follows, TypeInv
<1>3. CASE ~Same(s)
  <2> DEFINE fs == IF workspaces[s] = None THEN {} ELSE workspaces[s].files
  <2>1. fs \in SUBSET Files
    <3>1. workspaces[s] \in Workspaces \cup {None}
      BY DEF TypeInv
    <3> QED
      BY <3>1 DEF Workspaces
  <2>2. wb' = [NoRun EXCEPT !.at = s, !.files = fs]
    BY <1>3 DEF Follows
  <2> HIDE DEF fs
  <2>3. wb' \in Workbenches
    BY <2>1, <2>2 DEF NoRun, Workbenches, TypeInv
  <2> QED
    BY <1>0, <1>1, <2>3
<1> QED
  BY <1>2, <1>3

LEMMA SelectTyped ==
    ASSUME TypeInv, NEW s \in Stores, NEW m_ \in Interfaces, NEW T \in SUBSET Tasks, Select(s, m_, T)
    PROVE  /\ m' \in Interfaces /\ opt' = Closed /\ wb' \in Workbenches /\ missed' \in BOOLEAN
           /\ UNCHANGED <<workspaces, stray>> /\ tasks' \subseteq Tasks
<1>1. m' \in Interfaces
  BY DEF Select, OnStore, Owned, Interfaces, Names
<1>2. wb' \in Workbenches /\ missed' \in BOOLEAN /\ UNCHANGED <<workspaces, stray>>
  BY FollowsTyped DEF Select, Names
<1>3. ModelRead(s, None) \in Tasks
  BY DEF ModelRead, Tasks, ModelReads, Names
<1>4. Disowned(Superseded({"bench", "model"}, T)) \subseteq Tasks
  BY SupersededIs, DisownedIs
<1>5. Swapped(s, Disowned(Superseded({"bench", "model"}, T))) \subseteq Tasks
  BY <1>4, SupersededIs DEF Swapped, Left
<1> QED
  BY <1>1, <1>2, <1>3, <1>5 DEF Select

(* A new task, and what the keys of the Model tab have in common.          *)
LEMMA BenchTyped ==
    ASSUME TypeInv, NEW o \in Optimizers, NEW kind \in {"profile", "selection", "write"}
    PROVE  Bench(kind, o) \in Tasks /\ Benching(o) \in Optimizers
<1>1. m.store \in Names /\ m.model \in ModelIds \cup {None}
  BY DEF TypeInv, Interfaces
<1>2. o.proto \in Texts \cup {None} /\ o.applied \in SUBSET Rewrites
  BY DEF Optimizers
<1>3. Bench(kind, o) \in BenchRuns
  BY <1>1, <1>2 DEF Bench, BenchRuns
<1>4. Benching(o) \in Optimizers
  BY DEF Benching, Optimizers
<1> QED
  BY <1>3, <1>4 DEF Tasks

LEMMA WriteTyped ==
    ASSUME TypeInv, NEW text \in Texts, NEW optimized \in BOOLEAN, Write(text, optimized)
    PROVE  TypeInv'
<1>1. m' \in Interfaces
  BY DEF Write, TypeInv, Interfaces
<1>2. tasks' \subseteq Tasks
  <2>1. [kind |-> "apply", store |-> m.store, model |-> m.model, text |-> text,
         optimized |-> optimized, current |-> TRUE, answer |-> NoAnswer] \in Tasks
    BY DEF Tasks, ModelWrites, TypeInv, Interfaces, Replies
  <2> QED
    BY <2>1, DisownedIs DEF Write, TypeInv
<1> QED
  BY <1>1, <1>2 DEF Write, TypeInv, NoFault, Still, History

(* The keys of the Stores tab.                                             *)
LEMMA RestTyped ==
    ASSUME TypeInv, UNCHANGED <<wb, workspaces, models, disk, tab, missed, stray>>,
           m' \in Interfaces, tasks' \subseteq Tasks, opt' \in Optimizers,
           opt'.view # "none" \/ opt'.dialog => opt'.proto # None
    PROVE  TypeInv'
BY DEF TypeInv

LEMMA SelectedTyped ==
    ASSUME TypeInv, NEW s \in Stores, NEW m_ \in Interfaces, NEW T \in SUBSET Tasks, Select(s, m_, T), Still
    PROVE  TypeInv'
BY SelectTyped, ClosedTyped DEF TypeInv, Still

LEMMA StoreKeysTyped ==
    ASSUME TypeInv, StoreKeys
    PROVE  TypeInv'
<1> USE DEF NoFault, Still, History
<1>1. ASSUME NEW s \in Stores, PickStore(s)
      PROVE  TypeInv'
  BY <1>1, SelectedTyped DEF PickStore, TypeInv
<1>2. ASSUME NEW s \in Stores, CreateStore(s)
      PROVE  TypeInv'
  <2>1. [kind |-> "create", store |-> s, answer |-> NoAnswer] \in Tasks
    BY DEF Tasks, StoreWrites, Replies
  <2>2. m' \in Interfaces
    BY <1>2 DEF CreateStore, TypeInv, Interfaces
  <2> QED
    BY <1>2, <2>1, <2>2, RestTyped DEF CreateStore, TypeInv
<1>3. ASSUME NEW s \in Stores, AskDeleteStore(s)
      PROVE  TypeInv'
  <2>1. m' \in Interfaces
    BY <1>3 DEF AskDeleteStore, Asked, TypeInv, Interfaces, Questions
  <2> QED
    BY <1>3, <2>1, RestTyped DEF AskDeleteStore, Asked, TypeInv
<1>4. ASSUME NEW to \in {"stores", tab}, GotoSection(to)
      PROVE  TypeInv'
  <2>1. m' \in Interfaces
    BY <1>4 DEF GotoSection, TypeInv, Interfaces
  <2>2. CASE to = "model"
    BY <1>4, <2>1, <2>2, RestTyped DEF GotoSection, TypeInv
  <2>3. CASE to # "model"
    BY <1>4, <2>1, <2>3, RestTyped, ClosedTyped, SupersededIs DEF GotoSection, Stopped, TypeInv
  <2> QED
    BY <2>2, <2>3
<1>5. CASE ReloadStores
  <2>1. StoresRead \in Tasks
    BY DEF StoresRead, Tasks, StoreReads
  <2> QED
    BY <1>5, <2>1, RestTyped, SupersededIs DEF ReloadStores, TypeInv
<1>6. CASE Cancel
  <2>1. m' \in Interfaces
    BY <1>6 DEF Cancel, Asked, TypeInv, Interfaces
  <2> QED
    BY <1>6, <2>1, RestTyped DEF Cancel, Asked, TypeInv
<1>7. CASE DeleteStore
  <2>1. m' \in Interfaces
    BY <1>7 DEF DeleteStore, Answered, TypeInv, Interfaces
  <2>2. m.confirm.store \in Stores
    BY <1>7 DEF DeleteStore, TypeInv, Interfaces, Questions
  <2>3. [kind |-> "delete", store |-> m.confirm.store, answer |-> NoAnswer] \in Tasks
    BY <2>2 DEF Tasks, StoreWrites, Replies
  <2> QED
    BY <1>7, <2>1, <2>3, RestTyped DEF DeleteStore, TypeInv
<1> QED
  BY <1>1, <1>2, <1>3, <1>4, <1>5, <1>6, <1>7 DEF StoreKeys

(* The keys of the Model tab.                                              *)
LEMMA ModelKeysTyped ==
    ASSUME TypeInv, ModelKeys
    PROVE  TypeInv'
<1> USE DEF NoFault, Still, History
<1>s. Stopped(tasks) \subseteq Tasks /\ Forgotten(tasks) \subseteq Tasks
  BY SupersededIs DEF Stopped, Forgotten, TypeInv
<1>b. ASSUME NEW kind \in {"profile", "selection", "write"}, NEW o \in Optimizers,
             o.proto # None, StartBench(kind, o), Pane
      PROVE  TypeInv'
  <2>1. tasks' \subseteq Tasks /\ opt' \in Optimizers
    BY <1>b, BenchTyped, SupersededIs DEF StartBench, TypeInv
  <2>2. opt'.proto # None
    BY <1>b DEF StartBench, Benching, Optimizers
  <2> QED
    BY <1>b, <2>1, <2>2, RestTyped DEF Pane, TypeInv
<1>1. CASE OpenBench
  <2> DEFINE o == [opt EXCEPT !.view = "bench", !.proto = m.dsl]
  <2>1. m.dsl \in Texts /\ m.dsl # None
    BY <1>1 DEF OpenBench, Loaded, TypeInv, Interfaces
  <2>2. o \in Optimizers /\ o.proto # None
    BY <2>1 DEF TypeInv, Optimizers
  <2> QED
    BY <1>1, <1>b, <2>2 DEF OpenBench
<1>2. CASE OpenReview
  <2>1. m.dsl \in Texts /\ m.dsl # None
    BY <1>2 DEF OpenReview, Loaded, TypeInv, Interfaces
  <2>2. opt' \in Optimizers /\ opt'.proto # None
    BY <1>2, <2>1, ClosedTyped DEF OpenReview, Optimizers
  <2> QED
    BY <1>2, <1>s, <2>2, RestTyped DEF OpenReview, Pane, TypeInv
<1>3. CASE LeaveOptimizer
  BY <1>3, <1>s, ClosedTyped, RestTyped DEF LeaveOptimizer, Pane, TypeInv
<1>4. CASE MoveCursor
  <2>1. opt' \in Optimizers /\ opt'.proto # None
    BY <1>4 DEF MoveCursor, InModel, TypeInv, Optimizers
  <2> QED
    BY <1>4, <2>1, RestTyped DEF MoveCursor, Pane, TypeInv
<1>a. ASSUME NEW accepted \in SUBSET Rewrites, opt.view = "review", Accept(accepted)
      PROVE  TypeInv'
  <2>1. Subset(accepted) \in SUBSET Rewrites
    BY DEF Subset
  <2>2. opt' \in Optimizers /\ opt'.proto # None
    BY <1>a, <2>1 DEF Accept, Invalidated, TypeInv, Optimizers
  <2> QED
    BY <1>a, <1>s, <2>2, RestTyped DEF Accept, Pane, TypeInv
<1>5. CASE Toggle \/ ToggleAll
  <2>1. Rows \subseteq Rewrites /\ opt.accepted \subseteq Rewrites
    BY DEF Rows, TypeInv, Optimizers
  <2> QED
    BY <1>5, <1>a, <2>1 DEF Toggle, ToggleAll
<1>6. CASE BenchSelection
  <2> DEFINE o == [opt EXCEPT !.selBench = None]
  <2>1. o \in Optimizers /\ o.proto # None
    BY <1>6 DEF BenchSelection, TypeInv, Optimizers
  <2> QED
    BY <1>6, <1>b, <2>1 DEF BenchSelection
<1>7. CASE OpenWriteDialog
  <2> DEFINE o == [opt EXCEPT !.dialog = TRUE, !.writeBench = None]
  <2>1. o \in Optimizers /\ o.proto # None
    BY <1>7 DEF OpenWriteDialog, TypeInv, Optimizers
  <2> QED
    BY <1>7, <1>b, <2>1 DEF OpenWriteDialog
<1>8. CASE CloseWriteDialog
  <2>1. opt' \in Optimizers /\ opt'.proto # None
    BY <1>8 DEF CloseWriteDialog, InDialog, Invalidated, TypeInv, Optimizers
  <2> QED
    BY <1>8, <1>s, <2>1, RestTyped DEF CloseWriteDialog, Pane, TypeInv
<1>9. CASE WriteOptimized
  <2>1. opt.proto \in Texts /\ opt.applied \in SUBSET Rewrites
    BY <1>9 DEF WriteOptimized, InDialog, TypeInv, Optimizers
  <2>2. After(opt.proto, opt.applied) \in Texts
    BY <2>1 DEF After, Texts
  <2> QED
    BY <1>9, <2>2, WriteTyped DEF WriteOptimized
<1>10. ASSUME NEW id \in ModelIds \cup {None}, ReloadModel(id)
       PROVE  TypeInv'
  <2>1. m' \in Interfaces
    BY <1>10 DEF ReloadModel, Owned, TypeInv, Interfaces
  <2>2. ModelRead(m.store, id) \in Tasks
    BY DEF ModelRead, Tasks, ModelReads, TypeInv, Interfaces
  <2>3. tasks' \subseteq Tasks
    BY <1>10, <2>2, DisownedIs, SupersededIs DEF ReloadModel, TypeInv
  <2> QED
    BY <1>10, <2>1, <2>3, RestTyped DEF ReloadModel, TypeInv
<1>11. ASSUME NEW n \in 1..MaxModels, m.store \in Existing
       PROVE  <<m.store, n>> \in ModelIds
  BY <1>11 DEF ModelIds, Existing
<1>12. CASE OpenEditor \/ CloseEditor
  <2>1. m' \in Interfaces
    BY <1>12 DEF OpenEditor, CloseEditor, TypeInv, Interfaces
  <2> QED
    BY <1>12, <2>1, RestTyped DEF OpenEditor, CloseEditor, TypeInv
<1>13. CASE WriteEdited
  <2>1. Text(m.store, {}) \in Texts
    BY DEF Text, Texts, TypeInv, Interfaces
  <2> QED
    BY <1>13, <2>1, WriteTyped DEF WriteEdited
<1> QED
  BY <1>1, <1>2, <1>3, <1>4, <1>5, <1>6, <1>7, <1>8, <1>9, <1>10, <1>11, <1>12, <1>13
     DEF ModelKeys

(* The keys of the Tests tab.                                              *)
LEMMA ValidTyped ==
    ASSUME TypeInv, NEW s \in Names
    PROVE  workspaces[s] # None =>
              /\ workspaces[s] \in Workspaces /\ workspaces[s].root \in Samples
              /\ workspaces[s].text \in [Files -> Contents] /\ workspaces[s].files \subseteq Files
<1>1. workspaces[s] \in Workspaces \cup {None}
  BY DEF TypeInv
<1> QED
  BY <1>1 DEF Workspaces

LEMMA WorkspaceTyped ==
    ASSUME TypeInv
    PROVE  Workspace # None =>
              /\ Workspace \in Workspaces /\ Workspace.root \in Samples
              /\ Workspace.text \in [Files -> Contents] /\ Workspace.files \subseteq Files
<1>1. wb.at \in Names
  BY DEF TypeInv, Workbenches
<1> QED
  BY <1>1, ValidTyped DEF Workspace

LEMMA EditorTyped ==
    ASSUME TypeInv, NEW root \in Samples, NEW f \in Files,
           NEW contents \in SUBSET Contents, EditorRuns(root, f, contents)
    PROVE  disk' \in [Samples -> [Files -> Contents]] /\ tasks' \subseteq Tasks
<1>1. PICK c \in contents, failed \in BOOLEAN :
         /\ disk' = [disk EXCEPT ![root][f] = c]
         /\ tasks' = tasks \cup {[kind |-> "edited", root |-> root, failed |-> failed]}
  BY DEF EditorRuns
<1>2. [kind |-> "edited", root |-> root, failed |-> failed] \in Tasks
  BY DEF Tasks, Editors
<1> QED
  BY <1>1, <1>2 DEF TypeInv

LEMMA RerunTyped ==
    ASSUME NEW w \in Workbenches, NEW ws \in Workspaces, NEW T \in SUBSET Tasks, Rerun(w, ws, T)
    PROVE  wb' \in Workbenches /\ tasks' \subseteq Tasks /\ missed' \in BOOLEAN
<1>1. Suite(ws, Files) \in Tasks
  BY DEF Suite, Tasks, Suites
<1>2. wb' \in Workbenches /\ missed' \in BOOLEAN
  BY DEF Rerun, Workbenches
<1> QED
  BY <1>1, <1>2 DEF Rerun

LEMMA ReloadedTyped ==
    ASSUME TypeInv, NEW r \in Samples, NEW d \in [Files -> Contents]
    PROVE  /\ Remembered(Parsed(r, d)) \in [Names -> Workspaces \cup {None}]
           /\ Reloaded(Parsed(r, d)) \in Workbenches
<1>1. m.store \in Names
  BY DEF TypeInv, Interfaces
<1> HIDE DEF Names
<1>2. Remembered(Parsed(r, d)) \in [Names -> Workspaces \cup {None}]
  BY <1>1, ParsedTyped DEF Remembered, TypeInv
<1>3. Reloaded(Parsed(r, d)) \in Workbenches
  BY <1>1, ParsedTyped DEF Reloaded, TypeInv, Workbenches
<1> QED
  BY <1>2, <1>3

LEMMA TestKeysTyped ==
    ASSUME TypeInv, TestKeys
    PROVE  TypeInv'
<1> USE DEF NoFault, Quiet, History
<1>0. wb.files \subseteq Files
  BY DEF TypeInv, Workbenches
<1>1. ASSUME NEW filter \in SUBSET Files, RunSuite(filter)
      PROVE  TypeInv'
  <2>1. Suite(Workspace, filter) \in Tasks
    BY <1>1, WorkspaceTyped DEF RunSuite, Suite, Tasks, Suites
  <2>2. wb' \in Workbenches
    BY <1>1 DEF RunSuite, TypeInv, Workbenches
  <2> QED
    BY <1>1, <2>1, <2>2 DEF RunSuite, TypeInv
<1>2. CASE RunFile
  BY <1>0, <1>1, <1>2 DEF RunFile
<1>3. CASE OpenWorkbenchEditor
  <2>1. {"one", "two", "bad"} \in SUBSET Contents
    BY DEF Contents
  <2>2. disk' \in [Samples -> [Files -> Contents]] /\ tasks' \subseteq Tasks
    BY <1>0, <1>3, <2>1, WorkspaceTyped, EditorTyped DEF OpenWorkbenchEditor
  <2> QED
    BY <1>3, <2>2 DEF OpenWorkbenchEditor, TypeInv
<1>4. CASE OpenNewPrompt \/ CancelNewPrompt
  <2>1. wb' \in Workbenches
    BY <1>4 DEF OpenNewPrompt, CancelNewPrompt, TypeInv, Workbenches
  <2> QED
    BY <1>4, <2>1 DEF OpenNewPrompt, CancelNewPrompt, TypeInv
<1>5. CASE SubmitNewPrompt
  <2>1. {"one", "bad"} \in SUBSET Contents
    BY DEF Contents
  <2>2. disk' \in [Samples -> [Files -> Contents]] /\ tasks' \subseteq Tasks
    BY <1>5, <2>1, WorkspaceTyped, EditorTyped DEF SubmitNewPrompt
  <2>3. wb' \in Workbenches
    BY <1>5 DEF SubmitNewPrompt, TypeInv, Workbenches
  <2> QED
    BY <1>5, <2>2, <2>3 DEF SubmitNewPrompt, TypeInv
<1>6. CASE AskDeleteFile
  <2>1. PICK f \in wb.files : Asked([do |-> "file", root |-> Workspace.root, file |-> f])
    BY <1>6 DEF AskDeleteFile
  <2>2. [do |-> "file", root |-> Workspace.root, file |-> f] \in Questions
    BY <1>0, <1>6, WorkspaceTyped DEF AskDeleteFile, Questions
  <2>3. m' \in Interfaces
    BY <2>1, <2>2 DEF Asked, TypeInv, Interfaces
  <2> QED
    BY <2>1, <2>3, RestTyped DEF Asked, Still, TypeInv
<1>7. CASE DeleteFile
  <2> DEFINE root == m.confirm.root
             left == [disk[root] EXCEPT ![m.confirm.file] = "absent"]
             ws == Parsed(root, left)
  <2>1. root \in Samples
    BY <1>7 DEF DeleteFile, TypeInv, Interfaces, Questions
  <2>2. disk[root] \in [Files -> Contents]
    BY <2>1 DEF TypeInv
  <2>3. left \in [Files -> Contents]
    BY <2>2 DEF Contents
  <2>4. m' \in Interfaces
    BY <1>7 DEF DeleteFile, Answered, TypeInv, Interfaces
  <2>5. CASE ~WithinRoot(root) \/ disk[root][m.confirm.file] = "absent"
    BY <1>7, <2>4, <2>5 DEF DeleteFile, TypeInv
  <2>6. CASE ~(~WithinRoot(root) \/ disk[root][m.confirm.file] = "absent")
    <3> HIDE DEF root, left
    <3>1. disk' = [disk EXCEPT ![root] = left]
      BY <1>7, <2>6 DEF DeleteFile, root, left
    <3>2. disk' \in [Samples -> [Files -> Contents]]
      BY <2>1, <2>3, <3>1 DEF TypeInv
    <3>3. CASE ~Valid(left)
      <4>1. wb' = [wb EXCEPT !.files = {}] /\ UNCHANGED <<workspaces, tasks, missed, stray>>
        BY <1>7, <2>6, <3>3 DEF DeleteFile, root, left
      <4>2. wb' \in Workbenches
        BY <4>1 DEF TypeInv, Workbenches
      <4> QED
        BY <1>7, <2>4, <3>2, <4>1, <4>2 DEF DeleteFile, TypeInv
    <3>4. CASE Valid(left)
      <4>1. /\ workspaces' = Remembered(ws) /\ stray' = stray \cup Misfiled
            /\ IF ws.files # {} THEN Rerun(Reloaded(ws), ws, tasks)
               ELSE wb' = Reloaded(ws) /\ missed' = TRUE /\ UNCHANGED tasks
        BY <1>7, <2>6, <3>4 DEF DeleteFile, root, left
      <4>2. ws \in Workspaces /\ workspaces' \in [Names -> Workspaces \cup {None}]
              /\ Reloaded(ws) \in Workbenches
        BY <2>1, <2>3, <4>1, ParsedTyped, ReloadedTyped
      <4>3. stray' \subseteq Samples
        BY <4>1, WorkspaceTyped DEF Misfiled, TypeInv
      <4>4. tasks \subseteq Tasks
        BY DEF TypeInv
      <4>5. wb' \in Workbenches /\ tasks' \subseteq Tasks /\ missed' \in BOOLEAN
        BY <4>1, <4>2, <4>4, RerunTyped
      <4> QED
        BY <1>7, <2>4, <3>2, <4>2, <4>3, <4>5 DEF DeleteFile, TypeInv
    <3> QED
      BY <3>3, <3>4
  <2> QED
    BY <2>5, <2>6
<1> QED
  BY <1>1, <1>2, <1>3, <1>4, <1>5, <1>6, <1>7 DEF TestKeys

(* The server.                                                             *)
LEMMA EffectTyped ==
    ASSUME TypeInv, NEW t \in tasks, Mutation(t)
    PROVE  Effect(t) \in [Stores -> Seq(Texts) \cup {None, Gone}]
<1>1. t \in Tasks
  BY DEF TypeInv
<1>2. CASE t.kind = "create"
  <2>1. t.store \in Stores
    BY <1>1, <1>2, KindsDiffer DEF StoreWrites
  <2> QED
    BY <1>2, <2>1 DEF Effect, TypeInv
<1>3. CASE t.kind = "delete"
  BY <1>3 DEF Effect, TypeInv
<1>4. CASE t.kind = "apply"
  <2>1. t.text \in Texts
    BY <1>1, <1>4, KindsDiffer DEF ModelWrites
  <2>2. CASE t.store \in Existing
    <3>1. models[t.store] \in Seq(Texts)
      BY <2>2 DEF Existing, TypeInv
    <3> HIDE DEF Texts
    <3>2. Append(models[t.store], t.text) \in Seq(Texts)
      BY <2>1, <3>1
    <3> QED
      BY <1>4, <2>2, <3>2 DEF Effect, TypeInv
  <2> QED
    BY <1>4, <2>2 DEF Effect, TypeInv
<1> QED
  BY <1>2, <1>3, <1>4 DEF Mutation

LEMMA ServerTyped ==
    ASSUME TypeInv, (\E t \in tasks : Serve(t)) \/ OtherClient
    PROVE  TypeInv'
<1>1. ASSUME NEW t \in tasks, Serve(t)
      PROVE  TypeInv'
  <2>1. t \in Tasks /\ Mutation(t)
    BY <1>1 DEF TypeInv, Serve
  <2>2. models' \in [Stores -> Seq(Texts) \cup {None, Gone}]
    <3>1. models' \in {models, Effect(t)}
      BY <1>1 DEF Serve
    <3> QED
      BY <2>1, <3>1, EffectTyped DEF TypeInv
  <2>3. PICK answer \in {"ok", "failed"} : Replied(t, answer)
    BY <1>1 DEF Serve
  <2>4. answer \in Replies
    BY DEF Replies
  <2>5. tasks' \subseteq Tasks
    BY <2>1, <2>3, <2>4, RepliedIs DEF Replied, TypeInv
  <2> QED
    BY <1>1, <2>2, <2>5 DEF Serve, Unseen, TypeInv
<1>2. CASE OtherClient
  <2>1. PICK s \in Existing : models' = [models EXCEPT ![s] = Append(@, Text(s, {}))]
    BY <1>2 DEF OtherClient
  <2>2. models[s] \in Seq(Texts) /\ Text(s, {}) \in Texts
    BY DEF Existing, TypeInv, Text, Texts, Names
  <2> HIDE DEF Texts
  <2>3. Append(models[s], Text(s, {})) \in Seq(Texts)
    BY <2>2
  <2>4. models' \in [Stores -> Seq(Texts) \cup {None, Gone}]
    BY <2>1, <2>3 DEF TypeInv, Existing
  <2> QED
    BY <1>2, <2>4 DEF OtherClient, Unseen, TypeInv
<1> QED
  BY <1>1, <1>2

(* The completions.                                                        *)
LEMMA FoundIsThere ==
    ASSUME TypeInv, IdInv, NEW t \in tasks, t.kind = "model", Found(t) # None
    PROVE  /\ t.store \in Existing /\ Found(t) \in ModelIds
           /\ Found(t)[2] \in 1..Len(models[t.store]) /\ models[t.store] \in Seq(Texts)
           /\ models[t.store][Found(t)[2]] \in Texts
<1>1. t \in ModelReads
  BY KindsDiffer DEF TypeInv
<1>2. ASSUME t.store \in Existing
      PROVE  models[t.store] \in Seq(Texts) /\ t.store \in Stores
  BY <1>2 DEF Existing, TypeInv
<1>3. CASE t.id = None \/ t.store \notin Existing
  <2>1. t.store \in Existing /\ models[t.store] # <<>> /\ Found(t) = <<t.store, Len(models[t.store])>>
    BY <1>3 DEF Found, Latest
  <2>2. models[t.store] \in Seq(Texts) /\ t.store \in Stores
    BY <1>2, <2>1
  <2> HIDE DEF Texts
  <2>3. Len(models[t.store]) \in Nat /\ Len(models[t.store]) # 0
    BY <2>1, <2>2, EmptySeq, LenProperties
  <2>4. Len(models[t.store]) \in 1..Len(models[t.store])
    BY <2>3
  <2>5. models[t.store][Len(models[t.store])] \in Texts
    BY <2>2, <2>4, ElementOfSeq
  <2> QED
    BY <2>1, <2>2, <2>3, <2>4, <2>5 DEF ModelIds
<1>4. CASE t.id # None /\ t.store \in Existing
  <2>1. Found(t) = t.id /\ t.id[2] \in 1..Len(models[t.store]) /\ t.id \in ModelIds
    BY <1>1, <1>4 DEF Found, IdInv, ModelReads
  <2>2. models[t.store][t.id[2]] \in Texts
    BY <1>2, <1>4, <2>1, ElementOfSeq
  <2> QED
    BY <1>2, <1>4, <2>1, <2>2
<1> QED
  BY <1>3, <1>4

LEMMA ReadsTyped ==
    ASSUME TypeInv, IdInv, NEW t \in tasks, StoresLoaded(t) \/ ModelLoaded(t), Still
    PROVE  TypeInv'
<1> USE DEF NoFault, Still, History
<1>0. Others(t) \in SUBSET Tasks
  BY DEF Others, TypeInv
<1>1. CASE Failed(t)
  BY <1>0, <1>1, RestTyped DEF Failed, Ended, TypeInv
<1>2. CASE StoresLoaded(t) /\ ~Failed(t)
  <2> DEFINE listed == [m EXCEPT !.list = Existing]
  <2>1. listed \in Interfaces
    BY DEF TypeInv, Interfaces, Existing
  <2>2. CASE m.store # None \/ Existing = {}
    <3>1. m' = listed /\ Follows(m.store) /\ tasks' = Swapped(m.store, Others(t)) /\ UNCHANGED opt
      BY <1>2, <2>2 DEF StoresLoaded
    <3>2. tasks' \subseteq Tasks
      BY <1>0, <3>1, SupersededIs DEF Swapped, Left
    <3>3. m.store \in Names
      BY DEF TypeInv, Interfaces
    <3>4. wb' \in Workbenches /\ missed' \in BOOLEAN /\ UNCHANGED <<workspaces, stray>>
      BY <3>1, <3>3, FollowsTyped
    <3> QED
      BY <2>1, <3>1, <3>2, <3>4 DEF TypeInv
  <2>3. CASE m.store = None /\ Existing # {}
    <3>1. PICK s \in Existing : Select(s, listed, Others(t))
      BY <1>2, <2>3 DEF StoresLoaded
    <3>2. s \in Stores
      BY DEF Existing
    <3> QED
      BY <1>0, <2>1, <3>1, <3>2, SelectedTyped
  <2> QED
    BY <2>2, <2>3
<1>3. CASE ModelLoaded(t) /\ ~Failed(t) /\ (Found(t) = None \/ t.store # m.store)
  BY <1>0, <1>3, RestTyped DEF ModelLoaded, Ended, TypeInv
<1>4. CASE ModelLoaded(t) /\ ~Failed(t) /\ Found(t) # None /\ t.store = m.store
  <2> DEFINE text == models[t.store][Found(t)[2]]
             switched == m.model # None /\ Found(t) # m.model
             changed == Found(t) # m.model \/ text # m.dsl
             rest == IF switched THEN Disowned(Others(t)) ELSE Others(t)
  <2>1. Found(t) \in ModelIds /\ text \in Texts
    BY <1>4, FoundIsThere DEF ModelLoaded
  <2>2. /\ m' = [(IF switched THEN Owned(m) ELSE m) EXCEPT !.model = Found(t), !.dsl = text]
        /\ opt' = IF changed THEN Closed ELSE opt
        /\ tasks' = IF changed THEN Stopped(rest) ELSE rest
        /\ UNCHANGED <<wb, workspaces>> /\ History
    BY <1>4 DEF ModelLoaded
  <2> HIDE DEF text, switched, changed
  <2>3. m' \in Interfaces
    BY <2>1, <2>2 DEF Owned, TypeInv, Interfaces
  <2>4. tasks' \subseteq Tasks
    BY <1>0, <2>2, SupersededIs, DisownedIs DEF Stopped
  <2>5. opt' \in Optimizers /\ (opt'.view # "none" \/ opt'.dialog => opt'.proto # None)
    BY <2>2, ClosedTyped DEF TypeInv
  <2> QED
    BY <2>2, <2>3, <2>4, <2>5, RestTyped
<1> QED
  BY <1>1, <1>2, <1>3, <1>4 DEF StoresLoaded, ModelLoaded

LEMMA ShownTyped ==
    ASSUME TypeInv, NEW t \in BenchRuns, NEW failed \in BOOLEAN
    PROVE  /\ Shown(t, failed) \in Optimizers /\ Shown(t, failed).view = opt.view
           /\ Shown(t, failed).proto = opt.proto /\ Shown(t, failed).dialog = opt.dialog
<1>1. Result(t) \in Benches
  BY DEF Result, Benches, BenchRuns
<1> QED
  BY <1>1 DEF Shown, TypeInv, Optimizers

LEMMA MutationsTyped ==
    ASSUME TypeInv, NEW t \in tasks, ModelApplied(t) \/ StoreCreated(t) \/ StoreDeleted(t), Still
    PROVE  TypeInv'
<1> USE DEF Still, History
<1>0. Others(t) \in SUBSET Tasks
  BY DEF Others, TypeInv
<1>1. ASSUME Ended(t), m' \in Interfaces
      PROVE  TypeInv'
  BY <1>0, <1>1, RestTyped DEF Ended, TypeInv
<1>r. StoresRead \in Tasks
  BY DEF StoresRead, Tasks, StoreReads
<1>2. CASE ModelApplied(t)
  <2> DEFINE done == [m EXCEPT !.applying = FALSE, !.editor = @ /\ (t.optimized \/ ~Ok(t))]
             reload == Superseded({"model"}, Others(t)) \cup {ModelRead(m.store, None)}
  <2>1. t.optimized \in BOOLEAN
    BY <1>2, KindsDiffer DEF ModelApplied, TypeInv, ModelWrites
  <2>2. done \in Interfaces
    BY <2>1 DEF TypeInv, Interfaces, Ok
  <2>3. reload \subseteq Tasks
    <3>1. ModelRead(m.store, None) \in Tasks
      BY DEF ModelRead, Tasks, ModelReads, TypeInv, Interfaces
    <3> QED
      BY <1>0, <3>1, SupersededIs
  <2>4. CASE StaleApply(t) \/ ~Ok(t)
    <3>1. Ended(t) /\ m' \in {m, done}
      BY <1>2, <2>4 DEF ModelApplied
    <3> QED
      BY <1>1, <2>2, <3>1 DEF TypeInv
  <2>5. CASE ~StaleApply(t) /\ Ok(t)
    <3>1. /\ m' = done
          /\ opt' = IF t.optimized THEN Closed ELSE opt
          /\ tasks' = IF t.optimized THEN Stopped(reload) ELSE reload
          /\ UNCHANGED <<wb, workspaces>> /\ History
      BY <1>2, <2>5 DEF ModelApplied
    <3>2. tasks' \subseteq Tasks
      BY <2>3, <3>1, SupersededIs DEF Stopped
    <3> QED
      BY <2>2, <3>1, <3>2, ClosedTyped, RestTyped DEF TypeInv
  <2> QED
    BY <2>4, <2>5
<1>3. CASE StoreCreated(t)
  <2> DEFINE done == [m EXCEPT !.creating = FALSE]
  <2>1. done \in Interfaces
    BY DEF TypeInv, Interfaces
  <2>2. t.store \in Stores
    BY <1>3, KindsDiffer DEF StoreCreated, TypeInv, StoreWrites
  <2>3. Superseded({"stores"}, Others(t)) \cup {StoresRead} \in SUBSET Tasks
    BY <1>0, <1>r, SupersededIs
  <2> QED
    BY <1>1, <1>3, <2>1, <2>2, <2>3, SelectedTyped DEF StoreCreated
<1>4. CASE StoreDeleted(t)
  <2> DEFINE done == [m EXCEPT !.deleting = FALSE]
  <2>1. done \in Interfaces /\ [done EXCEPT !.store = None, !.model = None] \in Interfaces
    BY DEF TypeInv, Interfaces, Names
  <2>2. CASE ~Ok(t)
    BY <1>1, <1>4, <2>1, <2>2 DEF StoreDeleted
  <2>3. CASE Ok(t)
    <3>1. tasks' \subseteq Tasks
      BY <1>0, <1>r, <1>4, <2>3, SupersededIs DEF StoreDeleted
    <3>2. m' \in Interfaces
      BY <1>4, <2>1, <2>3 DEF StoreDeleted
    <3> QED
      BY <1>4, <2>3, <3>1, <3>2, RestTyped DEF StoreDeleted, TypeInv
  <2> QED
    BY <2>2, <2>3
<1> QED
  BY <1>2, <1>3, <1>4

LEMMA RunsTyped ==
    ASSUME TypeInv, NEW t \in tasks, TestsRan(t) \/ HandleTestFileEdited(t)
    PROVE  TypeInv'
<1> USE DEF NoFault, Still, Quiet
<1>1. CASE TestsRan(t)
  <2>1. t.ws \in Workspaces /\ t.filter \in SUBSET Files
    BY <1>1, KindsDiffer DEF TestsRan, TypeInv, Suites
  <2>2. wb' \in Workbenches /\ missed' \in BOOLEAN
    <3> DEFINE res == [ws |-> t.ws, filter |-> t.filter]
    <3>1. res \in [ws : Workspaces, filter : SUBSET Files]
      BY <2>1
    <3>2. \/ wb' = [wb EXCEPT !.running = FALSE, !.results = res] /\ UNCHANGED missed
          \/ wb' = [wb EXCEPT !.running = FALSE] /\ missed' = TRUE
      BY <1>1 DEF TestsRan
    <3> HIDE DEF res
    <3> QED
      BY <3>1, <3>2 DEF TypeInv, Workbenches
  <2>3. tasks' \subseteq Tasks /\ UNCHANGED <<m, opt, workspaces, models, disk, tab, stray>>
    BY <1>1 DEF TestsRan, TypeInv
  <2> QED
    BY <2>2, <2>3 DEF TypeInv
<1>2. CASE HandleTestFileEdited(t)
  <2>1. t.root \in Samples
    BY <1>2, KindsDiffer DEF HandleTestFileEdited, TypeInv, Editors
  <2>2. stray' \subseteq Samples
    BY <1>2, <2>1, WorkspaceTyped DEF HandleTestFileEdited, Misfiled, TypeInv
  <2>3. Others(t) \in SUBSET Tasks
    BY DEF Others, TypeInv
  <2>4. CASE t.failed \/ Workspace = None
    BY <1>2, <2>2, <2>3, <2>4 DEF HandleTestFileEdited, TypeInv
  <2>5. CASE ~(t.failed \/ Workspace = None)
    <3> DEFINE root == Workspace.root
               ws == Parsed(root, disk[root])
    <3>1. root \in Samples /\ disk[root] \in [Files -> Contents] /\ Workspace \in Workspaces
      BY <2>5, WorkspaceTyped DEF TypeInv
    <3>2. ws \in Workspaces /\ Reloaded(ws) \in Workbenches /\ wb \in Workbenches
            /\ Remembered(ws) \in [Names -> Workspaces \cup {None}]
      BY <3>1, ParsedTyped, ReloadedTyped DEF TypeInv
    <3>3. workspaces' \in [Names -> Workspaces \cup {None}]
      BY <1>2, <2>5, <3>2 DEF HandleTestFileEdited, TypeInv
    <3>4. Rerun(Reloaded(ws), ws, Others(t)) \/ Rerun(wb, Workspace, Others(t))
      BY <1>2, <2>5 DEF HandleTestFileEdited
    <3>5. wb' \in Workbenches /\ tasks' \subseteq Tasks /\ missed' \in BOOLEAN
      BY <2>3, <3>1, <3>2, <3>4, RerunTyped
    <3> QED
      BY <1>2, <2>2, <3>3, <3>5 DEF HandleTestFileEdited, TypeInv
  <2> QED
    BY <2>4, <2>5
<1> QED
  BY <1>1, <1>2

LEMMA NextTyped ==
    ASSUME TypeInv, IdInv, Next
    PROVE  TypeInv'
<1>1. CASE StoreKeys \/ ModelKeys \/ TestKeys
  BY <1>1, StoreKeysTyped, ModelKeysTyped, TestKeysTyped
<1>2. CASE (\E t \in tasks : Serve(t)) \/ OtherClient
  BY <1>2, ServerTyped
<1>3. ASSUME NEW t \in tasks, Complete(t)
      PROVE  TypeInv'
  <2>1. CASE BenchDone(t)
    <3>1. t \in BenchRuns
      BY <2>1, KindsDiffer DEF BenchDone, TypeInv
    <3>2. opt' \in {opt, Shown(t, TRUE), Shown(t, FALSE)}
      BY <2>1 DEF BenchDone
    <3>3. opt' \in Optimizers /\ (opt'.view # "none" \/ opt'.dialog => opt'.proto # None)
      BY <3>1, <3>2, ShownTyped DEF TypeInv
    <3>4. tasks' \subseteq Tasks
      BY <2>1 DEF BenchDone, TypeInv
    <3> QED
      BY <2>1, <3>3, <3>4, RestTyped DEF BenchDone, Still, History, TypeInv
  <2> QED
    BY <1>3, <2>1, ReadsTyped, MutationsTyped, RunsTyped DEF Complete
<1> QED
  BY <1>1, <1>2, <1>3 DEF Next, Step

-------------------------------------------------------------------------------
(* The workbench: who asks for what.                                       *)

Old(K) == \A t \in tasks' : t.kind \in K => t \in tasks
Staying(K) == \A t \in tasks : t.kind \in K => t \in tasks'

LEMMA StoresExist ==
    ASSUME TypeInv
    PROVE  /\ \A s \in Stores : s \in Existing <=> models[s] \in Seq(Texts)
           /\ Existing \subseteq Stores
<1> DEFINE MS == Seq(Texts)
<1>1. None \notin MS /\ Gone \notin MS
  BY AbsenceAssumption DEF AbsenceAssumption, Texts, Names
<1>2. \A s \in Stores : models[s] \in MS \cup {None, Gone}
  BY DEF TypeInv
<1> HIDE DEF MS
<1>3. \A s \in Stores : s \in Existing <=> models[s] \in MS
  BY <1>1, <1>2 DEF Existing
<1> QED
  BY <1>3 DEF Existing, MS

LEMMA EffectIs ==
    ASSUME TypeInv, NEW t \in tasks, Mutation(t), models' = Effect(t)
    PROVE  /\ \A s \in Stores : s # t.store => models'[s] = models[s]
           /\ t.kind = "create" => models'[t.store] = <<>> /\ t.store \in Stores
           /\ t.kind # "create" /\ t.store \notin Existing => models' = models
           /\ t.kind = "delete" /\ t.store \in Existing => models'[t.store] = Gone
           /\ t.kind = "apply" /\ t.store \in Existing =>
                 models'[t.store] = Append(models[t.store], t.text)
<1>1. t \in Tasks
  BY DEF TypeInv
<1>2. t.kind = "create" => t.store \in Stores
  BY <1>1, KindsDiffer DEF StoreWrites
<1> QED
  BY <1>2 DEF Effect, Existing, TypeInv, Mutation

LEMMA IdRest ==
    ASSUME IdInv, Old({"model", "create"}), UNCHANGED models, m'.creating = m.creating
    PROVE  IdInv'
BY DEF IdInv, Old, Existing

LEMMA StoreKeysKeepIds ==
    ASSUME TypeInv, IdInv, StoreKeys
    PROVE  IdInv'
<1> USE DEF Still
<1>1. ASSUME NEW s \in Stores, PickStore(s)
      PROVE  IdInv'
  <2>1. tasks' = Swapped(s, Disowned(Superseded({"bench", "model"}, tasks))) \cup {ModelRead(s, None)}
          /\ UNCHANGED models /\ m'.creating = m.creating
    BY <1>1 DEF PickStore, Select, OnStore, Owned, TypeInv, Interfaces
  <2>2. \A t \in Disowned(Superseded({"bench", "model"}, tasks)) :
           t.kind # "model" /\ (t.kind = "create" => t \in tasks)
    BY SupersededIs, DisownedIs DEF TypeInv
  <2>3. \A t \in Swapped(s, Disowned(Superseded({"bench", "model"}, tasks))) :
           t.kind # "model" /\ (t.kind = "create" => t \in tasks)
    BY <2>2, SupersededIs DEF Swapped, Left
  <2> QED
    BY <2>1, <2>3 DEF IdInv, Existing, ModelRead
<1>2. ASSUME NEW s \in Stores, CreateStore(s)
      PROVE  IdInv'
  <2> DEFINE u == [kind |-> "create", store |-> s, answer |-> NoAnswer]
  <2>1. tasks' = tasks \cup {u} /\ UNCHANGED models /\ m'.creating /\ ~m.creating
    BY <1>2 DEF CreateStore, TypeInv, Interfaces
  <2>2. \A t \in tasks : t.kind # "create"
    BY <2>1 DEF IdInv
  <2>3. models[s] = None
    BY <1>2 DEF CreateStore
  <2> QED
    BY <2>1, <2>2, <2>3 DEF IdInv, Existing
<1>3. CASE GotoSection("stores") \/ GotoSection(tab)
  BY <1>3, IdRest, SupersededIs DEF GotoSection, Stopped, Old, TypeInv, Interfaces
<1>4. CASE ReloadStores
  BY <1>4, IdRest, SupersededIs DEF ReloadStores, StoresRead, Old
<1>5. CASE Cancel \/ \E s \in Stores : AskDeleteStore(s)
  BY <1>5, IdRest DEF Cancel, AskDeleteStore, Asked, Old, TypeInv, Interfaces
<1>6. CASE DeleteStore
  BY <1>6, IdRest DEF DeleteStore, Answered, Old, TypeInv, Interfaces
<1> QED
  BY <1>1, <1>2, <1>3, <1>4, <1>5, <1>6 DEF StoreKeys

LEMMA ModelKeysKeepIds ==
    ASSUME TypeInv, IdInv, ModelKeys
    PROVE  IdInv'
<1> USE DEF Still, Pane, Old, StartBench, Stopped, Forgotten
<1>1. CASE OpenBench \/ BenchSelection \/ OpenWriteDialog
  <2>1. \A kind, o : Bench(kind, o).kind = "bench"
    BY DEF Bench
  <2> QED
    BY <1>1, <2>1, IdRest, SupersededIs DEF OpenBench, BenchSelection, OpenWriteDialog
<1>2. CASE OpenReview \/ LeaveOptimizer \/ MoveCursor \/ Toggle \/ ToggleAll \/ CloseWriteDialog
  <2>1. tasks' = tasks \/ tasks' = Superseded({"bench"}, tasks)
    BY <1>2 DEF OpenReview, LeaveOptimizer, MoveCursor, Toggle, ToggleAll, Accept, CloseWriteDialog
  <2>2. UNCHANGED <<m, models>>
    BY <1>2 DEF OpenReview, LeaveOptimizer, MoveCursor, Toggle, ToggleAll, Accept, CloseWriteDialog
  <2> QED
    BY <2>1, <2>2, IdRest, SupersededIs
<1>3. ASSUME NEW text, NEW optimized, Write(text, optimized)
      PROVE  IdInv'
  <2>1. Old({"model", "create"})
    BY <1>3, DisownedIs DEF Write, TypeInv
  <2> QED
    BY <1>3, <2>1, IdRest DEF Write, TypeInv, Interfaces
<1>4. ASSUME NEW id, ReloadModel(id),
             id # None => m.store \in Existing /\ id[2] \in 1..Len(models[m.store])
      PROVE  IdInv'
  <2>1. \A t \in tasks' : t.kind \in {"model", "create"} => t \in tasks \/ t = ModelRead(m.store, id)
    BY <1>4, DisownedIs, SupersededIs DEF ReloadModel, TypeInv
  <2>2. UNCHANGED models /\ m'.creating = m.creating
    BY <1>4 DEF ReloadModel, Owned, TypeInv, Interfaces
  <2>3. ModelRead(m.store, id).kind = "model" /\ ModelRead(m.store, id).id = id
          /\ ModelRead(m.store, id).store = m.store
    BY DEF ModelRead
  <2> QED
    BY <1>4, <2>1, <2>2, <2>3 DEF IdInv, Existing
<1>5. ASSUME NEW n \in 1..MaxModels, m.store \in Existing, n <= Len(models[m.store])
      PROVE  <<m.store, n>>[2] \in 1..Len(models[m.store])
  <2>1. models[m.store] \in Seq(Texts)
    BY <1>5, StoresExist
  <2>2. Len(models[m.store]) \in Nat
    BY <2>1, LenProperties
  <2> QED
    BY <1>5, <2>2
<1>6. CASE OpenEditor \/ CloseEditor
  BY <1>6, IdRest DEF OpenEditor, CloseEditor, TypeInv, Interfaces
<1> QED
  BY <1>1, <1>2, <1>3, <1>4, <1>5, <1>6 DEF ModelKeys, WriteOptimized, WriteEdited

LEMMA ServerKeepsIds ==
    ASSUME TypeInv, IdInv, (\E t \in tasks : Serve(t)) \/ OtherClient
    PROVE  IdInv'
<1> DEFINE MS == Seq(Texts)
<1>n. None \notin MS /\ Gone \notin MS /\ None # Gone
  BY AbsenceAssumption DEF AbsenceAssumption, Texts, Names
<1>e. \A s \in Stores : s \in Existing <=> models[s] \in MS
  BY StoresExist
<1>a. ASSUME NEW s \in Existing, NEW text \in Texts, models' = [models EXCEPT ![s] = Append(@, text)]
      PROVE  /\ models'[s] # None /\ \A r \in Stores \ {s} : models'[r] = models[r]
             /\ \A n \in 1..Len(models[s]) : n \in 1..Len(models'[s])
  <2>1. models[s] \in Seq(Texts) /\ s \in Stores
    BY StoresExist
  <2> HIDE DEF Texts
  <2>2. /\ Append(models[s], text) \in Seq(Texts)
        /\ Len(Append(models[s], text)) = Len(models[s]) + 1 /\ Len(models[s]) \in Nat
    BY <2>1, AppendProperties, LenProperties
  <2>3. models'[s] = Append(models[s], text)
    BY <1>a, <2>1 DEF TypeInv
  <2>4. models'[s] # None
    BY <1>n, <2>2, <2>3
  <2>5. \A r \in Stores \ {s} : models'[r] = models[r]
    BY <1>a DEF TypeInv
  <2> QED
    BY <2>2, <2>3, <2>4, <2>5
<1> HIDE DEF MS
<1>1. ASSUME NEW t \in tasks, Serve(t)
      PROVE  IdInv'
  <2>1. t \in Tasks /\ Mutation(t) /\ UNCHANGED m /\ t.answer = NoAnswer
    BY <1>1 DEF TypeInv, Serve, Unseen
  <2>2. PICK answer \in {"ok", "failed"} : Replied(t, answer)
    BY <1>1 DEF Serve
  <2> DEFINE u == [t EXCEPT !.answer = answer]
  <2>3. u.kind = t.kind /\ u.store = t.store /\ u.answer # NoAnswer
    BY <2>1, RepliedIs, AbsenceAssumption DEF Replies, AbsenceAssumption
  <2>4. tasks' = (tasks \ {t}) \cup {u}
    BY <2>2 DEF Replied
  <2> HIDE DEF u
  <2>5. CASE models' = models
    BY <2>1, <2>3, <2>4, <2>5 DEF IdInv, Existing, Mutation
  <2>6. CASE models' = Effect(t) /\ t.kind = "create"
    <3>1. t.store \in Stores /\ models[t.store] = None
            /\ \A s \in Stores : s # t.store => models'[s] = models[s]
      BY <2>1, <2>6, EffectIs DEF IdInv
    <3>2. ASSUME NEW w \in tasks', w.kind = "model", w.id # None
          PROVE  /\ w.store \in Stores /\ models'[w.store] # None
                 /\ w.store \in Existing' => w.id[2] \in 1..Len(models'[w.store])
      BY <2>3, <2>4, <2>6, <3>1, <3>2 DEF IdInv, Existing
    <3>3. ASSUME NEW w \in tasks', w.kind = "create"
          PROVE  m'.creating /\ w = u
      BY <2>1, <2>3, <2>4, <2>6, <3>3 DEF IdInv
    <3> QED
      BY <2>3, <3>2, <3>3 DEF IdInv
  <2>7. CASE models' = Effect(t) /\ models' # models /\ t.kind # "create"
    <3>1. t.store \in Existing /\ t.store \in Stores
      BY <2>1, <2>7, EffectIs, StoresExist
    <3>2. /\ models[t.store] # None /\ models'[t.store] # None
          /\ \A s \in Stores \ {t.store} : models'[s] = models[s]
          /\ t.store \in Existing' => \A n \in 1..Len(models[t.store]) : n \in 1..Len(models'[t.store])
      <4>1. CASE t.kind = "delete"
        BY <1>n, <1>e, <2>1, <2>7, <3>1, <4>1, EffectIs DEF Existing
      <4>2. CASE t.kind = "apply"
        <5>1. t.text \in Texts
          BY <2>1, <4>2, KindsDiffer DEF ModelWrites
        <5>2. models' = [models EXCEPT ![t.store] = Append(@, t.text)]
          BY <2>7, <3>1, <4>2 DEF Effect
        <5>3. /\ models'[t.store] # None /\ \A r \in Stores \ {t.store} : models'[r] = models[r]
              /\ \A n \in 1..Len(models[t.store]) : n \in 1..Len(models'[t.store])
          BY <1>a, <3>1, <5>1, <5>2
        <5> QED
          BY <3>1, <5>3 DEF Existing
      <4> QED
        BY <2>1, <2>7, <4>1, <4>2 DEF Mutation
    <3>3. ASSUME NEW w \in tasks', w.kind = "model", w.id # None
          PROVE  /\ w.store \in Stores /\ models'[w.store] # None
                 /\ w.store \in Existing' => w.id[2] \in 1..Len(models'[w.store])
      <4>1. /\ w \in tasks /\ w.store \in Stores /\ models[w.store] # None
            /\ w.store \in Existing => w.id[2] \in 1..Len(models[w.store])
        BY <2>1, <2>3, <2>4, <3>3 DEF IdInv, Mutation
      <4> QED
        BY <3>1, <3>2, <4>1 DEF Existing
    <3>4. ASSUME NEW w \in tasks', w.kind = "create"
          PROVE  /\ w \in tasks /\ m'.creating /\ (w.answer = NoAnswer => models'[w.store] = None)
                 /\ \A v \in tasks' : v.kind = "create" => v = w
      <4>1. w \in tasks /\ w.store \in Stores
        BY <2>3, <2>4, <2>7, <3>4, KindsDiffer DEF TypeInv, StoreWrites
      <4> QED
        BY <2>1, <2>3, <2>4, <2>7, <3>2, <3>4, <4>1 DEF IdInv
    <3> QED
      BY <3>3, <3>4 DEF IdInv
  <2> QED
    BY <1>1, <2>5, <2>6, <2>7 DEF Serve
<1>2. CASE OtherClient
  <2>1. PICK s \in Existing : models' = [models EXCEPT ![s] = Append(@, Text(s, {}))]
    BY <1>2 DEF OtherClient
  <2>2. Text(s, {}) \in Texts /\ s \in Stores /\ models[s] # None
    BY DEF Text, Texts, Names, Existing
  <2>3. /\ models'[s] # None /\ \A r \in Stores \ {s} : models'[r] = models[r]
        /\ \A n \in 1..Len(models[s]) : n \in 1..Len(models'[s])
    BY <1>a, <2>1, <2>2
  <2>4. UNCHANGED <<m, tasks>>
    BY <1>2 DEF OtherClient, Unseen
  <2>5. ASSUME NEW w \in tasks, w.kind = "model", w.id # None
        PROVE  /\ w.store \in Stores /\ models'[w.store] # None
               /\ w.store \in Existing' => w.id[2] \in 1..Len(models'[w.store])
    <3>1. /\ w.store \in Stores /\ models[w.store] # None
          /\ w.store \in Existing => w.id[2] \in 1..Len(models[w.store])
      BY <2>5 DEF IdInv
    <3> QED
      BY <2>3, <3>1 DEF Existing
  <2>6. ASSUME NEW w \in tasks, w.kind = "create"
        PROVE  /\ m.creating /\ (w.answer = NoAnswer => models'[w.store] = None)
               /\ \A v \in tasks : v.kind = "create" => v = w
    <3>1. w.store \in Stores
      BY <2>6, KindsDiffer DEF TypeInv, StoreWrites
    <3> QED
      BY <2>2, <2>3, <2>6, <3>1 DEF IdInv
  <2> QED
    BY <2>4, <2>5, <2>6 DEF IdInv
<1> QED
  BY <1>1, <1>2

LEMMA CompletionsKeepIds ==
    ASSUME TypeInv, IdInv, NEW t \in tasks, Complete(t)
    PROVE  IdInv'
<1> USE DEF Still, Old, Others
<1>1. ASSUME tasks' \subseteq tasks, UNCHANGED models, m'.creating = m.creating
      PROVE  IdInv'
  BY <1>1, IdRest
<1>2. ASSUME NEW T \in SUBSET Tasks, NEW s \in Stores, NEW m_ \in Interfaces, Select(s, m_, T),
             UNCHANGED models, \A u \in T : u.kind = "create" => u \in tasks,
             m_.creating = m.creating \/ \A u \in T : u.kind # "create"
      PROVE  IdInv'
  <2>1. tasks' = Swapped(s, Disowned(Superseded({"bench", "model"}, T))) \cup {ModelRead(s, None)}
          /\ m'.creating = m_.creating
    BY <1>2 DEF Select, OnStore, Owned, Interfaces
  <2>2. Superseded({"bench", "model"}, T) \in SUBSET Tasks
    BY SupersededIs
  <2>3. \A u \in Disowned(Superseded({"bench", "model"}, T)) :
           u.kind # "model" /\ (u.kind = "create" => u \in T)
    BY <2>2, SupersededIs, DisownedIs
  <2>4. \A u \in Swapped(s, Disowned(Superseded({"bench", "model"}, T))) :
           u.kind # "model" /\ (u.kind = "create" => u \in T)
    BY <2>3, SupersededIs DEF Swapped, Left
  <2>5. ModelRead(s, None).kind = "model" /\ ModelRead(s, None).id = None
    BY DEF ModelRead
  <2> QED
    BY <1>2, <2>1, <2>4, <2>5 DEF IdInv, Existing
<1>o. Others(t) \in SUBSET Tasks
  BY DEF TypeInv
<1>3. CASE ModelApplied(t) /\ Still
  <2>1. m'.creating = m.creating
    BY <1>3 DEF ModelApplied, Ended, TypeInv, Interfaces
  <2>2. \A u \in tasks' : u \in tasks \/ u = ModelRead(m.store, None)
    BY <1>3, SupersededIs DEF ModelApplied, Ended, Stopped
  <2>3. ModelRead(m.store, None).kind = "model" /\ ModelRead(m.store, None).id = None
    BY DEF ModelRead
  <2> QED
    BY <1>3, <2>1, <2>2, <2>3 DEF IdInv, Existing
<1>4. CASE StoreCreated(t) /\ Still
  <2> DEFINE done == [m EXCEPT !.creating = FALSE]
             T == Superseded({"stores"}, Others(t)) \cup {StoresRead}
  <2>1. done \in Interfaces
    BY DEF TypeInv, Interfaces
  <2>6. t.store \in Stores
    BY <1>4, KindsDiffer DEF TypeInv, StoreCreated, StoreWrites
  <2>2. T \in SUBSET Tasks
    BY <1>o, SupersededIs DEF StoresRead, Tasks, StoreReads
  <2>3. \A u \in T : u.kind # "create"
    BY <1>4, SupersededIs DEF IdInv, StoreCreated, StoresRead
  <2>4. CASE Ok(t)
    BY <1>2, <1>4, <2>1, <2>2, <2>3, <2>4, <2>6 DEF StoreCreated
  <2>5. CASE ~Ok(t)
    <3>1. tasks' \subseteq tasks /\ \A u \in tasks' : u.kind # "create"
      BY <1>4, <2>5 DEF StoreCreated, Ended, IdInv
    <3> QED
      BY <1>4, <3>1 DEF IdInv, Existing
  <2> QED
    BY <2>4, <2>5
<1>5. CASE StoreDeleted(t) /\ Still
  <2>1. m'.creating = m.creating
    BY <1>5 DEF StoreDeleted, TypeInv, Interfaces
  <2>2. \A u \in tasks' : u \in tasks \/ u = StoresRead
    BY <1>5, SupersededIs DEF StoreDeleted, Ended
  <2> QED
    BY <1>5, <2>1, <2>2, IdRest DEF StoresRead
<1>6. CASE StoresLoaded(t) /\ Still
  <2> DEFINE listed == [m EXCEPT !.list = Existing]
  <2>1. listed \in Interfaces /\ listed.creating = m.creating
    BY StoresExist DEF TypeInv, Interfaces
  <2>2. CASE Failed(t)
    BY <1>1, <1>6, <2>2 DEF Failed, Ended
  <2>3. CASE m' = listed /\ tasks' = Swapped(m.store, Others(t))
    BY <1>1, <1>6, <2>1, <2>3, SupersededIs DEF Swapped, Left
  <2>4. CASE \E s \in Existing : Select(s, listed, Others(t))
    BY <1>2, <1>6, <1>o, <2>1, <2>4, StoresExist
  <2> QED
    BY <1>6, <2>2, <2>3, <2>4 DEF StoresLoaded
<1>7. CASE ModelLoaded(t) /\ Still
  <2>1. m'.creating = m.creating
    BY <1>7 DEF ModelLoaded, Failed, Owned, TypeInv, Interfaces
  <2>2. \A u \in tasks' : u \in tasks \/ u.kind = "apply"
    BY <1>7, <1>o, SupersededIs, DisownedIs DEF ModelLoaded, Failed, Ended, Stopped
  <2> QED
    BY <1>7, <2>1, <2>2, IdRest
<1>8. CASE BenchDone(t) \/ TestsRan(t)
  BY <1>1, <1>8 DEF BenchDone, TestsRan
<1>9. CASE HandleTestFileEdited(t)
  <2>1. \A u \in tasks' : u \in tasks \/ u.kind = "suite"
    BY <1>9 DEF HandleTestFileEdited, Rerun, Suite
  <2> QED
    BY <1>9, <2>1, IdRest DEF HandleTestFileEdited, Quiet
<1> QED
  BY <1>3, <1>4, <1>5, <1>6, <1>7, <1>8, <1>9 DEF Complete

LEMMA EditorAdds ==
    ASSUME NEW root, NEW f, NEW contents, EditorRuns(root, f, contents)
    PROVE  /\ tasks \subseteq tasks' /\ \A u \in tasks' : u \in tasks \/ (u.kind = "edited" /\ u.root = root)
           /\ \E u \in tasks' : u.kind = "edited" /\ u.root = root
           /\ \E c \in contents : disk' = [disk EXCEPT ![root][f] = c]
<1>1. PICK c \in contents, failed \in BOOLEAN :
         /\ disk' = [disk EXCEPT ![root][f] = c]
         /\ tasks' = tasks \cup {[kind |-> "edited", root |-> root, failed |-> failed]}
  BY DEF EditorRuns
<1> DEFINE v == [kind |-> "edited", root |-> root, failed |-> failed]
<1>2. tasks' = tasks \cup {v} /\ v.kind = "edited" /\ v.root = root
  BY <1>1
<1>3. \E d \in contents : disk' = [disk EXCEPT ![root][f] = d]
  BY <1>1
<1> HIDE DEF v
<1> QED
  BY <1>2, <1>3

LEMMA RerunAdds ==
    ASSUME NEW w, NEW ws, NEW T, Rerun(w, ws, T)
    PROVE  T \subseteq tasks' /\ \A u \in tasks' : u \in T \/ u.kind = "suite"
BY DEF Rerun, Suite

(* What the keys of the Tests tab leave alone.                             *)
LEMMA TestKeysLeave ==
    ASSUME TypeInv, TestKeys
    PROVE  /\ tasks \subseteq tasks' /\ \A u \in tasks' : u \in tasks \/ u.kind \in {"suite", "edited"}
           /\ UNCHANGED <<opt, models>>
           /\ m'.store = m.store /\ m'.model = m.model /\ m'.dsl = m.dsl /\ m'.applying = m.applying
           /\ m'.creating = m.creating /\ m'.deleting = m.deleting
<1>1. CASE RunSuite(Files) \/ RunFile
  <2>1. PICK filter : RunSuite(filter)
    BY <1>1 DEF RunFile
  <2> QED
    BY <2>1 DEF RunSuite, Suite, Quiet
<1>2. CASE OpenWorkbenchEditor \/ SubmitNewPrompt
  BY <1>2, EditorAdds DEF OpenWorkbenchEditor, SubmitNewPrompt, Quiet
<1>3. CASE OpenNewPrompt \/ CancelNewPrompt
  BY <1>3 DEF OpenNewPrompt, CancelNewPrompt, Quiet
<1>4. CASE AskDeleteFile
  <2>1. PICK question : Asked(question)
    BY <1>4 DEF AskDeleteFile
  <2> QED
    BY <2>1 DEF Asked, Still, TypeInv, Interfaces
<1>5. CASE DeleteFile
  <2>1. UNCHANGED <<opt, models>> /\ m' = [m EXCEPT !.confirm = None]
    BY <1>5 DEF DeleteFile, Quiet, Answered
  <2>2. tasks' = tasks \/ \E w, ws : Rerun(w, ws, tasks)
    BY <1>5 DEF DeleteFile
  <2>3. tasks \subseteq tasks' /\ \A u \in tasks' : u \in tasks \/ u.kind = "suite"
    BY <2>2, RerunAdds
  <2> QED
    BY <2>1, <2>3 DEF TypeInv, Interfaces
<1> QED
  BY <1>1, <1>2, <1>3, <1>4, <1>5 DEF TestKeys

LEMMA TestKeysKeepIds ==
    ASSUME TypeInv, IdInv, TestKeys
    PROVE  IdInv'
BY TestKeysLeave, IdRest DEF Old

LEMMA NextKeepsIds ==
    ASSUME TypeInv, IdInv, Next
    PROVE  IdInv'
BY StoreKeysKeepIds, ModelKeysKeepIds, TestKeysKeepIds, ServerKeepsIds, CompletionsKeepIds DEF Next, Step

-------------------------------------------------------------------------------
(* The tests: a run is of the workspace on screen and the only one, its    *)
(* results stay those of the workspace, and a remembered workspace that is *)
(* not stray is filed under its own name, as its editors left it.          *)
Reworked(root) == \E t \in tasks : t.kind = "edited" /\ t.root = root
SuiteInv ==
    /\ wb.running => Running("suite", tasks)
    /\ \A t \in tasks : t.kind = "suite" =>
          /\ wb.running /\ Workspace # None /\ t.ws.root = Workspace.root
          /\ missed \/ t.ws.text = Workspace.text
          /\ \A u \in tasks : u.kind = "suite" => u = t
    /\ wb.results # None =>
          /\ Workspace # None /\ wb.results.ws.root = Workspace.root
          /\ wb.running \/ missed \/ wb.results.ws.text = Workspace.text
Filed(s) ==
    workspaces[s] # None /\ workspaces[s].root \notin stray =>
       /\ workspaces[s].root = s
       /\ ~Reworked(s) /\ Valid(disk[s]) => workspaces[s].text = disk[s]
DiskInv == \A s \in Names : Filed(s)

SameTasks(K) == \A t \in Tasks : t.kind \in K => (t \in tasks' <=> t \in tasks)

LEMMA TestsRest ==
    ASSUME TypeInv, TypeInv', SuiteInv, DiskInv, UNCHANGED <<wb, workspaces, disk, missed, stray>>,
           SameTasks({"suite", "edited"})
    PROVE  SuiteInv' /\ DiskInv'
<1>0. tasks \subseteq Tasks /\ tasks' \subseteq Tasks
  BY DEF TypeInv
<1>1. SuiteInv'
  BY <1>0 DEF SuiteInv, SameTasks, Running, Workspace
<1>2. \A s : Reworked(s)' = Reworked(s)
  BY <1>0 DEF Reworked, SameTasks
<1>3. DiskInv'
  BY <1>2 DEF DiskInv, Filed, Valid
<1> QED
  BY <1>1, <1>3

(* Another workspace comes on screen, or the same one stays.               *)
LEMMA FollowsKeepsTests ==
    ASSUME TypeInv, TypeInv', SuiteInv, DiskInv, NEW s \in Names, Follows(s), UNCHANGED disk,
           NEW T \in SUBSET Tasks, tasks' = Swapped(s, T) \/ tasks' = Swapped(s, T) \cup {ModelRead(s, None)},
           \A t \in Tasks : t.kind \in {"suite", "edited"} => (t \in T <=> t \in tasks)
    PROVE  SuiteInv' /\ DiskInv'
<1>0. tasks \subseteq Tasks /\ tasks' \subseteq Tasks
  BY DEF TypeInv
<1>1. ModelRead(s, None).kind = "model"
  BY DEF ModelRead
<1>2. UNCHANGED <<workspaces, stray>>
  BY DEF Follows
<1>3. CASE Same(s)
  <2>1. UNCHANGED <<wb, missed>>
    BY <1>3 DEF Follows, TypeInv
  <2>2. SameTasks({"suite", "edited"})
    BY <1>1, <1>3 DEF SameTasks, Swapped
  <2> QED
    BY <1>2, <2>1, <2>2, TestsRest
<1>4. CASE ~Same(s)
  <2>1. wb'.running = FALSE /\ wb'.results = None
    BY <1>4 DEF Follows, NoRun, TypeInv, Workbenches
  <2>2. \A t \in tasks' : t.kind # "suite"
    BY <1>1, <1>4, SupersededIs DEF Swapped, Left
  <2>3. SuiteInv'
    BY <2>1, <2>2 DEF SuiteInv
  <2>4. SameTasks({"edited"})
    BY <1>1, <1>4, SupersededIs DEF SameTasks, Swapped, Left
  <2>5. \A r : Reworked(r)' = Reworked(r)
    BY <1>0, <2>4 DEF Reworked, SameTasks
  <2>6. DiskInv'
    BY <1>2, <2>5 DEF DiskInv, Filed, Valid
  <2> QED
    BY <2>3, <2>6
<1> QED
  BY <1>3, <1>4

LEMMA SelectKeepsTests ==
    ASSUME TypeInv, TypeInv', SuiteInv, DiskInv, NEW s \in Stores, NEW m_, UNCHANGED disk,
           NEW T \in SUBSET Tasks, Select(s, m_, T),
           \A t \in Tasks : t.kind \in {"suite", "edited"} => (t \in T <=> t \in tasks)
    PROVE  SuiteInv' /\ DiskInv'
<1> DEFINE D == Disowned(Superseded({"bench", "model"}, T))
<1>1. Superseded({"bench", "model"}, T) \in SUBSET Tasks
  BY SupersededIs
<1>2. D \in SUBSET Tasks /\ \A t \in Tasks : t.kind \in {"suite", "edited"} => (t \in D <=> t \in T)
  BY <1>1, DisownedIs, SupersededIs
<1>3. tasks' = Swapped(s, D) \cup {ModelRead(s, None)} /\ Follows(s) /\ s \in Names
  BY DEF Select, Names
<1> HIDE DEF D
<1> QED
  BY <1>2, <1>3, FollowsKeepsTests

LEMMA StoreKeysKeepTests ==
    ASSUME TypeInv, TypeInv', SuiteInv, DiskInv, StoreKeys
    PROVE  SuiteInv' /\ DiskInv'
<1> USE DEF Still, History
<1>0. tasks \in SUBSET Tasks
  BY DEF TypeInv
<1>1. ASSUME NEW s \in Stores, PickStore(s)
      PROVE  SuiteInv' /\ DiskInv'
  BY <1>0, <1>1, SelectKeepsTests DEF PickStore
<1>2. CASE \E s \in Stores : CreateStore(s)
  BY <1>2, TestsRest DEF CreateStore, SameTasks
<1>3. CASE GotoSection("stores") \/ GotoSection(tab)
  BY <1>3, TestsRest, SupersededIs DEF GotoSection, Stopped, SameTasks
<1>4. CASE ReloadStores
  BY <1>4, TestsRest, SupersededIs DEF ReloadStores, StoresRead, SameTasks
<1>5. CASE Cancel \/ \E s \in Stores : AskDeleteStore(s)
  BY <1>5, TestsRest DEF Cancel, AskDeleteStore, Asked, SameTasks
<1>6. CASE DeleteStore
  BY <1>6, TestsRest DEF DeleteStore, SameTasks
<1> QED
  BY <1>1, <1>2, <1>3, <1>4, <1>5, <1>6 DEF StoreKeys

LEMMA ModelKeysKeepTests ==
    ASSUME TypeInv, TypeInv', SuiteInv, DiskInv, ModelKeys
    PROVE  SuiteInv' /\ DiskInv'
<1> USE DEF Still, History, Pane, StartBench, Stopped, Forgotten
<1>0. tasks \in SUBSET Tasks
  BY DEF TypeInv
<1>1. CASE OpenBench \/ BenchSelection \/ OpenWriteDialog
  <2>1. \A kind, o : Bench(kind, o).kind = "bench"
    BY DEF Bench
  <2>2. SameTasks({"suite", "edited"}) /\ Pane
    BY <1>1, <2>1, SupersededIs DEF OpenBench, BenchSelection, OpenWriteDialog, SameTasks
  <2> QED
    BY <2>2, TestsRest
<1>2. CASE OpenReview \/ LeaveOptimizer \/ MoveCursor \/ Toggle \/ ToggleAll \/ CloseWriteDialog
  <2>1. tasks' = tasks \/ tasks' = Superseded({"bench"}, tasks)
    BY <1>2 DEF OpenReview, LeaveOptimizer, MoveCursor, Toggle, ToggleAll, Accept, CloseWriteDialog
  <2>2. Pane
    BY <1>2 DEF OpenReview, LeaveOptimizer, MoveCursor, Toggle, ToggleAll, Accept, CloseWriteDialog
  <2>3. SameTasks({"suite", "edited"})
    BY <2>1, SupersededIs DEF SameTasks
  <2> QED
    BY <2>2, <2>3, TestsRest
<1>3. ASSUME NEW text, NEW optimized, Write(text, optimized)
      PROVE  SuiteInv' /\ DiskInv'
  <2>1. SameTasks({"suite", "edited"})
    BY <1>0, <1>3, DisownedIs DEF Write, SameTasks
  <2> QED
    BY <1>3, <2>1, TestsRest DEF Write
<1>4. ASSUME NEW id, ReloadModel(id)
      PROVE  SuiteInv' /\ DiskInv'
  <2>1. ModelRead(m.store, id).kind = "model"
    BY DEF ModelRead
  <2>2. SameTasks({"suite", "edited"})
    BY <1>0, <1>4, <2>1, DisownedIs, SupersededIs DEF ReloadModel, SameTasks
  <2> QED
    BY <1>4, <2>2, TestsRest DEF ReloadModel
<1>5. CASE OpenEditor \/ CloseEditor
  BY <1>5, TestsRest DEF OpenEditor, CloseEditor, SameTasks
<1> QED
  BY <1>1, <1>2, <1>3, <1>4, <1>5 DEF ModelKeys, WriteOptimized, WriteEdited

LEMMA ServerKeepsTests ==
    ASSUME TypeInv, TypeInv', SuiteInv, DiskInv, (\E t \in tasks : Serve(t)) \/ OtherClient
    PROVE  SuiteInv' /\ DiskInv'
<1>1. ASSUME NEW t \in tasks, Serve(t)
      PROVE  SuiteInv' /\ DiskInv'
  <2>1. t \in Tasks /\ Mutation(t)
    BY <1>1 DEF TypeInv, Serve
  <2>2. PICK answer \in {"ok", "failed"} : Replied(t, answer)
    BY <1>1 DEF Serve
  <2> DEFINE u == [t EXCEPT !.answer = answer]
  <2>3. u.kind = t.kind /\ tasks' = (tasks \ {t}) \cup {u}
    BY <2>1, <2>2, RepliedIs DEF Replies, Replied
  <2> HIDE DEF u
  <2>4. SameTasks({"suite", "edited"})
    BY <2>1, <2>3 DEF SameTasks, Mutation
  <2> QED
    BY <1>1, <2>4, TestsRest DEF Serve, Unseen
<1>2. CASE OtherClient
  BY <1>2, TestsRest DEF OtherClient, Unseen, SameTasks
<1> QED
  BY <1>1, <1>2

(* A run that starts, or is missed, is of the workspace that is remembered *)
(* for the store: here `ws`, of the same directory.                        *)
LEMMA RerunKeepsSuite ==
    ASSUME TypeInv, SuiteInv, Workspace # None,
           NEW w, NEW ws, NEW T \in SUBSET tasks, Rerun(w, ws, T), w.running = wb.running, w.results = wb.results,
           w \in Workbenches, \A t \in tasks : t.kind = "suite" => t \in T,
           Workspace' = ws, ws # None, ws.root = Workspace.root
    PROVE  SuiteInv'
<1>1. wb'.running = TRUE /\ wb'.results = wb.results
  BY DEF Rerun, Workbenches
<1>2. CASE wb.running
  <2>1. missed' = TRUE /\ tasks' = T
    BY <1>2 DEF Rerun
  <2> QED
    BY <1>1, <1>2, <2>1 DEF SuiteInv, Running
<1>3. CASE ~wb.running
  <2>1. tasks' = T \cup {Suite(ws, Files)}
    BY <1>3 DEF Rerun
  <2>2. Suite(ws, Files).kind = "suite" /\ Suite(ws, Files).ws = ws
    BY DEF Suite
  <2>3. \A t \in T : t.kind # "suite"
    BY <1>3 DEF SuiteInv
  <2> QED
    BY <1>1, <2>1, <2>2, <2>3 DEF SuiteInv, Running
<1> QED
  BY <1>2, <1>3

(* The workspace on screen is read again and remembered.                   *)
LEMMA ReloadedIs ==
    ASSUME TypeInv, Workspace # None, NEW d \in [Files -> Contents]
    PROVE  LET ws == Parsed(Workspace.root, d)
           IN  /\ Reloaded(ws).running = wb.running /\ Reloaded(ws).results = wb.results
               /\ Reloaded(ws).at = m.store /\ m.store \in Names
               /\ Remembered(ws)[m.store] = ws
               /\ \A s \in Names \ {m.store} : Remembered(ws)[s] = workspaces[s]
               /\ ws # None /\ ws.root = Workspace.root /\ ws.text = d
<1>1. m.store \in Names
  BY DEF TypeInv, Interfaces
<1>2. Workspace.root \in Samples /\ None \notin Samples
  BY WorkspaceTyped
<1> DEFINE ws == Parsed(Workspace.root, d)
<1>3. ws \in Workspaces /\ ws.root = Workspace.root /\ ws.text = d
  BY <1>2, ParsedTyped
<1>4. ws # None
  BY <1>3, AbsenceAssumption DEF AbsenceAssumption, Workspaces, Contents
<1> HIDE DEF ws
<1>5. Reloaded(ws).running = wb.running /\ Reloaded(ws).results = wb.results /\ Reloaded(ws).at = m.store
  BY DEF Reloaded, TypeInv, Workbenches
<1>6. Remembered(ws)[m.store] = ws /\ \A s \in Names \ {m.store} : Remembered(ws)[s] = workspaces[s]
  BY <1>1 DEF Remembered, TypeInv
<1> QED
  BY <1>1, <1>3, <1>4, <1>5, <1>6 DEF ws

LEMMA RememberedKeepsDisk ==
    ASSUME TypeInv, DiskInv, Workspace # None, NEW d \in [Files -> Contents],
           workspaces' = Remembered(Parsed(Workspace.root, d)),
           disk'[Workspace.root] = d, \A r \in Samples \ {Workspace.root} : disk'[r] = disk[r],
           stray \cup Misfiled \subseteq stray',
           \A r \in Samples \ stray' : r # Workspace.root => Reworked(r)' = Reworked(r)
    PROVE  DiskInv'
<1> SUFFICES ASSUME NEW s \in Names, workspaces'[s] # None, workspaces'[s].root \notin stray'
             PROVE  /\ workspaces'[s].root = s
                    /\ ~Reworked(s)' /\ Valid(disk'[s]) => workspaces'[s].text = disk'[s]
  BY DEF DiskInv, Filed, Valid
<1>1. CASE s = m.store
  <2>1. workspaces'[s].root = Workspace.root /\ workspaces'[s].text = d
    BY <1>1, ReloadedIs
  <2>2. Workspace.root = m.store
    BY <2>1 DEF Misfiled
  <2> QED
    BY <1>1, <2>1, <2>2
<1>2. CASE s # m.store
  <2>1. workspaces'[s] = workspaces[s]
    BY <1>2, ReloadedIs
  <2>2. workspaces[s].root = s /\ (~Reworked(s) /\ Valid(disk[s]) => workspaces[s].text = disk[s])
    BY <2>1 DEF DiskInv, Filed
  <2>3. s \in Samples \ stray'
    BY <2>1, <2>2, ValidTyped
  <2>4. s # Workspace.root
    <3>1. ASSUME s = Workspace.root
          PROVE  FALSE
      <4>1. Workspace.root = m.store
        BY <2>3, <3>1 DEF Misfiled
      <4> QED
        BY <1>2, <3>1, <4>1
    <3> QED
      BY <3>1
  <2>5. Reworked(s)' = Reworked(s) /\ disk'[s] = disk[s]
    BY <2>3, <2>4
  <2> QED
    BY <2>1, <2>2, <2>5
<1> QED
  BY <1>1, <1>2

(* A test file is edited.                                                  *)
LEMMA EditorKeepsDisk ==
    ASSUME TypeInv, TypeInv', DiskInv, NEW root \in Samples, NEW f, NEW contents,
           EditorRuns(root, f, contents), UNCHANGED <<workspaces, stray>>
    PROVE  DiskInv'
<1>1. \A r \in Samples \ {root} : disk'[r] = disk[r]
  BY EditorAdds DEF TypeInv
<1>2. \A r : Reworked(r)' = (Reworked(r) \/ r = root)
  BY EditorAdds DEF Reworked
<1> SUFFICES ASSUME NEW s \in Names, workspaces[s] # None, workspaces[s].root \notin stray
             PROVE  /\ workspaces[s].root = s
                    /\ ~Reworked(s)' /\ Valid(disk'[s]) => workspaces[s].text = disk'[s]
  BY DEF DiskInv, Filed, Valid
<1>3. workspaces[s].root = s /\ (~Reworked(s) /\ Valid(disk[s]) => workspaces[s].text = disk[s])
  BY DEF DiskInv, Filed
<1>4. s \in Samples
  BY <1>3, ValidTyped
<1> QED
  BY <1>1, <1>2, <1>3, <1>4

LEMMA TestKeysKeepTests ==
    ASSUME TypeInv, TypeInv', SuiteInv, DiskInv, TestKeys
    PROVE  SuiteInv' /\ DiskInv'
<1> USE DEF History
<1>1. CASE RunSuite(Files) \/ RunFile
  <2>1. PICK filter : RunSuite(filter)
    BY <1>1 DEF RunFile
  <2>2. tasks' = tasks \cup {Suite(Workspace, filter)} /\ Suite(Workspace, filter).kind = "suite"
          /\ Suite(Workspace, filter).ws = Workspace
    BY <2>1 DEF RunSuite, Suite
  <2>3. wb'.running = TRUE /\ wb'.results = wb.results /\ wb'.at = wb.at /\ ~wb.running
          /\ Workspace # None /\ Workspace' = Workspace /\ UNCHANGED <<missed, stray, workspaces, disk>>
    BY <2>1 DEF RunSuite, Idle, TypeInv, Workbenches, Workspace
  <2>4. \A t \in tasks : t.kind # "suite"
    BY <2>3 DEF SuiteInv
  <2>5. SuiteInv'
    BY <2>2, <2>3, <2>4 DEF SuiteInv, Running
  <2>6. \A r : Reworked(r)' = Reworked(r)
    BY <2>2 DEF Reworked
  <2>7. DiskInv'
    BY <2>3, <2>6 DEF DiskInv, Filed, Valid
  <2> QED
    BY <2>5, <2>7
<1>2. CASE OpenWorkbenchEditor \/ SubmitNewPrompt
  <2>1. PICK f, contents : EditorRuns(Workspace.root, f, contents)
    BY <1>2 DEF OpenWorkbenchEditor, SubmitNewPrompt
  <2>2. /\ Workspace # None /\ UNCHANGED <<workspaces, missed, stray>>
        /\ wb'.running = wb.running /\ wb'.results = wb.results /\ wb'.at = wb.at
    BY <1>2 DEF OpenWorkbenchEditor, SubmitNewPrompt, TypeInv, Workbenches
  <2>3. DiskInv'
    BY <2>1, <2>2, WorkspaceTyped, EditorKeepsDisk
  <2>4. Workspace' = Workspace /\ \A t : t.kind = "suite" => (t \in tasks' <=> t \in tasks)
    BY <2>1, <2>2, EditorAdds DEF Workspace
  <2>5. SuiteInv'
    BY <2>2, <2>4 DEF SuiteInv, Running
  <2> QED
    BY <2>3, <2>5
<1>3. CASE OpenNewPrompt \/ CancelNewPrompt
  <2>1. /\ UNCHANGED <<workspaces, missed, stray, tasks, disk>>
        /\ wb'.running = wb.running /\ wb'.results = wb.results /\ wb'.at = wb.at
    BY <1>3 DEF OpenNewPrompt, CancelNewPrompt, TypeInv, Workbenches
  <2>2. Workspace' = Workspace
    BY <2>1 DEF Workspace
  <2>3. SuiteInv'
    BY <2>1, <2>2 DEF SuiteInv, Running
  <2>4. DiskInv'
    BY <2>1 DEF DiskInv, Filed, Valid, Reworked
  <2> QED
    BY <2>3, <2>4
<1>4. CASE AskDeleteFile
  <2>1. PICK question : Asked(question)
    BY <1>4 DEF AskDeleteFile
  <2> QED
    BY <2>1, TestsRest DEF Asked, Still, SameTasks
<1>5. CASE DeleteFile
  <2> DEFINE root == m.confirm.root
             left == [disk[root] EXCEPT ![m.confirm.file] = "absent"]
             ws == Parsed(root, left)
  <2>1. CASE ~WithinRoot(root) \/ disk[root][m.confirm.file] = "absent"
    <3>1. UNCHANGED <<wb, workspaces, disk, tasks, missed, stray>>
      BY <1>5, <2>1 DEF DeleteFile
    <3> QED
      BY <3>1, TestsRest DEF SameTasks
  <2>2. CASE ~(~WithinRoot(root) \/ disk[root][m.confirm.file] = "absent")
    <3>1. Workspace # None /\ root = Workspace.root /\ root \in Samples
      BY <2>2, WorkspaceTyped DEF WithinRoot
    <3>2. left \in [Files -> Contents]
      BY <3>1 DEF TypeInv, Contents
    <3> HIDE DEF left
    <3>3. disk' = [disk EXCEPT ![root] = left]
      BY <1>5, <2>2 DEF DeleteFile, left
    <3>4. disk'[root] = left /\ \A r \in Samples \ {root} : disk'[r] = disk[r]
      BY <3>1, <3>3 DEF TypeInv
    <3>5. CASE ~Valid(left)
      <4>1. wb' = [wb EXCEPT !.files = {}] /\ UNCHANGED <<workspaces, tasks, missed, stray>>
        BY <1>5, <2>2, <3>5 DEF DeleteFile, left
      <4>2. wb'.running = wb.running /\ wb'.results = wb.results /\ wb'.at = wb.at
        BY <4>1 DEF TypeInv, Workbenches
      <4>3. SuiteInv'
        BY <4>1, <4>2 DEF SuiteInv, Running, Workspace
      <4>4. ASSUME NEW s \in Names, Filed(s)
            PROVE  Filed(s)'
        <5>1. CASE s = root
          BY <3>4, <3>5, <4>1, <4>4, <5>1 DEF Filed, Valid
        <5>2. CASE s # root
          <6>1. Reworked(s)' = Reworked(s)
            BY <4>1 DEF Reworked
          <6>2. workspaces[s] # None /\ workspaces[s].root = s => disk'[s] = disk[s]
            BY <3>4, <5>2, ValidTyped
          <6> QED
            BY <4>1, <4>4, <6>1, <6>2 DEF Filed, Valid
        <5> QED
          BY <5>1, <5>2
      <4> QED
        BY <4>3, <4>4 DEF DiskInv
    <3>6. CASE Valid(left)
      <4>1. /\ workspaces' = Remembered(ws) /\ stray' = stray \cup Misfiled
            /\ IF ws.files # {} THEN Rerun(Reloaded(ws), ws, tasks)
               ELSE wb' = Reloaded(ws) /\ missed' = TRUE /\ UNCHANGED tasks
        BY <1>5, <2>2, <3>6 DEF DeleteFile, left
      <4>2. /\ Reloaded(ws).running = wb.running /\ Reloaded(ws).results = wb.results
            /\ Reloaded(ws).at = m.store /\ Remembered(ws)[m.store] = ws
            /\ ws # None /\ ws.root = Workspace.root
        BY <3>1, <3>2, ReloadedIs
      <4>3. Reloaded(ws) \in Workbenches
        BY <3>1, <3>2, ReloadedTyped
      <4>4. wb'.at = m.store
        BY <4>1, <4>2, <4>3 DEF Rerun, Workbenches
      <4>5. Workspace' = ws
        BY <4>1, <4>2, <4>4 DEF Workspace
      <4>6. SuiteInv'
        <5>1. CASE ws.files # {}
          BY <3>1, <4>1, <4>2, <4>3, <4>5, <5>1, RerunKeepsSuite
        <5>2. CASE ws.files = {}
          <6>1. wb'.running = wb.running /\ wb'.results = wb.results /\ missed' = TRUE /\ UNCHANGED tasks
            BY <4>1, <4>2, <5>2
          <6> QED
            BY <3>1, <4>2, <4>5, <6>1 DEF SuiteInv, Running
        <5> QED
          BY <5>1, <5>2
      <4>7. \A r : Reworked(r)' = Reworked(r)
        BY <4>1, RerunAdds DEF Reworked
      <4>8. DiskInv'
        BY <3>1, <3>2, <3>4, <4>1, <4>7, RememberedKeepsDisk
      <4> QED
        BY <4>6, <4>8
    <3> QED
      BY <3>5, <3>6
  <2> QED
    BY <2>1, <2>2
<1> QED
  BY <1>1, <1>2, <1>3, <1>4, <1>5 DEF TestKeys

LEMMA CompletionsKeepTests ==
    ASSUME TypeInv, TypeInv', SuiteInv, DiskInv, NEW t \in tasks, Complete(t)
    PROVE  SuiteInv' /\ DiskInv'
<1> USE DEF Still, History
<1>0. tasks \in SUBSET Tasks /\ t \in Tasks /\ Others(t) = tasks \ {t}
  BY DEF TypeInv, Others
<1>r. StoresRead.kind = "stores" /\ ModelRead(m.store, None).kind = "model"
  BY DEF StoresRead, ModelRead
<1>1. CASE ModelApplied(t) /\ Still
  <2>1. SameTasks({"suite", "edited"})
    BY <1>0, <1>r, <1>1, SupersededIs DEF ModelApplied, Ended, Stopped, SameTasks
  <2> QED
    BY <1>1, <2>1, TestsRest DEF ModelApplied, Ended
<1>2. CASE StoreCreated(t) /\ Still
  <2> DEFINE done == [m EXCEPT !.creating = FALSE]
             T == Superseded({"stores"}, Others(t)) \cup {StoresRead}
  <2>1. T \in SUBSET Tasks
    BY <1>0, SupersededIs DEF StoresRead, Tasks, StoreReads
  <2>2. \A u \in Tasks : u.kind \in {"suite", "edited"} => (u \in T <=> u \in tasks)
    BY <1>0, <1>2, <1>r, SupersededIs DEF StoreCreated
  <2>3. t.store \in Stores
    BY <1>0, <1>2, KindsDiffer DEF StoreCreated, StoreWrites
  <2>4. CASE Ok(t)
    BY <1>2, <2>1, <2>2, <2>3, <2>4, SelectKeepsTests DEF StoreCreated
  <2>5. CASE ~Ok(t)
    BY <1>0, <1>2, <2>5, TestsRest DEF StoreCreated, Ended, SameTasks
  <2> QED
    BY <2>4, <2>5
<1>3. CASE StoreDeleted(t) /\ Still
  <2>1. SameTasks({"suite", "edited"})
    BY <1>0, <1>3, <1>r, SupersededIs DEF StoreDeleted, Ended, SameTasks
  <2> QED
    BY <1>3, <2>1, TestsRest DEF StoreDeleted, Ended
<1>4. CASE StoresLoaded(t) /\ Still
  <2> DEFINE listed == [m EXCEPT !.list = Existing]
  <2>0. Others(t) \in SUBSET Tasks
          /\ \A u \in Tasks : u.kind \in {"suite", "edited"} => (u \in Others(t) <=> u \in tasks)
    BY <1>0, <1>4 DEF StoresLoaded
  <2>1. CASE Failed(t)
    BY <1>0, <1>4, <2>0, <2>1, TestsRest DEF Failed, Ended, SameTasks
  <2>2. CASE Follows(m.store) /\ tasks' = Swapped(m.store, Others(t))
    <3>1. m.store \in Names
      BY DEF TypeInv, Interfaces
    <3> QED
      BY <1>4, <2>0, <2>2, <3>1, FollowsKeepsTests
  <2>3. CASE \E s \in Existing : Select(s, listed, Others(t))
    BY <1>4, <2>0, <2>3, SelectKeepsTests, StoresExist
  <2> QED
    BY <1>4, <2>1, <2>2, <2>3 DEF StoresLoaded
<1>5. CASE ModelLoaded(t) /\ Still
  <2>1. UNCHANGED <<wb, workspaces, missed, stray>>
    BY <1>5 DEF ModelLoaded, Failed, Ended
  <2>2. SameTasks({"suite", "edited"})
    BY <1>0, <1>5, SupersededIs, DisownedIs DEF ModelLoaded, Failed, Ended, Stopped, SameTasks
  <2> QED
    BY <1>5, <2>1, <2>2, TestsRest
<1>6. CASE BenchDone(t)
  BY <1>0, <1>6, TestsRest DEF BenchDone, SameTasks
<1>7. CASE TestsRan(t)
  <2>1. UNCHANGED <<workspaces, disk, stray>> /\ tasks' = tasks \ {t}
    BY <1>7 DEF TestsRan
  <2>2. \A u \in tasks' : u.kind # "suite"
    BY <1>7, <2>1 DEF SuiteInv, TestsRan
  <2>3. wb'.running = FALSE /\ wb'.at = wb.at
    BY <1>7 DEF TestsRan, TypeInv, Workbenches
  <2>4. \/ missed' = missed /\ wb'.results.ws = t.ws
        \/ missed' = TRUE /\ wb'.results = wb.results
    <3> DEFINE res == [ws |-> t.ws, filter |-> t.filter]
    <3>1. \/ wb' = [wb EXCEPT !.running = FALSE, !.results = res] /\ UNCHANGED missed
          \/ wb' = [wb EXCEPT !.running = FALSE] /\ missed' = TRUE
      BY <1>7 DEF TestsRan
    <3>2. res.ws = t.ws
      OBVIOUS
    <3> HIDE DEF res
    <3> QED
      BY <3>1, <3>2 DEF TypeInv, Workbenches
  <2>5. Workspace' = Workspace
    BY <2>1, <2>3 DEF Workspace
  <2>6. Workspace # None /\ t.ws.root = Workspace.root /\ (missed \/ t.ws.text = Workspace.text)
    BY <1>7 DEF SuiteInv, TestsRan
  <2>7. SuiteInv'
    BY <2>2, <2>3, <2>4, <2>5, <2>6 DEF SuiteInv
  <2>8. \A r : Reworked(r)' = Reworked(r)
    BY <1>7, <2>1 DEF Reworked, TestsRan
  <2>9. DiskInv'
    BY <2>1, <2>8 DEF DiskInv, Filed, Valid
  <2> QED
    BY <2>7, <2>9
<1>8. CASE HandleTestFileEdited(t)
  <2>1. Others(t) \subseteq tasks /\ \A u \in tasks : u.kind = "suite" => u \in Others(t)
    BY <1>0, <1>8 DEF HandleTestFileEdited
  <2>2. t.root \in Samples
    BY <1>0, <1>8, KindsDiffer DEF HandleTestFileEdited, Editors
  <2>e. ASSUME NEW r \in Samples \ {t.root},
               \A u \in tasks' : u \in Others(t) \/ u.kind = "suite", Others(t) \subseteq tasks'
        PROVE  Reworked(r)' = Reworked(r)
    BY <1>0, <2>e DEF Reworked
  <2>3. CASE t.failed \/ Workspace = None
    <3>1. UNCHANGED <<wb, workspaces, missed, disk>> /\ tasks' = Others(t)
      BY <1>8, <2>3 DEF HandleTestFileEdited
    <3>2. stray \cup {t.root} \subseteq stray'
      BY <1>8, <2>3 DEF HandleTestFileEdited, WithinRoot
    <3>3. SuiteInv'
      BY <2>1, <3>1 DEF SuiteInv, Running, Workspace
    <3>4. ASSUME NEW s \in Names, Filed(s)
          PROVE  Filed(s)'
      <4>1. s \in Samples \ {t.root} => Reworked(s)' = Reworked(s)
        BY <2>e, <3>1
      <4> QED
        BY <3>1, <3>2, <3>4, <4>1, ValidTyped DEF Filed, Valid
    <3> QED
      BY <3>3, <3>4 DEF DiskInv
  <2>4. CASE ~(t.failed \/ Workspace = None)
    <3> DEFINE root == Workspace.root
               ws == Parsed(root, disk[root])
    <3>1. root \in Samples /\ disk[root] \in [Files -> Contents] /\ Workspace \in Workspaces
            /\ UNCHANGED disk /\ Workspace # None
      BY <1>8, <2>4, WorkspaceTyped DEF HandleTestFileEdited, TypeInv
    <3>2. stray \cup Misfiled \subseteq stray' /\ (t.root # root => t.root \in stray')
      BY <1>8, <2>4 DEF HandleTestFileEdited, WithinRoot
    <3>3. CASE Valid(disk[root])
      <4>1. workspaces' = Remembered(ws) /\ Rerun(Reloaded(ws), ws, Others(t))
        BY <1>8, <2>4, <3>3 DEF HandleTestFileEdited
      <4>2. /\ Reloaded(ws).running = wb.running /\ Reloaded(ws).results = wb.results
            /\ Reloaded(ws).at = m.store /\ Remembered(ws)[m.store] = ws
            /\ ws # None /\ ws.root = Workspace.root
        BY <3>1, ReloadedIs
      <4>3. Reloaded(ws) \in Workbenches
        BY <3>1, ReloadedTyped
      <4>4. wb'.at = m.store
        BY <4>1, <4>2, <4>3 DEF Rerun, Workbenches
      <4>5. Workspace' = ws
        BY <4>1, <4>2, <4>4 DEF Workspace
      <4>6. SuiteInv'
        BY <2>1, <3>1, <4>1, <4>2, <4>3, <4>5, RerunKeepsSuite
      <4>7. \A r \in Samples \ stray' : r # root => Reworked(r)' = Reworked(r)
        BY <2>e, <3>2, <4>1, RerunAdds
      <4>8. DiskInv'
        BY <3>1, <3>2, <4>1, <4>7, RememberedKeepsDisk
      <4> QED
        BY <4>6, <4>8
    <3>4. CASE ~Valid(disk[root])
      <4>1. UNCHANGED workspaces /\ Rerun(wb, Workspace, Others(t))
        BY <1>8, <2>4, <3>4 DEF HandleTestFileEdited
      <4>2. wb'.at = wb.at /\ wb \in Workbenches
        BY <4>1 DEF Rerun, TypeInv, Workbenches
      <4>3. Workspace' = Workspace
        BY <4>1, <4>2 DEF Workspace
      <4>4. SuiteInv'
        BY <2>1, <3>1, <4>1, <4>2, <4>3, RerunKeepsSuite
      <4>5. ASSUME NEW s \in Names, Filed(s)
            PROVE  Filed(s)'
        <5>1. s \in Samples \ {t.root} => Reworked(s)' = Reworked(s)
          BY <2>e, <4>1, RerunAdds
        <5>2. workspaces[s] # None /\ workspaces[s].root = s => s \in Samples
          BY ValidTyped
        <5>3. CASE s = root
          BY <3>1, <3>2, <3>4, <4>1, <4>5, <5>3 DEF Filed, Valid
        <5>4. CASE s # root
          BY <3>1, <3>2, <4>1, <4>5, <5>1, <5>2, <5>4 DEF Filed, Valid
        <5> QED
          BY <5>3, <5>4
      <4> QED
        BY <4>4, <4>5 DEF DiskInv
    <3> QED
      BY <3>3, <3>4
  <2> QED
    BY <2>3, <2>4
<1> QED
  BY <1>1, <1>2, <1>3, <1>4, <1>5, <1>6, <1>7, <1>8 DEF Complete

-------------------------------------------------------------------------------
(* The optimizer: a benchmark in flight is of what is on screen, a result  *)
(* that allows a write is good news, and what is busy is under way.        *)
BenchOk(t) ==
    /\ t.proto = opt.proto /\ t.applied = opt.applied
    /\ t.of # "profile" => opt.view = "review"
    /\ t.of = "write" => opt.dialog
    /\ m.store # None => t.store = m.store /\ t.model = m.model
ReviewInv ==
    /\ opt.dialog => opt.view = "review"
    /\ opt.view # "review" => opt.selBench = None
    /\ opt.writeBench # None =>
          /\ opt.dialog
          /\ opt.writeBench.is = "same" => opt.applied \notin Faulty
          /\ opt.writeBench.is = "noGraph" => opt.proto.of \in NoGraph
    /\ BenchIsOfSelection
    /\ \A t \in tasks : t.kind = "bench" => BenchOk(t)
    /\ m.store # None /\ opt.running => Running("bench", tasks)

LEMMA ReviewRest ==
    ASSUME TypeInv, TypeInv', ReviewInv, UNCHANGED opt,
           m'.store = None \/ (m'.store = m.store /\ m'.model = m.model), SameTasks({"bench"})
    PROVE  ReviewInv'
<1>1. \A t \in tasks' : t.kind = "bench" => t \in tasks
  BY DEF SameTasks, TypeInv
<1>2. Running("bench", tasks) => Running("bench", tasks')
  BY DEF SameTasks, TypeInv, Running
<1> QED
  BY <1>1, <1>2 DEF ReviewInv, BenchOk, BenchIsOfSelection

LEMMA ClosedReviewed ==
    ASSUME opt' = Closed, \A t \in tasks' : t.kind # "bench"
    PROVE  ReviewInv'
BY DEF ReviewInv, Closed, BenchIsOfSelection

(* What a selection does to the tasks.                                     *)
LEMMA SelectLeaves ==
    ASSUME NEW s \in Stores, NEW m_ \in Interfaces, NEW T \in SUBSET Tasks, Select(s, m_, T)
    PROVE  /\ opt' = Closed
           /\ m'.store = s /\ ~m'.applying /\ m'.dsl = m_.dsl
           /\ m'.creating = m_.creating /\ m'.deleting = m_.deleting
           /\ \A t \in tasks' : t.kind # "bench"
           /\ \A t \in T : t.kind \in {"create", "delete"} => t \in tasks'
           /\ \A t \in tasks' : t.kind = "apply" => \E u \in T :
                 u.kind = "apply" /\ u.store = t.store /\ u.text = t.text
<1> DEFINE S == Superseded({"bench", "model"}, T)
<1>1. S \in SUBSET Tasks /\ \A t : t \in S <=> t \in T /\ t.kind \notin {"bench", "model"}
  BY SupersededIs
<1>2. tasks' = Swapped(s, Disowned(S)) \cup {ModelRead(s, None)}
  BY DEF Select
<1>3. \A t : t \in Swapped(s, Disowned(S)) => t \in Disowned(S)
  BY SupersededIs DEF Swapped, Left
<1>4. \A t \in Disowned(S) : t.kind # "suite" => t \in Swapped(s, Disowned(S))
  BY SupersededIs DEF Swapped, Left
<1>5. ModelRead(s, None).kind = "model"
  BY DEF ModelRead
<1>6. /\ opt' = Closed
      /\ m'.store = s /\ ~m'.applying /\ m'.dsl = m_.dsl
      /\ m'.creating = m_.creating /\ m'.deleting = m_.deleting
  BY DEF Select, OnStore, Owned, Interfaces
<1> HIDE DEF S
<1>7. \A t \in tasks' : t.kind # "bench"
  BY <1>1, <1>2, <1>3, <1>5, DisownedIs
<1>8. \A t \in T : t.kind \in {"create", "delete"} => t \in tasks'
  BY <1>1, <1>2, <1>4, DisownedIs
<1>9. \A t \in tasks' : t.kind = "apply" => \E u \in T :
         u.kind = "apply" /\ u.store = t.store /\ u.text = t.text
  BY <1>1, <1>2, <1>3, <1>5, DisownedIs
<1> QED
  BY <1>6, <1>7, <1>8, <1>9

LEMMA StoreKeysKeepReview ==
    ASSUME TypeInv, TypeInv', ReviewInv, StoreKeys
    PROVE  ReviewInv'
<1>0. tasks \in SUBSET Tasks /\ m \in Interfaces
  BY DEF TypeInv
<1>1. ASSUME NEW s \in Stores, PickStore(s)
      PROVE  ReviewInv'
  BY <1>0, <1>1, SelectLeaves, ClosedReviewed DEF PickStore
<1>2. CASE \E s \in Stores : CreateStore(s)
  <2>1. SameTasks({"bench"}) /\ UNCHANGED opt
    BY <1>2 DEF CreateStore, SameTasks
  <2>2. m'.store = m.store /\ m'.model = m.model
    BY <1>2 DEF CreateStore, TypeInv, Interfaces
  <2> QED
    BY <2>1, <2>2, ReviewRest
<1>3. ASSUME NEW to \in {"stores", tab}, GotoSection(to)
      PROVE  ReviewInv'
  <2>1. CASE to = "model"
    BY <1>3, <2>1, ReviewRest DEF GotoSection, SameTasks, TypeInv, Interfaces
  <2>2. CASE to # "model"
    BY <1>3, <2>2, ClosedReviewed, SupersededIs DEF GotoSection, Stopped
  <2> QED
    BY <2>1, <2>2
<1>4. CASE ReloadStores
  BY <1>4, ReviewRest, SupersededIs DEF ReloadStores, StoresRead, SameTasks
<1>5. CASE Cancel \/ \E s \in Stores : AskDeleteStore(s)
  BY <1>5, ReviewRest DEF Cancel, AskDeleteStore, Asked, SameTasks, TypeInv, Interfaces
<1>6. CASE DeleteStore
  BY <1>6, ReviewRest DEF DeleteStore, Answered, SameTasks, TypeInv, Interfaces
<1> QED
  BY <1>1, <1>2, <1>3, <1>4, <1>5, <1>6 DEF StoreKeys

LEMMA StartKeepsReview ==
    ASSUME TypeInv, TypeInv', NEW o \in Optimizers, NEW kind \in {"profile", "selection", "write"},
           StartBench(kind, o), UNCHANGED m,
           o.dialog => o.view = "review", o.view # "review" => o.selBench = None, o.writeBench = None,
           o.selBench # None => o.selBench.proto = o.proto /\ o.selBench.applied = o.applied,
           kind # "profile" => o.view = "review", kind = "write" => o.dialog
    PROVE  ReviewInv'
<1>1. /\ opt'.view = o.view /\ opt'.dialog = o.dialog /\ opt'.proto = o.proto /\ opt'.applied = o.applied
      /\ opt'.selBench = o.selBench /\ opt'.writeBench = o.writeBench
  BY DEF StartBench, Benching, Optimizers
<1>2. /\ Bench(kind, o).kind = "bench" /\ Bench(kind, o).of = kind
      /\ Bench(kind, o).proto = o.proto /\ Bench(kind, o).applied = o.applied
      /\ Bench(kind, o).store = m.store /\ Bench(kind, o).model = m.model
  BY DEF Bench
<1>3. Bench(kind, o) \in tasks' /\ \A t \in tasks' : t.kind = "bench" => t = Bench(kind, o)
  BY SupersededIs DEF StartBench
<1> QED
  BY <1>1, <1>2, <1>3 DEF ReviewInv, BenchOk, BenchIsOfSelection, Running

LEMMA ModelKeysKeepReview ==
    ASSUME TypeInv, TypeInv', ReviewInv, ModelKeys
    PROVE  ReviewInv'
<1>0. tasks \in SUBSET Tasks /\ opt \in Optimizers
  BY DEF TypeInv
<1>1. CASE OpenBench
  <2> DEFINE o == [opt EXCEPT !.view = "bench", !.proto = m.dsl]
  <2>1. o \in Optimizers
    BY <1>0, <1>1 DEF OpenBench, Loaded, TypeInv, Interfaces, Optimizers
  <2>2. StartBench("profile", o) /\ UNCHANGED m /\ opt.view # "review" /\ ~opt.dialog
    BY <1>1 DEF OpenBench, Pane, InModel, Free
  <2>3. /\ o.view = "bench" /\ o.dialog = opt.dialog
        /\ o.selBench = opt.selBench /\ o.writeBench = opt.writeBench
    BY <1>0 DEF Optimizers
  <2>4. opt.selBench = None /\ opt.writeBench = None
    BY <2>2 DEF ReviewInv
  <2> HIDE DEF o
  <2> QED
    BY <2>1, <2>2, <2>3, <2>4, StartKeepsReview
<1>2. CASE BenchSelection
  <2> DEFINE o == [opt EXCEPT !.selBench = None]
  <2>1. /\ o \in Optimizers /\ o.view = opt.view /\ o.dialog = opt.dialog /\ o.selBench = None
        /\ o.writeBench = opt.writeBench
    BY <1>0 DEF Optimizers
  <2>2. StartBench("selection", o) /\ UNCHANGED m /\ opt.view = "review" /\ ~opt.dialog
    BY <1>2 DEF BenchSelection, Pane, InModel, Free
  <2>3. opt.writeBench = None
    BY <2>2 DEF ReviewInv
  <2> HIDE DEF o
  <2> QED
    BY <2>1, <2>2, <2>3, StartKeepsReview
<1>3. CASE OpenWriteDialog
  <2> DEFINE o == [opt EXCEPT !.dialog = TRUE, !.writeBench = None]
  <2>1. /\ o \in Optimizers /\ o.view = opt.view /\ o.dialog /\ o.writeBench = None
        /\ o.selBench = opt.selBench /\ o.proto = opt.proto /\ o.applied = opt.applied
    BY <1>0 DEF Optimizers
  <2>2. StartBench("write", o) /\ UNCHANGED m /\ opt.view = "review"
    BY <1>3 DEF OpenWriteDialog, Pane, InModel, Free
  <2>3. opt.selBench # None => opt.selBench.proto = opt.proto /\ opt.selBench.applied = opt.applied
    BY DEF ReviewInv, BenchIsOfSelection
  <2> HIDE DEF o
  <2> QED
    BY <2>1, <2>2, <2>3, StartKeepsReview
<1>4. CASE OpenReview
  <2>1. \A t \in tasks' : t.kind # "bench"
    BY <1>4, SupersededIs DEF OpenReview, Stopped
  <2>2. opt'.selBench = None /\ opt'.writeBench = None /\ ~opt'.dialog /\ ~opt'.running
    BY <1>4 DEF OpenReview, Closed
  <2> QED
    BY <2>1, <2>2 DEF ReviewInv, BenchIsOfSelection
<1>5. CASE LeaveOptimizer
  BY <1>5, ClosedReviewed, SupersededIs DEF LeaveOptimizer, Stopped
<1>6. CASE MoveCursor
  <2>1. /\ opt'.view = opt.view /\ opt'.dialog = opt.dialog /\ opt'.proto = opt.proto
        /\ opt'.applied = opt.applied /\ opt'.selBench = None /\ opt'.writeBench = opt.writeBench
        /\ opt'.running = opt.running
    BY <1>0, <1>6 DEF MoveCursor, Optimizers
  <2>2. UNCHANGED <<m, tasks>>
    BY <1>6 DEF MoveCursor, Pane
  <2> QED
    BY <2>1, <2>2 DEF ReviewInv, BenchOk, BenchIsOfSelection
<1>7. ASSUME NEW accepted, InModel, opt.view = "review", Accept(accepted)
      PROVE  ReviewInv'
  <2>1. /\ opt'.view = "review" /\ ~opt'.dialog /\ opt'.selBench = None
        /\ opt'.writeBench = opt.writeBench /\ ~opt'.running
    BY <1>0, <1>7 DEF Accept, Invalidated, Optimizers, InModel, Free
  <2>2. opt.writeBench = None
    BY <1>7 DEF ReviewInv, InModel, Free
  <2>3. \A t \in tasks' : t.kind # "bench"
    BY <1>7, SupersededIs DEF Accept, Forgotten
  <2> QED
    BY <2>1, <2>2, <2>3 DEF ReviewInv, BenchIsOfSelection
<1>8. CASE Toggle \/ ToggleAll
  BY <1>7, <1>8 DEF Toggle, ToggleAll
<1>9. CASE CloseWriteDialog
  <2>1. /\ opt'.view = opt.view /\ ~opt'.dialog /\ opt'.selBench = None
        /\ opt'.writeBench = None /\ ~opt'.running
    BY <1>0, <1>9 DEF CloseWriteDialog, Invalidated, Optimizers
  <2>2. \A t \in tasks' : t.kind # "bench"
    BY <1>9, SupersededIs DEF CloseWriteDialog, Forgotten
  <2> QED
    BY <2>1, <2>2 DEF ReviewInv, BenchIsOfSelection
<1>10. ASSUME NEW text, NEW optimized, Write(text, optimized)
       PROVE  ReviewInv'
  <2>1. SameTasks({"bench"})
    BY <1>0, <1>10, DisownedIs DEF Write, SameTasks
  <2> QED
    BY <1>10, <2>1, ReviewRest DEF Write, TypeInv, Interfaces
<1>11. ASSUME NEW id, ReloadModel(id)
       PROVE  ReviewInv'
  <2>1. ModelRead(m.store, id).kind = "model"
    BY DEF ModelRead
  <2>2. SameTasks({"bench"})
    BY <1>0, <1>11, <2>1, DisownedIs, SupersededIs DEF ReloadModel, SameTasks
  <2> QED
    BY <1>11, <2>2, ReviewRest DEF ReloadModel, Owned, TypeInv, Interfaces
<1>12. CASE OpenEditor \/ CloseEditor
  BY <1>12, ReviewRest DEF OpenEditor, CloseEditor, SameTasks, TypeInv, Interfaces
<1> QED
  BY <1>1, <1>2, <1>3, <1>4, <1>5, <1>6, <1>8, <1>9, <1>10, <1>11, <1>12
     DEF ModelKeys, WriteOptimized, WriteEdited

LEMMA TestKeysKeepReview ==
    ASSUME TypeInv, TypeInv', ReviewInv, TestKeys
    PROVE  ReviewInv'
BY TestKeysLeave, ReviewRest DEF SameTasks

(* A mutation that is carried out stays a mutation.                        *)
LEMMA ServeLeaves ==
    ASSUME TypeInv, (\E t \in tasks : Serve(t)) \/ OtherClient
    PROVE  /\ UNCHANGED <<m, opt>>
           /\ SameTasks({"stores", "model", "bench", "suite", "edited"})
           /\ \A u \in tasks : u.kind \in {"create", "delete"} => Running(u.kind, tasks')
           /\ \A u \in tasks : u.kind = "apply" => \E v \in tasks' :
                 /\ v.kind = "apply" /\ v.store = u.store /\ v.text = u.text /\ v.current = u.current
                 /\ v.model = u.model
           /\ \A v \in tasks' : v.kind = "apply" => \E u \in tasks :
                 u.kind = "apply" /\ v.store = u.store /\ v.text = u.text
<1>1. ASSUME NEW t \in tasks, Serve(t)
      PROVE  /\ UNCHANGED <<m, opt>>
             /\ \E u \in Tasks :
                   /\ tasks' = (tasks \ {t}) \cup {u}
                   /\ u.kind = t.kind /\ t.kind \in {"create", "delete", "apply"} /\ u.store = t.store
                   /\ t.kind = "apply" => u.text = t.text /\ u.current = t.current /\ u.model = t.model
  <2>1. t \in Tasks /\ Mutation(t) /\ UNCHANGED <<m, opt>>
    BY <1>1 DEF TypeInv, Serve, Unseen
  <2>2. PICK answer \in {"ok", "failed"} : Replied(t, answer)
    BY <1>1 DEF Serve
  <2> DEFINE u == [t EXCEPT !.answer = answer]
  <2>3. tasks' = (tasks \ {t}) \cup {u}
    BY <2>2 DEF Replied
  <2>4. answer \in Replies
    BY DEF Replies
  <2>5. /\ u \in Tasks /\ u.kind = t.kind /\ u.store = t.store
        /\ t.kind = "apply" => u.text = t.text /\ u.current = t.current /\ u.model = t.model
    BY <2>1, <2>4, RepliedIs
  <2> HIDE DEF u
  <2> QED
    BY <2>1, <2>3, <2>5 DEF Mutation
<1>2. ASSUME NEW t \in tasks, Serve(t)
      PROVE  SameTasks({"stores", "model", "bench", "suite", "edited"})
  BY <1>1, <1>2 DEF SameTasks
<1>3. ASSUME NEW t \in tasks, Serve(t)
      PROVE  /\ \A u \in tasks : u.kind \in {"create", "delete"} => Running(u.kind, tasks')
             /\ \A u \in tasks : u.kind = "apply" => \E v \in tasks' :
                   /\ v.kind = "apply" /\ v.store = u.store /\ v.text = u.text /\ v.current = u.current
                   /\ v.model = u.model
             /\ \A v \in tasks' : v.kind = "apply" => \E u \in tasks :
                   u.kind = "apply" /\ v.store = u.store /\ v.text = u.text
  BY <1>1, <1>3 DEF Running
<1>4. CASE OtherClient
  <2>1. UNCHANGED <<m, opt, tasks>>
    BY <1>4 DEF OtherClient, Unseen
  <2> QED
    BY <2>1 DEF Running, SameTasks
<1> QED
  BY <1>1, <1>2, <1>3, <1>4

LEMMA ServerKeepsReview ==
    ASSUME TypeInv, TypeInv', ReviewInv, (\E t \in tasks : Serve(t)) \/ OtherClient
    PROVE  ReviewInv'
<1>1. UNCHANGED <<m, opt>> /\ SameTasks({"stores", "model", "bench", "suite", "edited"})
  BY ServeLeaves
<1>2. SameTasks({"bench"})
  BY <1>1 DEF SameTasks
<1> QED
  BY <1>1, <1>2, ReviewRest

LEMMA BenchDoneKeepsReview ==
    ASSUME TypeInv, TypeInv', ReviewInv, NEW t \in tasks, BenchDone(t)
    PROVE  ReviewInv'
<1>1. t \in BenchRuns /\ UNCHANGED m /\ tasks' = tasks \ {t} /\ BenchOk(t) /\ opt \in Optimizers
  BY KindsDiffer DEF BenchDone, TypeInv, ReviewInv
<1>2. CASE StaleOrigin(t)
  <2>1. m.store = None
    BY <1>1, <1>2 DEF StaleOrigin, BenchOk
  <2>2. UNCHANGED opt
    BY <1>2 DEF BenchDone
  <2> QED
    BY <1>1, <2>1, <2>2 DEF ReviewInv, BenchOk, BenchIsOfSelection
<1>3. CASE ~StaleOrigin(t)
  <2> DEFINE res == Result(t)
  <2>1. PICK failed \in BOOLEAN : opt' = Shown(t, failed)
    BY <1>3 DEF BenchDone
  <2>2. /\ res.proto = opt.proto /\ res.applied = opt.applied
        /\ res.is = "same" => t.of = "profile" \/ opt.applied \notin Faulty
        /\ res.is = "noGraph" => opt.proto.of \in NoGraph
    BY <1>1 DEF Result, BenchOk
  <2> HIDE DEF res
  <2>3. /\ opt'.view = opt.view /\ opt'.dialog = opt.dialog /\ opt'.proto = opt.proto
        /\ opt'.applied = opt.applied /\ ~opt'.running
        /\ opt'.selBench = opt.selBench \/ (opt'.selBench = res /\ t.of = "selection")
        /\ opt'.writeBench = opt.writeBench \/ (opt'.writeBench = res /\ t.of = "write")
    BY <1>1, <2>1 DEF Shown, Optimizers, res
  <2>4. (t.of = "selection" => opt.view = "review") /\ (t.of = "write" => opt.dialog)
    BY <1>1 DEF BenchOk
  <2>5. opt'.selBench # None => opt'.selBench.proto = opt.proto /\ opt'.selBench.applied = opt.applied
    BY <2>2, <2>3 DEF ReviewInv, BenchIsOfSelection
  <2>6. opt'.writeBench # None =>
           /\ opt'.writeBench.proto = opt.proto /\ opt'.writeBench.applied = opt.applied /\ opt.dialog
           /\ opt'.writeBench.is = "same" => opt.applied \notin Faulty
           /\ opt'.writeBench.is = "noGraph" => opt.proto.of \in NoGraph
    BY <2>2, <2>3, <2>4 DEF ReviewInv, BenchIsOfSelection
  <2>7. \A u \in tasks' : u.kind = "bench" => BenchOk(u)'
    BY <1>1, <2>3 DEF ReviewInv, BenchOk
  <2>8. /\ opt'.dialog => opt'.view = "review"
        /\ opt'.view # "review" => opt'.selBench = None
    BY <2>3, <2>4 DEF ReviewInv
  <2> QED
    BY <2>3, <2>5, <2>6, <2>7, <2>8 DEF ReviewInv, BenchIsOfSelection
<1> QED
  BY <1>2, <1>3

LEMMA CompletionsKeepReview ==
    ASSUME TypeInv, TypeInv', ReviewInv, NEW t \in tasks, Complete(t)
    PROVE  ReviewInv'
<1>0. tasks \in SUBSET Tasks /\ t \in Tasks /\ Others(t) = tasks \ {t} /\ m \in Interfaces
        /\ Others(t) \in SUBSET Tasks
  BY DEF TypeInv, Others
<1>r. StoresRead.kind = "stores" /\ ModelRead(m.store, None).kind = "model"
  BY DEF StoresRead, ModelRead
<1>1. CASE ModelApplied(t)
  <2>1. m'.store = m.store /\ m'.model = m.model
    BY <1>1 DEF ModelApplied, Ended, TypeInv, Interfaces
  <2>2. \/ opt' = opt /\ SameTasks({"bench"})
        \/ opt' = Closed /\ \A u \in tasks' : u.kind # "bench"
    BY <1>0, <1>r, <1>1, SupersededIs DEF ModelApplied, Ended, Stopped, SameTasks
  <2> QED
    BY <2>1, <2>2, ReviewRest, ClosedReviewed
<1>2. CASE StoreCreated(t)
  <2> DEFINE done == [m EXCEPT !.creating = FALSE]
             T == Superseded({"stores"}, Others(t)) \cup {StoresRead}
  <2>a. T \in SUBSET Tasks
    BY <1>0, SupersededIs DEF StoresRead, Tasks, StoreReads
  <2>b. done \in Interfaces
    BY <1>0 DEF Interfaces
  <2>1. T \in SUBSET Tasks /\ done \in Interfaces
    BY <2>a, <2>b
  <2>2. t.store \in Stores
    BY <1>0, <1>2, KindsDiffer DEF StoreCreated, StoreWrites
  <2>3. CASE Ok(t)
    BY <1>2, <2>1, <2>2, <2>3, SelectLeaves, ClosedReviewed DEF StoreCreated
  <2>4. CASE ~Ok(t)
    BY <1>0, <1>2, <2>4, ReviewRest DEF StoreCreated, Ended, SameTasks, Interfaces
  <2> QED
    BY <2>3, <2>4
<1>3. CASE StoreDeleted(t)
  <2>1. SameTasks({"bench"}) /\ UNCHANGED opt
    BY <1>0, <1>3, <1>r, SupersededIs DEF StoreDeleted, Ended, SameTasks
  <2>2. m'.store = None \/ (m'.store = m.store /\ m'.model = m.model)
    BY <1>3 DEF StoreDeleted, TypeInv, Interfaces
  <2> QED
    BY <2>1, <2>2, ReviewRest
<1>4. CASE StoresLoaded(t)
  <2> DEFINE listed == [m EXCEPT !.list = Existing]
  <2>0. listed \in Interfaces
    BY StoresExist DEF TypeInv, Interfaces
  <2>1. CASE Failed(t)
    BY <1>0, <1>4, <2>1, ReviewRest DEF StoresLoaded, Failed, Ended, SameTasks
  <2>2. CASE m' = listed /\ tasks' = Swapped(m.store, Others(t)) /\ UNCHANGED opt
    <3>1. SameTasks({"bench"})
      BY <1>0, <1>4, <2>2, SupersededIs DEF StoresLoaded, Swapped, Left, SameTasks
    <3> QED
      BY <2>2, <3>1, ReviewRest DEF TypeInv, Interfaces
  <2>3. CASE \E s \in Existing : Select(s, listed, Others(t))
    BY <1>0, <2>0, <2>3, SelectLeaves, ClosedReviewed, StoresExist
  <2> QED
    BY <1>4, <2>1, <2>2, <2>3 DEF StoresLoaded
<1>5. CASE ModelLoaded(t)
  <2>1. CASE Failed(t) \/ (UNCHANGED m /\ Ended(t))
    BY <1>0, <1>5, <2>1, ReviewRest DEF ModelLoaded, Failed, Ended, SameTasks
  <2>2. CASE ~Failed(t) /\ Found(t) # None /\ t.store = m.store
    <3> DEFINE text == models[t.store][Found(t)[2]]
               switched == m.model # None /\ Found(t) # m.model
               changed == Found(t) # m.model \/ text # m.dsl
               rest == IF switched THEN Disowned(Others(t)) ELSE Others(t)
    <3>1. /\ m' = [(IF switched THEN Owned(m) ELSE m) EXCEPT !.model = Found(t), !.dsl = text]
          /\ opt' = IF changed THEN Closed ELSE opt
          /\ tasks' = IF changed THEN Stopped(rest) ELSE rest
      BY <1>5, <2>2 DEF ModelLoaded
    <3> HIDE DEF text
    <3>2. CASE changed
      BY <3>1, <3>2, ClosedReviewed, SupersededIs DEF Stopped
    <3>3. CASE ~changed
      <4>1. m'.store = m.store /\ m'.model = m.model
        BY <3>1, <3>3 DEF TypeInv, Interfaces
      <4>2. UNCHANGED opt /\ tasks' = Others(t)
        BY <3>1, <3>3
      <4>3. SameTasks({"bench"})
        BY <1>0, <1>5, <4>2 DEF ModelLoaded, SameTasks
      <4> QED
        BY <4>1, <4>2, <4>3, ReviewRest
    <3> QED
      BY <3>2, <3>3
  <2> QED
    BY <1>5, <2>1, <2>2 DEF ModelLoaded
<1>6. CASE TestsRan(t)
  BY <1>0, <1>6, ReviewRest DEF TestsRan, SameTasks
<1>7. CASE HandleTestFileEdited(t)
  <2>1. /\ Others(t) \subseteq tasks' /\ \A u \in tasks' : u \in Others(t) \/ u.kind = "suite"
        /\ UNCHANGED <<m, opt>>
    BY <1>7, RerunAdds DEF HandleTestFileEdited, Quiet
  <2> QED
    BY <1>0, <1>7, <2>1, ReviewRest DEF HandleTestFileEdited, SameTasks
<1> QED
  BY <1>1, <1>2, <1>3, <1>4, <1>5, <1>6, <1>7, BenchDoneKeepsReview DEF Complete

LEMMA NextKeepsReview ==
    ASSUME TypeInv, TypeInv', ReviewInv, Next
    PROVE  ReviewInv'
BY StoreKeysKeepReview, ModelKeysKeepReview, TestKeysKeepReview, ServerKeepsReview,
   CompletionsKeepReview DEF Next, Step

LEMMA NextKeepsTests ==
    ASSUME TypeInv, TypeInv', SuiteInv, DiskInv, Next
    PROVE  SuiteInv' /\ DiskInv'
BY StoreKeysKeepTests, ModelKeysKeepTests, TestKeysKeepTests, ServerKeepsTests,
   CompletionsKeepTests DEF Next, Step

(* Whoever waits for a mutation has one under way.                         *)
BusyInv ==
    /\ m.store # None /\ m.applying =>
          \E t \in tasks : /\ t.kind = "apply" /\ t.current
                           /\ t.store = m.store /\ t.model \in {None, m.model}
    /\ m.creating => Running("create", tasks)
    /\ m.deleting => Running("delete", tasks)

LEMMA BusyRest ==
    ASSUME BusyInv, Staying({"apply", "create", "delete"}),
           m'.store = None \/ ~m'.applying \/
              (m'.store = m.store /\ m'.model = m.model /\ m'.applying = m.applying),
           m'.creating = m.creating, m'.deleting = m.deleting
    PROVE  BusyInv'
<1>1. \A kind \in {"create", "delete"} : Running(kind, tasks) => Running(kind, tasks')
  BY DEF Running, Staying
<1> QED
  BY <1>1 DEF BusyInv, Staying

LEMMA BusyFreed ==
    ASSUME BusyInv, Staying({"create", "delete"}), ~m'.applying,
           m'.creating = m.creating, m'.deleting = m.deleting
    PROVE  BusyInv'
BY DEF BusyInv, Staying, Running

LEMMA KeysKeepBusy ==
    ASSUME TypeInv, BusyInv, StoreKeys \/ ModelKeys \/ TestKeys
    PROVE  BusyInv'
<1>0. tasks \in SUBSET Tasks /\ m \in Interfaces
  BY DEF TypeInv
<1>1. ASSUME NEW s \in Stores, PickStore(s)
      PROVE  BusyInv'
  <2>1. /\ ~m'.applying /\ m'.creating = m.creating /\ m'.deleting = m.deleting
        /\ \A t \in tasks : t.kind \in {"create", "delete"} => t \in tasks'
    BY <1>0, <1>1, SelectLeaves DEF PickStore
  <2> QED
    BY <2>1, BusyFreed DEF Staying
<1>2. ASSUME NEW s \in Stores, CreateStore(s)
      PROVE  BusyInv'
  <2>1. tasks \subseteq tasks' /\ Running("create", tasks')
    <3> DEFINE u == [kind |-> "create", store |-> s, answer |-> NoAnswer]
    <3>1. tasks' = tasks \cup {u} /\ u.kind = "create"
      BY <1>2 DEF CreateStore
    <3> HIDE DEF u
    <3> QED
      BY <3>1 DEF Running
  <2>2. /\ m'.store = m.store /\ m'.model = m.model /\ m'.applying = m.applying
        /\ m'.deleting = m.deleting
    BY <1>2 DEF CreateStore, TypeInv, Interfaces
  <2>3. Running("delete", tasks) => Running("delete", tasks')
    BY <2>1 DEF Running
  <2> QED
    BY <2>1, <2>2, <2>3 DEF BusyInv
<1>3. CASE \E to : GotoSection(to)
  BY <1>3, BusyRest, SupersededIs DEF GotoSection, Stopped, Staying, TypeInv, Interfaces
<1>4. CASE ReloadStores
  BY <1>4, BusyRest, SupersededIs DEF ReloadStores, Staying
<1>5. CASE Cancel \/ \E s \in Stores : AskDeleteStore(s)
  BY <1>5, BusyRest DEF Cancel, AskDeleteStore, Asked, Staying, TypeInv, Interfaces
<1>6. CASE DeleteStore
  <2>1. tasks \subseteq tasks' /\ (~m.deleting => Running("delete", tasks'))
    <3> DEFINE u == [kind |-> "delete", store |-> m.confirm.store, answer |-> NoAnswer]
    <3>1. tasks' = (IF m.deleting THEN tasks ELSE tasks \cup {u}) /\ u.kind = "delete"
      BY <1>6 DEF DeleteStore
    <3> HIDE DEF u
    <3> QED
      BY <3>1 DEF Running
  <2>2. /\ m'.store = m.store /\ m'.model = m.model /\ m'.applying = m.applying
        /\ m'.creating = m.creating
    BY <1>6 DEF DeleteStore, Answered, TypeInv, Interfaces
  <2>3. \A kind \in {"create", "delete"} : Running(kind, tasks) => Running(kind, tasks')
    BY <2>1 DEF Running
  <2> QED
    BY <2>1, <2>2, <2>3 DEF BusyInv
<1>7. CASE OpenBench \/ BenchSelection \/ OpenWriteDialog
  BY <1>7, BusyRest, SupersededIs
     DEF OpenBench, BenchSelection, OpenWriteDialog, StartBench, Pane, Staying
<1>8. CASE OpenReview \/ LeaveOptimizer \/ MoveCursor \/ Toggle \/ ToggleAll \/ CloseWriteDialog
  <2>1. (tasks' = tasks \/ tasks' = Superseded({"bench"}, tasks)) /\ UNCHANGED m
    BY <1>8 DEF OpenReview, LeaveOptimizer, MoveCursor, Toggle, ToggleAll, Accept, CloseWriteDialog,
                Pane, Stopped, Forgotten
  <2> QED
    BY <2>1, BusyRest, SupersededIs DEF Staying
<1>9. ASSUME NEW text, NEW optimized, Write(text, optimized)
      PROVE  BusyInv'
  <2> DEFINE u == [kind |-> "apply", store |-> m.store, model |-> m.model, text |-> text,
                   optimized |-> optimized, current |-> TRUE, answer |-> NoAnswer]
  <2>1. u.kind = "apply" /\ u.current /\ u.store = m.store /\ u.model = m.model
    OBVIOUS
  <2>2. tasks' = Disowned(tasks) \cup {u}
    BY <1>9 DEF Write
  <2>3. /\ m'.store = m.store /\ m'.model = m.model
        /\ m'.creating = m.creating /\ m'.deleting = m.deleting
    BY <1>9 DEF Write, TypeInv, Interfaces
  <2> HIDE DEF u
  <2>4. \A t \in tasks : t.kind # "apply" => t \in tasks'
    BY <1>0, <2>2, DisownedIs
  <2> QED
    BY <2>1, <2>2, <2>3, <2>4 DEF BusyInv, Running
<1>10. ASSUME NEW id, ReloadModel(id)
       PROVE  BusyInv'
  <2>1. CASE id = None
    BY <1>10, <2>1, BusyRest, SupersededIs DEF ReloadModel, Staying
  <2>2. CASE id # None
    <3>1. tasks' = Superseded({"model"}, Disowned(tasks)) \cup {ModelRead(m.store, id)} /\ m' = Owned(m)
      BY <1>10, <2>2 DEF ReloadModel
    <3>2. Staying({"create", "delete"})
      BY <1>0, <3>1, SupersededIs, DisownedIs DEF Staying
    <3> QED
      BY <1>0, <3>1, <3>2, BusyFreed DEF Owned, Interfaces
  <2> QED
    BY <2>1, <2>2
<1>11. CASE OpenEditor \/ CloseEditor
  BY <1>11, BusyRest DEF OpenEditor, CloseEditor, Staying, TypeInv, Interfaces
<1>12. CASE TestKeys
  BY <1>12, TestKeysLeave, BusyRest DEF Staying
<1> QED
  BY <1>1, <1>2, <1>3, <1>4, <1>5, <1>6, <1>7, <1>8, <1>9, <1>10, <1>11, <1>12
     DEF StoreKeys, ModelKeys, WriteOptimized, WriteEdited

LEMMA ServerKeepsBusy ==
    ASSUME TypeInv, BusyInv, (\E t \in tasks : Serve(t)) \/ OtherClient
    PROVE  BusyInv'
<1>1. /\ UNCHANGED m
      /\ \A u \in tasks : u.kind \in {"create", "delete"} => Running(u.kind, tasks')
      /\ \A u \in tasks : u.kind = "apply" => \E v \in tasks' :
            /\ v.kind = "apply" /\ v.store = u.store /\ v.current = u.current /\ v.model = u.model
  BY ServeLeaves
<1>2. \A kind \in {"create", "delete"} : Running(kind, tasks) => Running(kind, tasks')
  BY <1>1 DEF Running
<1> QED
  BY <1>1, <1>2 DEF BusyInv

LEMMA CompletionsKeepBusy ==
    ASSUME TypeInv, IdInv, BusyInv, NEW t \in tasks, Complete(t)
    PROVE  BusyInv'
<1>0. tasks \in SUBSET Tasks /\ t \in Tasks /\ Others(t) = tasks \ {t} /\ m \in Interfaces
        /\ Others(t) \in SUBSET Tasks
  BY DEF TypeInv, Others
<1>1. CASE ModelApplied(t)
  <2>1. /\ m'.store = m.store /\ m'.model = m.model
        /\ m'.creating = m.creating /\ m'.deleting = m.deleting
    BY <1>0, <1>1 DEF ModelApplied, Interfaces
  <2>2. Staying({"create", "delete"})
    BY <1>0, <1>1, SupersededIs DEF ModelApplied, Ended, Stopped, Staying
  <2>3. CASE StaleApply(t)
    <3>1. UNCHANGED m /\ tasks' = tasks \ {t}
      BY <1>0, <1>1, <2>3 DEF ModelApplied, Ended
    <3>2. ~(t.current /\ t.store = m.store /\ t.model \in {None, m.model})
      BY <2>3 DEF StaleApply, StaleOrigin
    <3> QED
      BY <2>2, <3>1, <3>2 DEF BusyInv, Running, Staying
  <2>4. CASE ~StaleApply(t)
    <3>1. ~m'.applying
      BY <1>0, <1>1, <2>4 DEF ModelApplied, Interfaces
    <3> QED
      BY <2>1, <2>2, <3>1, BusyFreed
  <2> QED
    BY <2>3, <2>4
<1>2. CASE StoreCreated(t)
  <2> DEFINE done == [m EXCEPT !.creating = FALSE]
             T == Superseded({"stores"}, Others(t)) \cup {StoresRead}
  <2>1. /\ done \in Interfaces /\ ~done.creating /\ done.deleting = m.deleting /\ done.store = m.store
        /\ done.model = m.model /\ done.applying = m.applying
    BY <1>0 DEF Interfaces
  <2>2. T \in SUBSET Tasks
    BY <1>0, SupersededIs DEF StoresRead, Tasks, StoreReads
  <2>3. t.store \in Stores
    BY <1>0, <1>2, KindsDiffer DEF StoreCreated, StoreWrites
  <2> HIDE DEF done
  <2>4. CASE Ok(t)
    <3>1. Select(t.store, done, T)
      BY <1>2, <2>4 DEF StoreCreated, done
    <3>2. /\ ~m'.applying /\ ~m'.creating /\ m'.deleting = m.deleting
          /\ \A u \in T : u.kind = "delete" => u \in tasks'
      BY <2>1, <2>2, <2>3, <3>1, SelectLeaves
    <3>3. \A u \in tasks : u.kind = "delete" => u \in tasks'
      BY <1>0, <1>2, <3>2, SupersededIs DEF StoreCreated
    <3> QED
      BY <3>2, <3>3 DEF BusyInv, Running
  <2>5. CASE ~Ok(t)
    <3>1. m' = done /\ tasks' = tasks \ {t}
      BY <1>0, <1>2, <2>5 DEF StoreCreated, Ended, done
    <3> QED
      BY <1>2, <2>1, <3>1 DEF StoreCreated, BusyInv, Running
  <2> QED
    BY <2>4, <2>5
<1>3. CASE StoreDeleted(t)
  <2>1. /\ ~m'.deleting /\ m'.creating = m.creating /\ m'.applying = m.applying
        /\ m'.store = None \/ (m'.store = m.store /\ m'.model = m.model)
    BY <1>0, <1>3 DEF StoreDeleted, Interfaces
  <2>2. Staying({"apply", "create"})
    BY <1>0, <1>3, SupersededIs DEF StoreDeleted, Ended, Staying
  <2> QED
    BY <2>1, <2>2 DEF BusyInv, Running, Staying
<1>4. CASE StoresLoaded(t)
  <2> DEFINE listed == [m EXCEPT !.list = Existing]
  <2>0. /\ listed \in Interfaces /\ listed.creating = m.creating /\ listed.deleting = m.deleting
        /\ listed.store = m.store /\ listed.model = m.model /\ listed.applying = m.applying
    BY <1>0, StoresExist DEF Interfaces
  <2> HIDE DEF listed
  <2>1. CASE Failed(t)
    BY <1>0, <1>4, <2>1, BusyRest DEF StoresLoaded, Failed, Ended, Staying
  <2>2. CASE m' = listed /\ tasks' = Swapped(m.store, Others(t))
    <3>1. Staying({"apply", "create", "delete"})
      BY <1>0, <1>4, <2>2, SupersededIs DEF StoresLoaded, Swapped, Left, Staying
    <3> QED
      BY <2>0, <2>2, <3>1, BusyRest
  <2>3. CASE \E s \in Existing : Select(s, listed, Others(t))
    <3>1. PICK s \in Existing : Select(s, listed, Others(t))
      BY <2>3
    <3>2. /\ ~m'.applying /\ m'.creating = m.creating /\ m'.deleting = m.deleting
          /\ \A u \in Others(t) : u.kind \in {"create", "delete"} => u \in tasks'
      BY <1>0, <2>0, <3>1, SelectLeaves, StoresExist
    <3> QED
      BY <1>0, <1>4, <3>2, BusyFreed DEF StoresLoaded, Staying
  <2> QED
    BY <1>4, <2>1, <2>2, <2>3 DEF StoresLoaded, listed
<1>5. CASE ModelLoaded(t)
  <2>1. CASE Failed(t) \/ (UNCHANGED m /\ Ended(t))
    BY <1>0, <1>5, <2>1, BusyRest DEF ModelLoaded, Failed, Ended, Staying
  <2>2. CASE ~Failed(t) /\ Found(t) # None /\ t.store = m.store
    <3> DEFINE text == models[t.store][Found(t)[2]]
               switched == m.model # None /\ Found(t) # m.model
               changed == Found(t) # m.model \/ text # m.dsl
               rest == IF switched THEN Disowned(Others(t)) ELSE Others(t)
    <3>1. /\ m' = [(IF switched THEN Owned(m) ELSE m) EXCEPT !.model = Found(t), !.dsl = text]
          /\ tasks' = IF changed THEN Stopped(rest) ELSE rest
      BY <1>5, <2>2 DEF ModelLoaded
    <3> HIDE DEF text
    <3>2. CASE switched
      <4>1. ~m'.applying /\ m'.creating = m.creating /\ m'.deleting = m.deleting
        BY <1>0, <3>1, <3>2 DEF Owned, Interfaces
      <4>2. Staying({"create", "delete"})
        BY <1>0, <1>5, <3>1, <3>2, SupersededIs, DisownedIs DEF ModelLoaded, Stopped, Staying
      <4> QED
        BY <4>1, <4>2, BusyFreed
    <3>3. CASE ~switched
      <4>1. /\ m'.store = m.store /\ (m.model = None \/ m'.model = m.model) /\ m'.applying = m.applying
            /\ m'.creating = m.creating /\ m'.deleting = m.deleting
        BY <1>0, <3>1, <3>3 DEF Interfaces
      <4>2. Staying({"apply", "create", "delete"})
        BY <1>0, <1>5, <3>1, <3>3, SupersededIs DEF ModelLoaded, Stopped, Staying
      <4>3. \A kind \in {"create", "delete"} : Running(kind, tasks) => Running(kind, tasks')
        BY <4>2 DEF Running, Staying
      <4> QED
        BY <4>1, <4>2, <4>3 DEF BusyInv, Staying
    <3> QED
      BY <3>2, <3>3
  <2> QED
    BY <1>5, <2>1, <2>2 DEF ModelLoaded
<1>6. CASE BenchDone(t) \/ TestsRan(t)
  BY <1>0, <1>6, BusyRest DEF BenchDone, TestsRan, Staying
<1>7. CASE HandleTestFileEdited(t)
  <2>1. Others(t) \subseteq tasks' /\ UNCHANGED m
    BY <1>7, RerunAdds DEF HandleTestFileEdited
  <2> QED
    BY <1>0, <1>7, <2>1, BusyRest DEF HandleTestFileEdited, Staying
<1> QED
  BY <1>1, <1>2, <1>3, <1>4, <1>5, <1>6, <1>7 DEF Complete

LEMMA NextKeepsBusy ==
    ASSUME TypeInv, IdInv, BusyInv, Next
    PROVE  BusyInv'
BY KeysKeepBusy, ServerKeepsBusy, CompletionsKeepBusy DEF Next, Step

-------------------------------------------------------------------------------
(* The texts: unless the optimizer was opened on another store's, what is  *)
(* written for a store is a model of it that answers as it should.         *)
TextInv ==
    /\ OptimizedIsChecked
    /\ \A t \in tasks : t.kind = "apply" => ~t.text.wrong /\ (t.store # None => t.text.of = t.store)
    /\ m.dsl # None => ~m.dsl.wrong
    /\ opt.proto # None => ~opt.proto.wrong /\ (m.store # None => opt.proto.of = m.store)

AskedBy(T) == \A v \in tasks' : v.kind = "apply" =>
              \E u \in T : u.kind = "apply" /\ v.store = u.store /\ v.text = u.text

LEMMA TextRest ==
    ASSUME TextInv, UNCHANGED models, AskedBy(tasks), m'.dsl = m.dsl,
           (opt'.proto = opt.proto /\ m'.store \in {m.store, None}) \/ opt'.proto = None
    PROVE  TextInv'
<1>1. OptimizedIsChecked'
  BY DEF TextInv, OptimizedIsChecked, Existing
<1> QED
  BY <1>1 DEF TextInv, AskedBy

LEMMA AsksSame ==
    ASSUME TypeInv, \A v \in tasks' : v.kind = "apply" => v \in tasks \/ v \in Disowned(tasks)
    PROVE  AskedBy(tasks)
<1>1. tasks \in SUBSET Tasks
  BY DEF TypeInv
<1> QED
  BY <1>1, DisownedIs DEF AskedBy

LEMMA SelectKeepsTexts ==
    ASSUME TextInv, NEW s \in Stores, NEW m_ \in Interfaces, NEW T \in SUBSET Tasks, Select(s, m_, T),
           m_.dsl = m.dsl, UNCHANGED models, \A t \in T : t.kind = "apply" => t \in tasks
    PROVE  TextInv'
<1>1. /\ opt' = Closed /\ m'.dsl = m.dsl
      /\ \A t \in tasks' : t.kind = "apply" => \E u \in T :
            u.kind = "apply" /\ u.store = t.store /\ u.text = t.text
  BY SelectLeaves
<1>2. AskedBy(tasks) /\ opt'.proto = None
  BY <1>1, ClosedTyped DEF AskedBy
<1> QED
  BY <1>1, <1>2, TextRest

LEMMA KeysKeepTexts ==
    ASSUME TypeInv, ReviewInv, TextInv, ~OpensForeign, StoreKeys \/ ModelKeys \/ TestKeys
    PROVE  TextInv'
<1> USE DEF Still
<1>0. tasks \in SUBSET Tasks /\ m \in Interfaces /\ opt \in Optimizers
  BY DEF TypeInv
<1>1. ASSUME NEW s \in Stores, PickStore(s)
      PROVE  TextInv'
  BY <1>0, <1>1, SelectKeepsTexts DEF PickStore
<1>2. ASSUME NEW s \in Stores, CreateStore(s)
      PROVE  TextInv'
  <2>1. AskedBy(tasks)
    BY <1>2, AsksSame DEF CreateStore
  <2> QED
    BY <1>0, <1>2, <2>1, TextRest DEF CreateStore, Interfaces
<1>3. ASSUME NEW to, GotoSection(to)
      PROVE  TextInv'
  <2>1. AskedBy(tasks)
    BY <1>3, AsksSame, SupersededIs DEF GotoSection, Stopped
  <2>2. m'.dsl = m.dsl /\ m'.store = m.store /\ UNCHANGED models
    BY <1>0, <1>3 DEF GotoSection, Interfaces
  <2>3. opt'.proto = opt.proto \/ opt'.proto = None
    BY <1>3, ClosedTyped DEF GotoSection
  <2> QED
    BY <2>1, <2>2, <2>3, TextRest
<1>4. CASE ReloadStores
  <2>1. AskedBy(tasks)
    BY <1>4, AsksSame, SupersededIs DEF ReloadStores, StoresRead
  <2> QED
    BY <1>4, <2>1, TextRest DEF ReloadStores
<1>5. CASE Cancel \/ \E s \in Stores : AskDeleteStore(s)
  <2>1. PICK question : Asked(question)
    BY <1>5 DEF Cancel, AskDeleteStore
  <2>2. AskedBy(tasks)
    BY <2>1, AsksSame DEF Asked
  <2> QED
    BY <1>0, <2>1, <2>2, TextRest DEF Asked, Interfaces
<1>6. CASE DeleteStore
  <2>1. AskedBy(tasks)
    BY <1>6, AsksSame DEF DeleteStore
  <2> QED
    BY <1>0, <1>6, <2>1, TextRest DEF DeleteStore, Answered, Interfaces
<1>7. ASSUME UNCHANGED <<m, models>>, opt'.proto # None => opt'.proto \in {opt.proto, m.dsl},
             \A v \in tasks' : v.kind = "apply" => v \in tasks
      PROVE  TextInv'
  <2>1. AskedBy(tasks)
    BY <1>7, AsksSame
  <2>2. CASE opt'.proto = opt.proto \/ opt'.proto = None
    BY <1>7, <2>1, <2>2, TextRest
  <2>3. CASE opt'.proto # None /\ opt'.proto # opt.proto /\ opt'.proto = m.dsl
    <3>1. opt'.proto.of = m.store /\ ~opt'.proto.wrong
      BY <2>3 DEF OpensForeign, TextInv
    <3>2. OptimizedIsChecked'
      BY <1>7 DEF TextInv, OptimizedIsChecked, Existing
    <3> QED
      BY <1>7, <2>1, <3>1, <3>2 DEF TextInv, AskedBy
  <2> QED
    BY <1>7, <2>2, <2>3
<1>8. CASE OpenBench \/ BenchSelection \/ OpenWriteDialog
  <2>1. UNCHANGED <<m, models>> /\ opt'.proto \in {opt.proto, m.dsl}
    BY <1>0, <1>8 DEF OpenBench, BenchSelection, OpenWriteDialog, StartBench, Benching, Pane, Optimizers
  <2>2. \A kind, o : Bench(kind, o).kind = "bench"
    BY DEF Bench
  <2>3. \A v \in tasks' : v.kind = "apply" => v \in tasks
    BY <1>8, <2>2, SupersededIs DEF OpenBench, BenchSelection, OpenWriteDialog, StartBench
  <2> QED
    BY <1>7, <2>1, <2>3
<1>9. CASE OpenReview \/ LeaveOptimizer \/ MoveCursor \/ Toggle \/ ToggleAll \/ CloseWriteDialog
  <2>1. tasks' = tasks \/ tasks' = Superseded({"bench"}, tasks)
    BY <1>9 DEF OpenReview, LeaveOptimizer, MoveCursor, Toggle, ToggleAll, Accept, CloseWriteDialog,
                Stopped, Forgotten
  <2>2. Pane
    BY <1>9 DEF OpenReview, LeaveOptimizer, MoveCursor, Toggle, ToggleAll, Accept, CloseWriteDialog
  <2>3. opt'.proto \in {opt.proto, None, m.dsl}
    <3>1. CASE OpenReview \/ LeaveOptimizer
      BY <3>1, ClosedTyped DEF OpenReview, LeaveOptimizer, Closed
    <3>2. CASE MoveCursor \/ CloseWriteDialog
      BY <1>0, <3>2 DEF MoveCursor, CloseWriteDialog, Invalidated, Optimizers
    <3>3. CASE \E accepted : Accept(accepted)
      BY <1>0, <3>3 DEF Accept, Invalidated, Optimizers
    <3> QED
      BY <1>9, <3>1, <3>2, <3>3 DEF Toggle, ToggleAll
  <2>4. \A v \in tasks' : v.kind = "apply" => v \in tasks
    BY <2>1, SupersededIs
  <2> QED
    BY <1>7, <2>2, <2>3, <2>4 DEF Pane
<1>10. ASSUME NEW text, NEW optimized, Write(text, optimized),
              ~text.wrong, m.store # None => text.of = m.store
       PROVE  TextInv'
  <2> DEFINE u == [kind |-> "apply", store |-> m.store, model |-> m.model, text |-> text,
                   optimized |-> optimized, current |-> TRUE, answer |-> NoAnswer]
  <2>1. u.kind = "apply" /\ u.store = m.store /\ u.text = text
    OBVIOUS
  <2>2. tasks' = Disowned(tasks) \cup {u} /\ UNCHANGED <<opt, models>>
    BY <1>10 DEF Write
  <2>3. m'.dsl = m.dsl /\ m'.store = m.store
    BY <1>0, <1>10 DEF Write, Interfaces
  <2> HIDE DEF u
  <2>4. \A v \in tasks' : v.kind = "apply" =>
           v = u \/ \E w \in tasks : w.kind = "apply" /\ w.store = v.store /\ w.text = v.text
    BY <1>0, <2>2, DisownedIs
  <2>5. OptimizedIsChecked'
    BY <2>2 DEF TextInv, OptimizedIsChecked, Existing
  <2> QED
    BY <1>10, <2>1, <2>2, <2>3, <2>4, <2>5 DEF TextInv
<1>11. CASE WriteOptimized
  <2>1. /\ opt.proto # None /\ opt.proto \in Texts /\ opt.applied \in SUBSET Rewrites
        /\ opt.writeBench # None /\ opt.writeBench.is \in {"same", "noGraph"}
    BY <1>0, <1>11 DEF WriteOptimized, InDialog, CanWrite, TypeInv, Optimizers
  <2>2. ~(opt.applied \in Faulty /\ opt.proto.of \notin NoGraph)
    BY <2>1 DEF ReviewInv
  <2>3. ~After(opt.proto, opt.applied).wrong /\ After(opt.proto, opt.applied).of = opt.proto.of
    BY <2>1, <2>2 DEF After, Texts, TextInv
  <2>4. m.store # None => opt.proto.of = m.store
    BY <2>1 DEF TextInv
  <2> QED
    BY <1>10, <1>11, <2>3, <2>4 DEF WriteOptimized
<1>12. CASE WriteEdited
  <2>1. ~Text(m.store, {}).wrong /\ Text(m.store, {}).of = m.store
    BY DEF Text
  <2> QED
    BY <1>10, <1>12, <2>1 DEF WriteEdited
<1>13. ASSUME NEW id, ReloadModel(id)
       PROVE  TextInv'
  <2>1. ModelRead(m.store, id).kind = "model"
    BY DEF ModelRead
  <2>2. AskedBy(tasks)
    BY <1>13, <2>1, AsksSame, SupersededIs DEF ReloadModel
  <2> QED
    BY <1>0, <1>13, <2>2, TextRest DEF ReloadModel, Owned, Interfaces
<1>14. CASE OpenEditor \/ CloseEditor
  <2>1. AskedBy(tasks)
    BY <1>14, AsksSame DEF OpenEditor, CloseEditor
  <2> QED
    BY <1>0, <1>14, <2>1, TextRest DEF OpenEditor, CloseEditor, Interfaces
<1>15. CASE TestKeys
  <2>1. AskedBy(tasks)
    BY <1>15, TestKeysLeave, AsksSame
  <2> QED
    BY <1>15, <2>1, TestKeysLeave, TextRest
<1> QED
  BY <1>1, <1>2, <1>3, <1>4, <1>5, <1>6, <1>8, <1>9, <1>11, <1>12, <1>13, <1>14, <1>15
     DEF StoreKeys, ModelKeys

(* A model that is added to a store is one of the texts that were asked for.*)
LEMMA AppendKeepsChecked ==
    ASSUME TypeInv, OptimizedIsChecked, NEW s \in Existing, NEW text \in Texts, ~text.wrong, text.of = s,
           models' = [models EXCEPT ![s] = Append(@, text)]
    PROVE  OptimizedIsChecked'
<1>1. models[s] \in Seq(Texts) /\ s \in Stores
  BY StoresExist
<1> HIDE DEF Texts
<1>2. models'[s] = Append(models[s], text) /\ \A r \in Stores \ {s} : models'[r] = models[r]
  BY <1>1 DEF TypeInv
<1>3. /\ DOMAIN models'[s] = 1..(Len(models[s]) + 1) /\ DOMAIN models[s] = 1..Len(models[s])
      /\ Len(models[s]) \in Nat
      /\ models'[s][Len(models[s]) + 1] = text
      /\ \A i \in 1..Len(models[s]) : models'[s][i] = models[s][i]
  BY <1>1, <1>2, AppendProperties, LenProperties
<1>4. \A i \in DOMAIN models'[s] : i = Len(models[s]) + 1 \/ i \in 1..Len(models[s])
  BY <1>3
<1>5. \A i \in DOMAIN models'[s] : ~models'[s][i].wrong /\ models'[s][i].of = s
  <2>1. \A i \in 1..Len(models[s]) : ~models[s][i].wrong /\ models[s][i].of = s
    BY <1>3 DEF OptimizedIsChecked
  <2> QED
    BY <1>3, <1>4, <2>1
<1>6. \A r \in Existing' : r = s \/ (r \in Existing /\ models'[r] = models[r])
  BY <1>2 DEF Existing
<1> QED
  BY <1>5, <1>6 DEF OptimizedIsChecked

LEMMA ServerKeepsTexts ==
    ASSUME TypeInv, TextInv, (\E t \in tasks : Serve(t)) \/ OtherClient
    PROVE  TextInv'
<1>1. UNCHANGED <<m, opt>> /\ AskedBy(tasks)
  BY ServeLeaves DEF AskedBy
<1>2. ASSUME OptimizedIsChecked'
      PROVE  TextInv'
  BY <1>1, <1>2 DEF TextInv, AskedBy
<1>3. ASSUME NEW t \in tasks, Serve(t)
      PROVE  OptimizedIsChecked'
  <2>1. t \in Tasks /\ Mutation(t) /\ models' \in {models, Effect(t)}
    BY <1>3 DEF TypeInv, Serve
  <2>2. CASE models' = models
    BY <2>2 DEF TextInv, OptimizedIsChecked, Existing
  <2>3. CASE models' = Effect(t) /\ t.kind = "create"
    <3>1. models'[t.store] = <<>> /\ \A s \in Stores : s # t.store => models'[s] = models[s]
      BY <2>1, <2>3, EffectIs
    <3>2. \A s \in Existing' : s = t.store \/ (s \in Existing /\ models'[s] = models[s])
      BY <3>1 DEF Existing
    <3>3. \A i : i \notin DOMAIN <<>>
      OBVIOUS
    <3> QED
      BY <3>1, <3>2, <3>3 DEF TextInv, OptimizedIsChecked
  <2>4. CASE models' = Effect(t) /\ t.kind = "delete" /\ t.store \in Existing
    <3>1. models'[t.store] = Gone /\ \A s \in Stores : s # t.store => models'[s] = models[s]
      BY <2>1, <2>4, EffectIs
    <3>2. \A s \in Existing' : s \in Existing /\ models'[s] = models[s]
      BY <3>1 DEF Existing
    <3> QED
      BY <3>2 DEF TextInv, OptimizedIsChecked
  <2>5. CASE models' = Effect(t) /\ t.kind = "apply" /\ t.store \in Existing
    <3>1. t.text \in Texts
      BY <2>1, <2>5, KindsDiffer DEF ModelWrites
    <3>2. t.store # None
      BY <2>5, StoresExist
    <3>3. ~t.text.wrong /\ t.text.of = t.store
      BY <2>5, <3>2 DEF TextInv
    <3>4. models' = [models EXCEPT ![t.store] = Append(@, t.text)]
      BY <2>5 DEF Effect
    <3> QED
      BY <2>5, <3>1, <3>3, <3>4, AppendKeepsChecked DEF TextInv
  <2>6. CASE models' = Effect(t) /\ t.kind # "create" /\ t.store \notin Existing
    BY <2>1, <2>2, <2>6, EffectIs
  <2> QED
    BY <2>1, <2>2, <2>3, <2>4, <2>5, <2>6 DEF Mutation
<1>4. CASE OtherClient
  <2>1. PICK s \in Existing : models' = [models EXCEPT ![s] = Append(@, Text(s, {}))]
    BY <1>4 DEF OtherClient
  <2>2. Text(s, {}) \in Texts /\ ~Text(s, {}).wrong /\ Text(s, {}).of = s
    BY StoresExist DEF Text, Texts, Names
  <2> QED
    BY <1>2, <2>1, <2>2, AppendKeepsChecked DEF TextInv
<1> QED
  BY <1>2, <1>3, <1>4

LEMMA CompletionsKeepTexts ==
    ASSUME TypeInv, IdInv, TextInv, NEW t \in tasks, Complete(t)
    PROVE  TextInv'
<1> USE DEF Still
<1>0. tasks \in SUBSET Tasks /\ t \in Tasks /\ Others(t) = tasks \ {t} /\ m \in Interfaces
        /\ opt \in Optimizers /\ Others(t) \in SUBSET Tasks
  BY DEF TypeInv, Others
<1>r. StoresRead.kind = "stores" /\ ModelRead(m.store, None).kind = "model"
  BY DEF StoresRead, ModelRead
<1>1. CASE ModelApplied(t) /\ Still
  <2>1. \A v \in tasks' : v.kind = "apply" => v \in tasks
    BY <1>0, <1>r, <1>1, SupersededIs DEF ModelApplied, Ended, Stopped
  <2>2. m'.dsl = m.dsl /\ m'.store = m.store
    BY <1>0, <1>1 DEF ModelApplied, Ended, Interfaces
  <2>3. opt'.proto = opt.proto \/ opt'.proto = None
    BY <1>1, ClosedTyped DEF ModelApplied, Ended
  <2> QED
    BY <1>1, <2>1, <2>2, <2>3, AsksSame, TextRest
<1>2. CASE StoreCreated(t) /\ Still
  <2> DEFINE done == [m EXCEPT !.creating = FALSE]
             T == Superseded({"stores"}, Others(t)) \cup {StoresRead}
  <2>1. done \in Interfaces /\ done.dsl = m.dsl /\ done.store = m.store
    BY <1>0 DEF Interfaces
  <2>2. T \in SUBSET Tasks
    BY <1>0, SupersededIs DEF StoresRead, Tasks, StoreReads
  <2>3. t.store \in Stores
    BY <1>0, <1>2, KindsDiffer DEF StoreCreated, StoreWrites
  <2>4. \A u \in T : u.kind = "apply" => u \in tasks
    BY <1>0, <1>r, SupersededIs
  <2> HIDE DEF done
  <2>5. CASE Ok(t)
    BY <1>2, <2>1, <2>2, <2>3, <2>4, <2>5, SelectKeepsTexts DEF StoreCreated, done
  <2>6. CASE ~Ok(t)
    <3>1. m' = done /\ tasks' = tasks \ {t} /\ UNCHANGED <<opt, models>>
      BY <1>0, <1>2, <2>6 DEF StoreCreated, Ended, done
    <3> QED
      BY <2>1, <3>1, AsksSame, TextRest
  <2> QED
    BY <2>5, <2>6
<1>3. CASE StoreDeleted(t) /\ Still
  <2>1. m'.dsl = m.dsl /\ m'.store \in {m.store, None} /\ UNCHANGED opt
    BY <1>0, <1>3 DEF StoreDeleted, Ended, Interfaces
  <2>2. \A v \in tasks' : v.kind = "apply" => v \in tasks
    BY <1>0, <1>r, <1>3, SupersededIs DEF StoreDeleted, Ended
  <2> QED
    BY <1>3, <2>1, <2>2, AsksSame, TextRest
<1>4. CASE StoresLoaded(t) /\ Still
  <2> DEFINE listed == [m EXCEPT !.list = Existing]
  <2>0. listed \in Interfaces /\ listed.dsl = m.dsl /\ listed.store = m.store
    BY <1>0, StoresExist DEF Interfaces
  <2> HIDE DEF listed
  <2>1. CASE Failed(t)
    BY <1>0, <1>4, <2>1, AsksSame, TextRest DEF Failed, Ended
  <2>2. CASE m' = listed /\ tasks' = Swapped(m.store, Others(t)) /\ UNCHANGED opt
    <3>1. \A v \in tasks' : v.kind = "apply" => v \in tasks
      BY <1>0, <2>2, SupersededIs DEF Swapped, Left
    <3> QED
      BY <1>4, <2>0, <2>2, <3>1, AsksSame, TextRest
  <2>3. CASE \E s \in Existing : Select(s, listed, Others(t))
    BY <1>0, <1>4, <2>0, <2>3, SelectKeepsTexts, StoresExist
  <2> QED
    BY <1>4, <2>1, <2>2, <2>3 DEF StoresLoaded, listed
<1>5. CASE ModelLoaded(t) /\ Still
  <2>1. CASE Failed(t) \/ (UNCHANGED m /\ Ended(t))
    BY <1>0, <1>5, <2>1, AsksSame, TextRest DEF Failed, Ended
  <2>2. CASE ~Failed(t) /\ Found(t) # None /\ t.store = m.store
    <3> DEFINE text == models[t.store][Found(t)[2]]
               switched == m.model # None /\ Found(t) # m.model
               changed == Found(t) # m.model \/ text # m.dsl
               rest == IF switched THEN Disowned(Others(t)) ELSE Others(t)
    <3>1. /\ m' = [(IF switched THEN Owned(m) ELSE m) EXCEPT !.model = Found(t), !.dsl = text]
          /\ opt' = IF changed THEN Closed ELSE opt
          /\ tasks' = IF changed THEN Stopped(rest) ELSE rest
      BY <1>5, <2>2 DEF ModelLoaded
    <3>2. ~text.wrong
      <4>1. /\ t.store \in Existing /\ Found(t)[2] \in 1..Len(models[t.store])
            /\ models[t.store] \in Seq(Texts)
        BY <1>5, <2>2, FoundIsThere DEF ModelLoaded
      <4>2. Found(t)[2] \in DOMAIN models[t.store]
        BY <4>1, LenProperties
      <4> QED
        BY <4>1, <4>2 DEF TextInv, OptimizedIsChecked
    <3> HIDE DEF text
    <3>3. m'.dsl = text /\ m'.store = m.store
      BY <1>0, <3>1 DEF Owned, Interfaces
    <3>4. opt'.proto = opt.proto \/ opt'.proto = None
      BY <3>1, ClosedTyped
    <3>5. \A v \in tasks' : v.kind = "apply" =>
             \E u \in tasks : u.kind = "apply" /\ v.store = u.store /\ v.text = u.text
      BY <1>0, <3>1, SupersededIs, DisownedIs DEF Stopped
    <3>6. OptimizedIsChecked'
      BY <1>5 DEF TextInv, OptimizedIsChecked, Existing
    <3> QED
      BY <3>2, <3>3, <3>4, <3>5, <3>6 DEF TextInv
  <2> QED
    BY <1>5, <2>1, <2>2 DEF ModelLoaded
<1>6. CASE BenchDone(t)
  <2>1. \A v \in tasks' : v.kind = "apply" => v \in tasks
    BY <1>6 DEF BenchDone
  <2>2. opt'.proto = opt.proto
    BY <1>0, <1>6 DEF BenchDone, Shown, Optimizers
  <2> QED
    BY <1>6, <2>1, <2>2, AsksSame, TextRest DEF BenchDone
<1>7. CASE TestsRan(t)
  BY <1>7, AsksSame, TextRest DEF TestsRan
<1>8. CASE HandleTestFileEdited(t)
  <2>1. /\ \A u \in tasks' : u \in Others(t) \/ u.kind = "suite"
        /\ UNCHANGED <<m, opt, models>>
    BY <1>8, RerunAdds DEF HandleTestFileEdited, Quiet
  <2> QED
    BY <1>0, <2>1, AsksSame, TextRest
<1> QED
  BY <1>1, <1>2, <1>3, <1>4, <1>5, <1>6, <1>7, <1>8 DEF Complete

LEMMA NextKeepsTexts ==
    ASSUME TypeInv, IdInv, ReviewInv, TextInv, ~OpensForeign, Next
    PROVE  TextInv'
BY KeysKeepTexts, ServerKeepsTexts, CompletionsKeepTexts DEF Next, Step

-------------------------------------------------------------------------------
(* The workbench: what the visits begin with.                              *)
WorkbenchInv ==
    /\ TypeInv /\ IdInv
    /\ SuiteInv /\ DiskInv
    /\ ReviewInv /\ BusyInv
    /\ foreign \/ TextInv

LEMMA FreshTyped == Fresh \in [Files -> Contents] /\ Chosen \in Samples
BY DEF Fresh, Contents, Chosen

LEMMA OneIsSeq == ASSUME NEW S, NEW x \in S PROVE <<x>> \in Seq(S)
OBVIOUS

LEMMA OneHasOne == ASSUME NEW x, NEW i \in DOMAIN <<x>> PROVE <<x>>[i] = x
OBVIOUS

LEMMA ModelsTyped ==
    ASSUME models = [s \in Stores |-> IF s \in Samples THEN <<Text(s, {})>> ELSE None]
    PROVE  models \in [Stores -> Seq(Texts) \cup {None, Gone}]
<1> DEFINE MS == Seq(Texts)
<1>1. ASSUME NEW s \in Stores
      PROVE  models[s] \in MS \cup {None, Gone}
  <2>1. Text(s, {}) \in Texts
    BY DEF Text, Texts, Names
  <2>2. <<Text(s, {})>> \in MS
    BY <2>1, OneIsSeq
  <2> HIDE DEF MS
  <2> QED
    BY <2>2
<1> HIDE DEF MS
<1>2. models \in [Stores -> MS \cup {None, Gone}]
  BY <1>1
<1> QED
  BY <1>2 DEF MS

LEMMA NothingRuns ==
    ASSUME tasks = {}, opt = Closed, ~m.applying, ~m.creating, ~m.deleting, ~wb.running, wb.results = None
    PROVE  IdInv /\ SuiteInv /\ ReviewInv /\ BusyInv
<1>1. IdInv
  BY DEF IdInv
<1>2. SuiteInv
  BY DEF SuiteInv
<1>3. ReviewInv
  BY DEF ReviewInv, Closed, BenchIsOfSelection
<1>4. BusyInv
  BY DEF BusyInv
<1> QED
  BY <1>1, <1>2, <1>3, <1>4

LEMMA WorkbenchStarts ==
    ASSUME Init
    PROVE  WorkbenchInv
<1> USE DEF Init
<1>0. Fresh \in [Files -> Contents] /\ Chosen \in Samples /\ Chosen \in Stores /\ Chosen \in Names
  BY FreshTyped DEF Names
<1>1. IdInv /\ SuiteInv /\ ReviewInv /\ BusyInv
  BY NothingRuns
<1>2. m \in Interfaces
  <2>1. Text(Chosen, {}) \in Texts /\ <<Chosen, 1>> \in ModelIds
    BY <1>0 DEF Text, Texts, ModelIds
  <2> QED
    BY <1>0, <2>1 DEF Interfaces
<1>3. wb \in Workbenches
  <2>1. Present(Fresh) \subseteq Files
    BY <1>0 DEF Present
  <2> QED
    BY <1>0, <2>1 DEF Workbenches
<1>4. workspaces \in [Names -> Workspaces \cup {None}]
  BY <1>0, ParsedTyped DEF Names
<1>5. models \in [Stores -> Seq(Texts) \cup {None, Gone}]
  BY ModelsTyped
<1>6. TypeInv
  BY <1>0, <1>2, <1>3, <1>4, <1>5, ClosedTyped DEF TypeInv
<1>7. DiskInv
  BY <1>0, ParsedTyped DEF DiskInv, Filed, Names
<1>8. TextInv
  <2>1. ASSUME NEW s \in Existing, NEW i \in DOMAIN models[s]
        PROVE  ~models[s][i].wrong /\ models[s][i].of = s
    <3>1. models[s] = <<Text(s, {})>>
      BY DEF Existing
    <3>2. ~Text(s, {}).wrong /\ Text(s, {}).of = s
      BY DEF Text
    <3>3. models[s][i] = Text(s, {})
      BY <3>1, OneHasOne
    <3> QED
      BY <3>2, <3>3
  <2>2. OptimizedIsChecked
    BY <2>1 DEF OptimizedIsChecked
  <2>3. m.dsl = Text(Chosen, {}) /\ ~Text(Chosen, {}).wrong
    BY DEF Text
  <2>4. tasks = {} /\ opt.proto = None
    BY ClosedTyped
  <2> QED
    BY <2>2, <2>3, <2>4 DEF TextInv
<1> QED
  BY <1>1, <1>6, <1>7, <1>8 DEF WorkbenchInv

LEMMA WorkbenchRests ==
    ASSUME NothingSelected
    PROVE  WorkbenchInv
<1> USE DEF NothingSelected
<1>1. IdInv /\ SuiteInv /\ ReviewInv /\ BusyInv
  BY NothingRuns
<1>2. m \in Interfaces
  BY DEF Interfaces, Names
<1>3. wb \in Workbenches
  BY DEF Workbenches, Names
<1>4. TypeInv
  BY <1>2, <1>3, FreshTyped, ClosedTyped DEF TypeInv, Names
<1>5. DiskInv
  BY DEF DiskInv, Filed, Names
<1>6. TextInv
  BY DEF TextInv, OptimizedIsChecked, Existing, Closed
<1> QED
  BY <1>1, <1>4, <1>5, <1>6 DEF WorkbenchInv

LEMMA WorkbenchStays ==
    ASSUME WorkbenchInv, [Next]_vars
    PROVE  WorkbenchInv'
<1>1. CASE Next
  <2>1. TypeInv'
    BY <1>1, NextTyped DEF WorkbenchInv
  <2>2. IdInv'
    BY <1>1, NextKeepsIds DEF WorkbenchInv
  <2>3. SuiteInv' /\ DiskInv'
    BY <1>1, <2>1, NextKeepsTests DEF WorkbenchInv
  <2>4. ReviewInv' /\ BusyInv'
    BY <1>1, <2>1, NextKeepsReview, NextKeepsBusy DEF WorkbenchInv
  <2>5. foreign' \/ TextInv'
    BY <1>1, NextKeepsTexts DEF WorkbenchInv, Next
  <2> QED
    BY <2>1, <2>2, <2>3, <2>4, <2>5 DEF WorkbenchInv
<1>2. CASE UNCHANGED vars
  <2> USE <1>2 DEF vars
  <2>1. TypeInv' /\ IdInv'
    BY DEF WorkbenchInv, TypeInv, IdInv, Existing
  <2>2. SuiteInv' /\ DiskInv'
    BY DEF WorkbenchInv, SuiteInv, DiskInv, Filed, Reworked, Running, Workspace, Valid
  <2>3. ReviewInv' /\ BusyInv'
    BY DEF WorkbenchInv, ReviewInv, BenchOk, BenchIsOfSelection, BusyInv, Running
  <2>4. foreign' \/ TextInv'
    BY DEF WorkbenchInv, TextInv, OptimizedIsChecked, Existing
  <2> QED
    BY <2>1, <2>2, <2>3, <2>4 DEF WorkbenchInv
<1> QED
  BY <1>1, <1>2

LEMMA WorkbenchHolds == PlaygroundSpec => []WorkbenchInv
<1>1. PlaygroundInit => WorkbenchInv
  BY WorkbenchStarts, WorkbenchRests DEF PlaygroundInit
<1>2. PlaygroundNext => [Next]_vars
  BY DEF PlaygroundNext
<1>3. WorkbenchInv /\ [PlaygroundNext]_<<vars, panelVars, logVars, visit>> => WorkbenchInv'
  <2>1. [PlaygroundNext]_<<vars, panelVars, logVars, visit>> => [Next]_vars
    BY <1>2
  <2> QED
    BY <2>1, WorkbenchStays
<1> QED
  BY <1>1, <1>3, PTL DEF PlaygroundSpec

LEMMA WorkbenchShows == WorkbenchInv => ShownIsCurrent /\ NothingStuck
<1> SUFFICES ASSUME WorkbenchInv
             PROVE  ShownIsCurrent /\ NothingStuck
  OBVIOUS
<1>1. foreign \/ ChecksAreReal
  BY DEF WorkbenchInv, TextInv, ReviewInv, ChecksAreReal
<1>2. wb.results # None =>
         /\ wb.results.ws.root = OnScreen
         /\ wb.running \/ missed
               \/ \A f \in wb.results.filter : wb.results.ws.text[f] = Workspace.text[f]
  BY DEF WorkbenchInv, SuiteInv, OnScreen
<1>3. Workspace # None /\ OnScreen \notin stray /\ ~Running("edited", tasks)
         /\ Valid(disk[OnScreen]) => Workspace.text = disk[OnScreen]
  <2>1. wb.at \in Names
    BY DEF WorkbenchInv, TypeInv, Workbenches
  <2>2. Filed(wb.at)
    BY <2>1 DEF WorkbenchInv, DiskInv
  <2>3. Reworked(wb.at) => Running("edited", tasks)
    BY DEF Reworked, Running
  <2> QED
    BY <2>2, <2>3 DEF Filed, OnScreen, Workspace
<1>4. m.store # None /\ m.applying => \E t \in tasks : t.kind = "apply" /\ ~StaleApply(t)
  BY DEF WorkbenchInv, BusyInv, StaleApply, StaleOrigin
<1>5. NothingStuck
  BY <1>4 DEF NothingStuck, WorkbenchInv, BusyInv, ReviewInv, SuiteInv
<1> QED
  BY <1>1, <1>2, <1>3, <1>5 DEF ShownIsCurrent, ResultsAreCurrent

(* The optimizer only writes what was checked, and what the tests and the  *)
(* benchmarks show is of what is beside it (optimizer.go, workbench.go).   *)
THEOREM ShownIsAlwaysCurrent == PlaygroundSpec => []ShownIsCurrent
BY WorkbenchHolds, WorkbenchShows, PTL

(* Whoever waits for a benchmark, a write, a run or a store that is made   *)
(* or deleted has one under way that will end the wait.                    *)
THEOREM NothingIsEverStuck == PlaygroundSpec => []NothingStuck
BY WorkbenchHolds, WorkbenchShows, PTL

(* What a step that removes a test file shows.                              *)
LEMMA DeleteStep ==
    ASSUME WorkbenchInv, [Next]_vars, NEW s \in Samples, NEW f \in Files,
           disk[s][f] # "absent", disk'[s][f] = "absent"
    PROVE  s = OnScreen
<1>1. disk' # disk /\ TypeInv
  BY DEF WorkbenchInv
<1>e. ASSUME NEW root \in Samples, NEW g, NEW contents, EditorRuns(root, g, contents),
             "absent" \notin contents
      PROVE  FALSE
  <2>1. PICK c \in contents : disk' = [disk EXCEPT ![root][g] = c]
    BY <1>e, EditorAdds
  <2>2. disk \in [Samples -> [Files -> Contents]] /\ c # "absent"
    BY <1>1, <1>e DEF TypeInv
  <2>3. CASE s = root /\ f = g
    BY <2>1, <2>2, <2>3
  <2>4. CASE ~(s = root /\ f = g)
    BY <2>1, <2>2, <2>4
  <2> QED
    BY <2>3, <2>4
<1>2. ~StoreKeys
  BY <1>1 DEF StoreKeys, PickStore, CreateStore, AskDeleteStore, GotoSection, ReloadStores, Cancel,
              DeleteStore, Asked, Still
<1>3. ~ModelKeys
  BY <1>1 DEF ModelKeys, OpenBench, OpenReview, LeaveOptimizer, MoveCursor, Toggle, ToggleAll, Accept,
              BenchSelection, OpenWriteDialog, CloseWriteDialog, WriteOptimized, Write, ReloadModel,
              OpenEditor, CloseEditor, WriteEdited, Pane, Still
<1>4. ~OtherClient /\ \A t \in tasks : ~Serve(t) /\ ~Complete(t)
  BY <1>1 DEF OtherClient, Serve, Complete, BenchDone, TestsRan, HandleTestFileEdited, Unseen, Still
<1>5. ~(OpenWorkbenchEditor \/ SubmitNewPrompt)
  BY <1>1, <1>e, WorkspaceTyped DEF OpenWorkbenchEditor, SubmitNewPrompt
<1>6. DeleteFile
  BY <1>1, <1>2, <1>3, <1>4, <1>5
     DEF Next, Step, TestKeys, RunSuite, RunFile, OpenNewPrompt, CancelNewPrompt, AskDeleteFile, Asked,
         Still, vars
<1> DEFINE root == m.confirm.root
           left == [disk[root] EXCEPT ![m.confirm.file] = "absent"]
<1>7. WithinRoot(root) /\ disk' = [disk EXCEPT ![root] = left]
  BY <1>1, <1>6 DEF DeleteFile
<1> HIDE DEF left
<1>8. s = root
  BY <1>1, <1>7 DEF TypeInv
<1> QED
  BY <1>7, <1>8 DEF WithinRoot, OnScreen

(* No step but the deletion of a file of the workspace on screen removes a *)
(* test file (deleteTestFile).                                             *)
THEOREM DeletesStayOnScreen == PlaygroundSpec => DeletesOnScreen
<1>1. WorkbenchInv /\ [PlaygroundNext]_<<vars, panelVars, logVars, visit>> =>
         [\A s \in Samples, f \in Files :
             disk[s][f] # "absent" /\ disk'[s][f] = "absent" => s = OnScreen]_disk
  <2>1. [PlaygroundNext]_<<vars, panelVars, logVars, visit>> => [Next]_vars
    BY DEF PlaygroundNext
  <2> QED
    BY <2>1, DeleteStep
<1> QED
  BY <1>1, WorkbenchHolds, PTL DEF PlaygroundSpec, DeletesOnScreen

-------------------------------------------------------------------------------
--------------------------------------------------------------------------------
(* The queries and the assertions.  An answer is put where the user is, so  *)
(* that what a request was for has to be there still when it comes back: the*)
(* parts say so of each kind that is still current.                         *)

PanelBoxed(p) ==
    p = [section |-> p.section, modelID |-> p.modelID, mode |-> p.mode, editing |-> p.editing,
         hasResult |-> p.hasResult, result |-> p.result, showRes |-> p.showRes,
         resTree |-> p.resTree, history |-> p.history, picker |-> p.picker,
         assertions |-> p.assertions, assertModelID |-> p.assertModelID, results |-> p.results,
         form |-> p.form, confirm |-> p.confirm, writing |-> p.writing]
ResultBoxed(r) == r = [vals |-> r.vals, badge |-> r.badge, ok |-> r.ok, err |-> r.err, of |-> r.of]
RequestBoxed(t) ==
    t = [kind |-> t.kind, model |-> t.model, about |-> t.about, id |-> t.id,
         current |-> t.current, done |-> t.done]

AssertionRows == Candidates \cup UNION {Range(rows) : rows \in Lists}
OnScreenOf(p) == IF p.assertions = Nil THEN <<>> ELSE p.assertions

(* Dialogs exclude each other; assertions on screen are the selected model's. *)
OneDialog(p) ==
    /\ p.picker = Nil \/ p.form = Nil
    /\ p.picker = Nil \/ p.confirm = Nil
    /\ p.form = Nil \/ p.confirm = Nil
ListForm(p) ==
    /\ p.modelID \in Models /\ p.assertModelID \in {Nil, p.modelID}
    /\ p.assertions # Nil => p.assertModelID = p.modelID
    /\ OnScreenOf(p) \in Seq(AssertionRows)
PanelForm(p) == PanelBoxed(p) /\ ResultBoxed(p.result) /\ OneDialog(p) /\ ListForm(p)

RequestForm(A) ==
    \A t \in A :
        /\ RequestBoxed(t) /\ t.current \in BOOLEAN
        /\ t.kind \in {"query", "expand", "model", "load", "run", "one", "put"}
        /\ t.model \in Models \/ (t.kind = "put" /\ t.model = Nil)
        /\ t.kind = "put" => t.about \in Seq(AssertionRows)
ModelsOk(A) ==
    \A t, v \in A : t.current /\ v.current /\ t.kind = "model" /\ v.kind = "model" => t = v

Without(kinds, A) == \A t \in A : t.current => t.kind \notin kinds

(* What is on screen, and what is needed of it by the requests under way.   *)
VerdictOk(p) ==
    p.hasResult /\ ~p.result.err =>
        /\ p.result.of.ask.vals = p.result.vals /\ p.result.of.model = p.modelID
        /\ p.result.badge => p.result.ok = p.result.of.ok
TreeOk(p) ==
    p.showRes =>
        p.section = "query" /\ p.resTree = [model |-> p.modelID, vals |-> p.result.vals]
BadgesOk(p) ==
    \A i \in DOMAIN p.results \cap DOMAIN OnScreenOf(p) :
        p.results[i] # Nil => /\ p.results[i].row = OnScreenOf(p)[i]
                              /\ p.results[i].model = p.assertModelID
FormOk(p, A) ==
    p.form # Nil =>
        /\ p.form.at # 0 => /\ p.form.at \in DOMAIN OnScreenOf(p)
                            /\ OnScreenOf(p)[p.form.at] = p.form.row
        /\ Without(RowRequests \cup {"model"}, A)
ExpandOk(p, A) ==
    \A t \in A : t.current /\ t.kind = "expand" =>
        /\ p.section = "query" /\ Without({"query"}, A)
        /\ t.model = p.modelID => t.about = p.result.vals
        /\ t.model # p.modelID => Without({"model"}, A)
OneOk(p, A) ==
    \A t \in A : t.current /\ t.kind = "one" =>
        /\ Without({"load", "put", "run", "query"}, A)
        /\ t.model = p.assertModelID =>
              /\ p.result.vals = t.about[2].vals
              /\ t.about[1] \in DOMAIN OnScreenOf(p) /\ OnScreenOf(p)[t.about[1]] = t.about[2]
RunOk(p, A) ==
    \A t \in A : t.current /\ t.kind = "run" =>
        /\ Without({"load", "put", "one"}, A)
        /\ t.model = p.assertModelID => t.about = OnScreenOf(p)

PanelsShow(p, A) ==
    /\ VerdictOk(p) /\ TreeOk(p) /\ BadgesOk(p) /\ FormOk(p, A)
    /\ ExpandOk(p, A) /\ OneOk(p, A) /\ RunOk(p, A)
PanelsInv ==
    /\ PanelForm(panel) /\ RequestForm(asked) /\ ModelsOk(asked)
    /\ stored \in [Models -> Seq(AssertionRows)] /\ panelKeys \in Nat
    /\ rushed \/ PanelsShow(panel, asked)

(* Requests that are there no more, or are no longer current.               *)
Fewer(A, B) ==
    \A t \in B : t.current =>
        \E v \in A : /\ v.current /\ v.kind = t.kind /\ v.model = t.model /\ v.about = t.about
                     /\ t.kind = "model" => v = t
LEMMA FewerAreThere ==
    ASSUME NEW A, NEW B, Fewer(A, B), NEW kinds, Without(kinds, A)
    PROVE  Without(kinds, B)
BY DEF Fewer, Without

LEMMA FewerShow ==
    ASSUME NEW p, NEW A, NEW B, Fewer(A, B), PanelsShow(p, A)
    PROVE  PanelsShow(p, B)
<1>1. \A kinds : Without(kinds, A) => Without(kinds, B)
  BY FewerAreThere
<1>2. FormOk(p, B)
  BY <1>1 DEF FormOk, PanelsShow
<1>3. ExpandOk(p, B)
  BY <1>1 DEF ExpandOk, PanelsShow, Fewer
<1>4. OneOk(p, B)
  BY <1>1 DEF OneOk, PanelsShow, Fewer
<1>5. RunOk(p, B)
  BY <1>1 DEF RunOk, PanelsShow, Fewer
<1> QED
  BY <1>2, <1>3, <1>4, <1>5 DEF PanelsShow

LEMMA FewerModels ==
    ASSUME NEW A, NEW B, Fewer(A, B), ModelsOk(A)
    PROVE  ModelsOk(B)
<1> SUFFICES ASSUME NEW t \in B, NEW v \in B, t.current, v.current, t.kind = "model", v.kind = "model"
             PROVE  t = v
  BY DEF ModelsOk
<1>1. t \in A /\ v \in A
  BY DEF Fewer
<1> QED
  BY <1>1 DEF ModelsOk

(* What a step leaves of the requests (Outdated), and what it adds.         *)
Live(A, kinds, N, B) == \A t \in B : t.current => t \in N \/ (t \in A /\ t.kind \notin kinds)
LEMMA OldRequest ==
    ASSUME NEW t, RequestBoxed(t), NEW old, old = [t EXCEPT !.current = FALSE]
    PROVE  /\ RequestBoxed(old) /\ old.current = FALSE
           /\ old.kind = t.kind /\ old.model = t.model /\ old.about = t.about
BY DEF RequestBoxed

LEMMA OutdatedRequests ==
    ASSUME NEW A, NEW kinds, RequestForm(A)
    PROVE  RequestForm(Outdated(kinds, A)) /\ Live(A, kinds, {}, Outdated(kinds, A))
<1> DEFINE Dropped(t) == [t EXCEPT !.current = FALSE]
<1>1. \A t \in A : /\ RequestBoxed(Dropped(t)) /\ Dropped(t).current = FALSE /\ Dropped(t).kind = t.kind
                   /\ Dropped(t).model = t.model /\ Dropped(t).about = t.about
  BY OldRequest DEF RequestForm
<1> HIDE DEF Dropped
<1>2. Outdated(kinds, A) = {IF t.kind \in kinds THEN Dropped(t) ELSE t : t \in A}
  BY DEF Outdated, Dropped
<1>3. \A v \in Outdated(kinds, A) : \E t \in A : v = Dropped(t) \/ (v = t /\ t.kind \notin kinds)
  BY <1>2
<1>4. RequestForm(Outdated(kinds, A))
  BY <1>1, <1>3 DEF RequestForm
<1>5. Live(A, kinds, {}, Outdated(kinds, A))
  BY <1>1, <1>3 DEF Live
<1> QED
  BY <1>4, <1>5

LEMMA LiveAreFewer ==
    ASSUME NEW A, NEW kinds, NEW B, Live(A, kinds, {}, B)
    PROVE  Fewer(A, B)
BY DEF Live, Fewer

LEMMA LiveAdd ==
    ASSUME NEW A, NEW kinds, NEW N, NEW B, RequestForm(A), RequestForm(N), B = Outdated(kinds, A) \cup N
    PROVE  RequestForm(B) /\ Live(A, kinds, N, B)
<1>1. RequestForm(Outdated(kinds, A)) /\ Live(A, kinds, {}, Outdated(kinds, A))
  BY OutdatedRequests
<1> QED
  BY <1>1 DEF RequestForm, Live


(* What the changes of the panel leave.                                     *)
SameVerdict(p, q) ==
    /\ q.hasResult = p.hasResult /\ q.result = p.result
    /\ q.showRes = p.showRes /\ q.resTree = p.resTree
SameAssertions(p, q) ==
    q.assertions = p.assertions /\ q.assertModelID = p.assertModelID /\ q.results = p.results
SameDialogs(p, q) == q.picker = p.picker /\ q.form = p.form /\ q.confirm = p.confirm

(* The same verdict, or none, and the same rows.                            *)
Dimmer(p, q) ==
    /\ PanelBoxed(q) /\ q.section = p.section /\ q.modelID = p.modelID
    /\ q.hasResult => p.hasResult
    /\ q.showRes => p.showRes
    /\ q.result = p.result /\ q.resTree = p.resTree /\ SameAssertions(p, q)

LEMMA DimmerForm ==
    ASSUME NEW p, NEW q, PanelForm(p), Dimmer(p, q), OneDialog(q)
    PROVE  PanelForm(q)
BY DEF PanelForm, Dimmer, ListForm, SameAssertions, OnScreenOf

LEMMA DimmerShows ==
    ASSUME NEW p, NEW q, NEW A, PanelsShow(p, A), Dimmer(p, q), q.form \in {Nil, p.form}
    PROVE  PanelsShow(q, A)
<1>1. OnScreenOf(q) = OnScreenOf(p)
  BY DEF Dimmer, SameAssertions, OnScreenOf
<1>2. VerdictOk(q) /\ TreeOk(q)
  BY DEF Dimmer, PanelsShow, VerdictOk, TreeOk
<1>3. BadgesOk(q)
  BY <1>1 DEF Dimmer, PanelsShow, SameAssertions, BadgesOk
<1>4. FormOk(q, A)
  BY <1>1 DEF PanelsShow, FormOk
<1>5. ExpandOk(q, A) /\ OneOk(q, A) /\ RunOk(q, A)
  BY <1>1 DEF Dimmer, PanelsShow, SameAssertions, ExpandOk, OneOk, RunOk
<1> QED
  BY <1>2, <1>3, <1>4, <1>5 DEF PanelsShow

LEMMA DimmerIsKept ==
    ASSUME NEW p, NEW q, NEW r_, Dimmer(p, q), Dimmer(q, r_)
    PROVE  Dimmer(p, r_)
BY DEF Dimmer, SameAssertions

LEMMA SamePanel ==
    ASSUME NEW p, PanelForm(p)
    PROVE  Dimmer(p, p) /\ SameDialogs(p, p)
BY DEF PanelForm, Dimmer, SameAssertions, SameDialogs

LEMMA EditingSet ==
    ASSUME NEW p, PanelBoxed(p), NEW v, NEW q, q = [p EXCEPT !.editing = v]
    PROVE  Dimmer(p, q) /\ SameDialogs(p, q)
BY DEF PanelBoxed, Dimmer, SameAssertions, SameDialogs

LEMMA TreeClosed ==
    ASSUME NEW p, PanelBoxed(p), NEW q, q = [p EXCEPT !.showRes = FALSE]
    PROVE  Dimmer(p, q) /\ SameDialogs(p, q)
BY DEF PanelBoxed, Dimmer, SameAssertions, SameDialogs

LEMMA ModeSet ==
    ASSUME NEW p, PanelBoxed(p), NEW v, NEW q, q = [p EXCEPT !.mode = v, !.hasResult = FALSE]
    PROVE  Dimmer(p, q) /\ SameDialogs(p, q)
BY DEF PanelBoxed, Dimmer, SameAssertions, SameDialogs

LEMMA WritingSet ==
    ASSUME NEW p, PanelBoxed(p), NEW v, NEW q, q = [p EXCEPT !.writing = v]
    PROVE  Dimmer(p, q) /\ SameDialogs(p, q)
BY DEF PanelBoxed, Dimmer, SameAssertions, SameDialogs

Redialed(p, picker, form, confirm, q) ==
    Dimmer(p, q) /\ q.picker = picker /\ q.form = form /\ q.confirm = confirm
LEMMA PickerSet ==
    ASSUME NEW p, PanelBoxed(p), NEW v, NEW q, q = [p EXCEPT !.picker = v]
    PROVE  Redialed(p, v, p.form, p.confirm, q)
BY DEF PanelBoxed, Dimmer, SameAssertions, Redialed

LEMMA AskPicked ==
    ASSUME NEW p, PanelBoxed(p), NEW v, NEW q,
           q = [p EXCEPT !.picker = Nil, !.editing = FALSE, !.mode = v]
    PROVE  Redialed(p, Nil, p.form, p.confirm, q)
BY DEF PanelBoxed, Dimmer, SameAssertions, Redialed

LEMMA FormSet ==
    ASSUME NEW p, PanelBoxed(p), NEW v, NEW q, q = [p EXCEPT !.form = v]
    PROVE  Redialed(p, p.picker, v, p.confirm, q)
BY DEF PanelBoxed, Dimmer, SameAssertions, Redialed

LEMMA ConfirmSet ==
    ASSUME NEW p, PanelBoxed(p), NEW v, NEW q, q = [p EXCEPT !.confirm = v]
    PROVE  Redialed(p, p.picker, p.form, v, q)
BY DEF PanelBoxed, Dimmer, SameAssertions, Redialed

LEMMA DialogClosed ==
    ASSUME NEW p, PanelBoxed(p), NEW q, q = [p EXCEPT !.confirm = Nil, !.form = Nil]
    PROVE  Redialed(p, p.picker, Nil, Nil, q)
BY DEF PanelBoxed, Dimmer, SameAssertions, Redialed

InSection(p, v, e) == [p EXCEPT !.section = v, !.showRes = FALSE, !.editing = e]
WentTo(p, v, q) ==
    /\ PanelBoxed(q) /\ q.section = v /\ q.modelID = p.modelID
    /\ q.hasResult = p.hasResult /\ q.result = p.result /\ q.showRes = FALSE
    /\ SameAssertions(p, q) /\ SameDialogs(p, q)
LEMMA SectionSet ==
    ASSUME NEW p, PanelBoxed(p), NEW v, NEW e, NEW q, q = InSection(p, v, e)
    PROVE  WentTo(p, v, q)
BY DEF PanelBoxed, SameAssertions, SameDialogs, InSection, WentTo

CleanedIs(p, q) ==
    /\ PanelBoxed(q) /\ q.section = p.section /\ q.modelID = p.modelID
    /\ q.hasResult = FALSE /\ q.result = NoResult /\ q.showRes = FALSE
    /\ q.assertions = Nil /\ q.assertModelID = Nil /\ q.results = <<>> /\ SameDialogs(p, q)
LEMMA Cleaned ==
    ASSUME NEW p, PanelBoxed(p), NEW q, q = CleanPanel(p)
    PROVE  CleanedIs(p, q)
BY DEF PanelBoxed, CleanPanel, SameDialogs, CleanedIs

ModelIs(p, n, q) ==
    /\ PanelBoxed(q) /\ q.section = p.section /\ q.modelID = n
    /\ SameVerdict(p, q) /\ SameAssertions(p, q) /\ SameDialogs(p, q)
LEMMA ModelSet ==
    ASSUME NEW p, PanelBoxed(p), NEW n, NEW q, q = [p EXCEPT !.modelID = n]
    PROVE  ModelIs(p, n, q)
BY DEF PanelBoxed, SameVerdict, SameAssertions, SameDialogs, ModelIs

FailedResult == [NoResult EXCEPT !.err = TRUE]
LEMMA FailedBoxed == ResultBoxed(FailedResult) /\ FailedResult.err = TRUE
<1>1. ASSUME NEW r_, ResultBoxed(r_), NEW v, v = [r_ EXCEPT !.err = TRUE]
      PROVE  ResultBoxed(v) /\ v.err = TRUE
  BY <1>1 DEF ResultBoxed
<1>2. ResultBoxed(NoResult)
  BY DEF ResultBoxed, NoResult
<1> QED
  BY <1>1, <1>2 DEF FailedResult

Failed_(p, q) ==
    /\ PanelBoxed(q) /\ q.section = p.section /\ q.modelID = p.modelID
    /\ q.result = FailedResult /\ q.showRes = FALSE
    /\ SameAssertions(p, q) /\ SameDialogs(p, q)
LEMMA QueryFailed ==
    ASSUME NEW p, PanelBoxed(p), NEW q, q = QueryError(p)
    PROVE  Failed_(p, q)
<1> DEFINE fr == FailedResult
<1>1. q = [p EXCEPT !.result = fr, !.hasResult = TRUE, !.showRes = FALSE, !.resTree = Nil]
  BY DEF QueryError, FailedResult
<1> HIDE DEF fr
<1>2. /\ PanelBoxed(q) /\ q.section = p.section /\ q.modelID = p.modelID
      /\ q.result = fr /\ q.showRes = FALSE /\ SameAssertions(p, q) /\ SameDialogs(p, q)
  BY <1>1 DEF PanelBoxed, SameAssertions, SameDialogs
<1> QED
  BY <1>2 DEF fr, Failed_

LEMMA FailedForm ==
    ASSUME NEW p, NEW q, PanelForm(p), Failed_(p, q)
    PROVE  PanelForm(q)
BY FailedBoxed
   DEF PanelForm, Failed_, OneDialog, ListForm, SameAssertions, SameDialogs, OnScreenOf

LEMMA FailedShows ==
    ASSUME NEW p, NEW q, NEW A, PanelsShow(p, A), Failed_(p, q),
           q.result = p.result \/ Without({"one", "expand"}, A)
    PROVE  PanelsShow(q, A)
<1>1. OnScreenOf(q) = OnScreenOf(p)
  BY DEF Failed_, SameAssertions, OnScreenOf
<1>2. VerdictOk(q) /\ TreeOk(q)
  BY FailedBoxed DEF Failed_, VerdictOk, TreeOk
<1>3. BadgesOk(q) /\ FormOk(q, A) /\ RunOk(q, A)
  BY <1>1 DEF Failed_, PanelsShow, SameAssertions, SameDialogs, BadgesOk, FormOk, RunOk
<1>4. ExpandOk(q, A) /\ OneOk(q, A)
  BY <1>1 DEF Failed_, PanelsShow, SameAssertions, ExpandOk, OneOk, Without
<1> QED
  BY <1>2, <1>3, <1>4 DEF PanelsShow


(* What an answer changes.                                                  *)
LEMMA VerdictOf ==
    ASSUME NEW n, NEW ask
    PROVE  /\ Verdict(n, ask).ask = ask /\ Verdict(n, ask).model = n
           /\ Verdict(n, ask).ok = Allowed(n, ask)
BY DEF Verdict

LEMMA BadgeSaysIt ==
    ASSUME NEW badge, NEW ok, NEW check \in BOOLEAN, NEW allowed \in BOOLEAN,
           badge = check, ok = (check /\ allowed), badge
    PROVE  ok = allowed
OBVIOUS

QueryGot(t, q) ==
    /\ PanelBoxed(q) /\ q.section = panel.section /\ q.modelID = panel.modelID
    /\ q.showRes = FALSE /\ SameAssertions(panel, q) /\ SameDialogs(panel, q)
    /\ ResultBoxed(q.result) /\ q.result.vals = t.about.vals
    /\ q.result.of.ask = t.about /\ q.result.of.model = t.model
    /\ q.result.badge => q.result.ok = q.result.of.ok
LEMMA QueryPut ==
    ASSUME NEW t, PanelBoxed(panel), NEW q, q = QueryAnswered(t)
    PROVE  QueryGot(t, q)
<1> DEFINE check == t.about.mode = "check"
           res == [vals |-> t.about.vals, badge |-> check, err |-> FALSE,
                   ok |-> check /\ Allowed(t.model, t.about), of |-> Verdict(t.model, t.about)]
           h == PushHistory(t.about, panel.history)
<1>1. q = [panel EXCEPT !.hasResult = TRUE, !.showRes = FALSE, !.resTree = Nil, !.result = res, !.history = h]
  BY DEF QueryAnswered
<1>2. ResultBoxed(res) /\ res.vals = t.about.vals /\ res.of = Verdict(t.model, t.about)
  BY DEF ResultBoxed
<1>3. res.badge => res.ok = Allowed(t.model, t.about)
  <2>1. res.badge = check /\ res.ok = (check /\ Allowed(t.model, t.about))
    BY Zenon
  <2>2. check \in BOOLEAN /\ Allowed(t.model, t.about) \in BOOLEAN
    BY DEF Allowed
  <2> HIDE DEF res, check
  <2> QED
    BY <2>1, <2>2, BadgeSaysIt, Zenon
<1> HIDE DEF res, h
<1>4. /\ PanelBoxed(q) /\ q.section = panel.section /\ q.modelID = panel.modelID
      /\ q.showRes = FALSE /\ SameAssertions(panel, q) /\ SameDialogs(panel, q) /\ q.result = res
  BY <1>1 DEF PanelBoxed, SameAssertions, SameDialogs
<1> QED
  BY <1>2, <1>3, <1>4, VerdictOf DEF QueryGot

TreeGot(t, q) ==
    /\ PanelBoxed(q) /\ q.section = panel.section /\ q.modelID = panel.modelID
    /\ q.hasResult = panel.hasResult /\ q.result = panel.result
    /\ q.showRes = TRUE /\ q.resTree = [model |-> t.model, vals |-> t.about]
    /\ SameAssertions(panel, q) /\ SameDialogs(panel, q)
LEMMA TreePut ==
    ASSUME NEW t, PanelBoxed(panel), NEW q, q = TreeAnswered(t)
    PROVE  TreeGot(t, q)
<1> DEFINE tree == [model |-> t.model, vals |-> t.about]
<1>1. q = [panel EXCEPT !.showRes = TRUE, !.resTree = tree]
  BY DEF TreeAnswered
<1> HIDE DEF tree
<1>2. /\ PanelBoxed(q) /\ q.section = panel.section /\ q.modelID = panel.modelID
      /\ q.hasResult = panel.hasResult /\ q.result = panel.result
      /\ q.showRes = TRUE /\ q.resTree = tree
      /\ SameAssertions(panel, q) /\ SameDialogs(panel, q)
  BY <1>1 DEF PanelBoxed, SameAssertions, SameDialogs
<1> QED
  BY <1>2 DEF tree, TreeGot

ListGot(n, rows, rs, q) ==
    /\ PanelBoxed(q) /\ q.section = panel.section /\ q.modelID = panel.modelID
    /\ SameVerdict(panel, q) /\ SameDialogs(panel, q)
    /\ q.assertModelID = n /\ q.assertions = rows /\ q.results = rs
LEMMA ListPut ==
    ASSUME NEW n, NEW rows, NEW rs, PanelBoxed(panel), NEW q,
           q = [panel EXCEPT !.assertModelID = n, !.assertions = rows, !.results = rs]
    PROVE  ListGot(n, rows, rs, q)
BY DEF PanelBoxed, SameVerdict, SameDialogs, ListGot

LEMMA ListEmptied ==
    ASSUME NEW n, PanelBoxed(panel), NEW q,
           q = [panel EXCEPT !.assertModelID = n, !.assertions = Nil]
    PROVE  ListGot(n, Nil, panel.results, q)
BY DEF PanelBoxed, SameVerdict, SameDialogs, ListGot

LEMMA ListLeft ==
    ASSUME NEW n, PanelBoxed(panel), NEW q, q = [panel EXCEPT !.assertModelID = n]
    PROVE  ListGot(n, panel.assertions, panel.results, q)
BY DEF PanelBoxed, SameVerdict, SameDialogs, ListGot

LEMMA ResultsPut ==
    ASSUME NEW rs, PanelBoxed(panel), NEW q, q = [panel EXCEPT !.results = rs]
    PROVE  ListGot(panel.assertModelID, panel.assertions, rs, q)
BY DEF PanelBoxed, SameVerdict, SameDialogs, ListGot

WithScore(r_, ok, of) == [r_ EXCEPT !.ok = ok, !.badge = TRUE, !.of = of]
LEMMA ScoredResult ==
    ASSUME NEW r_, ResultBoxed(r_), NEW ok, NEW of, NEW res, res = WithScore(r_, ok, of)
    PROVE  ResultBoxed(res) /\ res.vals = r_.vals /\ res.ok = ok /\ res.of = of
BY DEF ResultBoxed, WithScore

PutOne(p, rs, ok, of) ==
    [p EXCEPT !.results = rs, !.result.ok = ok, !.result.badge = TRUE,
              !.result.of = of, !.hasResult = TRUE]
OneGot(p, rs, ok, of, q) ==
    /\ PanelBoxed(q) /\ q.section = p.section /\ q.modelID = p.modelID
    /\ q.showRes = p.showRes /\ q.resTree = p.resTree /\ SameDialogs(p, q)
    /\ ResultBoxed(q.result) /\ q.result.vals = p.result.vals /\ q.result.ok = ok
    /\ q.result.of = of /\ q.results = rs
    /\ q.assertModelID = p.assertModelID /\ q.assertions = p.assertions
LEMMA OnePut ==
    ASSUME NEW p, PanelBoxed(p), ResultBoxed(p.result), NEW rs, NEW ok, NEW of, NEW q,
           q = PutOne(p, rs, ok, of)
    PROVE  OneGot(p, rs, ok, of, q)
<1> DEFINE res == WithScore(p.result, ok, of)
<1>1. q = [p EXCEPT !.results = rs, !.result = res, !.hasResult = TRUE]
  BY DEF PutOne, WithScore
<1>2. ResultBoxed(res) /\ res.vals = p.result.vals /\ res.ok = ok /\ res.of = of
  BY ScoredResult
<1> HIDE DEF res
<1> QED
  BY <1>1, <1>2 DEF PanelBoxed, SameDialogs, OneGot


(* What a step keeps; a step that changes nothing of what is shown keeps it. *)
PanelsNow == PanelForm(panel) /\ RequestForm(asked) /\ ModelsOk(asked)
KeepsPanels ==
    PanelsNow' /\ (PanelsShow(panel, asked) /\ ~Rushes => PanelsShow(panel', asked'))

LEMMA SameRequests == ASSUME NEW A PROVE Fewer(A, A)
BY DEF Fewer

LEMMA QuietStep ==
    ASSUME PanelsNow, Dimmer(panel, panel'), OneDialog(panel'), panel'.form \in {Nil, panel.form},
           RequestForm(asked'), Fewer(asked, asked')
    PROVE  KeepsPanels
<1>1. PanelForm(panel')
  BY DimmerForm DEF PanelsNow
<1>2. ModelsOk(asked')
  BY FewerModels DEF PanelsNow
<1>3. ASSUME PanelsShow(panel, asked) PROVE PanelsShow(panel', asked')
  BY <1>3, DimmerShows, FewerShow
<1> QED
  BY <1>1, <1>2, <1>3 DEF KeepsPanels, PanelsNow

LEMMA QuietKey ==
    ASSUME PanelsNow, Dimmer(panel, panel'), OneDialog(panel'), panel'.form \in {Nil, panel.form},
           UNCHANGED asked
    PROVE  KeepsPanels
BY QuietStep, SameRequests DEF PanelsNow

(* A key that asks: the new request, and what it does not rush.             *)
LEMMA AskIs ==
    ASSUME NEW k, NEW n, NEW ab, NEW t, t = Ask(k, n, ab)
    PROVE  /\ RequestBoxed(t) /\ t.current = TRUE /\ t.id = panelKeys
           /\ t.kind = k /\ t.model = n /\ t.about = ab
BY DEF Ask, RequestBoxed

LEMMA LiveModels ==
    ASSUME NEW A, NEW kinds, NEW N, NEW B, ModelsOk(A), Live(A, kinds, N, B),
           \A t \in N : t.kind # "model"
    PROVE  ModelsOk(B)
BY DEF ModelsOk, Live

RequestKinds == {"query", "expand", "model", "load", "run", "one", "put"}
AskedFor(k, n, ab, kinds, t) ==
    /\ RequestForm(asked') /\ ModelsOk(asked') /\ Live(asked, kinds, {t}, asked')
    /\ t.kind = k /\ t.model = n /\ t.about = ab
    /\ ~Rushes => Without(Labels(k), asked)

LEMMA OneAsked ==
    ASSUME PanelsNow, panelKeys \in Nat, panelKeys' = panelKeys + 1,
           NEW k \in RequestKinds, NEW n, n \in Models \/ (k = "put" /\ n = Nil),
           NEW ab, k = "put" => ab \in Seq(AssertionRows), NEW kinds,
           k = "model" => "model" \in kinds,
           NEW t, t = Ask(k, n, ab), asked' = Outdated(kinds, asked) \cup {t}
    PROVE  AskedFor(k, n, ab, kinds, t)
<1>1. /\ RequestBoxed(t) /\ t.current = TRUE /\ t.id = panelKeys
      /\ t.kind = k /\ t.model = n /\ t.about = ab
  BY DEF Ask, RequestBoxed
<1>2. RequestForm({t})
  BY <1>1 DEF RequestForm, RequestKinds
<1>3. RequestForm(asked') /\ Live(asked, kinds, {t}, asked')
  BY <1>2, LiveAdd DEF PanelsNow
<1>4. ModelsOk(asked')
  <2>1. CASE k # "model"
    BY <1>1, <1>3, <2>1, LiveModels DEF PanelsNow
  <2>2. CASE k = "model"
    BY <1>1, <1>3, <2>2 DEF Live, ModelsOk
  <2> QED
    BY <2>1, <2>2
<1>5. ASSUME ~Rushes PROVE Without(Labels(k), asked)
  <2>1. t \in asked' /\ panelKeys' # panelKeys
    OBVIOUS
  <2>2. ~Waiting(Labels(k))
    BY <1>1, <1>5, <2>1 DEF Rushes
  <2> QED
    BY <2>2 DEF Waiting, Without
<1> QED
  BY <1>1, <1>3, <1>4, <1>5 DEF AskedFor

LEMMA LiveWithout ==
    ASSUME NEW A, NEW kinds, NEW N, NEW B, Live(A, kinds, N, B), NEW K, Without(K, A),
           \A t \in N : t.kind \notin K
    PROVE  Without(K, B)
BY DEF Live, Without

LEMMA LiveKinds ==
    ASSUME NEW A, NEW kinds, NEW N, NEW B, Live(A, kinds, N, B), NEW t \in B, t.current,
           \A v \in N : v.kind # t.kind
    PROVE  t \in A /\ t.kind \notin kinds
BY DEF Live

(* The parts of what is shown that have no request in them.                 *)
ScreenOk(p) == VerdictOk(p) /\ TreeOk(p) /\ BadgesOk(p)

LEMMA NoneExpand ==
    ASSUME NEW p, NEW A, Without({"expand"}, A)
    PROVE  ExpandOk(p, A)
BY DEF ExpandOk, Without
LEMMA NoneOne ==
    ASSUME NEW p, NEW A, Without({"one"}, A)
    PROVE  OneOk(p, A)
BY DEF OneOk, Without
LEMMA NoneRun ==
    ASSUME NEW p, NEW A, Without({"run"}, A)
    PROVE  RunOk(p, A)
BY DEF RunOk, Without
LEMMA WithoutPart ==
    ASSUME NEW K, NEW L, L \subseteq K, NEW A, Without(K, A)
    PROVE  Without(L, A)
BY DEF Without

LEMMA AddsQuery ==
    ASSUME NEW p, NEW A, NEW B, NEW t, PanelsShow(p, A), p.form = Nil, Without({"one", "expand"}, A),
           t.kind = "query", Live(A, {"query"}, {t}, B)
    PROVE  PanelsShow(p, B)
<1>1. Without({"one", "expand"}, B)
  BY LiveWithout
<1>2. ExpandOk(p, B) /\ OneOk(p, B)
  BY <1>1, NoneExpand, NoneOne, WithoutPart
<1>3. RunOk(p, B)
  BY DEF RunOk, PanelsShow, Live, Without
<1> QED
  BY <1>2, <1>3 DEF PanelsShow, FormOk

LEMMA AddsExpand ==
    ASSUME NEW p, NEW A, NEW B, NEW t, PanelsShow(p, A), p.form = Nil, Without({"query"}, A),
           t.kind = "expand", t.model = p.modelID, t.about = p.result.vals, p.section = "query",
           Live(A, {"expand"}, {t}, B)
    PROVE  PanelsShow(p, B)
<1>1. Without({"query"}, B)
  BY LiveWithout
<1>2. ExpandOk(p, B)
  BY <1>1 DEF ExpandOk, Live
<1>3. OneOk(p, B)
  BY DEF OneOk, PanelsShow, Live, Without
<1>4. RunOk(p, B)
  BY DEF RunOk, PanelsShow, Live, Without
<1> QED
  BY <1>2, <1>3, <1>4 DEF PanelsShow, FormOk

LEMMA ExpandStays ==
    ASSUME NEW p, NEW A, NEW kinds, NEW B, NEW t, ExpandOk(p, A), t.kind \in RowRequests,
           Live(A, kinds, {t}, B)
    PROVE  ExpandOk(p, B)
BY DEF ExpandOk, Live, Without, RowRequests

LEMMA AddsWrite ==
    ASSUME NEW p, NEW A, NEW kinds, NEW B, NEW t, PanelsShow(p, A), p.form = Nil,
           Without({"run", "one"}, A), t.kind \in {"load", "put"}, Live(A, kinds, {t}, B)
    PROVE  PanelsShow(p, B)
<1>1. Without({"run", "one"}, B)
  BY LiveWithout
<1>2. OneOk(p, B) /\ RunOk(p, B)
  BY <1>1, NoneOne, NoneRun, WithoutPart
<1>3. ExpandOk(p, B)
  BY ExpandStays DEF PanelsShow, RowRequests
<1> QED
  BY <1>2, <1>3 DEF PanelsShow, FormOk

LEMMA AddsRun ==
    ASSUME NEW p, NEW A, NEW B, NEW t, PanelsShow(p, A), p.form = Nil,
           Without(RowRequests, A), t.kind = "run", t.about = OnScreenOf(p), Live(A, {"run"}, {t}, B)
    PROVE  PanelsShow(p, B)
<1>1. Without({"load", "put", "one"}, B)
  <2>1. Without({"load", "put", "one"}, A)
    BY DEF Without, RowRequests
  <2> QED
    BY <2>1, LiveWithout
<1>2. OneOk(p, B)
  BY <1>1, NoneOne, WithoutPart
<1>3. RunOk(p, B)
  BY <1>1 DEF RunOk, Live
<1>4. ExpandOk(p, B)
  BY ExpandStays DEF PanelsShow, RowRequests
<1> QED
  BY <1>2, <1>3, <1>4 DEF PanelsShow, FormOk


LEMMA AskingOne ==
    ASSUME NEW k, NEW n, NEW ab, NEW t, t = Ask(k, n, ab), Asking({t})
    PROVE  asked' = Outdated({k}, asked) \cup {t}
<1>1. t.kind = k
  BY DEF Ask
<1>2. {v.kind : v \in {t}} = {k}
  BY <1>1
<1> QED
  BY <1>2 DEF Asking

(* The keys, in the order of PanelsStep.                                    *)
KeyHyp == PanelsNow /\ panelKeys \in Nat /\ panelKeys' = panelKeys + 1

LEMMA PanelFields ==
    ASSUME PanelsNow
    PROVE  /\ PanelBoxed(panel) /\ ResultBoxed(panel.result) /\ OneDialog(panel) /\ ListForm(panel)
           /\ panel.modelID \in Models /\ Listed = OnScreenOf(panel) /\ Nil \notin Models
           /\ panel.assertModelID \in Models \cup {Nil}
           /\ Listed # <<>> => panel.assertModelID = panel.modelID
           /\ Listed \in Seq(AssertionRows)
BY PanelsAssumption DEF PanelsNow, PanelForm, ListForm, Listed, OnScreenOf

LEMMA AsksFor ==
    ASSUME KeyHyp, NEW k \in RequestKinds \ {"model"}, NEW n, n \in Models \/ (k = "put" /\ n = Nil),
           NEW ab, k = "put" => ab \in Seq(AssertionRows), Asking({Ask(k, n, ab)})
    PROVE  AskedFor(k, n, ab, {k}, Ask(k, n, ab))
<1> DEFINE t == Ask(k, n, ab)
<1>1. asked' = Outdated({k}, asked) \cup {t}
  BY AskingOne
<1> HIDE DEF t
<1>2. t = Ask(k, n, ab)
  BY DEF t
<1>3. AskedFor(k, n, ab, {k}, t)
  BY <1>1, <1>2, OneAsked DEF KeyHyp
<1> QED
  BY <1>2, <1>3

LEMMA GoToKeeps ==
    ASSUME KeyHyp, NEW s \in {"query", "assertions", "model"}, GoTo(s)
    PROVE  KeepsPanels
<1>1. PICK e : panel' = InSection(panel, s, e)
  BY DEF GoTo, InSection
<1>2. /\ PanelBoxed(panel') /\ panel'.section = s /\ panel'.modelID = panel.modelID
      /\ panel'.hasResult = panel.hasResult /\ panel'.result = panel.result /\ panel'.showRes = FALSE
      /\ SameAssertions(panel, panel') /\ SameDialogs(panel, panel')
  <2>1. PanelBoxed(panel)
    BY PanelFields DEF KeyHyp
  <2>2. WentTo(panel, s, panel')
    BY <1>1, <2>1, SectionSet
  <2> QED
    BY <2>2 DEF WentTo
<1>3. /\ panel.picker = Nil /\ panel.form = Nil /\ panel.confirm = Nil /\ s # panel.section
  BY DEF GoTo, NoDialog
<1>4. PanelForm(panel')
  BY <1>2, <1>3, PanelFields
     DEF KeyHyp, PanelForm, OneDialog, ListForm, SameAssertions, SameDialogs, OnScreenOf
<1>5. ASSUME PanelsShow(panel, asked), ~Rushes PROVE PanelsShow(panel', asked)
  <2>1. Without({"expand"}, asked)
    BY <1>2, <1>3, <1>5 DEF Rushes, Waiting, Without, KeyHyp
  <2>2. OnScreenOf(panel') = OnScreenOf(panel)
    BY <1>2 DEF SameAssertions, OnScreenOf
  <2>3. VerdictOk(panel') /\ TreeOk(panel') /\ BadgesOk(panel')
    BY <1>2, <1>5, <2>2 DEF PanelsShow, VerdictOk, TreeOk, BadgesOk, SameAssertions
  <2>4. FormOk(panel', asked)
    BY <1>2, <1>3 DEF FormOk, SameDialogs
  <2>5. OneOk(panel', asked) /\ RunOk(panel', asked)
    BY <1>2, <1>5, <2>2 DEF PanelsShow, OneOk, RunOk, SameAssertions
  <2> QED
    BY <2>1, <2>3, <2>4, <2>5, NoneExpand DEF PanelsShow
<1>6. CASE UNCHANGED asked
  BY <1>4, <1>5, <1>6 DEF KeepsPanels, PanelsNow, KeyHyp
<1>7. CASE Asking({Ask("load", panel.modelID, Nil)})
  <2> DEFINE t == Ask("load", panel.modelID, Nil)
  <2>1. AskedFor("load", panel.modelID, Nil, {"load"}, t)
    BY <1>7, PanelFields, AsksFor DEF KeyHyp, RequestKinds
  <2> HIDE DEF t
  <2>3. ASSUME PanelsShow(panel, asked), ~Rushes PROVE PanelsShow(panel', asked')
    <3>1. Without({"run", "one"}, asked)
      BY <2>1, <2>3, WithoutPart DEF AskedFor, Labels, RowRequests
    <3>2. panel'.form = Nil /\ PanelsShow(panel', asked)
      BY <1>2, <1>3, <1>5, <2>3 DEF SameDialogs
    <3> QED
      BY <2>1, <3>1, <3>2, AddsWrite DEF AskedFor
  <2> QED
    BY <1>4, <2>1, <2>3 DEF KeepsPanels, PanelsNow, AskedFor
<1> QED
  BY <1>6, <1>7 DEF GoTo

LEMMA PickModelKeeps ==
    ASSUME KeyHyp, NEW n \in Models, PickModelOf(n)
    PROVE  KeepsPanels
<1> DEFINE t == Ask("model", n, Nil)
<1>1. panel' = CleanPanel(panel) /\ NoDialog /\ panel.section = "model"
  BY DEF PickModelOf, On
<1>2. /\ PanelBoxed(panel') /\ panel'.section = "model" /\ panel'.modelID = panel.modelID
      /\ panel'.hasResult = FALSE /\ panel'.result = NoResult /\ panel'.showRes = FALSE
      /\ panel'.assertions = Nil /\ panel'.assertModelID = Nil /\ panel'.results = <<>>
      /\ SameDialogs(panel, panel')
  BY <1>1, Cleaned, PanelFields DEF KeyHyp, CleanedIs
<1>3. asked' = Outdated({"put", "model"}, asked) \cup {t}
  BY DEF PickModelOf
<1>a. AskedFor("model", n, Nil, {"put", "model"}, t)
  BY <1>3, OneAsked DEF KeyHyp, RequestKinds
<1>4. /\ RequestForm(asked') /\ ModelsOk(asked') /\ Live(asked, {"put", "model"}, {t}, asked')
      /\ t.kind = "model" /\ t.model = n /\ RequestForm(asked)
  BY <1>a DEF KeyHyp, PanelsNow, AskedFor
<1> HIDE DEF t
<1>5. PanelForm(panel')
  <2>1. ResultBoxed(panel'.result)
    BY <1>2 DEF ResultBoxed, NoResult
  <2> QED
    BY <1>1, <1>2, <2>1, PanelFields
       DEF KeyHyp, PanelForm, OneDialog, ListForm, SameDialogs, OnScreenOf, NoDialog
<1>6. ASSUME PanelsShow(panel, asked) PROVE PanelsShow(panel', asked')
  <2>1. VerdictOk(panel') /\ TreeOk(panel') /\ BadgesOk(panel')
    BY <1>2 DEF VerdictOk, TreeOk, BadgesOk
  <2>2. FormOk(panel', asked')
    BY <1>1, <1>2 DEF FormOk, SameDialogs, NoDialog
  <2>3. Without({"expand"}, asked)
    BY <1>1, <1>6 DEF PanelsShow, ExpandOk, Without
  <2>4. ExpandOk(panel', asked')
    BY <1>4, <2>3, LiveWithout, NoneExpand
  <2>5. OneOk(panel', asked')
    <3> SUFFICES ASSUME NEW v \in asked', v.current, v.kind = "one"
                 PROVE  Without({"load", "put", "run", "query"}, asked') /\ v.model # Nil
      BY <1>2 DEF OneOk
    <3>1. v \in asked
      BY <1>4 DEF Live
    <3>2. Without({"load", "put", "run", "query"}, asked)
      BY <1>6, <3>1 DEF PanelsShow, OneOk
    <3> QED
      BY <1>4, <3>1, <3>2, LiveWithout, PanelsAssumption DEF RequestForm
  <2>6. RunOk(panel', asked')
    <3> SUFFICES ASSUME NEW v \in asked', v.current, v.kind = "run"
                 PROVE  Without({"load", "put", "one"}, asked') /\ v.model # Nil
      BY <1>2 DEF RunOk
    <3>1. v \in asked
      BY <1>4 DEF Live
    <3>2. Without({"load", "put", "one"}, asked)
      BY <1>6, <3>1 DEF PanelsShow, RunOk
    <3> QED
      BY <1>4, <3>1, <3>2, LiveWithout, PanelsAssumption DEF RequestForm
  <2> QED
    BY <2>1, <2>2, <2>4, <2>5, <2>6 DEF PanelsShow
<1> QED
  BY <1>4, <1>5, <1>6 DEF KeepsPanels, PanelsNow

LEMMA OnIs ==
    ASSUME NEW s, On(s)
    PROVE  /\ panel.picker = Nil /\ panel.form = Nil /\ panel.confirm = Nil /\ panel.section = s
           /\ UNCHANGED stored
BY DEF On, NoDialog, PanelKey

LEMMA EscapeKeeps ==
    ASSUME KeyHyp, Escape
    PROVE  KeepsPanels
<1>1. Dimmer(panel, panel') /\ SameDialogs(panel, panel')
  BY EditingSet, TreeClosed, PanelFields DEF KeyHyp, Escape
<1> QED
  BY <1>1, QuietKey, PanelFields DEF KeyHyp, Escape, SameDialogs, OneDialog

LEMMA EditQueryKeeps ==
    ASSUME KeyHyp, EditQuery
    PROVE  KeepsPanels
<1>1. Dimmer(panel, panel') /\ SameDialogs(panel, panel')
  BY EditingSet, PanelFields DEF KeyHyp, EditQuery
<1> QED
  BY <1>1, QuietKey, PanelFields DEF KeyHyp, EditQuery, SameDialogs, OneDialog

LEMMA CycleModeKeeps ==
    ASSUME KeyHyp, NEW mode, CycleMode(mode)
    PROVE  KeepsPanels
<1>1. Dimmer(panel, panel') /\ SameDialogs(panel, panel')
  BY ModeSet, PanelFields DEF KeyHyp, CycleMode
<1> QED
  BY <1>1, QuietKey, PanelFields DEF KeyHyp, CycleMode, SameDialogs, OneDialog


LEMMA QueryAskKeeps ==
    ASSUME KeyHyp, NEW ask, Asking({Ask("query", panel.modelID, ask)}),
           Dimmer(panel, panel'), OneDialog(panel'), panel'.form = Nil
    PROVE  KeepsPanels
<1> DEFINE t == Ask("query", panel.modelID, ask)
<1>1. AskedFor("query", panel.modelID, ask, {"query"}, t)
  BY PanelFields, AsksFor DEF KeyHyp, RequestKinds
<1>2. PanelForm(panel')
  BY DimmerForm DEF KeyHyp, PanelsNow
<1> HIDE DEF t
<1>3. ASSUME PanelsShow(panel, asked), ~Rushes PROVE PanelsShow(panel', asked')
  <2>1. Without({"one", "expand"}, asked)
    BY <1>1, <1>3 DEF AskedFor, Labels
  <2>2. PanelsShow(panel', asked)
    BY <1>3, DimmerShows
  <2> QED
    BY <1>1, <2>1, <2>2, AddsQuery DEF AskedFor
<1> QED
  BY <1>1, <1>2, <1>3 DEF KeepsPanels, PanelsNow, AskedFor

LEMMA QueryErrorKeeps ==
    ASSUME KeyHyp, NEW p, Dimmer(panel, p), OneDialog(p), p.form = Nil, panel' = QueryError(p),
           RequestForm(asked'), Fewer(asked, asked')
    PROVE  KeepsPanels
<1>1. PanelForm(p)
  BY DimmerForm DEF KeyHyp, PanelsNow
<1>2. Failed_(p, panel')
  BY <1>1, QueryFailed DEF PanelForm
<1>3. PanelForm(panel') /\ ModelsOk(asked')
  BY <1>1, <1>2, FailedForm, FewerModels DEF KeyHyp, PanelsNow
<1>4. ASSUME PanelsShow(panel, asked), ~Rushes PROVE PanelsShow(panel', asked')
  <2>1. PanelsShow(p, asked)
    BY <1>4, DimmerShows
  <2>2. panel'.result.err /\ p.result = panel.result
    BY <1>2, FailedBoxed DEF Failed_, Dimmer
  <2>3. panel'.result = panel.result \/ ~Waiting(Labels("query"))
    BY <1>4, <2>2 DEF Rushes, KeyHyp
  <2>4. panel'.result = p.result \/ Without({"one", "expand"}, asked)
    BY <2>2, <2>3 DEF Waiting, Without, Labels
  <2>5. PanelsShow(panel', asked)
    BY <1>2, <2>1, <2>4, FailedShows
  <2> QED
    BY <2>5, FewerShow
<1> QED
  BY <1>3, <1>4 DEF KeepsPanels, PanelsNow

LEMMA SubmitQueryKeeps ==
    ASSUME KeyHyp, NEW ask, SubmitQuery(ask)
    PROVE  KeepsPanels
<1>1. OneDialog(panel) /\ panel.form = Nil /\ Dimmer(panel, panel) /\ RequestForm(asked)
  BY SamePanel, OnIs DEF KeyHyp, PanelsNow, PanelForm, SubmitQuery
<1>2. CASE panel' = QueryError(panel) /\ UNCHANGED asked
  BY <1>1, <1>2, QueryErrorKeeps, SameRequests
<1>3. CASE Asking({Ask("query", panel.modelID, ask)}) /\ UNCHANGED panel
  BY <1>1, <1>3, QueryAskKeeps
<1> QED
  BY <1>2, <1>3 DEF SubmitQuery

LEMMA OpenHistoryKeeps ==
    ASSUME KeyHyp, OpenHistory
    PROVE  KeepsPanels
<1>1. PICK v : panel' = [panel EXCEPT !.picker = v]
  BY DEF OpenHistory
<1>2. PanelBoxed(panel)
  BY PanelFields DEF KeyHyp
<1>3. Redialed(panel, v, panel.form, panel.confirm, panel')
  BY <1>1, <1>2, PickerSet
<1> QED
  BY <1>3, QuietKey, OnIs DEF KeyHyp, OpenHistory, OneDialog, Redialed

LEMMA CloseHistoryKeeps ==
    ASSUME KeyHyp, CloseHistory
    PROVE  KeepsPanels
<1>1. PanelBoxed(panel) /\ panel' = [panel EXCEPT !.picker = Nil]
  BY PanelFields DEF KeyHyp, CloseHistory
<1>2. Redialed(panel, Nil, panel.form, panel.confirm, panel')
  BY <1>1, PickerSet
<1> QED
  BY <1>2, QuietKey, PanelFields DEF KeyHyp, CloseHistory, OneDialog, Redialed

LEMMA RerunHistoryKeeps ==
    ASSUME KeyHyp, RerunHistory
    PROVE  KeepsPanels
<1> DEFINE ask == Picked(panel)
           back == [panel EXCEPT !.picker = Nil, !.editing = FALSE, !.mode = ask.mode]
<1>1. /\ Dimmer(panel, back) /\ back.picker = Nil /\ back.form = panel.form
      /\ back.confirm = panel.confirm
  <2>1. PanelBoxed(panel)
    BY PanelFields DEF KeyHyp
  <2>2. Redialed(panel, Nil, panel.form, panel.confirm, back)
    BY <2>1, AskPicked
  <2> QED
    BY <2>2 DEF Redialed
<1>2. \/ panel' = back /\ Asking({Ask("query", panel.modelID, ask)})
      \/ panel' = QueryError(back) /\ asked' = Outdated({"query"}, asked)
  BY DEF RerunHistory
<1>3. panel.form = Nil /\ panel.confirm = Nil
  BY PanelFields DEF KeyHyp, RerunHistory, OneDialog
<1> HIDE DEF back, ask
<1>4. OneDialog(back) /\ back.form = Nil
  BY <1>1, <1>3 DEF OneDialog
<1>5. CASE panel' = back /\ Asking({Ask("query", panel.modelID, ask)})
  BY <1>1, <1>4, <1>5, QueryAskKeeps
<1>6. CASE panel' = QueryError(back) /\ asked' = Outdated({"query"}, asked)
  <2>1. RequestForm(asked') /\ Fewer(asked, asked')
    BY <1>6, OutdatedRequests, LiveAreFewer DEF KeyHyp, PanelsNow
  <2> QED
    BY <1>1, <1>4, <1>6, <2>1, QueryErrorKeeps
<1> QED
  BY <1>2, <1>5, <1>6

LEMMA ShowResolutionKeeps ==
    ASSUME KeyHyp, ShowResolution
    PROVE  KeepsPanels
<1> DEFINE t == Ask("expand", panel.modelID, panel.result.vals)
<1>1. Dimmer(panel, panel') /\ SameDialogs(panel, panel')
  BY EditingSet, PanelFields DEF KeyHyp, ShowResolution
<1>2. panel.section = "query" /\ panel.form = Nil
  BY OnIs DEF ShowResolution
<1>3. AskedFor("expand", panel.modelID, panel.result.vals, {"expand"}, t)
  BY PanelFields, AsksFor DEF KeyHyp, RequestKinds, ShowResolution
<1> HIDE DEF t
<1>4. PanelForm(panel')
  BY <1>1, DimmerForm, PanelFields DEF KeyHyp, PanelsNow, OneDialog, SameDialogs
<1>5. ASSUME PanelsShow(panel, asked), ~Rushes PROVE PanelsShow(panel', asked')
  <2>1. Without({"query"}, asked)
    BY <1>3, <1>5 DEF AskedFor, Labels
  <2>2. PanelsShow(panel, asked')
    BY <1>2, <1>3, <1>5, <2>1, AddsExpand DEF AskedFor
  <2> QED
    BY <1>1, <2>2, DimmerShows DEF SameDialogs
<1> QED
  BY <1>3, <1>4, <1>5 DEF KeepsPanels, PanelsNow, AskedFor


(* The lists that are written.                                              *)
LEMMA RemovedRow ==
    ASSUME NEW T, NEW s \in Seq(T), NEW i \in 1..Len(s)
    PROVE  RemoveAt(s, i) \in Seq(T)
<1> DEFINE n == Len(s)
<1>1. n \in Nat /\ \A j \in 1..n : s[j] \in T
  BY ElementOfSeq
<1>2. SubSeq(s, 1, i - 1) \in Seq(T)
  <2>1. i - 1 \in Int /\ 1 \in Int /\ \A j \in 1..(i - 1) : s[j] \in T
    BY <1>1
  <2> HIDE DEF n
  <2> QED
    BY <2>1, SubSeqProperties
<1>3. SubSeq(s, i + 1, Len(s)) \in Seq(T)
  <2>1. i + 1 \in Int /\ n \in Int /\ \A j \in (i + 1)..n : s[j] \in T
    BY <1>1
  <2> HIDE DEF n
  <2>2. SubSeq(s, i + 1, n) \in Seq(T)
    BY <2>1, SubSeqProperties
  <2> QED
    BY <2>2 DEF n
<1> HIDE DEF n
<1> QED
  BY <1>2, <1>3, ConcatProperties DEF RemoveAt

LEMMA FirstOne ==
    ASSUME NEW T, T \subseteq Nat, T # {}
    PROVE  Min(T) \in T
<1> DEFINE R == OpToRel(<, Nat)
<1>1. IsWellFoundedOn(R, Nat)
  BY NatLessThanWellFounded
<1>2. \A i, j \in Nat : j < i => <<j, i>> \in R
  BY DEF OpToRel
<1> HIDE DEF R
<1>3. PICK i \in T : \A j \in T : ~ (<<j, i>> \in R)
  BY <1>1, WFMin
<1>4. \A j \in T : i <= j
  <2>1. \A j \in T : ~ (j < i)
    BY <1>2, <1>3
  <2> QED
    BY <2>1
<1> QED
  BY <1>4 DEF Min

LEMMA FirstRemoved ==
    ASSUME NEW T, NEW s \in Seq(T), NEW row, Contains(s, row)
    PROVE  /\ \E i \in DOMAIN s : s[i] = row /\ RemoveFirst(s, row) = RemoveAt(s, i)
           /\ RemoveFirst(s, row) \in Seq(T)
<1> DEFINE I == {i \in 1..Len(s) : s[i] = row}
<1>1. I # {} /\ I \subseteq Nat
  BY DEF Contains
<1>2. SelectInSeq(s, LAMBDA v : v = row) = Min(I)
  BY <1>1 DEF SelectInSeq
<1>3. RemoveFirst(s, row) = RemoveAt(s, Min(I))
  BY <1>1, <1>2 DEF RemoveFirst
<1>4. Min(I) \in I
  BY <1>1, FirstOne
<1>5. Min(I) \in 1..Len(s) /\ s[Min(I)] = row /\ DOMAIN s = 1..Len(s)
  BY <1>4
<1> HIDE DEF I
<1>6. RemoveAt(s, Min(I)) \in Seq(T)
  BY <1>5, RemovedRow
<1> QED
  BY <1>3, <1>5, <1>6

LEMMA EditedRows ==
    ASSUME PanelsNow, NEW row \in Candidates, NEW i
    PROVE  Edited(i, row) \in Seq(AssertionRows)
<1>1. Listed \in Seq(AssertionRows) /\ row \in AssertionRows
  BY PanelFields DEF AssertionRows
<1> QED
  BY <1>1 DEF Edited

LEMMA PutKeeps ==
    ASSUME KeyHyp, NEW rows \in Seq(AssertionRows), NEW p, PutAssertions(rows, p),
           Dimmer(panel, p), OneDialog(p), p.form = Nil,
           PanelsShow(panel, asked) /\ ~Rushes => Without({"run", "one"}, asked)
    PROVE  KeepsPanels
<1> DEFINE t == Ask("put", panel.assertModelID, rows)
<1>1. PanelBoxed(p) /\ panel' = [p EXCEPT !.writing = TRUE] /\ Asking({t})
  BY DEF PutAssertions, Dimmer
<1>2. Dimmer(p, panel') /\ SameDialogs(p, panel')
  BY <1>1, WritingSet
<1>3. Dimmer(panel, panel')
  BY <1>2, DimmerIsKept
<1>4. AskedFor("put", panel.assertModelID, rows, {"put"}, t)
  <2>1. panel.assertModelID \in Models \/ panel.assertModelID = Nil
    BY PanelFields DEF KeyHyp
  <2> QED
    BY <1>1, <2>1, AsksFor DEF RequestKinds
<1>5. PanelForm(panel') /\ panel'.form = Nil
  BY <1>2, <1>3, DimmerForm DEF KeyHyp, PanelsNow, SameDialogs, OneDialog
<1> HIDE DEF t
<1>6. ASSUME PanelsShow(panel, asked), ~Rushes PROVE PanelsShow(panel', asked')
  <2>1. PanelsShow(panel', asked)
    BY <1>3, <1>5, <1>6, DimmerShows
  <2> QED
    BY <1>4, <1>5, <1>6, <2>1, AddsWrite DEF AskedFor
<1> QED
  BY <1>4, <1>5, <1>6 DEF KeepsPanels, PanelsNow, AskedFor

LEMMA SubmitFormKeeps ==
    ASSUME KeyHyp, NEW row \in Candidates, SubmitForm(row)
    PROVE  KeepsPanels
<1> DEFINE p == [panel EXCEPT !.form = Nil]
           rows == Edited(panel.form.at, row)
<1>1. PutAssertions(rows, p) /\ panel.form # Nil
  BY DEF SubmitForm
<1>2. PanelBoxed(panel) /\ OneDialog(panel) /\ rows \in Seq(AssertionRows)
  BY PanelFields, EditedRows DEF KeyHyp
<1>3. Redialed(panel, panel.picker, Nil, panel.confirm, p)
  BY <1>2, FormSet
<1> HIDE DEF p, rows
<1>4. Dimmer(panel, p) /\ OneDialog(p) /\ p.form = Nil
  BY <1>1, <1>2, <1>3 DEF Redialed, OneDialog
<1>5. PanelsShow(panel, asked) => Without({"run", "one"}, asked)
  BY <1>1, WithoutPart DEF PanelsShow, FormOk, RowRequests
<1> QED
  BY <1>1, <1>2, <1>4, <1>5, PutKeeps

LEMMA ConfirmDeleteKeeps ==
    ASSUME KeyHyp, ConfirmDelete
    PROVE  KeepsPanels
<1> DEFINE p == [panel EXCEPT !.confirm = Nil]
           rows == RemoveFirst(Listed, panel.confirm.row)
<1>1. /\ panel.confirm # Nil
      /\ \/ panel' = p /\ UNCHANGED asked
         \/ Contains(Listed, panel.confirm.row) /\ PutAssertions(rows, p)
  BY DEF ConfirmDelete
<1>2. PanelBoxed(panel) /\ OneDialog(panel) /\ Listed \in Seq(AssertionRows)
  BY PanelFields DEF KeyHyp
<1>3. Redialed(panel, panel.picker, panel.form, Nil, p)
  BY <1>2, ConfirmSet
<1>4. Contains(Listed, panel.confirm.row) => rows \in Seq(AssertionRows)
  BY <1>2, FirstRemoved
<1> HIDE DEF p, rows
<1>5. Dimmer(panel, p) /\ OneDialog(p) /\ p.form = Nil
  BY <1>1, <1>2, <1>3 DEF Redialed, OneDialog
<1>6. CASE panel' = p /\ UNCHANGED asked
  BY <1>5, <1>6, QuietKey DEF KeyHyp
<1>7. CASE Contains(Listed, panel.confirm.row) /\ PutAssertions(rows, p)
  <2>1. ASSUME ~Rushes PROVE Without({"run", "one"}, asked)
    <3> DEFINE t == Ask("put", panel.assertModelID, rows)
    <3>1. t \in asked' /\ t.id = panelKeys /\ t.kind = "put"
      BY <1>7 DEF PutAssertions, Asking, Ask
    <3> HIDE DEF t
    <3>2. ~Waiting(Labels("put"))
      BY <2>1, <3>1 DEF Rushes, KeyHyp
    <3> QED
      BY <1>1, <3>2 DEF Waiting, Without, Labels
  <2> QED
    BY <1>4, <1>5, <1>7, <2>1, PutKeeps
<1> QED
  BY <1>1, <1>6, <1>7

LEMMA AskDeleteKeeps ==
    ASSUME KeyHyp, NEW i, AskDelete(i)
    PROVE  KeepsPanels
<1> DEFINE v == [row |-> Listed[i], at |-> i]
<1>1. panel' = [panel EXCEPT !.confirm = v] /\ PanelBoxed(panel)
  BY PanelFields DEF KeyHyp, AskDelete
<1> HIDE DEF v
<1>2. Redialed(panel, panel.picker, panel.form, v, panel')
  BY <1>1, ConfirmSet
<1> QED
  BY <1>2, QuietKey, OnIs DEF KeyHyp, AskDelete, OneDialog, Redialed

LEMMA CloseDialogKeeps ==
    ASSUME KeyHyp, CloseDialog
    PROVE  KeepsPanels
<1>1. panel' = [panel EXCEPT !.confirm = Nil, !.form = Nil] /\ PanelBoxed(panel)
  BY PanelFields DEF KeyHyp, CloseDialog
<1>2. Redialed(panel, panel.picker, Nil, Nil, panel')
  BY <1>1, DialogClosed
<1> QED
  BY <1>2, QuietKey DEF KeyHyp, CloseDialog, OneDialog, Redialed

LEMMA RunAssertionsKeeps ==
    ASSUME KeyHyp, RunAssertions
    PROVE  KeepsPanels
<1> DEFINE t == Ask("run", panel.assertModelID, Listed)
<1>1. panel' = panel /\ panel.form = Nil /\ Asking({t})
  BY OnIs DEF RunAssertions
<1>2. panel.assertModelID \in Models
  BY PanelFields DEF KeyHyp, RunAssertions
<1>3. AskedFor("run", panel.assertModelID, Listed, {"run"}, t)
  BY <1>1, <1>2, AsksFor DEF RequestKinds
<1> HIDE DEF t
<1>4. ASSUME PanelsShow(panel, asked), ~Rushes PROVE PanelsShow(panel, asked')
  <2>1. Without(RowRequests, asked) /\ Listed = OnScreenOf(panel)
    BY <1>3, <1>4, PanelFields DEF AskedFor, Labels, KeyHyp
  <2> QED
    BY <1>1, <1>3, <1>4, <2>1, AddsRun DEF AskedFor
<1> QED
  BY <1>1, <1>3, <1>4 DEF KeepsPanels, PanelsNow, AskedFor, KeyHyp

LEMMA ReloadListKeeps ==
    ASSUME KeyHyp, ReloadAssertionList
    PROVE  KeepsPanels
<1> DEFINE t == Ask("load", panel.modelID, Nil)
<1>1. panel' = panel /\ panel.form = Nil /\ Asking({t})
  BY OnIs DEF ReloadAssertionList
<1>2. AskedFor("load", panel.modelID, Nil, {"load"}, t)
  BY <1>1, PanelFields, AsksFor DEF RequestKinds, KeyHyp
<1> HIDE DEF t
<1>3. ASSUME PanelsShow(panel, asked), ~Rushes PROVE PanelsShow(panel, asked')
  <2>1. Without({"run", "one"}, asked)
    BY <1>2, <1>3, WithoutPart DEF AskedFor, Labels, RowRequests
  <2> QED
    BY <1>1, <1>2, <1>3, <2>1, AddsWrite DEF AskedFor
<1> QED
  BY <1>1, <1>2, <1>3 DEF KeepsPanels, PanelsNow, AskedFor, KeyHyp

LEMMA OpenFormKeeps ==
    ASSUME KeyHyp, NEW i, i = 0 \/ i \in DOMAIN Listed, OpenForm(i)
    PROVE  KeepsPanels
<1> DEFINE v == [at |-> i, row |-> IF i = 0 THEN Nil ELSE Listed[i]]
<1>1. panel' = [panel EXCEPT !.form = v] /\ PanelBoxed(panel) /\ UNCHANGED asked
  BY PanelFields DEF KeyHyp, OpenForm
<1>2. v.at = i /\ (i # 0 => v.row = Listed[i])
  OBVIOUS
<1> HIDE DEF v
<1>3. Redialed(panel, panel.picker, v, panel.confirm, panel')
  BY <1>1, FormSet
<1>4. panel.picker = Nil /\ panel.form = Nil /\ panel.confirm = Nil
  BY OnIs DEF OpenForm
<1>5. PanelForm(panel')
  BY <1>3, <1>4, DimmerForm DEF KeyHyp, PanelsNow, Redialed, OneDialog
<1>6. ASSUME PanelsShow(panel, asked), ~Rushes PROVE PanelsShow(panel', asked)
  <2>1. OnScreenOf(panel') = OnScreenOf(panel) /\ Listed = OnScreenOf(panel)
    BY <1>3, PanelFields DEF Redialed, Dimmer, SameAssertions, OnScreenOf, KeyHyp
  <2>2. VerdictOk(panel') /\ TreeOk(panel') /\ BadgesOk(panel')
    BY <1>3, <1>6, <2>1
       DEF Redialed, Dimmer, PanelsShow, SameAssertions, VerdictOk, TreeOk, BadgesOk
  <2>3. ExpandOk(panel', asked) /\ OneOk(panel', asked) /\ RunOk(panel', asked)
    BY <1>3, <1>6, <2>1 DEF Redialed, Dimmer, PanelsShow, SameAssertions, ExpandOk, OneOk, RunOk
  <2>4. FormOk(panel', asked)
    <3>1. panel'.form = v
      BY <1>3 DEF Redialed
    <3>2. v # Nil => ~Waiting(RowRequests \cup {"model"})
      BY <1>4, <1>6, <3>1 DEF Rushes, KeyHyp
    <3>3. v # Nil => Without(RowRequests \cup {"model"}, asked)
      BY <3>2 DEF Waiting, Without
    <3> QED
      BY <1>2, <2>1, <3>1, <3>3 DEF FormOk
  <2> QED
    BY <2>2, <2>3, <2>4 DEF PanelsShow
<1> QED
  BY <1>1, <1>5, <1>6 DEF KeepsPanels, PanelsNow, KeyHyp


(* An assertion that is opened: what is asked of it is on screen with it.   *)
OpenedResult(vals) == [NoResult EXCEPT !.badge = TRUE, !.vals = vals]
LEMMA OpenedBoxed ==
    ASSUME NEW vals, NEW res, res = OpenedResult(vals)
    PROVE  ResultBoxed(res) /\ res.vals = vals /\ res.err = FALSE
<1>1. ASSUME NEW r_, ResultBoxed(r_), NEW v, v = [r_ EXCEPT !.badge = TRUE, !.vals = vals]
      PROVE  ResultBoxed(v) /\ v.vals = vals /\ v.err = r_.err
  BY <1>1 DEF ResultBoxed
<1>2. ResultBoxed(NoResult) /\ NoResult.err = FALSE
  BY DEF ResultBoxed, NoResult
<1> QED
  BY <1>1, <1>2 DEF OpenedResult

Opened(p, res) == [p EXCEPT !.section = "query", !.hasResult = FALSE, !.result = res]
OpenedIs(p, res, q) ==
    /\ PanelBoxed(q) /\ q.section = "query" /\ q.modelID = p.modelID
    /\ q.hasResult = FALSE /\ q.result = res /\ q.showRes = p.showRes
    /\ SameAssertions(p, q) /\ SameDialogs(p, q)
LEMMA OpenedPanel ==
    ASSUME NEW p, PanelBoxed(p), NEW res, NEW q, q = Opened(p, res)
    PROVE  OpenedIs(p, res, q)
BY DEF PanelBoxed, SameAssertions, SameDialogs, Opened, OpenedIs

LEMMA OpenAssertionKeeps ==
    ASSUME KeyHyp, NEW i \in DOMAIN Listed, OpenAssertion(i)
    PROVE  KeepsPanels
<1> DEFINE n == panel.assertModelID
           row == Listed[i]
           ab == <<i, row>>
           t == Ask("one", n, ab)
           v == Ask("expand", n, row.vals)
           res == OpenedResult(row.vals)
<1>1. panel' = Opened(panel, res) /\ asked' = Outdated({x.kind : x \in {t, v}}, asked) \cup {t, v}
  BY DEF OpenAssertion, Opened, OpenedResult, Asking
<1>2. /\ panel.picker = Nil /\ panel.form = Nil /\ panel.confirm = Nil
      /\ panel.section = "assertions"
  BY OnIs DEF OpenAssertion
<1>3. PanelBoxed(panel) /\ n \in Models /\ n = panel.modelID /\ Listed = OnScreenOf(panel)
  <2>1. Listed # <<>>
    OBVIOUS
  <2> QED
    BY <2>1, PanelFields DEF KeyHyp
<1>4. ResultBoxed(res) /\ res.vals = row.vals /\ res.err = FALSE
  BY OpenedBoxed
<1>5. ab[1] = i /\ ab[2] = row
  OBVIOUS
<1>6. /\ RequestBoxed(t) /\ t.current = TRUE /\ t.id = panelKeys
      /\ t.kind = "one" /\ t.model = n /\ t.about = ab
  BY DEF Ask, RequestBoxed
<1>7. /\ RequestBoxed(v) /\ v.current = TRUE /\ v.id = panelKeys
      /\ v.kind = "expand" /\ v.model = n /\ v.about = row.vals
  BY DEF Ask, RequestBoxed
<1> HIDE DEF ab, t, v, res, row, n
<1>8. OpenedIs(panel, res, panel')
  BY <1>1, <1>3, OpenedPanel
<1>9. {x.kind : x \in {t, v}} = {"one", "expand"}
  BY <1>6, <1>7
<1>10. RequestForm({t, v})
  BY <1>3, <1>6, <1>7 DEF RequestForm
<1>11. RequestForm(asked') /\ Live(asked, {"one", "expand"}, {t, v}, asked')
  BY <1>1, <1>9, <1>10, LiveAdd DEF KeyHyp, PanelsNow
<1>12. ModelsOk(asked')
  BY <1>6, <1>7, <1>11, LiveModels DEF KeyHyp, PanelsNow
<1>13. OnScreenOf(panel') = OnScreenOf(panel)
  BY <1>8 DEF OpenedIs, SameAssertions, OnScreenOf
<1>14. PanelForm(panel')
  BY <1>2, <1>4, <1>8, <1>13, PanelFields
     DEF KeyHyp, PanelForm, OneDialog, ListForm, OpenedIs, SameAssertions, SameDialogs, OnScreenOf
<1>15. ASSUME PanelsShow(panel, asked), ~Rushes PROVE PanelsShow(panel', asked')
  <2>1. t \in asked' /\ panelKeys' # panelKeys
    BY <1>1 DEF KeyHyp
  <2>2. ~Waiting(Labels("one"))
    BY <1>6, <1>15, <2>1 DEF Rushes
  <2>3. Without(RowRequests \cup {"query", "expand"}, asked)
    BY <2>2 DEF Waiting, Without, Labels
  <2>4. Without({"load", "put", "run", "query"}, asked)
    BY <2>3, WithoutPart DEF RowRequests
  <2>5. Without({"load", "put", "run", "query"}, asked')
    BY <1>6, <1>7, <1>11, <2>4, LiveWithout
  <2>6. \A w \in asked' : w.current => (w.kind = "one" => w = t) /\ (w.kind = "expand" => w = v)
    BY <1>6, <1>7, <1>11 DEF Live
  <2>7. VerdictOk(panel')
    BY <1>8 DEF OpenedIs, VerdictOk
  <2>8. TreeOk(panel')
    BY <1>2, <1>8, <1>15 DEF OpenedIs, PanelsShow, TreeOk
  <2>9. BadgesOk(panel')
    BY <1>8, <1>13, <1>15 DEF OpenedIs, SameAssertions, PanelsShow, BadgesOk
  <2>10. FormOk(panel', asked')
    BY <1>2, <1>8 DEF OpenedIs, SameDialogs, FormOk
  <2>11. ExpandOk(panel', asked')
    <3>1. Without({"query"}, asked')
      BY <2>5, WithoutPart
    <3> QED
      BY <1>3, <1>4, <1>7, <1>8, <2>6, <3>1 DEF OpenedIs, ExpandOk
  <2>12. OneOk(panel', asked')
    <3> SUFFICES ASSUME NEW w \in asked', w.current, w.kind = "one"
                 PROVE  /\ panel'.result.vals = w.about[2].vals
                        /\ w.about[1] \in DOMAIN OnScreenOf(panel')
                        /\ OnScreenOf(panel')[w.about[1]] = w.about[2]
      BY <2>5 DEF OneOk
    <3>1. w.about[1] = i /\ w.about[2] = row
      BY <1>5, <1>6, <2>6
    <3> QED
      BY <1>3, <1>4, <1>8, <1>13, <3>1 DEF OpenedIs, row
  <2>13. RunOk(panel', asked')
    BY <2>5, NoneRun, WithoutPart
  <2> QED
    BY <2>7, <2>8, <2>9, <2>10, <2>11, <2>12, <2>13 DEF PanelsShow
<1> QED
  BY <1>11, <1>12, <1>14, <1>15 DEF KeepsPanels, PanelsNow


(* What comes back.                                                         *)
LEMMA ReturnedIs ==
    ASSUME NEW A, RequestForm(A), ModelsOk(A), NEW t
    PROVE  RequestForm(A \ {t}) /\ Fewer(A, A \ {t}) /\ ModelsOk(A \ {t})
BY DEF RequestForm, Fewer, ModelsOk

LEMMA RequestIs ==
    ASSUME PanelsNow, NEW t \in asked, ~Ignored(t)
    PROVE  /\ t.current /\ t.kind \in RequestKinds
           /\ t.kind \notin {"model", "put"} => t.model = panel.modelID
           /\ t.kind \in {"run", "one"} => t.model = panel.assertModelID
           /\ t.kind # "put" => t.model \in Models
           /\ t.model \in Models \cup {Nil}
           /\ t.kind = "put" => t.about \in Seq(AssertionRows)
BY PanelsAssumption DEF PanelsNow, RequestForm, Ignored, OtherModel, OtherList, RequestKinds

(* An answer that only takes its request away.                              *)
LEMMA AnswerKeeps ==
    ASSUME PanelsNow, NEW t, asked' = asked \ {t}, PanelForm(panel'),
           PanelsShow(panel, asked) => PanelsShow(panel', asked)
    PROVE  KeepsPanels
BY ReturnedIs, FewerShow DEF PanelsNow, KeepsPanels

LEMMA QueryKeeps ==
    ASSUME PanelsNow, NEW t \in asked, ~Ignored(t), t.kind = "query", panel' = QueryAnswered(t),
           asked' = asked \ {t}
    PROVE  KeepsPanels
<1>1. t.current /\ t.model = panel.modelID
  BY RequestIs
<1> DEFINE q == QueryAnswered(t)
<1>2. QueryGot(t, q)
  BY QueryPut, PanelFields
<1>3. panel' = q
  OBVIOUS
<1> HIDE DEF q
<1>4. OnScreenOf(q) = OnScreenOf(panel)
  BY <1>2 DEF QueryGot, SameAssertions, OnScreenOf
<1>5. PanelForm(q)
  BY <1>2, <1>4, PanelFields
     DEF QueryGot, PanelForm, OneDialog, ListForm, SameAssertions, SameDialogs
<1>6. ASSUME PanelsShow(panel, asked) PROVE PanelsShow(q, asked)
  <2>1. Without({"expand"}, asked)
    BY <1>1, <1>6 DEF PanelsShow, ExpandOk, Without
  <2>2. Without({"one"}, asked)
    BY <1>1, <1>6 DEF PanelsShow, OneOk, Without
  <2>3. VerdictOk(q) /\ TreeOk(q)
    BY <1>1, <1>2 DEF QueryGot, VerdictOk, TreeOk
  <2>4. BadgesOk(q) /\ FormOk(q, asked) /\ RunOk(q, asked)
    BY <1>2, <1>4, <1>6
       DEF QueryGot, PanelsShow, SameAssertions, SameDialogs, BadgesOk, FormOk, RunOk
  <2> QED
    BY <2>1, <2>2, <2>3, <2>4, NoneExpand, NoneOne DEF PanelsShow
<1> QED
  BY <1>3, <1>5, <1>6, AnswerKeeps

LEMMA ExpandKeeps ==
    ASSUME PanelsNow, NEW t \in asked, ~Ignored(t), t.kind = "expand", panel' = TreeAnswered(t),
           asked' = asked \ {t}
    PROVE  KeepsPanels
<1>1. t.current /\ t.model = panel.modelID
  BY RequestIs
<1> DEFINE q == TreeAnswered(t)
<1>2. TreeGot(t, q)
  BY TreePut, PanelFields
<1>3. panel' = q
  OBVIOUS
<1> HIDE DEF q
<1>4. OnScreenOf(q) = OnScreenOf(panel)
  BY <1>2 DEF TreeGot, SameAssertions, OnScreenOf
<1>5. PanelForm(q)
  BY <1>2, <1>4, PanelFields
     DEF TreeGot, PanelForm, OneDialog, ListForm, SameAssertions, SameDialogs
<1>6. ASSUME PanelsShow(panel, asked) PROVE PanelsShow(q, asked)
  <2>1. panel.section = "query" /\ t.about = panel.result.vals
    BY <1>1, <1>6 DEF PanelsShow, ExpandOk
  <2>2. VerdictOk(q) /\ TreeOk(q)
    BY <1>1, <1>2, <1>6, <2>1 DEF PanelsShow, TreeGot, VerdictOk, TreeOk
  <2>3. BadgesOk(q) /\ FormOk(q, asked) /\ RunOk(q, asked)
    BY <1>2, <1>4, <1>6
       DEF TreeGot, PanelsShow, SameAssertions, SameDialogs, BadgesOk, FormOk, RunOk
  <2>4. ExpandOk(q, asked) /\ OneOk(q, asked)
    BY <1>2, <1>4, <1>6 DEF TreeGot, PanelsShow, SameAssertions, ExpandOk, OneOk
  <2> QED
    BY <2>2, <2>3, <2>4 DEF PanelsShow
<1> QED
  BY <1>3, <1>5, <1>6, AnswerKeeps

LEMMA LoadKeeps ==
    ASSUME PanelsNow, NEW t \in asked, t.current, t.kind = "load", t.model = panel.modelID,
           NEW q, panel' = q, asked' = asked \ {t},
           PanelBoxed(q), q.section = panel.section, q.modelID = panel.modelID,
           SameVerdict(panel, q), SameDialogs(panel, q), q.assertModelID = t.model,
           OnScreenOf(q) \in Seq(AssertionRows),
           \A i \in DOMAIN q.results \cap DOMAIN OnScreenOf(q) :
              /\ i \in DOMAIN panel.results /\ q.results[i] = panel.results[i]
              /\ i \in DOMAIN OnScreenOf(panel) /\ OnScreenOf(q)[i] = OnScreenOf(panel)[i]
    PROVE  KeepsPanels
<1>1. PanelForm(q)
  BY PanelFields DEF PanelForm, OneDialog, ListForm, SameVerdict, SameDialogs
<1>2. ASSUME PanelsShow(panel, asked) PROVE PanelsShow(q, asked)
  <2>1. Without({"one"}, asked)
    BY <1>2 DEF PanelsShow, OneOk, Without
  <2>2. Without({"run"}, asked)
    BY <1>2 DEF PanelsShow, RunOk, Without
  <2>3. FormOk(q, asked)
    <3>1. panel.form = Nil
      BY <1>2 DEF PanelsShow, FormOk, Without, RowRequests
    <3> QED
      BY <3>1 DEF FormOk, SameDialogs
  <2>4. VerdictOk(q) /\ TreeOk(q) /\ ExpandOk(q, asked)
    BY <1>2 DEF PanelsShow, SameVerdict, VerdictOk, TreeOk, ExpandOk
  <2>5. BadgesOk(q)
    <3> SUFFICES ASSUME NEW i \in DOMAIN q.results \cap DOMAIN OnScreenOf(q), q.results[i] # Nil
                 PROVE  q.results[i].row = OnScreenOf(q)[i] /\ q.results[i].model = q.assertModelID
      BY DEF BadgesOk
    <3>1. i \in DOMAIN OnScreenOf(panel)
      OBVIOUS
    <3>2. panel.assertModelID = panel.modelID
      BY <3>1, PanelFields DEF PanelForm, ListForm, OnScreenOf
    <3> QED
      BY <1>2, <3>1, <3>2 DEF PanelsShow, BadgesOk
  <2> QED
    BY <2>1, <2>2, <2>3, <2>4, <2>5, NoneOne, NoneRun DEF PanelsShow
<1> QED
  BY <1>1, <1>2, AnswerKeeps


LEMMA ListAnsweredKeeps ==
    ASSUME PanelsNow, stored \in [Models -> Seq(AssertionRows)], NEW t \in asked, ~Ignored(t),
           t.kind = "load", panel' = ListAnswered(t), asked' = asked \ {t}
    PROVE  KeepsPanels
<1>1. t.current /\ t.model = panel.modelID /\ t.model \in Models
  BY RequestIs
<1> DEFINE q == ListAnswered(t)
<1>2. ListGot(t.model, stored[t.model], <<>>, q)
  BY ListPut, PanelFields DEF ListAnswered
<1>3. panel' = q
  OBVIOUS
<1> HIDE DEF q
<1>4. OnScreenOf(q) \in Seq(AssertionRows)
  <2>1. stored[t.model] \in Seq(AssertionRows) /\ <<>> \in Seq(AssertionRows)
    BY <1>1
  <2> QED
    BY <1>2, <2>1 DEF ListGot, OnScreenOf
<1>5. DOMAIN q.results = {}
  BY <1>2 DEF ListGot
<1> QED
  BY <1>1, <1>2, <1>3, <1>4, <1>5, LoadKeeps DEF ListGot

LEMMA ListRefusedKeeps ==
    ASSUME PanelsNow, NEW t \in asked, ~Ignored(t), t.kind = "load", panel' \in Refusals(t),
           asked' = asked \ {t}
    PROVE  KeepsPanels
<1>1. t.current /\ t.model = panel.modelID
  BY RequestIs
<1>2. \/ panel' = [panel EXCEPT !.assertModelID = t.model]
      \/ panel' = [panel EXCEPT !.assertModelID = t.model, !.assertions = Nil]
  BY DEF Refusals
<1>3. PanelBoxed(panel)
  BY PanelFields
<1>4. PICK rows \in {Nil, panel.assertions} : ListGot(t.model, rows, panel.results, panel')
  BY <1>2, <1>3, ListEmptied, ListLeft
<1>5. OnScreenOf(panel') \in {<<>>, OnScreenOf(panel)}
  BY <1>4 DEF ListGot, OnScreenOf
<1>6. OnScreenOf(panel') \in Seq(AssertionRows)
  <2>1. OnScreenOf(panel) \in Seq(AssertionRows) /\ <<>> \in Seq(AssertionRows)
    BY PanelFields
  <2> HIDE DEF PanelsNow
  <2> QED
    BY <1>5, <2>1
<1>7. ASSUME NEW i \in DOMAIN panel'.results \cap DOMAIN OnScreenOf(panel')
      PROVE  /\ i \in DOMAIN panel.results /\ panel'.results[i] = panel.results[i]
             /\ i \in DOMAIN OnScreenOf(panel) /\ OnScreenOf(panel')[i] = OnScreenOf(panel)[i]
  BY <1>4, <1>5 DEF ListGot
<1> QED
  BY <1>1, <1>4, <1>6, <1>7, LoadKeeps DEF ListGot

(* Badges that are put beside the rows they were asked for.                 *)
LEMMA RunKeeps ==
    ASSUME PanelsNow, NEW t \in asked, ~Ignored(t), t.kind = "run", panel' = RunAnswered(t),
           asked' = asked \ {t}
    PROVE  KeepsPanels
<1>1. t.current /\ t.model = panel.assertModelID
  BY RequestIs
<1> DEFINE rs == [i \in DOMAIN t.about |-> Scored(t, t.about[i])]
<1>2. panel' = [panel EXCEPT !.results = rs] /\ PanelBoxed(panel)
  BY PanelFields DEF RunAnswered
<1>3. \A i \in DOMAIN rs : rs[i].row = t.about[i] /\ rs[i].model = t.model
  BY DEF Scored
<1> HIDE DEF rs
<1>4. ListGot(panel.assertModelID, panel.assertions, rs, panel')
  BY <1>2, ResultsPut
<1>5. OnScreenOf(panel') = OnScreenOf(panel)
  BY <1>4 DEF ListGot, OnScreenOf
<1>6. PanelForm(panel')
  BY <1>4, <1>5, PanelFields
     DEF ListGot, PanelForm, OneDialog, ListForm, SameVerdict, SameDialogs
<1>7. ASSUME PanelsShow(panel, asked) PROVE PanelsShow(panel', asked)
  <2>1. t.about = OnScreenOf(panel)
    BY <1>1, <1>7 DEF PanelsShow, RunOk
  <2>2. BadgesOk(panel')
    BY <1>1, <1>3, <1>4, <1>5, <2>1 DEF ListGot, BadgesOk
  <2>3. /\ VerdictOk(panel') /\ TreeOk(panel') /\ FormOk(panel', asked)
        /\ ExpandOk(panel', asked) /\ OneOk(panel', asked) /\ RunOk(panel', asked)
    BY <1>4, <1>5, <1>7
       DEF ListGot, PanelsShow, SameVerdict, SameDialogs, VerdictOk, TreeOk, FormOk, ExpandOk, OneOk, RunOk
  <2> QED
    BY <2>2, <2>3 DEF PanelsShow
<1> QED
  BY <1>6, <1>7, AnswerKeeps

LEMMA OneKeeps ==
    ASSUME PanelsNow, NEW t \in asked, ~Ignored(t), t.kind = "one", panel' = OneAnswered(t),
           asked' = asked \ {t}
    PROVE  KeepsPanels
<1>1. /\ t.current /\ t.model = panel.assertModelID /\ t.model = panel.modelID
      /\ Listed = OnScreenOf(panel)
  BY RequestIs, PanelFields
<1> DEFINE i == t.about[1]
           scored == Scored(t, t.about[2])
           sized == IF Len(panel.results) = Len(Listed) THEN panel.results
                    ELSE [j \in DOMAIN Listed |-> Nil]
           rs == IF i \in DOMAIN sized THEN [sized EXCEPT ![i] = scored] ELSE sized
           of == Verdict(t.model, Check_(t.about[2]))
           got == scored.got
<1>2. panel' = PutOne(panel, rs, got, of)
  BY DEF OneAnswered, PutOne
<1>3. scored.row = t.about[2] /\ scored.model = t.model
  BY DEF Scored
<1>4. of.ask.vals = t.about[2].vals /\ of.model = t.model /\ got = of.ok
  BY DEF Verdict, Scored, Check_, Check
<1>5. \A j \in DOMAIN rs : \/ j = i /\ rs[j] = scored
                           \/ j \in DOMAIN panel.results /\ rs[j] = panel.results[j]
                           \/ rs[j] = Nil
  BY Zenon
<1> HIDE DEF i, scored, rs, of, got
<1>6. OneGot(panel, rs, got, of, panel')
  BY <1>2, OnePut, PanelFields
<1>7. OnScreenOf(panel') = OnScreenOf(panel)
  BY <1>6 DEF OneGot, OnScreenOf
<1>8. PanelForm(panel')
  BY <1>6, <1>7, PanelFields DEF OneGot, PanelForm, OneDialog, ListForm, SameDialogs
<1>9. ASSUME PanelsShow(panel, asked) PROVE PanelsShow(panel', asked)
  <2>1. panel.result.vals = t.about[2].vals /\ OnScreenOf(panel)[t.about[1]] = t.about[2]
    BY <1>1, <1>9 DEF PanelsShow, OneOk
  <2>2. VerdictOk(panel')
    BY <1>1, <1>4, <1>6, <2>1 DEF OneGot, VerdictOk
  <2>3. TreeOk(panel')
    BY <1>6, <1>9 DEF OneGot, PanelsShow, TreeOk
  <2>4. BadgesOk(panel')
    <3>1. panel'.results = rs /\ panel'.assertModelID = panel.assertModelID
      BY <1>6 DEF OneGot
    <3> SUFFICES ASSUME NEW j \in DOMAIN rs, j \in DOMAIN OnScreenOf(panel), rs[j] # Nil
                 PROVE  rs[j].row = OnScreenOf(panel)[j] /\ rs[j].model = panel.assertModelID
      BY <1>7, <3>1 DEF BadgesOk
    <3>2. CASE j = i /\ rs[j] = scored
      <4>1. OnScreenOf(panel)[j] = t.about[2]
        BY <2>1, <3>2 DEF i
      <4> QED
        BY <1>1, <1>3, <3>2, <4>1
    <3>3. CASE j \in DOMAIN panel.results /\ rs[j] = panel.results[j]
      BY <1>9, <3>3 DEF PanelsShow, BadgesOk
    <3> QED
      BY <1>5, <3>2, <3>3
  <2>5. /\ FormOk(panel', asked) /\ ExpandOk(panel', asked)
        /\ OneOk(panel', asked) /\ RunOk(panel', asked)
    BY <1>6, <1>7, <1>9 DEF OneGot, PanelsShow, SameDialogs, FormOk, ExpandOk, OneOk, RunOk
  <2> QED
    BY <2>2, <2>3, <2>4, <2>5 DEF PanelsShow
<1> QED
  BY <1>8, <1>9, AnswerKeeps


(* The answer that selects another model.                                   *)
LeftOf(A, t, B) == RequestForm(B) /\ \A v \in B : v.current => v \in A /\ v # t
LEMMA LiveRemoved ==
    ASSUME NEW A, NEW t, NEW K, RequestForm(A), NEW B, B = Outdated(K, A \ {t})
    PROVE  LeftOf(A, t, B)
<1>1. RequestForm(A \ {t})
  BY DEF RequestForm
<1>2. RequestForm(Outdated(K, A \ {t})) /\ Live(A \ {t}, K, {}, Outdated(K, A \ {t}))
  BY <1>1, OutdatedRequests
<1> QED
  BY <1>1, <1>2 DEF Live, LeftOf

LEMMA SameModelKeeps ==
    ASSUME PanelsNow, NEW t \in asked, ~Ignored(t), t.kind = "model", ~OtherModel(t),
           panel' = ModelAnswered(t), asked' = asked \ {t}
    PROVE  KeepsPanels
<1>1. t.model = panel.modelID
  BY RequestIs, PanelFields DEF OtherModel
<1>2. panel' = [panel EXCEPT !.modelID = panel.modelID]
  BY <1>1 DEF ModelAnswered
<1>3. panel' = panel
  <2>1. PanelBoxed(panel)
    BY PanelFields
  <2> QED
    BY <1>2, <2>1 DEF PanelBoxed
<1> QED
  BY <1>3, AnswerKeeps DEF PanelsNow

LEMMA OtherModelKeeps ==
    ASSUME PanelsNow, NEW t \in asked, ~Ignored(t), t.kind = "model", OtherModel(t),
           panel' = ModelAnswered(t), asked' = Outdated({"put"}, asked \ {t})
    PROVE  KeepsPanels
<1> DEFINE c_ == CleanPanel(panel)
<1>1. /\ t.current /\ t.model # panel.modelID /\ t.model \in Models /\ Nil \notin Models
      /\ PanelBoxed(panel) /\ OneDialog(panel) /\ RequestForm(asked)
  BY RequestIs, PanelFields DEF OtherModel, PanelsNow
<1>2. CleanedIs(panel, c_)
  BY <1>1, Cleaned
<1>3. panel' = [c_ EXCEPT !.modelID = t.model]
  BY DEF ModelAnswered
<1> HIDE DEF c_
<1>4. ModelIs(c_, t.model, panel')
  <2>1. PanelBoxed(c_)
    BY <1>2 DEF CleanedIs
  <2> QED
    BY <1>3, <2>1, ModelSet
<1>5. /\ PanelBoxed(panel') /\ panel'.section = panel.section /\ panel'.modelID = t.model
      /\ panel'.hasResult = FALSE /\ panel'.result = NoResult /\ panel'.showRes = FALSE
      /\ panel'.assertions = Nil /\ panel'.assertModelID = Nil /\ panel'.results = <<>>
      /\ SameDialogs(panel, panel')
  BY <1>2, <1>4 DEF CleanedIs, ModelIs, SameVerdict, SameAssertions, SameDialogs
<1>6. PanelForm(panel')
  <2>1. ResultBoxed(panel'.result)
    BY <1>5 DEF ResultBoxed, NoResult
  <2>2. OnScreenOf(panel') = <<>>
    BY <1>5 DEF OnScreenOf
  <2>3. ListForm(panel')
    BY <1>1, <1>5, <2>2 DEF ListForm
  <2> QED
    BY <1>1, <1>5, <2>1, <2>3 DEF PanelForm, OneDialog, SameDialogs
<1>7. RequestForm(asked') /\ \A v \in asked' : v.current => v \in asked /\ v # t
  <2>1. LeftOf(asked, t, asked')
    BY <1>1, LiveRemoved
  <2> QED
    BY <2>1 DEF LeftOf
<1>8. ModelsOk(asked')
  BY <1>7 DEF PanelsNow, ModelsOk
<1>9. \A v \in asked' : v.current => v.kind # "model"
  BY <1>1, <1>7 DEF PanelsNow, ModelsOk
<1>10. ASSUME NEW K, Without(K, asked) PROVE Without(K, asked')
  BY <1>7, <1>10 DEF Without
<1>11. ASSUME PanelsShow(panel, asked) PROVE PanelsShow(panel', asked')
  <2>1. VerdictOk(panel') /\ TreeOk(panel') /\ BadgesOk(panel')
    BY <1>5 DEF VerdictOk, TreeOk, BadgesOk
  <2>2. FormOk(panel', asked')
    <3>1. panel.form = Nil
      BY <1>1, <1>11 DEF PanelsShow, FormOk, Without
    <3> QED
      BY <1>5, <3>1 DEF FormOk, SameDialogs
  <2>3. ExpandOk(panel', asked')
    <3> SUFFICES ASSUME NEW v \in asked', v.current, v.kind = "expand"
                 PROVE  /\ panel'.section = "query" /\ Without({"query"}, asked')
                        /\ v.model = t.model => v.about = panel'.result.vals
                        /\ v.model # t.model => Without({"model"}, asked')
      BY <1>5 DEF ExpandOk
    <3>1. v \in asked
      BY <1>7
    <3>2. panel.section = "query" /\ Without({"query"}, asked)
      BY <1>11, <3>1 DEF PanelsShow, ExpandOk
    <3>3. v.model = panel.modelID
      <4>1. ~Without({"model"}, asked)
        BY <1>1 DEF Without
      <4> QED
        BY <1>11, <3>1, <4>1 DEF PanelsShow, ExpandOk
    <3>4. Without({"model"}, asked')
      BY <1>9 DEF Without
    <3> QED
      BY <1>1, <1>5, <1>10, <3>2, <3>3, <3>4
  <2>4. OneOk(panel', asked')
    <3> SUFFICES ASSUME NEW v \in asked', v.current, v.kind = "one"
                 PROVE  Without({"load", "put", "run", "query"}, asked') /\ v.model # Nil
      BY <1>5 DEF OneOk
    <3>1. v \in asked
      BY <1>7
    <3>2. Without({"load", "put", "run", "query"}, asked)
      BY <1>11, <3>1 DEF PanelsShow, OneOk
    <3> QED
      BY <1>1, <1>10, <3>1, <3>2 DEF RequestForm
  <2>5. RunOk(panel', asked')
    <3> SUFFICES ASSUME NEW v \in asked', v.current, v.kind = "run"
                 PROVE  Without({"load", "put", "one"}, asked') /\ v.model # Nil
      BY <1>5 DEF RunOk
    <3>1. v \in asked
      BY <1>7
    <3>2. Without({"load", "put", "one"}, asked)
      BY <1>11, <3>1 DEF PanelsShow, RunOk
    <3> QED
      BY <1>1, <1>10, <3>1, <3>2 DEF RequestForm
  <2> QED
    BY <2>1, <2>2, <2>3, <2>4, <2>5 DEF PanelsShow
<1> QED
  BY <1>6, <1>7, <1>8, <1>11 DEF KeepsPanels, PanelsNow

(* The answer to a write, which reloads the list.                           *)
ReloadAfter(t, n) == [t EXCEPT !.kind = "load", !.model = n, !.about = Nil]
ReloadOf(t, n, v) ==
    RequestBoxed(v) /\ v.kind = "load" /\ v.model = n /\ v.current = t.current
LEMMA ReloadIs ==
    ASSUME NEW t, RequestBoxed(t), NEW n, NEW v, v = ReloadAfter(t, n)
    PROVE  ReloadOf(t, n, v)
BY DEF RequestBoxed, ReloadAfter, ReloadOf

LEMMA PutAnsweredKeeps ==
    ASSUME PanelsNow, NEW t \in asked, ~Ignored(t), t.kind = "put", panel' = PutAnswered(t),
           NEW v, v = ReloadAfter(t, Target(t)),
           asked' = Outdated({"load"}, asked \ {t}) \cup {v}
    PROVE  KeepsPanels
<1>1. t.current /\ t.model \in Models \cup {Nil} /\ RequestBoxed(t) /\ RequestForm(asked) /\ t.current \in BOOLEAN
  BY RequestIs DEF PanelsNow, RequestForm
<1>2. Target(t) \in Models
  BY <1>1, PanelsAssumption DEF Target
<1>3. RequestBoxed(v) /\ v.kind = "load" /\ v.model \in Models /\ v.current = t.current
  <2>1. ReloadOf(t, Target(t), v)
    BY <1>1, ReloadIs
  <2> QED
    BY <1>2, <2>1 DEF ReloadOf
<1> DEFINE A == asked \ {t}
<1>4. RequestForm({v})
  BY <1>1, <1>3 DEF RequestForm
<1>5. RequestForm(A) /\ ModelsOk(A) /\ Fewer(asked, A)
  BY ReturnedIs DEF PanelsNow
<1>6. asked' = Outdated({"load"}, A) \cup {v}
  OBVIOUS
<1>7. Dimmer(panel, panel') /\ SameDialogs(panel, panel')
  BY WritingSet, PanelFields DEF PutAnswered
<1> HIDE DEF A
<1>8. RequestForm(asked') /\ Live(A, {"load"}, {v}, asked')
  BY <1>4, <1>5, <1>6, LiveAdd
<1>9. ModelsOk(asked')
  <2>1. \A w \in {v} : w.kind # "model"
    BY <1>3
  <2> QED
    BY <1>5, <1>8, <2>1, LiveModels
<1>10. PanelForm(panel')
  BY <1>7, DimmerForm, PanelFields DEF PanelsNow, OneDialog, SameDialogs
<1>11. ASSUME PanelsShow(panel, asked) PROVE PanelsShow(panel', asked')
  <2>1. panel.form = Nil
    BY <1>1, <1>11 DEF PanelsShow, FormOk, Without, RowRequests
  <2>2. Without({"run", "one"}, asked)
    BY <1>1, <1>11 DEF PanelsShow, RunOk, OneOk, Without
  <2>3. Without({"run", "one"}, A)
    BY <1>5, <2>2, FewerAreThere
  <2>4. PanelsShow(panel, A)
    BY <1>5, <1>11, FewerShow
  <2>5. PanelsShow(panel', A) /\ panel'.form = Nil
    BY <1>7, <2>1, <2>4, DimmerShows DEF SameDialogs
  <2> QED
    BY <1>3, <1>8, <2>3, <2>5, AddsWrite
<1> QED
  BY <1>8, <1>9, <1>10, <1>11 DEF KeepsPanels, PanelsNow


LEMMA ListsAreRows == ASSUME NEW rows \in Lists PROVE rows \in Seq(AssertionRows)
<1>1. rows \in Seq(Range(rows)) /\ Range(rows) \subseteq AssertionRows
  BY PanelsAssumption DEF AssertionRows
<1> QED
  BY <1>1, SeqMonotonic


LEMMA IgnoredKeeps ==
    ASSUME PanelsNow, NEW t, panel' = panel, asked' = asked \ {t}
    PROVE  KeepsPanels
BY AnswerKeeps DEF PanelsNow

LEMMA ComesBackKeeps ==
    ASSUME PanelsNow, stored \in [Models -> Seq(AssertionRows)], NEW t \in asked, ComesBack(t)
    PROVE  KeepsPanels
<1>1. CASE Ignored(t)
  BY <1>1, IgnoredKeeps DEF ComesBack, Returned
<1>2. CASE ~Ignored(t)
  <2> DEFINE v == ReloadAfter(t, Target(t))
  <2>1. /\ panel' = Answers(t)
        /\ t.kind = "put" => asked' = Outdated({"load"}, asked \ {t}) \cup {v}
        /\ t.kind = "model" /\ OtherModel(t) => asked' = Outdated({"put"}, asked \ {t})
        /\ t.kind # "put" /\ ~(t.kind = "model" /\ OtherModel(t)) => asked' = asked \ {t}
    BY <1>2 DEF ComesBack, ReloadAfter
  <2>2. t.kind \in RequestKinds
    BY <1>2, RequestIs
  <2> HIDE DEF v
  <2>3. CASE t.kind = "query"
    <3>1. panel' = QueryAnswered(t) /\ asked' = asked \ {t}
      BY <2>1, <2>3 DEF Answers
    <3> QED
      BY <1>2, <2>3, <3>1, QueryKeeps
  <2>4. CASE t.kind = "expand"
    <3>1. panel' = TreeAnswered(t) /\ asked' = asked \ {t}
      BY <2>1, <2>4 DEF Answers
    <3> QED
      BY <1>2, <2>4, <3>1, ExpandKeeps
  <2>5. CASE t.kind = "model"
    <3>1. panel' = ModelAnswered(t)
      BY <2>1, <2>5 DEF Answers
    <3> QED
      BY <1>2, <2>1, <2>5, <3>1, SameModelKeeps, OtherModelKeeps
  <2>6. CASE t.kind = "load"
    <3>1. panel' = ListAnswered(t) /\ asked' = asked \ {t}
      BY <2>1, <2>6 DEF Answers
    <3> QED
      BY <1>2, <2>6, <3>1, ListAnsweredKeeps
  <2>7. CASE t.kind = "run"
    <3>1. panel' = RunAnswered(t) /\ asked' = asked \ {t}
      BY <2>1, <2>7 DEF Answers
    <3> QED
      BY <1>2, <2>7, <3>1, RunKeeps
  <2>8. CASE t.kind = "one"
    <3>1. panel' = OneAnswered(t) /\ asked' = asked \ {t}
      BY <2>1, <2>8 DEF Answers
    <3> QED
      BY <1>2, <2>8, <3>1, OneKeeps
  <2>9. CASE t.kind = "put"
    <3>1. panel' = PutAnswered(t)
      BY <2>1, <2>9 DEF Answers
    <3>2. v = ReloadAfter(t, Target(t))
      BY DEF v
    <3> QED
      BY <1>2, <2>1, <2>9, <3>1, <3>2, PutAnsweredKeeps
  <2> QED
    BY <2>2, <2>3, <2>4, <2>5, <2>6, <2>7, <2>8, <2>9 DEF RequestKinds
<1> QED
  BY <1>1, <1>2

(* A query that fails is shown as an error where its verdict would be.      *)
LEMMA QueryLostKeeps ==
    ASSUME PanelsNow, NEW t \in asked, ~Ignored(t), t.kind = "query", panel' \in Refusals(t),
           asked' = asked \ {t}
    PROVE  KeepsPanels
<1>1. t.current
  BY RequestIs
<1>2. panel' = QueryError(panel)
  BY DEF Refusals, QueryError
<1>3. Failed_(panel, panel')
  BY <1>2, QueryFailed, PanelFields
<1>4. PanelForm(panel')
  BY <1>3, FailedForm DEF PanelsNow
<1>5. ASSUME PanelsShow(panel, asked) PROVE PanelsShow(panel', asked)
  <2>1. Without({"one", "expand"}, asked)
    BY <1>1, <1>5 DEF PanelsShow, ExpandOk, OneOk, Without
  <2> QED
    BY <1>3, <1>5, <2>1, FailedShows
<1> QED
  BY <1>4, <1>5, AnswerKeeps

LEMMA GetsLostKeeps ==
    ASSUME PanelsNow, NEW t \in asked, GetsLost(t)
    PROVE  KeepsPanels
<1>1. asked' = asked \ {t} /\ (Ignored(t) => panel' = panel) /\ (~Ignored(t) => panel' \in Refusals(t))
  BY DEF GetsLost, Returned
<1>2. CASE Ignored(t)
  BY <1>1, <1>2, IgnoredKeeps
<1>3. CASE ~Ignored(t) /\ t.kind = "query"
  BY <1>1, <1>3, QueryLostKeeps
<1>4. CASE ~Ignored(t) /\ t.kind = "load"
  BY <1>1, <1>4, ListRefusedKeeps
<1>5. CASE ~Ignored(t) /\ t.kind = "put"
  <2>1. panel' = [panel EXCEPT !.writing = FALSE] /\ PanelBoxed(panel)
    BY <1>1, <1>5, PanelFields DEF Refusals, PutAnswered
  <2>2. Dimmer(panel, panel') /\ SameDialogs(panel, panel')
    BY <2>1, WritingSet
  <2>3. RequestForm(asked') /\ Fewer(asked, asked') /\ OneDialog(panel)
    BY <1>1, ReturnedIs, PanelFields DEF PanelsNow
  <2> QED
    BY <2>2, <2>3, QuietStep DEF SameDialogs, OneDialog
<1>6. CASE ~Ignored(t) /\ t.kind \notin {"query", "load", "put"}
  <2>1. panel' = panel
    BY <1>1, <1>6 DEF Refusals
  <2> QED
    BY <1>1, <2>1, IgnoredKeeps
<1> QED
  BY <1>2, <1>3, <1>4, <1>5, <1>6

LEMMA DoneIs ==
    ASSUME NEW t, RequestBoxed(t), NEW v, v = [t EXCEPT !.done = TRUE]
    PROVE  /\ RequestBoxed(v) /\ v.kind = t.kind /\ v.model = t.model
           /\ v.about = t.about /\ v.current = t.current
BY DEF RequestBoxed

LEMMA CarriedKeeps ==
    ASSUME PanelsNow, stored \in [Models -> Seq(AssertionRows)], NEW t \in asked, Carried(t)
    PROVE  KeepsPanels /\ stored' \in [Models -> Seq(AssertionRows)]
<1> DEFINE v == [t EXCEPT !.done = TRUE]
<1>1. RequestForm(asked) /\ RequestBoxed(t)
  BY DEF PanelsNow, RequestForm
<1>2. /\ t.kind = "put" /\ panel' = panel /\ asked' = (asked \ {t}) \cup {v}
      /\ stored' = [stored EXCEPT ![Target(t)] = t.about]
  BY DEF Carried
<1>3. /\ RequestBoxed(v) /\ v.kind = t.kind /\ v.model = t.model
      /\ v.about = t.about /\ v.current = t.current
  BY <1>1, DoneIs
<1> HIDE DEF v
<1>4. RequestForm(asked')
  BY <1>1, <1>2, <1>3 DEF RequestForm
<1>5. Fewer(asked, asked')
  BY <1>2, <1>3 DEF Fewer
<1>6. Dimmer(panel, panel') /\ OneDialog(panel')
  BY <1>2, SamePanel DEF PanelsNow, PanelForm
<1>7. stored' \in [Models -> Seq(AssertionRows)]
  BY <1>1, <1>2 DEF RequestForm
<1> QED
  BY <1>2, <1>4, <1>5, <1>6, <1>7, QuietStep

LEMMA OtherWritesKeeps ==
    ASSUME PanelsNow, stored \in [Models -> Seq(AssertionRows)], NEW n \in Models, OtherWrites(n)
    PROVE  KeepsPanels /\ stored' \in [Models -> Seq(AssertionRows)]
<1>1. PICK rows \in Lists : stored' = [stored EXCEPT ![n] = rows]
  BY DEF OtherWrites
<1>2. rows \in Seq(AssertionRows)
  BY ListsAreRows
<1>3. stored' \in [Models -> Seq(AssertionRows)]
  BY <1>1, <1>2
<1>4. UNCHANGED <<panel, asked>>
  BY DEF OtherWrites
<1> QED
  BY <1>3, <1>4, SamePanel, QuietKey DEF PanelsNow, PanelForm


(* A key that the two sections take.                                        *)
PanelKeys ==
    \/ \E s \in {"query", "assertions", "model"} : GoTo(s)
    \/ \E n \in Models : PickModelOf(n)
    \/ EditQuery \/ Escape \/ \E ask \in Asks : CycleMode(ask.mode) \/ SubmitQuery(ask)
    \/ OpenHistory \/ ShowResolution
    \/ \E i \in DOMAIN Listed : OpenAssertion(i) \/ OpenForm(i) \/ AskDelete(i)
    \/ OpenForm(0) \/ RunAssertions \/ ReloadAssertionList
DialogKeys ==
    \/ CloseHistory \/ RerunHistory
    \/ \E row \in Candidates : SubmitForm(row)
    \/ CloseDialog \/ ConfirmDelete

LEMMA KeysAndAnswers ==
    ASSUME PanelsStep
    PROVE  \/ PanelKeys \/ DialogKeys \/ \E n \in Models : OtherWrites(n)
           \/ \E t \in asked : Carried(t) \/ ComesBack(t) \/ GetsLost(t)
BY DEF PanelsStep, PanelKeys, DialogKeys

LEMMA KeysAreFree == ASSUME PanelKeys PROVE PanelKey /\ NoDialog
<1>1. \A s : On(s) => PanelKey /\ NoDialog
  BY DEF On
<1>2. \A s : GoTo(s) => PanelKey /\ NoDialog
  BY DEF GoTo
<1>3. \A n : PickModelOf(n) => PanelKey /\ NoDialog
  BY <1>1 DEF PickModelOf
<1>4. EditQuery \/ Escape \/ OpenHistory \/ ShowResolution => PanelKey /\ NoDialog
  BY <1>1 DEF EditQuery, Escape, OpenHistory, ShowResolution
<1>5. \A ask : CycleMode(ask.mode) \/ SubmitQuery(ask) => PanelKey /\ NoDialog
  BY <1>1 DEF CycleMode, SubmitQuery
<1>6. \A i : OpenAssertion(i) \/ OpenForm(i) \/ AskDelete(i) => PanelKey /\ NoDialog
  BY <1>1 DEF OpenAssertion, OpenForm, AskDelete
<1>7. RunAssertions \/ ReloadAssertionList => PanelKey /\ NoDialog
  BY <1>1 DEF RunAssertions, ReloadAssertionList
<1> QED
  BY <1>2, <1>3, <1>4, <1>5, <1>6, <1>7 DEF PanelKeys

LEMMA DialogsAreKeys == ASSUME DialogKeys PROVE PanelKey
BY DEF DialogKeys, CloseHistory, RerunHistory, SubmitForm, CloseDialog, ConfirmDelete

LEMMA PanelKeysKeep ==
    ASSUME KeyHyp, PanelKeys
    PROVE  KeepsPanels
<1>1. CASE \E s \in {"query", "assertions", "model"} : GoTo(s)
  BY <1>1, GoToKeeps
<1>2. CASE \E n \in Models : PickModelOf(n)
  BY <1>2, PickModelKeeps
<1>3. CASE EditQuery \/ Escape \/ OpenHistory \/ ShowResolution
  BY <1>3, EditQueryKeeps, EscapeKeeps, OpenHistoryKeeps, ShowResolutionKeeps
<1>4. CASE \E ask \in Asks : CycleMode(ask.mode) \/ SubmitQuery(ask)
  BY <1>4, CycleModeKeeps, SubmitQueryKeeps
<1>5. CASE \E i \in DOMAIN Listed : OpenAssertion(i) \/ OpenForm(i) \/ AskDelete(i)
  BY <1>5, OpenAssertionKeeps, OpenFormKeeps, AskDeleteKeeps
<1>6. CASE OpenForm(0) \/ RunAssertions \/ ReloadAssertionList
  BY <1>6, OpenFormKeeps, RunAssertionsKeeps, ReloadListKeeps
<1> QED
  BY <1>1, <1>2, <1>3, <1>4, <1>5, <1>6 DEF PanelKeys

LEMMA DialogKeysKeep ==
    ASSUME KeyHyp, DialogKeys
    PROVE  KeepsPanels
BY CloseHistoryKeeps, RerunHistoryKeeps, SubmitFormKeeps, CloseDialogKeeps, ConfirmDeleteKeeps
   DEF DialogKeys

LEMMA PanelsStepKeeps ==
    ASSUME PanelsInv, PanelsStep
    PROVE  KeepsPanels /\ stored' \in [Models -> Seq(AssertionRows)] /\ panelKeys' \in Nat
<1>1. PanelsNow /\ stored \in [Models -> Seq(AssertionRows)] /\ panelKeys \in Nat
  BY DEF PanelsInv, PanelsNow
<1>2. CASE PanelKeys \/ DialogKeys
  <2>1. PanelKey
    BY <1>2, KeysAreFree, DialogsAreKeys
  <2>2. KeyHyp /\ stored' = stored
    BY <1>1, <2>1 DEF KeyHyp, PanelKey
  <2>3. panelKeys' \in Nat
    BY <2>2 DEF KeyHyp
  <2> QED
    BY <1>1, <1>2, <2>2, <2>3, PanelKeysKeep, DialogKeysKeep
<1>3. CASE \E n \in Models : OtherWrites(n)
  BY <1>1, <1>3, OtherWritesKeeps DEF OtherWrites
<1>4. CASE \E t \in asked : Carried(t)
  BY <1>1, <1>4, CarriedKeeps DEF Carried
<1>5. CASE \E t \in asked : ComesBack(t)
  BY <1>1, <1>5, ComesBackKeeps DEF ComesBack
<1>6. CASE \E t \in asked : GetsLost(t)
  BY <1>1, <1>6, GetsLostKeeps DEF GetsLost
<1> QED
  BY <1>2, <1>3, <1>4, <1>5, <1>6, KeysAndAnswers

LEMMA PanelsStays == ASSUME PanelsInv, [PanelsNext]_panelVars PROVE PanelsInv'
<1>1. CASE PanelsNext
  <2>1. KeepsPanels /\ stored' \in [Models -> Seq(AssertionRows)] /\ panelKeys' \in Nat
    BY <1>1, PanelsStepKeeps DEF PanelsNext
  <2>2. ASSUME ~rushed' PROVE PanelsShow(panel', asked')
    <3>1. ~rushed /\ ~Rushes
      BY <1>1, <2>2 DEF PanelsNext
    <3> QED
      BY <2>1, <3>1 DEF PanelsInv, KeepsPanels
  <2> QED
    BY <2>1, <2>2 DEF PanelsInv, KeepsPanels, PanelsNow
<1>2. CASE UNCHANGED panelVars
  BY <1>2
     DEF panelVars, PanelsInv, PanelForm, PanelBoxed, ResultBoxed, OneDialog, ListForm, OnScreenOf,
         RequestForm, RequestBoxed, ModelsOk, PanelsShow, VerdictOk, TreeOk, BadgesOk, FormOk,
         ExpandOk, OneOk, RunOk, Without
<1> QED
  BY <1>1, <1>2

LEMMA PanelsStart ==
    ASSUME panel = AtRest, asked = {}, stored \in [Models -> Seq(AssertionRows)], panelKeys = 0
    PROVE  PanelsInv
<1>1. PanelBoxed(AtRest)
  BY DEF PanelBoxed, AtRest
<1>2. /\ AtRest.modelID = First /\ AtRest.hasResult = FALSE /\ AtRest.result = NoResult
      /\ AtRest.showRes = FALSE /\ AtRest.assertions = Nil /\ AtRest.assertModelID = Nil
      /\ AtRest.results = <<>> /\ AtRest.picker = Nil /\ AtRest.form = Nil /\ AtRest.confirm = Nil
  BY DEF AtRest
<1>3. ResultBoxed(NoResult)
  BY DEF ResultBoxed, NoResult
<1>4. OnScreenOf(AtRest) = <<>> /\ <<>> \in Seq(AssertionRows)
  BY <1>2 DEF OnScreenOf
<1>5. PanelForm(AtRest)
  BY <1>1, <1>2, <1>3, <1>4, PanelsAssumption DEF PanelForm, OneDialog, ListForm
<1>6. PanelsShow(AtRest, {})
  BY <1>2, <1>4
     DEF PanelsShow, VerdictOk, TreeOk, BadgesOk, FormOk, ExpandOk, OneOk, RunOk
<1>7. RequestForm({}) /\ ModelsOk({})
  BY DEF RequestForm, ModelsOk
<1> QED
  BY <1>5, <1>6, <1>7 DEF PanelsInv

(* What is sent.                                                            *)
LEMMA NewIs ==
    ASSUME PanelsNow, NEW K, NEW t, asked' \subseteq Outdated(K, asked) \cup {t}
    PROVE  \A v \in New : v = t
<1>1. Live(asked, K, {}, Outdated(K, asked))
  BY OutdatedRequests DEF PanelsNow
<1> QED
  BY <1>1 DEF Live, New

LEMMA DialogsSend ==
    ASSUME PanelsNow, DialogKeys, PanelsShow(panel, asked)
    PROVE  SentAsChosen
<1>1. /\ panel.picker = Nil \/ panel.form = Nil
      /\ panel.picker = Nil \/ panel.confirm = Nil
      /\ panel.form = Nil \/ panel.confirm = Nil
      /\ Listed \in Seq(AssertionRows) /\ Listed = OnScreenOf(panel)
  BY PanelFields DEF OneDialog
<1>2. CASE CloseHistory \/ CloseDialog
  <2>1. New = {}
    BY <1>2 DEF CloseHistory, CloseDialog, New
  <2> QED
    BY <2>1 DEF SentAsChosen
<1>3. CASE RerunHistory
  <2> DEFINE t == Ask("query", panel.modelID, Picked(panel))
  <2>1. panel.picker # Nil /\ asked' \subseteq Outdated({"query"}, asked) \cup {t}
    <3>1. ASSUME Asking({t}) PROVE asked' = Outdated({"query"}, asked) \cup {t}
      BY <3>1, AskingOne
    <3> QED
      BY <1>3, <3>1 DEF RerunHistory
  <2>2. t.about = panel.picker.rows[panel.picker.at]
    BY DEF Ask, Picked
  <2> HIDE DEF t
  <2>3. \A v \in New : v = t
    BY <2>1, NewIs
  <2> QED
    BY <1>1, <2>1, <2>2, <2>3 DEF SentAsChosen
<1>4. CASE \E row \in Candidates : SubmitForm(row)
  <2>1. panel.form # Nil
    BY <1>4 DEF SubmitForm
  <2>2. panel.form.at # 0 => panel.form.at \in DOMAIN Listed /\ Listed[panel.form.at] = panel.form.row
    BY <1>1, <2>1 DEF PanelsShow, FormOk
  <2> QED
    BY <1>1, <2>1, <2>2 DEF SentAsChosen
<1>5. CASE ConfirmDelete
  <2> DEFINE row == panel.confirm.row
             t == Ask("put", panel.assertModelID, RemoveFirst(Listed, row))
  <2>1. panel.confirm # Nil /\ (UNCHANGED asked \/ (Contains(Listed, row) /\ Asking({t})))
    BY <1>5 DEF ConfirmDelete, PutAssertions
  <2>2. CASE UNCHANGED asked
    <3>1. New = {}
      BY <2>2 DEF New
    <3> QED
      BY <3>1 DEF SentAsChosen
  <2>3. CASE Contains(Listed, row) /\ Asking({t})
    <3>1. asked' = Outdated({"put"}, asked) \cup {t}
      BY <2>3, AskingOne
    <3>2. t.about = RemoveFirst(Listed, row)
      BY DEF Ask
    <3> HIDE DEF t
    <3>3. \A v \in New : v = t
      BY <3>1, NewIs
    <3>4. \E i \in DOMAIN Listed : Listed[i] = row /\ RemoveFirst(Listed, row) = RemoveAt(Listed, i)
      BY <1>1, <2>3, FirstRemoved
    <3>5. \E i \in DOMAIN Listed : Listed[i] = row /\ t.about = RemoveAt(Listed, i)
      BY <3>2, <3>4
    <3> QED
      BY <1>1, <2>1, <3>3, <3>5 DEF SentAsChosen
  <2> QED
    BY <2>1, <2>2, <2>3
<1> QED
  BY <1>2, <1>3, <1>4, <1>5 DEF DialogKeys

LEMMA PanelsSend ==
    ASSUME PanelsInv, PanelsStep, PanelsShow(panel, asked)
    PROVE  SentAsChosen
<1>1. CASE PanelKeys
  <2>1. NoDialog
    BY <1>1, KeysAreFree
  <2> QED
    BY <2>1 DEF SentAsChosen, NoDialog
<1>2. CASE DialogKeys
  BY <1>2, DialogsSend DEF PanelsInv, PanelsNow
<1>3. CASE panelKeys' = panelKeys
  <2>1. New = {}
    BY <1>3 DEF New
  <2> QED
    BY <2>1 DEF SentAsChosen
<1> QED
  BY <1>1, <1>2, <1>3, KeysAndAnswers DEF OtherWrites, Carried, ComesBack, GetsLost

LEMMA PanelsTell ==
    ASSUME PanelsInv, ~rushed
    PROVE  QueryIsTrue /\ BadgesAreTrue
BY PanelFields
   DEF PanelsInv, PanelsNow, PanelsShow, VerdictOk, TreeOk, BadgesOk, QueryIsTrue, BadgesAreTrue

(* As long as the user does not press a key that goes on before the answer  *)
(* that only where the user is labels, the Query and Assertions sections    *)
(* show no verdict, tree or badge beside what it does not answer, and send  *)
(* what was chosen, also while the other sections are in use (update.go,    *)
(* section_keys.go, update_forms.go).                                       *)
THEOREM PanelsStayTrue == PlaygroundSpec => PanelsAreTrue
<1>1. PlaygroundInit => PanelsInv
  <2>1. ASSUME PanelsInit PROVE PanelsInv
    <3>1. stored \in [Models -> Seq(AssertionRows)]
      BY <2>1, ListsAreRows DEF PanelsInit
    <3> QED
      BY <2>1, <3>1, PanelsStart DEF PanelsInit
  <2>2. ASSUME NothingAsked PROVE PanelsInv
    <3>1. stored \in [Models -> Seq(AssertionRows)]
      BY <2>2 DEF NothingAsked
    <3> QED
      BY <2>2, <3>1, PanelsStart DEF NothingAsked
  <2> QED
    BY <2>1, <2>2 DEF PlaygroundInit
<1>2. [PlaygroundNext]_<<vars, panelVars, logVars, visit>> => [PanelsNext]_panelVars
  BY DEF PlaygroundNext
<1>3. PanelsInv /\ [PlaygroundNext]_<<vars, panelVars, logVars, visit>> => PanelsInv'
  BY <1>2, PanelsStays
<1>4. PanelsInv /\ [PlaygroundNext]_<<vars, panelVars, logVars, visit>> =>
         [~rushed' => SentAsChosen]_panelVars
  <2> SUFFICES ASSUME PanelsInv, PanelsNext, ~rushed'
               PROVE  SentAsChosen
    BY <1>2
  <2>1. PanelsShow(panel, asked) /\ PanelsStep
    BY DEF PanelsNext, PanelsInv
  <2> QED
    BY <2>1, PanelsSend
<1>5. PanelsInv /\ ~rushed => QueryIsTrue /\ BadgesAreTrue
  BY PanelsTell
<1> QED
  BY <1>1, <1>3, <1>4, <1>5, PTL DEF PlaygroundSpec, PanelsAreTrue
================================================================================
