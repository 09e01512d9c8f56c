------------------------------ MODULE MappingProofs ------------------------------
(***************************************************************************)
(* What `ofga mappings apply' and the mapping workspace promise:           *)
(* ApplyPlan for any tuples, conditions, events, sizes of requests and     *)
(* number of failures, MappingWorkspace for any documents, events, number  *)
(* of runs and of writes by other programs.                                *)
(*                                                                         *)
(* ApplyPlan: that a run leaves what its events make one by one is not     *)
(* inductive.  ApplyInv says of each tuple where a run under way stands:   *)
(* under the plan made so far it is what the events until here make of it, *)
(* if one of them touches it (PlanInv); what an event's changes leave out  *)
(* is so already (EntriesInv); of an event half sent, what is no longer to *)
(* be sent is as it wants it (SendingInv); what no event from here on      *)
(* touches is final, also where a resumed run begins (StoreInv).           *)
(*                                                                         *)
(* MappingWorkspace: a plan becomes current when its                       *)
(* answer lands, so what an answer under way may bring has to be known     *)
(* before (FlightInv, by the number of its run), and a save writes what    *)
(* was compared earlier (Committed).  IInv adds these, and that the plan   *)
(* is None while one is awaited (Waiting), that what is skipped was sent   *)
(* (Resuming), and that neither a save nor a question is open while events *)
(* are sent (DialogInv).                                                   *)
(***************************************************************************)
EXTENDS MappingWorkspace, ApplyPlan, FiniteSetTheorems, WellFoundedInduction, SequenceTheorems, TLAPS

(* Types of a plan and its requests, as far as the proof needs them.       *)
Values == Conds \cup {Absent}
Puts == UNION {[S -> Values] : S \in SUBSET Keys}
Changes == [del : SUBSET Keys, put : Puts]
Entries == [del : SUBSET Keys, put : Puts, atomic : BOOLEAN]
ApplyTypeInv ==
    /\ ApplyTypeOK
    /\ plan \in Seq(Entries) /\ reqs \in Seq(Changes)
    /\ from <= at
    /\ pc = "plan" => reqs = <<>>
    /\ pc = "plan" => Len(plan) = at - from
    /\ pc = "apply" => Len(plan) = NumEvents - from + 1
    /\ pc \in {"failed", "refused"} => at <= NumEvents

(* What an event decides of a tuple, it decides alone: the tuple is then    *)
(* what the event wants.                                                    *)
Touches(i, k) == events[i].want[k] # Absent \/ k \in events[i].filter \cup events[i].drop
Touched(m, n, k) == \E i \in m..n : Touches(i, k)

(* The store with the changes planned.                                      *)
Virtual(k) == IF planned[k] = Untouched THEN store[k] ELSE planned[k]
(* Tuples before event n of this run: those that the run has dealt with,    *)
(* and those that it has left alone so far.                                 *)
Before(n, k) == IF Touched(from, n - 1, k) THEN Sequential[n - 1][k] ELSE store[k]

PlanInv ==
    pc = "plan" =>
        /\ \A f \in DOMAIN cache : cache[f] = store
        /\ \A k \in Keys :
              /\ Virtual(k) = Before(at, k)
              /\ ~Touched(from, at - 1, k) => planned[k] = Untouched
              /\ planned[k] # Untouched =>
                    \E i \in 1..Len(plan) : k \in plan[i].del \cup DOMAIN plan[i].put
              /\ written[k] # Untouched => written[k] = planned[k] /\ written[k] # Absent

(* An entry of the plan makes of the tuples what its event wants, and       *)
(* leaves out only those that are so already.                               *)
EntryHolds(i) ==
    LET ep == plan[Position(i)]
    IN  /\ \A k \in Keys :
              /\ k \in ep.del \cup DOMAIN ep.put => Touches(i, k)
              /\ k \in DOMAIN ep.put => ep.put[k] = events[i].want[k]
              /\ k \in ep.del \ DOMAIN ep.put => events[i].want[k] = Absent
              /\ Touches(i, k) /\ k \notin ep.del \cup DOMAIN ep.put =>
                    events[i].want[k] = Before(i, k)
        /\ ep.atomic => ep.del \cap DOMAIN ep.put = {}
                        /\ Cardinality(ep.del) + Cardinality(DOMAIN ep.put) <= MaxPerWrite
EntriesInv ==
    /\ pc = "plan" => \A i \in from..(at - 1) : EntryHolds(i)
    /\ pc = "apply" => \A i \in at..NumEvents : (i = at /\ reqs # <<>>) \/ EntryHolds(i)

(* What is still to be sent of an event, and what is so already.            *)
Puttable(k) == \E i \in 1..Len(reqs) : k \in DOMAIN reqs[i].put
Deletable(k) == \E i \in 1..Len(reqs) : k \in reqs[i].del
SendingInv ==
    pc = "apply" /\ reqs # <<>> =>
        /\ at <= NumEvents
        /\ \A k \in Keys :
              /\ Puttable(k) \/ Deletable(k) => Touches(at, k)
              /\ Touches(at, k) /\ ~Puttable(k) =>
                    events[at].want[k] = IF Deletable(k) THEN Absent ELSE store[k]
        /\ \A i \in 1..Len(reqs) : \A k \in DOMAIN reqs[i].put :
              /\ reqs[i].put[k] = events[at].want[k]
              /\ \A j \in (i + 1)..Len(reqs) : k \notin reqs[j].del

(* What a run has dealt with, and what no later event touches.              *)
StoreInv ==
    /\ \A k \in Keys : ~Touched(from, NumEvents, k) => store[k] = Sequential[NumEvents][k]
    /\ pc = "failed" =>
          \A k \in Keys : ~Touched(at, NumEvents, k) => store[k] = Sequential[NumEvents][k]
    /\ pc = "apply" =>
          \A k \in Keys : Touched(from, at - 1, k) /\ (reqs # <<>> => ~Touches(at, k)) =>
             store[k] = Sequential[at - 1][k]

(* While everything fits in one request, only the event at hand may be      *)
(* there already.                                                           *)
Halfway(n) == store \in {Sequential[n - 1], Sequential[n]}
WholeInv ==
    ~mixed =>
        /\ pc \in {"plan", "refused"} => Halfway(from)
        /\ pc = "failed" => Halfway(at)
        /\ pc = "apply" => store = Sequential[at - 1] \/ (at = from /\ Halfway(from))
        /\ pc = "apply" => Len(reqs) <= 1

ApplyInv ==
    /\ ApplyTypeInv /\ PlanInv /\ EntriesInv /\ SendingInv /\ StoreInv /\ WholeInv
    /\ SuccessIsSequential /\ RefusalsAreReal

-------------------------------------------------------------------------------
(* Induction, by the least exception, and the recursion of Sequential.      *)
LEMMA Least ==
    ASSUME NEW N \in Nat, NEW T \in SUBSET (0..N), T # {}
    PROVE  \E m \in T : \A n \in T : m <= n
<1> DEFINE S == 0..N
           R == StrictSubsetOrdering(S)
           U == {0..m : m \in T}
<1>1. IsFiniteSet(S)
  BY FS_Interval
<1>2. IsWellFoundedOn(R, SUBSET S)
  BY <1>1, FS_FiniteSubsetsOfFinite, FS_StrictSubsetOrderingWellFounded
<1>3. U \subseteq SUBSET S /\ U # {}
  <2>1. \A m \in T : 0..m \subseteq S
    OBVIOUS
  <2> QED
    BY <2>1
<1>4. PICK u \in U : \A v \in U : ~(<<v, u>> \in R)
  BY <1>2, <1>3, WFMin
<1>5. PICK m \in T : u = 0..m
  BY <1>4
<1>6. ASSUME NEW n \in T, n < m
      PROVE  FALSE
  <2>1. 0..n \in U /\ 0..n \subseteq 0..m /\ m \in 0..m /\ m \notin 0..n
    BY <1>6
  <2>2. <<0..n, u>> \in R
    BY <1>3, <1>5, <2>1 DEF StrictSubsetOrdering
  <2> QED
    BY <1>4, <2>1, <2>2
<1>7. \A n \in T : m <= n
  BY <1>6
<1> QED
  BY <1>7

Chain(f, n) == f \in [0..n -> States] /\ f[0] = origin
               /\ \A i \in 1..n : f[i] = Applied(f[i - 1], events[i])

LEMMA AppliedType == ASSUME PlanAssumption, NEW s \in States, NEW ev \in EventSet PROVE Applied(s, ev) \in States
BY DEF Applied, States, PlanAssumption

LEMMA Chains ==
    ASSUME ApplyTypeOK
    PROVE  \E f : Chain(f, NumEvents)
<1>1. NumEvents \in Nat
  BY PlanAssumption
<1> DEFINE Bad == {n \in 0..NumEvents : ~\E f : Chain(f, n)}
<1>2. SUFFICES Bad = {}
  BY <1>1
<1>3. SUFFICES ASSUME Bad # {} PROVE FALSE
  OBVIOUS
<1>4. PICK n \in Bad : \A m \in Bad : n <= m
  BY <1>1, <1>3, Least
<1>5. n # 0
  <2>1. Chain([i \in 0..0 |-> origin], 0)
    BY DEF Chain, ApplyTypeOK
  <2> QED
    BY <2>1
<1>6. n - 1 \in 0..NumEvents /\ n - 1 \notin Bad /\ n \in 1..NumEvents
  BY <1>1, <1>4, <1>5
<1>7. PICK f : Chain(f, n - 1)
  BY <1>6
<1> DEFINE g == [i \in 0..n |-> IF i = n THEN Applied(f[n - 1], events[n]) ELSE f[i]]
<1>8. Applied(f[n - 1], events[n]) \in States
  BY <1>6, <1>7, AppliedType, PlanAssumption DEF Chain, ApplyTypeOK
<1>9. g \in [0..n -> States] /\ g[0] = origin
  BY <1>6, <1>7, <1>8 DEF Chain
<1>10. \A i \in 1..n : g[i] = Applied(g[i - 1], events[i])
  <2> TAKE i \in 1..n
  <2>1. CASE i = n
    BY <1>6, <2>1
  <2>2. CASE i # n
    <3>1. i \in 1..(n - 1) /\ i - 1 # n /\ i - 1 \in 0..n /\ i \in 0..n
      BY <1>6, <2>2
    <3> QED
      BY <1>7, <2>2, <3>1 DEF Chain
  <2> QED
    BY <2>1, <2>2
<1>11. Chain(g, n)
  BY <1>9, <1>10 DEF Chain
<1> QED
  BY <1>4, <1>11

LEMMA Recurrence ==
    ASSUME ApplyTypeOK
    PROVE  /\ \A n \in 0..NumEvents : Sequential[n] \in States
           /\ Sequential[0] = origin
           /\ \A i \in 1..NumEvents : Sequential[i] = Applied(Sequential[i - 1], events[i])
<1>1. PICK f : Chain(f, NumEvents)
  BY Chains
<1> DEFINE Def(g) == [n \in 0..NumEvents |-> IF n = 0 THEN origin ELSE Applied(g[n - 1], events[n])]
<1>2. f = Def(f)
  BY <1>1, PlanAssumption DEF Chain
<1>3. Sequential = CHOOSE g : g = Def(g)
  BY DEF Sequential
<1>4. Sequential = Def(Sequential)
  <2> HIDE DEF Def
  <2> QED
    BY <1>2, <1>3
<1>5. \A n \in 0..NumEvents : Sequential[n] = IF n = 0 THEN origin ELSE Applied(Sequential[n - 1], events[n])
  BY <1>4
<1>6. Sequential[0] = origin
  BY <1>5, PlanAssumption
<1>7. \A n \in 1..NumEvents : Sequential[n] = Applied(Sequential[n - 1], events[n])
  BY <1>5, PlanAssumption
<1> DEFINE Bad == {n \in 0..NumEvents : Sequential[n] \notin States}
<1>8. ASSUME Bad # {}
      PROVE  FALSE
  <2>1. PICK n \in Bad : \A m \in Bad : n <= m
    BY <1>8, Least, PlanAssumption
  <2>2. n # 0
    BY <1>6 DEF ApplyTypeOK
  <2>3. n \in 1..NumEvents /\ n - 1 \in 0..NumEvents /\ n - 1 \notin Bad
    BY <2>1, <2>2, PlanAssumption
  <2>4. Applied(Sequential[n - 1], events[n]) \in States
    BY <2>3, AppliedType, PlanAssumption DEF ApplyTypeOK
  <2> QED
    BY <1>7, <2>1, <2>3, <2>4
<1>9. \A n \in 0..NumEvents : Sequential[n] \in States
  BY <1>8
<1> HIDE DEF Bad
<1> QED
  BY <1>6, <1>7, <1>9
LEMMA Decided ==
    ASSUME ApplyTypeOK, NEW n \in 1..NumEvents, NEW k \in Keys
    PROVE  Sequential[n][k] = IF Touches(n, k) THEN events[n].want[k] ELSE Sequential[n - 1][k]
<1>1. Sequential[n] = Applied(Sequential[n - 1], events[n])
  BY Recurrence
<1> QED
  BY <1>1 DEF Applied, Touches

(* What no event touches stays.                                             *)
LEMMA LeftAlone ==
    ASSUME ApplyTypeOK, NEW m \in 1..(NumEvents + 1), NEW k \in Keys,
           NEW n \in (m - 1)..NumEvents, ~Touched(m, n, k)
    PROVE  Sequential[n][k] = Sequential[m - 1][k]
<1>0. NumEvents \in Nat
  BY PlanAssumption
<1> DEFINE Bad == {j \in 0..NumEvents : j \in (m - 1)..n /\ Sequential[j][k] # Sequential[m - 1][k]}
<1>1. ASSUME Bad # {}
      PROVE  FALSE
  <2>1. PICK j \in Bad : \A i \in Bad : j <= i
    BY <1>0, <1>1, Least
  <2>2. j # m - 1
    BY <2>1
  <2>3. j \in 1..NumEvents /\ j \in m..n /\ j - 1 \in 0..NumEvents /\ j - 1 \in (m - 1)..n /\ j - 1 \notin Bad
    BY <1>0, <2>1, <2>2
  <2>4. Sequential[j][k] = Sequential[j - 1][k]
    BY <2>3, Decided DEF Touched
  <2> QED
    BY <2>1, <2>3, <2>4
<1>2. n \in 0..NumEvents /\ n \in (m - 1)..n
  BY <1>0
<1> QED
  BY <1>1, <1>2

(* The events and where they began do not change.                           *)
LEMMA Fixed ==
    ASSUME events' = events, origin' = origin
    PROVE  /\ Sequential' = Sequential
           /\ \A i, k : Touches(i, k)' <=> Touches(i, k)
           /\ \A m, n, k : Touched(m, n, k)' <=> Touched(m, n, k)
<1>1. Sequential' = Sequential
  BY DEF Sequential, Applied
<1>2. \A i, k : Touches(i, k)' <=> Touches(i, k)
  BY DEF Touches
<1>3. \A m, n, k : Touched(m, n, k)' <=> Touched(m, n, k)
  BY <1>2 DEF Touched
<1> QED
  BY <1>1, <1>2, <1>3

(* A sequence of chunks: each small enough, together the set.               *)
LEMMA Division ==
    ASSUME NEW x \in Nat, NEW m \in Nat \ {0}
    PROVE  x \div m \in Nat /\ m * (x \div m) <= x /\ x < m * (x \div m) + m
<1>1. x \div m \in Nat
  OBVIOUS
<1>2. m * (x \div m) <= x
  OBVIOUS
<1>3. x < m * (x \div m) + m
  OBVIOUS
<1> QED
  BY <1>1, <1>2, <1>3

LEMMA SeqOfSet ==
    ASSUME NEW S, IsFiniteSet(S)
    PROVE  LET q == SetToSeq(S)
           IN  /\ q \in Seq(S) /\ Len(q) = Cardinality(S) /\ Cardinality(S) \in Nat
               /\ \A k \in S : \E j \in 1..Len(q) : q[j] = k
<1> DEFINE n == Cardinality(S)
           q == SetToSeq(S)
<1>1. n \in Nat
  BY FS_CardinalityType
<1>2. PICK f : f \in Bijection(1..n, S)
  BY FS_CardinalityType DEF ExistsBijection
<1>3. f \in [1..n -> S] /\ IsInjective(f)
  BY <1>2 DEF Bijection, Injection, IsInjective
<1>4. q \in [1..n -> S] /\ IsInjective(q)
  BY <1>3 DEF SetToSeq
<1>5. q \in Seq(S) /\ Len(q) = n
  BY <1>1, <1>4
<1>6. \A k \in S : \E j \in 1..n : q[j] = k
  <2>1. IsFiniteSet(1..n) /\ Cardinality(1..n) = n
    BY <1>1, FS_Interval
  <2>2. q \in Injection(1..n, S)
    BY <1>4 DEF Injection
  <2>3. q \in Surjection(1..n, S)
    BY <2>1, <2>2, FS_Injection
  <2> HIDE DEF q, n
  <2> QED
    BY <2>3 DEF Surjection
<1> QED
  BY <1>1, <1>5, <1>6

LEMMA ChunksAre ==
    ASSUME NEW S \in SUBSET Keys
    PROVE  LET c == Chunks(S)
           IN  /\ c \in Seq(SUBSET S)
               /\ \A i \in 1..Len(c) : Cardinality(c[i]) <= MaxPerWrite
               /\ \A k \in S : \E i \in 1..Len(c) : k \in c[i]
<1> DEFINE q == SetToSeq(S)
           M == MaxPerWrite
           L == Len(q)
           n == (L + M - 1) \div M
           At(i) == {x \in 1..L : (x - 1) \div M = i - 1}
           c == [i \in 1..n |-> {q[j] : j \in At(i)}]
<1>1. M \in Nat \ {0} /\ IsFiniteSet(S)
  BY PlanAssumption, FS_Subset
<1>2. q \in Seq(S) /\ L \in Nat /\ \A k \in S : \E j \in 1..L : q[j] = k
  BY <1>1, SeqOfSet
<1>3. Chunks(S) = c
  BY DEF Chunks
<1> HIDE DEF q
<1>4. n \in Nat
  BY <1>1, <1>2, Division
<1>5. c \in Seq(SUBSET S) /\ Len(c) = n
  <2>1. \A i \in 1..n : {q[j] : j \in At(i)} \in SUBSET S
    BY <1>2
  <2> QED
    BY <1>4, <2>1
<1>6. ASSUME NEW i \in 1..n
      PROVE  Cardinality(c[i]) <= M
  <2>1. At(i) \subseteq (M * (i - 1) + 1)..(M * i)
    <3> SUFFICES ASSUME NEW x \in At(i)
                 PROVE  x \in (M * (i - 1) + 1)..(M * i)
      OBVIOUS
    <3>1. x - 1 \in Nat /\ (x - 1) \div M = i - 1
      BY <1>2
    <3>2. M * (i - 1) <= x - 1 /\ x - 1 < M * (i - 1) + M
      BY <1>1, <3>1, Division
    <3> QED
      BY <1>1, <1>4, <3>1, <3>2
  <2>2. /\ M * (i - 1) + 1 \in Int /\ M * i \in Int /\ M * i - (M * (i - 1) + 1) + 1 = M
        /\ M * (i - 1) + 1 <= M * i
    BY <1>1, <1>4
  <2>3. /\ IsFiniteSet((M * (i - 1) + 1)..(M * i))
        /\ Cardinality((M * (i - 1) + 1)..(M * i)) = M
    BY <2>2, FS_Interval
  <2> DEFINE A == At(i)
             T == {q[j] : j \in A}
             f == [j \in A |-> q[j]]
  <2> HIDE DEF At
  <2>4. IsFiniteSet(A) /\ Cardinality(A) <= M
    <3>1. A \in SUBSET ((M * (i - 1) + 1)..(M * i))
      BY <2>1
    <3> HIDE DEF A
    <3> QED
      BY <2>3, <3>1, FS_Subset
  <2>5. f \in Surjection(A, T)
    BY DEF Surjection
  <2> HIDE DEF A
  <2>6. IsFiniteSet(T) /\ Cardinality(T) <= Cardinality(A)
    <3> HIDE DEF f, T
    <3> QED
      BY <2>4, <2>5, FS_Surjection
  <2>7. Cardinality(T) \in Nat /\ Cardinality(A) \in Nat
    <3> HIDE DEF T
    <3> QED
      BY <2>4, <2>6, FS_CardinalityType
  <2>8. c[i] = T
    BY DEF A
  <2> HIDE DEF T, c
  <2>9. Cardinality(T) <= M
    BY <1>1, <2>4, <2>6, <2>7
  <2> QED
    BY <2>8, <2>9
<1>7. ASSUME NEW k \in S
      PROVE  \E i \in 1..n : k \in c[i]
  <2>1. PICK x \in 1..L : q[x] = k
    BY <1>2
  <2> DEFINE i == (x - 1) \div M + 1
  <2>2. x - 1 \in Nat /\ x - 1 <= L - 1
    BY <1>2
  <2>3. i \in 1..n
    <3>1. (x - 1) \div M \in Nat /\ M * ((x - 1) \div M) <= x - 1
      BY <1>1, <2>2, Division
    <3>2. L + M - 1 < M * n + M
      BY <1>1, <1>2, Division
    <3>3. M * i <= L + M - 1
      BY <1>1, <1>2, <2>2, <3>1
    <3>4. M * i < M * (n + 1)
      BY <1>1, <1>2, <1>4, <3>1, <3>2, <3>3
    <3>5. i < n + 1
      BY <1>1, <1>4, <3>1, <3>4
    <3> QED
      BY <1>4, <3>1, <3>5
  <2>4. x \in At(i)
    BY <1>1, <2>2
  <2> QED
    BY <2>1, <2>3, <2>4
<1> QED
  BY <1>3, <1>5, <1>6, <1>7

(* What an entry of the plan becomes: requests that the server takes, with  *)
(* all of its deletes and then all of its writes.                           *)
Covers(q, ep) ==
    /\ q \in Seq(Changes)
    /\ \A k \in Keys :
          /\ k \in ep.del <=> \E i \in 1..Len(q) : k \in q[i].del
          /\ k \in DOMAIN ep.put <=> \E i \in 1..Len(q) : k \in DOMAIN q[i].put
    /\ \A i \in 1..Len(q) :
          /\ q[i].del \cap DOMAIN q[i].put = {}
          /\ Cardinality(q[i].del) + Cardinality(DOMAIN q[i].put) <= MaxPerWrite
          /\ \A k \in DOMAIN q[i].put :
                q[i].put[k] = ep.put[k] /\ \A j \in (i + 1)..Len(q) : k \notin q[j].del

LEMMA RequestsAre ==
    ASSUME NEW ep \in Entries,
           ep.atomic => ep.del \cap DOMAIN ep.put = {}
                        /\ Cardinality(ep.del) + Cardinality(DOMAIN ep.put) <= MaxPerWrite
    PROVE  Covers(Requests(ep), ep)
<1>1. ep.del \in SUBSET Keys /\ ep.put \in Puts /\ DOMAIN ep.put \in SUBSET Keys
  BY DEF Entries, Puts
<1>2. CASE ep.atomic
  <2> DEFINE r == [del |-> ep.del, put |-> ep.put]
  <2>1. Requests(ep) = <<r>>
    BY <1>2 DEF Requests, Request
  <2>2. r \in Changes
    BY <1>1 DEF Changes
  <2>3. <<r>> \in Seq(Changes) /\ Len(<<r>>) = 1 /\ <<r>>[1] = r /\ r.del = ep.del /\ r.put = ep.put
    BY <2>2
  <2> HIDE DEF r
  <2> QED
    BY <1>1, <1>2, <2>1, <2>3 DEF Covers
<1>3. CASE ~ep.atomic
  <2> DEFINE ds == Chunks(ep.del)
             ws == Chunks(DOMAIN ep.put)
             D(S) == [del |-> S, put |-> Nothing]
             P(S) == [del |-> {}, put |-> [k \in S |-> ep.put[k]]]
             Ds == [i \in 1..Len(ds) |-> D(ds[i])]
             Ws == [i \in 1..Len(ws) |-> P(ws[i])]
  <2>1. Requests(ep) = Ds \o Ws
    BY <1>3 DEF Requests, Request
  <2>2. /\ ds \in Seq(SUBSET ep.del)
        /\ \A i \in 1..Len(ds) : Cardinality(ds[i]) <= MaxPerWrite
        /\ \A k \in ep.del : \E i \in 1..Len(ds) : k \in ds[i]
    BY <1>1, ChunksAre
  <2>3. /\ ws \in Seq(SUBSET DOMAIN ep.put)
        /\ \A i \in 1..Len(ws) : Cardinality(ws[i]) <= MaxPerWrite
        /\ \A k \in DOMAIN ep.put : \E i \in 1..Len(ws) : k \in ws[i]
    BY <1>1, ChunksAre
  <2> HIDE DEF ds, ws
  <2>4. /\ \A S \in SUBSET ep.del : D(S) \in Changes /\ D(S).del = S /\ DOMAIN D(S).put = {}
        /\ \A S \in SUBSET DOMAIN ep.put :
              /\ P(S) \in Changes /\ P(S).del = {} /\ DOMAIN P(S).put = S
              /\ \A k \in S : P(S).put[k] = ep.put[k]
    <3>1. Nothing \in Puts /\ DOMAIN Nothing = {}
      BY DEF Nothing, Puts
    <3>2. ASSUME NEW S \in SUBSET DOMAIN ep.put
          PROVE  [k \in S |-> ep.put[k]] \in Puts
      <4>1. S \in SUBSET Keys /\ [k \in S |-> ep.put[k]] \in [S -> Values]
        BY <1>1 DEF Puts
      <4> QED
        BY <4>1 DEF Puts
    <3> QED
      BY <1>1, <3>1, <3>2 DEF Changes
  <2> HIDE DEF D, P
  <2>5. Ds \in Seq(Changes) /\ Len(Ds) = Len(ds) /\ Len(ds) \in Nat
        /\ \A i \in 1..Len(ds) : Ds[i] = D(ds[i]) /\ ds[i] \in SUBSET ep.del
    BY <2>2, <2>4
  <2>6. Ws \in Seq(Changes) /\ Len(Ws) = Len(ws) /\ Len(ws) \in Nat
        /\ \A i \in 1..Len(ws) : Ws[i] = P(ws[i]) /\ ws[i] \in SUBSET DOMAIN ep.put
    BY <2>3, <2>4
  <2> DEFINE q == Ds \o Ws
  <2> HIDE DEF Ds, Ws
  <2>7. /\ q \in Seq(Changes) /\ Len(q) = Len(ds) + Len(ws)
        /\ \A i \in 1..Len(q) : q[i] = IF i <= Len(ds) THEN Ds[i] ELSE Ws[i - Len(ds)]
    <3>1. Ds \in Seq(Changes) /\ Ws \in Seq(Changes) /\ Len(Ds) = Len(ds) /\ Len(Ws) = Len(ws)
      BY <2>5, <2>6
    <3>2. /\ q \in Seq(Changes) /\ Len(q) = Len(Ds) + Len(Ws)
          /\ \A i \in 1..(Len(Ds) + Len(Ws)) : q[i] = IF i <= Len(Ds) THEN Ds[i] ELSE Ws[i - Len(Ds)]
      <4> HIDE DEF Changes
      <4> QED
        BY <3>1, ConcatProperties
    <3> HIDE DEF q
    <3> QED
      BY <3>1, <3>2, Zenon
  <2> HIDE DEF q
  <2>8. \A i \in 1..Len(ds) : i \in 1..Len(q) /\ q[i] = D(ds[i])
    <3> TAKE i \in 1..Len(ds)
    <3>1. i \in 1..Len(q) /\ i <= Len(ds)
      BY <2>5, <2>6, <2>7
    <3> QED
      BY <2>5, <2>7, <3>1, Zenon
  <2>9. \A i \in 1..Len(ws) : i + Len(ds) \in 1..Len(q) /\ q[i + Len(ds)] = P(ws[i])
    <3> TAKE i \in 1..Len(ws)
    <3>1. i + Len(ds) \in 1..Len(q) /\ ~(i + Len(ds) <= Len(ds)) /\ (i + Len(ds)) - Len(ds) = i
      BY <2>5, <2>6, <2>7
    <3> QED
      BY <2>6, <2>7, <3>1, Zenon
  <2>10. \A i \in 1..Len(q) : \/ i \in 1..Len(ds)
                              \/ i > Len(ds) /\ i - Len(ds) \in 1..Len(ws) /\ q[i] = P(ws[i - Len(ds)])
    <3> TAKE i \in 1..Len(q)
    <3>1. CASE i <= Len(ds)
      BY <2>5, <2>6, <2>7, <3>1
    <3>2. CASE ~(i <= Len(ds))
      <4>1. i > Len(ds) /\ i - Len(ds) \in 1..Len(ws)
        BY <2>5, <2>6, <2>7, <3>2
      <4> QED
        BY <2>6, <2>7, <3>2, <4>1, Zenon
    <3> QED
      BY <3>1, <3>2
  <2>11. Cardinality({}) = 0
    BY FS_EmptySet
  <2>12. ASSUME NEW k \in Keys
         PROVE  /\ k \in ep.del <=> \E i \in 1..Len(q) : k \in q[i].del
                /\ k \in DOMAIN ep.put <=> \E i \in 1..Len(q) : k \in DOMAIN q[i].put
    <3>1. ASSUME k \in ep.del PROVE \E i \in 1..Len(q) : k \in q[i].del
      <4>1. PICK i \in 1..Len(ds) : k \in ds[i]
        BY <2>2, <3>1
      <4>2. i \in 1..Len(q) /\ q[i].del = ds[i]
        BY <2>4, <2>5, <2>8
      <4> QED
        BY <4>1, <4>2
    <3>2. ASSUME k \in DOMAIN ep.put PROVE \E i \in 1..Len(q) : k \in DOMAIN q[i].put
      <4>1. PICK i \in 1..Len(ws) : k \in ws[i]
        BY <2>3, <3>2
      <4>2. i + Len(ds) \in 1..Len(q) /\ DOMAIN q[i + Len(ds)].put = ws[i]
        BY <2>4, <2>6, <2>9
      <4> QED
        BY <4>1, <4>2
    <3>3. ASSUME NEW i \in 1..Len(q)
          PROVE  q[i].del \subseteq ep.del /\ DOMAIN q[i].put \subseteq DOMAIN ep.put
      <4>1. CASE i \in 1..Len(ds)
        BY <2>4, <2>5, <2>8, <4>1
      <4>2. CASE i > Len(ds) /\ i - Len(ds) \in 1..Len(ws) /\ q[i] = P(ws[i - Len(ds)])
        BY <2>4, <2>6, <4>2
      <4> QED
        BY <2>10, <4>1, <4>2
    <3> QED
      BY <3>1, <3>2, <3>3
  <2>13. ASSUME NEW i \in 1..Len(q)
         PROVE  /\ q[i].del \cap DOMAIN q[i].put = {}
                /\ Cardinality(q[i].del) + Cardinality(DOMAIN q[i].put) <= MaxPerWrite
    <3>1. CASE i \in 1..Len(ds)
      <4>1. q[i].del = ds[i] /\ DOMAIN q[i].put = {} /\ Cardinality(ds[i]) <= MaxPerWrite
        BY <2>2, <2>4, <2>5, <2>8, <3>1
      <4>2. Cardinality(ds[i]) \in Nat
        <5>1. IsFiniteSet(ds[i])
          BY <1>1, <2>5, <3>1, PlanAssumption, FS_Subset
        <5> QED
          BY <5>1, FS_CardinalityType
      <4> QED
        BY <2>11, <4>1, <4>2, PlanAssumption
    <3>2. CASE i > Len(ds) /\ i - Len(ds) \in 1..Len(ws) /\ q[i] = P(ws[i - Len(ds)])
      <4> DEFINE j == i - Len(ds)
      <4>1. q[i].del = {} /\ DOMAIN q[i].put = ws[j] /\ Cardinality(ws[j]) <= MaxPerWrite
        BY <2>3, <2>4, <2>6, <3>2
      <4>2. Cardinality(ws[j]) \in Nat
        <5>1. IsFiniteSet(ws[j])
          BY <1>1, <2>6, <3>2, PlanAssumption, FS_Subset
        <5> QED
          BY <5>1, FS_CardinalityType
      <4> HIDE DEF j
      <4> QED
        BY <2>11, <4>1, <4>2, PlanAssumption
    <3> QED
      BY <2>10, <3>1, <3>2
  <2>14. ASSUME NEW i \in 1..Len(q), NEW k \in DOMAIN q[i].put
         PROVE  q[i].put[k] = ep.put[k] /\ \A j \in (i + 1)..Len(q) : k \notin q[j].del
    <3>1. i > Len(ds) /\ i - Len(ds) \in 1..Len(ws) /\ q[i] = P(ws[i - Len(ds)])
      BY <2>4, <2>5, <2>8, <2>10
    <3>2. q[i].put[k] = ep.put[k]
      BY <2>4, <2>6, <3>1
    <3>3. \A j \in (i + 1)..Len(q) : q[j].del = {}
      <4> TAKE j \in (i + 1)..Len(q)
      <4>1. j \in 1..Len(q) /\ j \notin 1..Len(ds)
        BY <2>5, <2>7, <3>1
      <4>2. j - Len(ds) \in 1..Len(ws) /\ q[j] = P(ws[j - Len(ds)])
        BY <2>10, <4>1
      <4> QED
        BY <2>4, <2>6, <4>2
    <3> QED
      BY <3>2, <3>3
  <2>15. Covers(q, ep)
    <3>1. q \in Seq(Changes)
      BY <2>7
    <3> HIDE DEF Changes
    <3> QED
      BY <2>12, <2>13, <2>14, <3>1, Zenon DEF Covers
  <2> QED
    BY <2>1, <2>15 DEF q
<1> QED
  BY <1>2, <1>3

-------------------------------------------------------------------------------
(* The first run, and a run resumed.                                        *)
LEMMA EventType ==
    ASSUME ApplyTypeOK, NEW i \in 1..NumEvents
    PROVE  /\ events[i] \in EventSet
           /\ events[i].want \in States
           /\ events[i].filter \in SUBSET Keys /\ events[i].drop \in SUBSET Keys
           /\ \A k \in events[i].filter \cap events[i].drop : events[i].want[k] = Absent
BY PlanAssumption, RulesAgree DEF ApplyTypeOK, States

LEMMA Numbers ==
    PlanAssumption => /\ NumEvents \in Nat \ {0} /\ MaxPerWrite \in Nat \ {0} /\ MaxFaults \in Nat
                      /\ Absent \notin Conds /\ Untouched \notin Conds /\ Untouched # Absent
BY DEF PlanAssumption

(* A run that has planned nothing yet.                                      *)
Starts == pc = "plan" /\ at = from /\ cache = Nothing /\ planned = NoPlan
          /\ written = NoPlan /\ plan = <<>> /\ reqs = <<>>

LEMMA StartsPlanInv ==
    Starts /\ ApplyTypeOK =>
        PlanInv /\ EntriesInv /\ SendingInv /\ SuccessIsSequential /\ RefusalsAreReal
<1> SUFFICES ASSUME Starts, ApplyTypeOK
             PROVE  PlanInv /\ EntriesInv /\ SendingInv /\ SuccessIsSequential /\ RefusalsAreReal
  OBVIOUS
<1>1. PlanInv
  <2>1. \A f \in DOMAIN cache : cache[f] = store
    BY DEF Starts, Nothing
  <2>2. \A k \in Keys : planned[k] = Untouched /\ written[k] = Untouched
    BY DEF Starts, NoPlan
  <2>3. \A k \in Keys : ~Touched(from, at - 1, k)
    BY DEF Starts, ApplyTypeOK, Touched
  <2> QED
    BY <2>1, <2>2, <2>3 DEF PlanInv, Virtual, Before
<1>2. EntriesInv
  BY DEF Starts, ApplyTypeOK, EntriesInv
<1>3. SendingInv /\ SuccessIsSequential
  BY DEF Starts, SendingInv, SuccessIsSequential
<1>4. RefusalsAreReal
  BY DEF Starts, RefusalsAreReal, RefusedOnlyIfDoomed, RequestsAcceptable
<1> QED
  BY <1>1, <1>2, <1>3, <1>4

Inputs ==
    /\ events \in [1..NumEvents -> EventSet] /\ store \in States /\ origin \in States
    /\ from \in 1..NumEvents /\ mixed \in BOOLEAN /\ faults \in 0..MaxFaults

LEMMA StartsTypeInv == Starts /\ Inputs => ApplyTypeInv
<1> SUFFICES ASSUME Starts, Inputs PROVE ApplyTypeInv
  OBVIOUS
<1> USE DEF Inputs
<1>1. DOMAIN cache = {}
  BY DEF Starts, Nothing
<1>2. {planned, written} \subseteq [Keys -> Conds \cup {Absent, Untouched}]
  BY DEF Starts, NoPlan
<1>3. Len(plan) = 0 /\ plan \in Seq(Entries) /\ reqs \in Seq(Changes)
  BY DEF Starts
<1>4. from \in Nat /\ at = from /\ NumEvents \in Nat
  BY PlanAssumption DEF Starts
<1>5. Len(plan) <= NumEvents - from + 1 /\ Len(plan) = at - from /\ at \in 1..NumEvents + 1
  BY <1>3, <1>4
<1>6. pc = "plan" /\ reqs = <<>>
  BY DEF Starts
<1>7. ApplyTypeOK
  BY <1>1, <1>2, <1>5, <1>6 DEF ApplyTypeOK
<1> QED
  BY <1>3, <1>4, <1>5, <1>6, <1>7 DEF ApplyTypeInv

LEMMA StartsLater ==
    /\ (Starts /\ Inputs)' => ApplyTypeInv'
    /\ (Starts /\ ApplyTypeOK)' =>
          (PlanInv /\ EntriesInv /\ SendingInv /\ SuccessIsSequential /\ RefusalsAreReal)'
BY StartsTypeInv, StartsPlanInv, PTL

LEMMA InitApplyInv == ApplyInit => ApplyInv
<1> SUFFICES ASSUME ApplyInit PROVE ApplyInv
  OBVIOUS
<1>1. Starts
  BY DEF ApplyInit, Starts
<1>2. ApplyTypeInv
  <2>1. 1 \in 1..NumEvents /\ 0 \in 0..MaxFaults
    BY PlanAssumption
  <2> QED
    BY <1>1, <2>1, StartsTypeInv DEF ApplyInit, Inputs
<1>3. ApplyTypeOK
  BY <1>2 DEF ApplyTypeInv
<1>4. PlanInv /\ EntriesInv /\ SendingInv /\ SuccessIsSequential /\ RefusalsAreReal
  BY <1>1, <1>3, StartsPlanInv
<1>5. store = Sequential[0] /\ from = 1 /\ pc = "plan"
  BY <1>3, Recurrence DEF ApplyInit
<1>6. StoreInv
  <2>1. ASSUME NEW k \in Keys, ~Touched(1, NumEvents, k)
        PROVE  Sequential[NumEvents][k] = Sequential[0][k]
    <3>1. 1 \in 1..(NumEvents + 1) /\ NumEvents \in (1 - 1)..NumEvents /\ 1 - 1 = 0
      BY PlanAssumption
    <3> QED
      BY <1>3, <2>1, <3>1, LeftAlone
  <2> QED
    BY <1>5, <2>1 DEF StoreInv
<1>7. WholeInv
  <2>1. 1 - 1 = 0
    OBVIOUS
  <2> QED
    BY <1>5, <2>1 DEF WholeInv, Halfway
<1> QED
  BY <1>2, <1>4, <1>6, <1>7 DEF ApplyInv

LEMMA ResumeApplyInv == ApplyInv /\ Resume => ApplyInv'
<1> SUFFICES ASSUME ApplyInv, Resume PROVE ApplyInv'
  OBVIOUS
<1>0. ApplyTypeOK /\ StoreInv /\ WholeInv /\ pc = "failed" /\ at \in 1..NumEvents
  BY PlanAssumption DEF ApplyInv, ApplyTypeInv, Resume, ResumeAt, ApplyTypeOK
<1>1. Starts' /\ from' \in 1..NumEvents
  BY <1>0, PlanAssumption DEF Starts, Resume, Begin, ResumeAt
<1>2. mixed' \in BOOLEAN
  BY <1>0 DEF Resume, ApplyTypeOK
<1>3. events' = events /\ origin' = origin /\ store' = store /\ faults' = faults
  BY DEF Resume
<1>4. ApplyTypeInv'
  <2>1. events' \in [1..NumEvents -> EventSet] /\ store' \in States /\ origin' \in States /\ faults' \in 0..MaxFaults
    BY <1>0, <1>3 DEF ApplyTypeOK
  <2> QED
    BY <1>1, <1>2, <2>1, StartsLater DEF Inputs
<1>5. ApplyTypeOK'
  BY <1>4 DEF ApplyTypeInv
<1>6. (PlanInv /\ EntriesInv /\ SendingInv /\ SuccessIsSequential /\ RefusalsAreReal)'
  BY <1>1, <1>5, StartsLater
<1>7. /\ Sequential' = Sequential
      /\ \A i, k : Touches(i, k)' <=> Touches(i, k)
  BY <1>3, Fixed
<1>8. from' <= at /\ from' \in Nat /\ at \in Nat /\ pc' = "plan"
  BY <1>0, <1>1, PlanAssumption DEF Resume, Begin, ResumeAt, Starts
<1>9. StoreInv'
  <2>1. ASSUME NEW k \in Keys, ~Touched(from, NumEvents, k)'
        PROVE  store'[k] = Sequential'[NumEvents][k]
    <3>1. ~Touched(at, NumEvents, k)
      <4>1. \A i \in at..NumEvents : i \in from'..NumEvents
        BY <1>8, PlanAssumption
      <4> QED
        BY <1>7, <2>1, <4>1 DEF Touched
    <3> QED
      BY <1>0, <1>3, <1>7, <3>1 DEF StoreInv
  <2> QED
    BY <1>8, <2>1 DEF StoreInv
<1>10. WholeInv'
  <2>1. ASSUME ~mixed'
        PROVE  ~mixed /\ from' = at
    <3>1. CASE from' = at /\ mixed' = mixed
      BY <2>1, <3>1
    <3>2. CASE from' = 1 /\ mixed' = (mixed \/ at > 1)
      <4>1. ~mixed /\ ~(at > 1)
        BY <2>1, <3>2, Zenon
      <4> QED
        BY <1>8, <3>2, <4>1
    <3> QED
      BY <3>1, <3>2, Zenon DEF Resume, Begin, ResumeAt
  <2>2. ASSUME ~mixed'
        PROVE  Halfway(from)'
    BY <1>0, <1>3, <1>7, <2>1, <2>2 DEF WholeInv, Halfway
  <2> QED
    BY <1>8, <2>2 DEF WholeInv
<1> QED
  BY <1>4, <1>6, <1>9, <1>10 DEF ApplyInv

-------------------------------------------------------------------------------
(* Planning an event.  What it finds is the store under the plan so far;    *)
(* where it touches a tuple, the plan comes to what it wants.               *)
Wants == events[at]
Found == View(Wants.filter)
DelNow == Deletes(Wants, Found)
PutNow == Writes(Wants, Found)

LEMMA Finds ==
    ASSUME ApplyTypeInv, PlanInv, pc = "plan", at <= NumEvents
    PROVE  /\ Base(Wants.filter) = store
           /\ \A k \in Wants.filter : Found[k] = Virtual(k)
           /\ at \in 1..NumEvents /\ ApplyTypeOK
           /\ DelNow \in SUBSET Keys /\ PutNow \in SUBSET Keys
<1>1. at \in 1..NumEvents /\ ApplyTypeOK
  BY PlanAssumption DEF ApplyTypeInv, ApplyTypeOK
<1>2. Base(Wants.filter) = store
  BY DEF PlanInv, Base
<1>3. \A k \in Wants.filter : Found[k] = Virtual(k)
  BY <1>2 DEF Found, View, Virtual
<1>4. Wants.filter \in SUBSET Keys /\ Wants.drop \in SUBSET Keys
  BY <1>1, EventType DEF Wants
<1> QED
  BY <1>1, <1>2, <1>3, <1>4 DEF DelNow, PutNow, Deletes, Writes

LEMMA Comes ==
    ASSUME ApplyTypeInv, PlanInv, pc = "plan", at <= NumEvents, NEW k \in Keys
    PROVE  /\ k \in DelNow \cup PutNow => Touches(at, k)
           /\ k \in PutNow => Wants.want[k] # Absent
           /\ k \in DelNow \ PutNow => Wants.want[k] = Absent
           /\ Touches(at, k) /\ k \notin DelNow \cup PutNow => Wants.want[k] = Virtual(k)
<1>1. /\ \A x \in Wants.filter : Found[x] = Virtual(x)
      /\ at \in 1..NumEvents /\ ApplyTypeOK
  BY Finds
<1>2. \A x \in Wants.filter \cap Wants.drop : Wants.want[x] = Absent
  BY <1>1, EventType DEF Wants
<1>3. /\ k \in DelNow <=> k \in Wants.drop \/ (k \in Wants.filter /\ Virtual(k) \notin {Absent, Wants.want[k]})
      /\ k \in PutNow <=> Wants.want[k] # Absent /\ (k \in Wants.filter => Virtual(k) # Wants.want[k])
  BY <1>1 DEF DelNow, PutNow, Deletes, Writes
<1>4. Touches(at, k) <=> Wants.want[k] # Absent \/ k \in Wants.filter \/ k \in Wants.drop
  BY DEF Touches, Wants
<1> QED
  BY <1>2, <1>3, <1>4

LEMMA RefusedApplyInv ==
    ASSUME ApplyInv, PlanEvent, Conflicts(Wants, DelNow, PutNow)
    PROVE  ApplyInv'
<1>0. ApplyTypeInv /\ ApplyTypeOK /\ PlanInv /\ StoreInv /\ WholeInv /\ RefusalsAreReal
      /\ pc = "plan" /\ at <= NumEvents /\ at \in 1..NumEvents
  BY PlanAssumption DEF ApplyInv, ApplyTypeInv, PlanEvent, ApplyTypeOK
<1>1. /\ pc' = "refused"
      /\ UNCHANGED <<at, planned, written, plan>>
      /\ UNCHANGED <<events, store, origin, from, reqs, faults, mixed>>
      /\ cache' = [f \in DOMAIN cache \cup ({Wants.filter} \ {{}}) |-> Base(f)]
  BY DEF PlanEvent, Wants, DelNow, PutNow, Found
<1>2. /\ Sequential' = Sequential
      /\ \A i, k : Touches(i, k)' <=> Touches(i, k)
      /\ \A m, n, k : Touched(m, n, k)' <=> Touched(m, n, k)
  BY <1>1, Fixed
<1>3. ApplyTypeInv'
  <2>1. DOMAIN cache' \subseteq SUBSET Keys /\ \A f \in DOMAIN cache' : cache'[f] \in States
    <3>1. Wants.filter \in SUBSET Keys
      BY <1>0, EventType DEF Wants
    <3>2. \A f : Base(f) \in States
      BY <1>0 DEF Base, ApplyTypeOK
    <3> QED
      BY <1>0, <1>1, <3>1, <3>2 DEF ApplyTypeOK
  <2>2. ApplyTypeOK'
    BY <1>0, <1>1, <2>1 DEF ApplyTypeOK
  <2> QED
    BY <1>0, <1>1, <2>2 DEF ApplyTypeInv
<1>4. (PlanInv /\ EntriesInv /\ SendingInv /\ SuccessIsSequential)'
  BY <1>1 DEF PlanInv, EntriesInv, SendingInv, SuccessIsSequential
<1>5. StoreInv'
  BY <1>0, <1>1, <1>2 DEF StoreInv
<1>6. WholeInv'
  BY <1>0, <1>1, <1>2 DEF WholeInv, Halfway
<1>7. RefusalsAreReal'
  <2>1. PICK k \in PutNow \ DelNow : written[k] \notin {Untouched, Wants.want[k]}
    BY DEF Conflicts
  <2>2. k \in Keys /\ Wants.want[k] # Absent
    BY <1>0, <2>1, Finds, Comes
  <2>3. k \notin Wants.drop
    BY <2>1 DEF DelNow, Deletes
  <2>4. written[k] = planned[k] /\ written[k] # Absent /\ planned[k] # Untouched
    BY <1>0, <2>1, <2>2 DEF PlanInv
  <2>5. Sequential[at - 1][k] = written[k]
    BY <1>0, <2>2, <2>4 DEF PlanInv, Virtual, Before
  <2>6. RefusedOnlyIfDoomed'
    BY <1>1, <1>2, <2>1, <2>2, <2>3, <2>4, <2>5 DEF RefusedOnlyIfDoomed, Wants
  <2> QED
    BY <1>0, <1>1, <2>6 DEF RefusalsAreReal, RequestsAcceptable
<1> QED
  BY <1>3, <1>4, <1>5, <1>6, <1>7 DEF ApplyInv

LEMMA PlannedApplyInv ==
    ASSUME ApplyInv, PlanEvent, ~Conflicts(Wants, DelNow, PutNow)
    PROVE  ApplyInv'
<1>0. ApplyTypeInv /\ ApplyTypeOK /\ PlanInv /\ EntriesInv /\ StoreInv /\ WholeInv /\ RefusalsAreReal
      /\ pc = "plan" /\ at <= NumEvents /\ at \in 1..NumEvents
  BY PlanAssumption DEF ApplyInv, ApplyTypeInv, PlanEvent, ApplyTypeOK
<1> DEFINE ep == [del |-> DelNow, put |-> [k \in PutNow |-> Wants.want[k]],
                  atomic |-> Atomic(DelNow, PutNow)]
<1>1. /\ planned' = [k \in Keys |-> IF k \in PutNow THEN Wants.want[k]
                                    ELSE IF k \in DelNow THEN Absent ELSE planned[k]]
      /\ written' = [k \in Keys |-> IF k \in PutNow THEN Wants.want[k]
                                    ELSE IF k \in DelNow THEN Untouched ELSE written[k]]
      /\ plan' = Append(plan, ep) /\ at' = at + 1 /\ UNCHANGED pc
      /\ UNCHANGED <<events, store, origin, from, reqs, faults, mixed>>
      /\ cache' = [f \in DOMAIN cache \cup ({Wants.filter} \ {{}}) |-> Base(f)]
  BY DEF PlanEvent, Wants, DelNow, PutNow, Found
<1>2. /\ Sequential' = Sequential
      /\ \A i, k : Touches(i, k)' <=> Touches(i, k)
      /\ \A m, n, k : Touched(m, n, k)' <=> Touched(m, n, k)
  BY <1>1, Fixed
<1>3. /\ NumEvents \in Nat \ {0} /\ at \in Nat /\ from \in Nat /\ from <= at
      /\ Absent \notin Conds /\ Untouched \notin Conds /\ Untouched # Absent
  BY <1>0, Numbers, PlanAssumption DEF ApplyTypeInv, ApplyTypeOK
<1>4. /\ Wants.want \in States /\ Wants.filter \in SUBSET Keys
      /\ DelNow \in SUBSET Keys /\ PutNow \in SUBSET Keys
  BY <1>0, EventType, Finds DEF Wants
<1>5. ep \in Entries
  <2>1. [k \in PutNow |-> Wants.want[k]] \in [PutNow -> Values]
    BY <1>4 DEF States, Values
  <2>2. [k \in PutNow |-> Wants.want[k]] \in Puts
    BY <1>4, <2>1 DEF Puts
  <2>3. Atomic(DelNow, PutNow) \in BOOLEAN
    BY DEF Atomic
  <2> QED
    BY <1>4, <2>2, <2>3 DEF Entries
<1>6. ep.del = DelNow /\ DOMAIN ep.put = PutNow /\ (\A k \in PutNow : ep.put[k] = Wants.want[k])
      /\ ep.atomic = Atomic(DelNow, PutNow)
  OBVIOUS
<1> HIDE DEF ep
<1>7. /\ plan \in Seq(Entries) /\ Len(plan) \in Nat /\ Len(plan) = at - from
      /\ plan' \in Seq(Entries) /\ Len(plan') = Len(plan) + 1 /\ plan'[Len(plan) + 1] = ep
      /\ \A i \in 1..Len(plan) : plan'[i] = plan[i]
  <2>1. plan \in Seq(Entries) /\ Len(plan) = at - from
    BY <1>0 DEF ApplyTypeInv
  <2> HIDE DEF Entries
  <2> QED
    BY <1>1, <1>5, <2>1, AppendProperties
<1>8. ApplyTypeInv'
  <2>1. DOMAIN cache' \subseteq SUBSET Keys /\ \A f \in DOMAIN cache' : cache'[f] \in States
    <3>1. \A f : Base(f) \in States
      BY <1>0 DEF Base, ApplyTypeOK
    <3> QED
      BY <1>0, <1>1, <1>4, <3>1 DEF ApplyTypeOK
  <2>2. {planned', written'} \subseteq [Keys -> Conds \cup {Absent, Untouched}]
    BY <1>0, <1>1, <1>4 DEF ApplyTypeOK, States
  <2>3. at' \in 1..NumEvents + 1 /\ Len(plan') <= NumEvents - from' + 1 /\ from' <= at' /\ Len(plan') = at' - from'
    BY <1>0, <1>1, <1>3, <1>7
  <2>4. ApplyTypeOK'
    BY <1>0, <1>1, <2>1, <2>2, <2>3 DEF ApplyTypeOK
  <2> QED
    BY <1>0, <1>1, <1>7, <2>3, <2>4 DEF ApplyTypeInv
<1>9. ASSUME NEW k \in Keys
      PROVE  /\ Touches(at, k) => Virtual(k)' = Wants.want[k]
             /\ ~Touches(at, k) => /\ k \notin DelNow \cup PutNow
                                   /\ Virtual(k)' = Virtual(k)
                                   /\ planned'[k] = planned[k] /\ written'[k] = written[k]
  <2>1. /\ k \in DelNow \cup PutNow => Touches(at, k)
        /\ k \in DelNow \ PutNow => Wants.want[k] = Absent
        /\ Touches(at, k) /\ k \notin DelNow \cup PutNow => Wants.want[k] = Virtual(k)
    BY <1>0, Comes
  <2>2. Wants.want[k] # Untouched
    BY <1>3, <1>4 DEF States
  <2> QED
    BY <1>1, <1>3, <2>1, <2>2 DEF Virtual
<1>10. \A k \in Keys : Sequential[at][k] = IF Touches(at, k) THEN Wants.want[k] ELSE Sequential[at - 1][k]
  BY <1>0, Decided DEF Wants
<1>11. \A k : Touched(from, at, k) <=> Touched(from, at - 1, k) \/ Touches(at, k)
  <2>1. \A i : i \in from..at <=> i \in from..(at - 1) \/ i = at
    BY <1>3
  <2> QED
    BY <2>1 DEF Touched
<1>12. PlanInv'
  <2>1. \A f \in DOMAIN cache' : cache'[f] = store'
    BY <1>0, <1>1, Finds DEF PlanInv, Base
  <2>2. at' - 1 = at
    BY <1>1, <1>3
  <2>3. ASSUME NEW k \in Keys
        PROVE  Virtual(k)' = Before(at, k)'
    <3>1. Before(at, k)' = IF Touched(from, at, k) THEN Sequential[at][k] ELSE store[k]
      BY <1>1, <1>2, <2>2 DEF Before
    <3>2. Virtual(k) = IF Touched(from, at - 1, k) THEN Sequential[at - 1][k] ELSE store[k]
      BY <1>0 DEF PlanInv, Before
    <3> QED
      BY <1>9, <1>10, <1>11, <3>1, <3>2
  <2>4. ASSUME NEW k \in Keys, ~Touched(from, at - 1, k)'
        PROVE  planned'[k] = Untouched
    <3>1. ~Touched(from, at, k)
      BY <1>1, <1>2, <2>2, <2>4
    <3> QED
      BY <1>0, <1>9, <1>11, <3>1 DEF PlanInv
  <2>5. ASSUME NEW k \in Keys, planned'[k] # Untouched
        PROVE  \E i \in 1..Len(plan') : k \in plan'[i].del \cup DOMAIN plan'[i].put
    <3>1. CASE k \in DelNow \cup PutNow
      <4>1. Len(plan) + 1 \in 1..Len(plan')
        BY <1>7
      <4> QED
        BY <1>6, <1>7, <3>1, <4>1
    <3>2. CASE k \notin DelNow \cup PutNow
      <4>1. PICK i \in 1..Len(plan) : k \in plan[i].del \cup DOMAIN plan[i].put
        BY <1>0, <1>1, <2>5, <3>2 DEF PlanInv
      <4>2. i \in 1..Len(plan') /\ plan'[i] = plan[i]
        BY <1>7
      <4> QED
        BY <4>1, <4>2
    <3> QED
      BY <3>1, <3>2
  <2>6. ASSUME NEW k \in Keys, written'[k] # Untouched
        PROVE  written'[k] = planned'[k] /\ written'[k] # Absent
    <3>1. k \in PutNow => Wants.want[k] # Absent
      BY <1>0, Comes
    <3>2. written[k] # Untouched => written[k] = planned[k] /\ written[k] # Absent
      BY <1>0 DEF PlanInv
    <3> QED
      BY <1>1, <2>6, <3>1, <3>2
  <2> QED
    BY <2>1, <2>3, <2>4, <2>5, <2>6 DEF PlanInv
<1>13. EntriesInv'
  <2> SUFFICES ASSUME NEW i \in from..at
               PROVE  EntryHolds(i)'
    BY <1>0, <1>1, <1>3 DEF EntriesInv
  <2>1. \A k : Before(i, k)' = Before(i, k)
    BY <1>1, <1>2 DEF Before
  <2>2. CASE i # at
    <3>1. i \in from..(at - 1) /\ Position(i) \in 1..Len(plan)
      BY <1>3, <1>7, <2>2 DEF Position
    <3>2. EntryHolds(i)
      BY <1>0, <3>1 DEF EntriesInv
    <3>3. plan'[Position(i)'] = plan[Position(i)]
      BY <1>1, <1>7, <3>1 DEF Position
    <3> QED
      BY <1>1, <1>2, <2>1, <3>2, <3>3 DEF EntryHolds
  <2>3. CASE i = at
    <3>1. Position(i)' = Len(plan) + 1
      BY <1>1, <1>3, <1>7, <2>3 DEF Position
    <3>2. plan'[Position(i)'] = ep
      BY <1>7, <3>1
    <3>3. ASSUME NEW k \in Keys
          PROVE  /\ k \in ep.del \cup DOMAIN ep.put => Touches(i, k)'
                 /\ k \in DOMAIN ep.put => ep.put[k] = events'[i].want[k]
                 /\ k \in ep.del \ DOMAIN ep.put => events'[i].want[k] = Absent
                 /\ Touches(i, k)' /\ k \notin ep.del \cup DOMAIN ep.put =>
                       events'[i].want[k] = Before(i, k)'
      <4>1. Virtual(k) = Before(i, k)
        BY <1>0, <2>3 DEF PlanInv
      <4>2. events'[i].want[k] = Wants.want[k]
        BY <1>1, <2>3 DEF Wants
      <4>3. /\ k \in DelNow \cup PutNow => Touches(at, k)
            /\ k \in DelNow \ PutNow => Wants.want[k] = Absent
            /\ Touches(at, k) /\ k \notin DelNow \cup PutNow => Wants.want[k] = Virtual(k)
        BY <1>0, Comes
      <4> QED
        BY <1>2, <1>6, <2>1, <2>3, <4>1, <4>2, <4>3
    <3>4. ep.atomic => ep.del \cap DOMAIN ep.put = {}
                       /\ Cardinality(ep.del) + Cardinality(DOMAIN ep.put) <= MaxPerWrite
      BY <1>6, Zenon DEF Atomic
    <3> QED
      BY <3>2, <3>3, <3>4 DEF EntryHolds
  <2> QED
    BY <2>2, <2>3
<1>14. (SendingInv /\ SuccessIsSequential)'
  BY <1>0, <1>1 DEF SendingInv, SuccessIsSequential
<1>15. StoreInv'
  BY <1>0, <1>1, <1>2 DEF StoreInv
<1>16. WholeInv'
  BY <1>0, <1>1, <1>2 DEF WholeInv, Halfway
<1>17. RefusalsAreReal'
  BY <1>0, <1>1 DEF RefusalsAreReal, RefusedOnlyIfDoomed, RequestsAcceptable
<1> QED
  BY <1>8, <1>12, <1>13, <1>14, <1>15, <1>16, <1>17 DEF ApplyInv

LEMMA PlanFaultApplyInv == ApplyInv /\ PlanFault => ApplyInv'
<1> SUFFICES ASSUME ApplyInv, PlanFault PROVE ApplyInv'
  OBVIOUS
<1>0. ApplyTypeInv /\ ApplyTypeOK /\ StoreInv /\ WholeInv /\ RefusalsAreReal /\ pc = "plan"
  BY DEF ApplyInv, ApplyTypeInv, PlanFault
<1>1. /\ pc' = "failed" /\ at' = from /\ faults < MaxFaults /\ faults' = faults + 1
      /\ UNCHANGED <<events, store, origin, from, cache, planned, written, plan, reqs, mixed>>
  BY DEF PlanFault, Fault
<1>2. /\ Sequential' = Sequential
      /\ \A m, n, k : Touched(m, n, k)' <=> Touched(m, n, k)
  BY <1>1, Fixed
<1>3. ApplyTypeInv'
  <2>1. faults' \in 0..MaxFaults /\ at' \in 1..NumEvents + 1 /\ from' <= at' /\ at' <= NumEvents
    BY <1>0, <1>1, PlanAssumption DEF ApplyTypeOK
  <2>2. ApplyTypeOK'
    BY <1>0, <1>1, <2>1 DEF ApplyTypeOK
  <2> QED
    BY <1>0, <1>1, <2>1, <2>2 DEF ApplyTypeInv
<1>4. (PlanInv /\ EntriesInv /\ SendingInv /\ SuccessIsSequential)'
  BY <1>1 DEF PlanInv, EntriesInv, SendingInv, SuccessIsSequential
<1>5. StoreInv'
  BY <1>0, <1>1, <1>2 DEF StoreInv
<1>6. WholeInv'
  BY <1>0, <1>1, <1>2 DEF WholeInv, Halfway
<1>7. RefusalsAreReal'
  BY <1>0, <1>1 DEF RefusalsAreReal, RefusedOnlyIfDoomed, RequestsAcceptable
<1> QED
  BY <1>3, <1>4, <1>5, <1>6, <1>7 DEF ApplyInv

-------------------------------------------------------------------------------
(* The store, tuple by tuple.                                               *)
LEMMA SameStore ==
    ASSUME ApplyTypeOK, NEW n \in 0..NumEvents, NEW s \in States,
           \A k \in Keys : s[k] = Sequential[n][k]
    PROVE  s = Sequential[n]
<1>1. Sequential[n] \in States
  BY Recurrence
<1> QED
  BY <1>1 DEF States

(* A run that has dealt with every event has the store that they make.      *)
LEMMA AllDealtWith ==
    ASSUME ApplyTypeOK, StoreInv,
           \A k \in Keys : Touched(from, NumEvents, k) => store[k] = Sequential[NumEvents][k]
    PROVE  store = Sequential[NumEvents]
<1>1. NumEvents \in 0..NumEvents /\ store \in States
  BY PlanAssumption DEF ApplyTypeOK
<1>2. \A k \in Keys : store[k] = Sequential[NumEvents][k]
  BY DEF StoreInv
<1> QED
  BY <1>1, <1>2, SameStore

LEMMA ConfirmApplyInv == ApplyInv /\ Confirm => ApplyInv'
<1> SUFFICES ASSUME ApplyInv, Confirm PROVE ApplyInv'
  OBVIOUS
<1>0. ApplyTypeInv /\ ApplyTypeOK /\ PlanInv /\ EntriesInv /\ StoreInv /\ WholeInv /\ RefusalsAreReal
      /\ pc = "plan" /\ reqs = <<>>
  BY DEF ApplyInv, ApplyTypeInv, Confirm
<1>1. /\ UNCHANGED <<events, store, origin, from, cache, planned, written, plan, reqs, faults, mixed>>
      /\ \/ ChangesNothing /\ pc' = "done" /\ at' = at
         \/ ~ChangesNothing /\ pc' = "apply" /\ at' = from
  BY DEF Confirm
<1>2. /\ Sequential' = Sequential
      /\ \A i, k : Touches(i, k)' <=> Touches(i, k)
      /\ \A m, n, k : Touched(m, n, k)' <=> Touched(m, n, k)
  BY <1>1, Fixed
<1>3. at = NumEvents + 1 /\ NumEvents \in Nat \ {0} /\ from \in 1..NumEvents /\ from \in Nat
      /\ Len(plan) = NumEvents - from + 1
  <2>1. NumEvents \in Nat \ {0} /\ at > NumEvents
    BY PlanAssumption, Numbers DEF Confirm
  <2>2. from \in 1..NumEvents /\ at \in 1..NumEvents + 1
    BY <1>0 DEF ApplyTypeOK
  <2>3. Len(plan) = at - from
    BY <1>0 DEF ApplyTypeInv
  <2> QED
    BY <2>1, <2>2, <2>3
<1>4. ApplyTypeInv'
  <2>1. at' \in 1..NumEvents + 1 /\ from' <= at' /\ pc' \in {"done", "apply"} /\ Len(plan') = NumEvents - from' + 1
    BY <1>0, <1>1, <1>3 DEF ApplyTypeOK
  <2>2. ApplyTypeOK'
    BY <1>0, <1>1, <2>1 DEF ApplyTypeOK
  <2> QED
    BY <1>0, <1>1, <2>1, <2>2 DEF ApplyTypeInv
<1>5. PlanInv'
  BY <1>1 DEF PlanInv
<1>6. EntriesInv'
  <2> SUFFICES ASSUME NEW i \in from..NumEvents
               PROVE  EntryHolds(i)'
    BY <1>1 DEF EntriesInv
  <2>1. \A k : Before(i, k)' = Before(i, k)
    BY <1>1, <1>2 DEF Before
  <2>2. EntryHolds(i) /\ plan'[Position(i)'] = plan[Position(i)]
    BY <1>0, <1>1, <1>3 DEF EntriesInv, Position
  <2> QED
    BY <1>1, <1>2, <2>1, <2>2 DEF EntryHolds
<1>7. SendingInv'
  BY <1>0, <1>1 DEF SendingInv
<1>8. StoreInv'
  <2>1. \A k : ~Touched(from, from - 1, k)
    BY <1>3 DEF Touched
  <2> QED
    BY <1>0, <1>1, <1>2, <2>1 DEF StoreInv
<1>9. WholeInv'
  BY <1>0, <1>1, <1>2 DEF WholeInv, Halfway
<1>10. SuccessIsSequential'
  <2>1. CASE ChangesNothing
    <3>1. \A k \in Keys : planned[k] = Untouched
      BY <1>0, <2>1 DEF PlanInv, ChangesNothing
    <3>2. ASSUME NEW k \in Keys, Touched(from, NumEvents, k)
          PROVE  store[k] = Sequential[NumEvents][k]
      <4>1. at - 1 = NumEvents
        BY <1>3
      <4> QED
        BY <1>0, <3>1, <3>2, <4>1 DEF PlanInv, Virtual, Before
    <3>3. store = Sequential[NumEvents]
      BY <1>0, <3>2, AllDealtWith
    <3> QED
      BY <1>1, <1>2, <3>3 DEF SuccessIsSequential
  <2>2. CASE ~ChangesNothing
    BY <1>1, <2>2 DEF SuccessIsSequential
  <2> QED
    BY <2>1, <2>2
<1>11. RefusalsAreReal'
  BY <1>0, <1>1 DEF RefusalsAreReal, RefusedOnlyIfDoomed, RequestsAcceptable
<1> QED
  BY <1>4, <1>5, <1>6, <1>7, <1>8, <1>9, <1>10, <1>11 DEF ApplyInv

LEMMA FinishApplyInv == ApplyInv /\ Finish => ApplyInv'
<1> SUFFICES ASSUME ApplyInv, Finish PROVE ApplyInv'
  OBVIOUS
<1>0. ApplyTypeInv /\ ApplyTypeOK /\ StoreInv /\ RefusalsAreReal /\ pc = "apply" /\ reqs = <<>>
  BY DEF ApplyInv, ApplyTypeInv, Finish
<1>1. /\ UNCHANGED <<events, store, origin, from, at, cache, planned, written, plan, reqs, faults, mixed>>
      /\ pc' = "done"
  BY DEF Finish
<1>2. /\ Sequential' = Sequential
      /\ \A m, n, k : Touched(m, n, k)' <=> Touched(m, n, k)
  BY <1>1, Fixed
<1>3. at - 1 = NumEvents
  BY <1>0, PlanAssumption DEF Finish, ApplyTypeOK
<1>4. ApplyTypeInv'
  <2>1. ApplyTypeOK'
    BY <1>0, <1>1 DEF ApplyTypeOK
  <2> QED
    BY <1>0, <1>1, <2>1 DEF ApplyTypeInv
<1>5. (PlanInv /\ EntriesInv /\ SendingInv /\ WholeInv)'
  BY <1>1 DEF PlanInv, EntriesInv, SendingInv, WholeInv
<1>6. StoreInv'
  BY <1>0, <1>1, <1>2 DEF StoreInv
<1>7. SuccessIsSequential'
  <2>1. \A k \in Keys : Touched(from, NumEvents, k) => store[k] = Sequential[NumEvents][k]
    BY <1>0, <1>3 DEF StoreInv
  <2>2. store = Sequential[NumEvents]
    BY <1>0, <2>1, AllDealtWith
  <2> QED
    BY <1>1, <1>2, <2>2 DEF SuccessIsSequential
<1>8. RefusalsAreReal'
  BY <1>0, <1>1 DEF RefusalsAreReal, RefusedOnlyIfDoomed, RequestsAcceptable
<1> QED
  BY <1>4, <1>5, <1>6, <1>7, <1>8 DEF ApplyInv

-------------------------------------------------------------------------------
(* Applying.                                                                *)
LEMMA NextEventApplyInv == ApplyInv /\ NextEvent => ApplyInv'
<1> SUFFICES ASSUME ApplyInv, NextEvent PROVE ApplyInv'
  OBVIOUS
<1> DEFINE ep == plan[Position(at)]
           Void == ep.del = {} /\ DOMAIN ep.put = {}
<1>0. ApplyTypeInv /\ ApplyTypeOK /\ EntriesInv /\ StoreInv /\ WholeInv /\ RefusalsAreReal
      /\ pc = "apply" /\ reqs = <<>> /\ at \in 1..NumEvents
  BY PlanAssumption DEF ApplyInv, ApplyTypeInv, ApplyTypeOK, NextEvent
<1>1. /\ UNCHANGED <<events, store, origin, pc, from, cache, planned, written, plan, faults>>
      /\ \/ Void /\ at' = at + 1 /\ UNCHANGED <<reqs, mixed>>
         \/ ~Void /\ reqs' = Requests(ep) /\ mixed' = (mixed \/ Len(Requests(ep)) > 1) /\ UNCHANGED at
  BY DEF NextEvent
<1>2. /\ Sequential' = Sequential
      /\ \A i, k : Touches(i, k)' <=> Touches(i, k)
      /\ \A m, n, k : Touched(m, n, k)' <=> Touched(m, n, k)
  BY <1>1, Fixed
<1>3. /\ NumEvents \in Nat \ {0} /\ at \in Nat /\ from \in Nat /\ from <= at
      /\ plan \in Seq(Entries) /\ Len(plan) = NumEvents - from + 1 /\ Position(at) \in 1..Len(plan)
  BY <1>0, PlanAssumption DEF ApplyTypeInv, ApplyTypeOK, Position
<1>4. ep \in Entries
  <2> HIDE DEF Entries
  <2> QED
    BY <1>3, ElementOfSeq
<1>5. EntryHolds(at)
  BY <1>0, <1>3 DEF EntriesInv
<1>6. \A k \in Keys : Before(at, k) = store[k]
  BY <1>0 DEF StoreInv, Before
<1>7. \A k \in Keys :
         /\ k \in ep.del \cup DOMAIN ep.put => Touches(at, k)
         /\ k \in DOMAIN ep.put => ep.put[k] = events[at].want[k]
         /\ k \in ep.del \ DOMAIN ep.put => events[at].want[k] = Absent
         /\ Touches(at, k) /\ k \notin ep.del \cup DOMAIN ep.put => events[at].want[k] = store[k]
  BY <1>5, <1>6 DEF EntryHolds
<1>8. ep.atomic => ep.del \cap DOMAIN ep.put = {}
                   /\ Cardinality(ep.del) + Cardinality(DOMAIN ep.put) <= MaxPerWrite
  BY <1>5, Zenon DEF EntryHolds
<1>9. ep.del \in SUBSET Keys /\ DOMAIN ep.put \in SUBSET Keys
  BY <1>4 DEF Entries, Puts
<1>10. \A k \in Keys : Sequential[at][k] = IF Touches(at, k) THEN events[at].want[k] ELSE Sequential[at - 1][k]
  BY <1>0, Decided
<1>11. \A i \in from..NumEvents : EntryHolds(i) /\ at' >= at => EntryHolds(i)'
  <2> TAKE i \in from..NumEvents
  <2>1. \A k : Before(i, k)' = Before(i, k)
    BY <1>1, <1>2 DEF Before
  <2>2. plan'[Position(i)'] = plan[Position(i)]
    BY <1>1 DEF Position
  <2> QED
    BY <1>1, <1>2, <2>1, <2>2 DEF EntryHolds
<1> HIDE DEF ep
<1>20. CASE Void /\ at' = at + 1 /\ UNCHANGED <<reqs, mixed>>
  <2>1. ApplyTypeInv'
    <3>1. at' \in 1..NumEvents + 1 /\ from' <= at'
      BY <1>0, <1>1, <1>3, <1>20
    <3>2. ApplyTypeOK'
      BY <1>0, <1>1, <1>20, <3>1 DEF ApplyTypeOK
    <3> QED
      BY <1>0, <1>1, <1>20, <3>1, <3>2 DEF ApplyTypeInv
  <2>2. (PlanInv /\ SendingInv /\ SuccessIsSequential)'
    BY <1>0, <1>1, <1>20 DEF PlanInv, SendingInv, SuccessIsSequential
  <2>3. EntriesInv'
    <3>1. \A i \in at'..NumEvents : i \in at..NumEvents /\ i \in from..NumEvents /\ at' >= at
      BY <1>3, <1>20
    <3>2. \A i \in at'..NumEvents : EntryHolds(i)'
      BY <1>0, <1>11, <3>1 DEF EntriesInv
    <3> QED
      BY <1>0, <1>1, <3>2 DEF EntriesInv
  <2>4. ASSUME NEW k \in Keys
        PROVE  /\ Touches(at, k) => store[k] = Sequential[at][k]
               /\ ~Touches(at, k) => Sequential[at][k] = Sequential[at - 1][k]
    BY <1>7, <1>10, <1>20
  <2>5. at' - 1 = at /\ from' = from
    BY <1>1, <1>3, <1>20
  <2>6. StoreInv'
    <3>1. ASSUME NEW k \in Keys, Touched(from, at, k)
          PROVE  store[k] = Sequential[at][k]
      <4>1. CASE Touches(at, k)
        BY <2>4, <4>1
      <4>2. CASE ~Touches(at, k)
        <5>1. \A i \in from..at : i \in from..(at - 1) \/ i = at
          BY <1>3
        <5>2. Touched(from, at - 1, k)
          BY <3>1, <4>2, <5>1 DEF Touched
        <5> QED
          BY <1>0, <2>4, <4>2, <5>2 DEF StoreInv
      <4> QED
        BY <4>1, <4>2
    <3> QED
      BY <1>0, <1>1, <1>2, <2>5, <3>1 DEF StoreInv
  <2>7. WholeInv'
    <3>1. ASSUME store = Sequential[at - 1]
          PROVE  store = Sequential[at]
      <4>1. \A k \in Keys : store[k] = Sequential[at][k]
        BY <2>4, <3>1
      <4>2. at \in 0..NumEvents /\ store \in States
        BY <1>0, <1>3 DEF ApplyTypeOK
      <4> QED
        BY <1>0, <4>1, <4>2, SameStore
    <3>2. ~mixed => store = Sequential[at]
      BY <1>0, <3>1 DEF WholeInv, Halfway
    <3> QED
      BY <1>0, <1>1, <1>2, <1>20, <2>5, <3>2 DEF WholeInv
  <2>8. RefusalsAreReal'
    BY <1>0, <1>1, <1>20 DEF RefusalsAreReal, RefusedOnlyIfDoomed, RequestsAcceptable
  <2> QED
    BY <2>1, <2>2, <2>3, <2>6, <2>7, <2>8 DEF ApplyInv
<1>21. CASE ~Void /\ reqs' = Requests(ep) /\ mixed' = (mixed \/ Len(Requests(ep)) > 1) /\ UNCHANGED at
  <2>1. Covers(reqs', ep)
    BY <1>4, <1>8, <1>21, RequestsAre
  <2>2. /\ reqs' \in Seq(Changes)
        /\ \A k \in Keys : (Deletable(k)' <=> k \in ep.del) /\ (Puttable(k)' <=> k \in DOMAIN ep.put)
        /\ \A i \in 1..Len(reqs') :
              /\ reqs'[i].del \cap DOMAIN reqs'[i].put = {}
              /\ Cardinality(reqs'[i].del) + Cardinality(DOMAIN reqs'[i].put) <= MaxPerWrite
              /\ \A k \in DOMAIN reqs'[i].put :
                    reqs'[i].put[k] = ep.put[k] /\ \A j \in (i + 1)..Len(reqs') : k \notin reqs'[j].del
    BY <2>1, Zenon DEF Covers, Deletable, Puttable
  <2>3. ApplyTypeInv'
    <3>1. mixed' \in BOOLEAN
      BY <1>21
    <3>2. ApplyTypeOK'
      BY <1>0, <1>1, <1>21, <3>1 DEF ApplyTypeOK
    <3> QED
      BY <1>0, <1>1, <1>21, <2>2, <3>2 DEF ApplyTypeInv
  <2>4. (PlanInv /\ SuccessIsSequential)'
    BY <1>0, <1>1 DEF PlanInv, SuccessIsSequential
  <2>5. EntriesInv'
    <3>1. \A i \in at..NumEvents : i \in from..NumEvents /\ at' >= at
      BY <1>3, <1>21
    <3>2. \A i \in at'..NumEvents : EntryHolds(i)'
      BY <1>0, <1>11, <1>21, <3>1 DEF EntriesInv
    <3> QED
      BY <1>0, <1>1, <3>2 DEF EntriesInv
  <2>6. SendingInv'
    <3>1. at' <= NumEvents
      BY <1>0, <1>21
    <3>2. ASSUME NEW k \in Keys
          PROVE  /\ Puttable(k)' \/ Deletable(k)' => Touches(at, k)'
                 /\ Touches(at, k)' /\ ~Puttable(k)' =>
                       events'[at'].want[k] = IF Deletable(k)' THEN Absent ELSE store'[k]
      <4>1. Touches(at, k)' <=> Touches(at, k)
        BY <1>1, <1>2, <1>21 DEF Touches
      <4> QED
        BY <1>1, <1>7, <1>21, <2>2, <4>1
    <3>3. ASSUME NEW i \in 1..Len(reqs'), NEW k \in DOMAIN reqs'[i].put
          PROVE  /\ reqs'[i].put[k] = events'[at'].want[k]
                 /\ \A j \in (i + 1)..Len(reqs') : k \notin reqs'[j].del
      <4>1. k \in Keys /\ k \in DOMAIN ep.put
        <5>1. reqs'[i] \in Changes
          <6> HIDE DEF Changes
          <6> QED
            BY <2>2, ElementOfSeq
        <5>2. k \in Keys
          BY <5>1 DEF Changes, Puts
        <5>3. Puttable(k)'
          BY DEF Puttable
        <5> QED
          BY <2>2, <5>2, <5>3
      <4>2. reqs'[i].put[k] = ep.put[k] /\ \A j \in (i + 1)..Len(reqs') : k \notin reqs'[j].del
        BY <2>2
      <4>3. events'[at'].want[k] = events[at].want[k]
        BY <1>1, <1>21
      <4> QED
        BY <1>7, <4>1, <4>2, <4>3
    <3> QED
      BY <3>1, <3>2, <3>3 DEF SendingInv
  <2>7. StoreInv'
    BY <1>0, <1>1, <1>2, <1>21 DEF StoreInv
  <2>8. WholeInv'
    <3>1. ASSUME ~mixed'
          PROVE  ~mixed /\ Len(reqs') <= 1
      <4>1. ~mixed /\ ~(Len(reqs') > 1)
        BY <1>21, <3>1, Zenon
      <4>2. Len(reqs') \in Nat
        BY <2>2
      <4> QED
        BY <4>1, <4>2
    <3> QED
      BY <1>0, <1>1, <1>2, <1>21, <3>1 DEF WholeInv, Halfway
  <2>9. RefusalsAreReal'
    <3>1. RequestsAcceptable'
      BY <2>2, Zenon DEF RequestsAcceptable
    <3> QED
      BY <1>0, <1>1, <3>1 DEF RefusalsAreReal, RefusedOnlyIfDoomed
  <2> QED
    BY <2>3, <2>4, <2>5, <2>6, <2>7, <2>8, <2>9 DEF ApplyInv
<1> QED
  BY <1>1, <1>20, <1>21

(* What is left of the requests once the first is gone.                     *)
LEMMA TailOfRequests ==
    ASSUME ApplyTypeInv, reqs # <<>>
    PROVE  /\ Head(reqs) = reqs[1] /\ reqs[1] \in Changes /\ 1 \in 1..Len(reqs)
           /\ Tail(reqs) \in Seq(Changes) /\ Len(Tail(reqs)) = Len(reqs) - 1 /\ Len(reqs) \in Nat \ {0}
           /\ \A i \in 1..Len(Tail(reqs)) : i + 1 \in 1..Len(reqs) /\ Tail(reqs)[i] = reqs[i + 1]
           /\ \A i \in 1..Len(reqs) : i = 1 \/ (i - 1 \in 1..Len(Tail(reqs)) /\ Tail(reqs)[i - 1] = reqs[i])
           /\ Len(Tail(reqs)) = 0 => Tail(reqs) = <<>>
<1>1. reqs \in Seq(Changes)
  BY DEF ApplyTypeInv
<1> HIDE DEF Changes
<1>2. Len(reqs) \in Nat \ {0} /\ Head(reqs) = reqs[1] /\ 1 \in 1..Len(reqs)
  BY <1>1
<1>3. reqs[1] \in Changes
  BY <1>1, <1>2, ElementOfSeq
<1>4. /\ Tail(reqs) \in Seq(Changes) /\ Len(Tail(reqs)) = Len(reqs) - 1
      /\ \A i \in 1..Len(Tail(reqs)) : Tail(reqs)[i] = reqs[i + 1]
  BY <1>1, HeadTailProperties
<1>5. \A i \in 1..Len(Tail(reqs)) : i + 1 \in 1..Len(reqs)
  BY <1>2, <1>4
<1>6. ASSUME NEW i \in 1..Len(reqs), i # 1
      PROVE  i - 1 \in 1..Len(Tail(reqs)) /\ Tail(reqs)[i - 1] = reqs[i]
  <2>1. i - 1 \in 1..Len(Tail(reqs)) /\ (i - 1) + 1 = i
    BY <1>2, <1>4, <1>6
  <2> QED
    BY <1>4, <2>1
<1>7. Len(Tail(reqs)) = 0 => Tail(reqs) = <<>>
  BY <1>4, EmptySeq
<1> QED
  BY <1>2, <1>3, <1>4, <1>5, <1>6, <1>7

(* A request taken by the server: what the event no longer has to send is   *)
(* as it wants it, and what it does not touch is as it was.                 *)
Rest == Tail(reqs)
Taken == After(store, Head(reqs))
StillPut(k) == \E i \in 1..Len(Rest) : k \in DOMAIN Rest[i].put
StillDelete(k) == \E i \in 1..Len(Rest) : k \in Rest[i].del

LEMMA Takes ==
    ASSUME ApplyTypeInv, SendingInv, pc = "apply", reqs # <<>>
    PROVE  /\ Taken \in States
           /\ \A k \in Keys :
                 /\ ~Touches(at, k) => Taken[k] = store[k]
                 /\ Touches(at, k) /\ ~StillPut(k) =>
                       events[at].want[k] = IF StillDelete(k) THEN Absent ELSE Taken[k]
                 /\ StillPut(k) \/ StillDelete(k) => Touches(at, k)
<1> DEFINE r == reqs[1]
<1>1. /\ Head(reqs) = r /\ r \in Changes /\ 1 \in 1..Len(reqs) /\ Len(reqs) \in Nat
      /\ \A i \in 1..Len(Rest) : i + 1 \in 1..Len(reqs) /\ Rest[i] = reqs[i + 1]
      /\ \A i \in 1..Len(reqs) : i = 1 \/ (i - 1 \in 1..Len(Rest) /\ Rest[i - 1] = reqs[i])
  BY TailOfRequests DEF Rest
<1>2. r.del \in SUBSET Keys /\ DOMAIN r.put \in SUBSET Keys /\ \A k \in DOMAIN r.put : r.put[k] \in Values
  BY <1>1 DEF Changes, Puts
<1> HIDE DEF r
<1>3. Taken = [k \in Keys |-> IF k \in DOMAIN r.put THEN r.put[k] ELSE IF k \in r.del THEN Absent ELSE store[k]]
  BY <1>1 DEF Taken, After
<1>4. Taken \in States
  <2>1. \A k \in Keys : store[k] \in Values
    BY DEF ApplyTypeInv, ApplyTypeOK, States, Values
  <2> QED
    BY <1>2, <1>3, <2>1 DEF States, Values
<1>5. ASSUME NEW k \in Keys
      PROVE  /\ Puttable(k) <=> k \in DOMAIN r.put \/ StillPut(k)
             /\ Deletable(k) <=> k \in r.del \/ StillDelete(k)
  <2>1. k \in DOMAIN r.put => Puttable(k)
    BY <1>1, Zenon DEF Puttable, r
  <2>2. k \in r.del => Deletable(k)
    BY <1>1, Zenon DEF Deletable, r
  <2>3. (StillPut(k) => Puttable(k)) /\ (StillDelete(k) => Deletable(k))
    BY <1>1, Zenon DEF Puttable, Deletable, StillPut, StillDelete
  <2>4. Puttable(k) => k \in DOMAIN r.put \/ StillPut(k)
    BY <1>1, Zenon DEF Puttable, StillPut, r
  <2>5. Deletable(k) => k \in r.del \/ StillDelete(k)
    BY <1>1, Zenon DEF Deletable, StillDelete, r
  <2> QED
    BY <2>1, <2>2, <2>3, <2>4, <2>5
<1>6. ASSUME NEW k \in DOMAIN r.put
      PROVE  r.put[k] = events[at].want[k] /\ ~StillDelete(k)
  <2>1. r.put[k] = events[at].want[k] /\ \A j \in 2..Len(reqs) : k \notin reqs[j].del
    <3>1. 1 + 1 = 2
      OBVIOUS
    <3> QED
      BY <1>1, <3>1 DEF SendingInv, r
  <2>2. \A i \in 1..Len(Rest) : i + 1 \in 2..Len(reqs) /\ Rest[i] = reqs[i + 1]
    BY <1>1
  <2> QED
    BY <2>1, <2>2 DEF StillDelete
<1>7. \A k \in Keys :
         /\ Puttable(k) \/ Deletable(k) => Touches(at, k)
         /\ Touches(at, k) /\ ~Puttable(k) => events[at].want[k] = IF Deletable(k) THEN Absent ELSE store[k]
  BY DEF SendingInv
<1> QED
  BY <1>2, <1>3, <1>4, <1>5, <1>6, <1>7

(* What the last request of an event leaves.                                *)
LEMMA TakesLast ==
    ASSUME ApplyTypeInv, SendingInv, pc = "apply", Len(reqs) = 1
    PROVE  /\ at \in 1..NumEvents
           /\ \A k \in Keys : /\ Touches(at, k) => Taken[k] = Sequential[at][k]
                              /\ ~Touches(at, k) => /\ Taken[k] = store[k]
                                                    /\ Sequential[at][k] = Sequential[at - 1][k]
<1>1. reqs # <<>> /\ Len(Rest) = 0
  <2>1. reqs # <<>>
    OBVIOUS
  <2> QED
    BY <2>1, TailOfRequests DEF Rest
<1>2. at \in 1..NumEvents /\ ApplyTypeOK
  BY <1>1, PlanAssumption DEF ApplyTypeInv, ApplyTypeOK, SendingInv
<1>3. \A k : ~StillPut(k) /\ ~StillDelete(k)
  BY <1>1 DEF StillPut, StillDelete
<1>4. \A k \in Keys : (Touches(at, k) => events[at].want[k] = Taken[k]) /\ (~Touches(at, k) => Taken[k] = store[k])
  BY <1>1, <1>3, Takes
<1>5. \A k \in Keys : Sequential[at][k] = IF Touches(at, k) THEN events[at].want[k] ELSE Sequential[at - 1][k]
  BY <1>2, Decided
<1> QED
  BY <1>2, <1>4, <1>5

LEMMA TakesWhole ==
    ASSUME ApplyTypeInv, SendingInv, WholeInv, pc = "apply", reqs # <<>>, ~mixed
    PROVE  Len(reqs) = 1 /\ Taken = Sequential[at]
<1>1. Len(reqs) = 1
  BY TailOfRequests DEF WholeInv
<1>2. at \in 1..NumEvents /\ ApplyTypeOK /\ at \in 0..NumEvents
  BY <1>1, TakesLast, PlanAssumption DEF ApplyTypeInv
<1>3. store = Sequential[at - 1] \/ store = Sequential[at]
  BY DEF WholeInv, Halfway
<1>4. \A k \in Keys : Taken[k] = Sequential[at][k]
  BY <1>1, <1>3, TakesLast
<1>5. Taken \in States
  BY Takes
<1> QED
  BY <1>1, <1>2, <1>4, <1>5, SameStore

(* A run that stops at an event: what no event from here on touches.        *)
LEMMA DealtWith ==
    ASSUME ApplyTypeInv, StoreInv, pc = "apply", at \in 1..NumEvents,
           NEW k \in Keys, ~Touched(at, NumEvents, k)
    PROVE  ~Touches(at, k) /\ store[k] = Sequential[NumEvents][k]
<1>1. /\ NumEvents \in Nat \ {0} /\ at \in Nat /\ from \in Nat /\ from <= at /\ ApplyTypeOK
  BY PlanAssumption DEF ApplyTypeInv, ApplyTypeOK
<1>2. ~Touches(at, k)
  BY <1>1 DEF Touched
<1>3. CASE Touched(from, at - 1, k)
  <2>1. store[k] = Sequential[at - 1][k]
    BY <1>2, <1>3 DEF StoreInv
  <2>2. at \in 1..(NumEvents + 1) /\ NumEvents \in (at - 1)..NumEvents
    BY <1>1
  <2>3. Sequential[NumEvents][k] = Sequential[at - 1][k]
    BY <1>1, <2>2, LeftAlone
  <2> QED
    BY <1>2, <2>1, <2>3
<1>4. CASE ~Touched(from, at - 1, k)
  <2>1. \A i \in from..NumEvents : i \in from..(at - 1) \/ i \in at..NumEvents
    BY <1>1
  <2>2. ~Touched(from, NumEvents, k)
    BY <1>4, <2>1 DEF Touched
  <2> QED
    BY <1>2, <2>2 DEF StoreInv
<1> QED
  BY <1>3, <1>4

(* An event that fails leaves the run where it can be resumed.              *)
LEMMA FailsApplyInv ==
    ASSUME ApplyInv, pc = "apply", reqs # <<>>, pc' = "failed",
           UNCHANGED <<events, origin, from, at, cache, planned, written, plan, reqs, mixed>>,
           faults' \in 0..MaxFaults,
           store' \in {store, Taken}
    PROVE  ApplyInv'
<1>0. ApplyTypeInv /\ ApplyTypeOK /\ SendingInv /\ StoreInv /\ WholeInv /\ RefusalsAreReal
  BY DEF ApplyInv, ApplyTypeInv
<1>1. /\ Sequential' = Sequential
      /\ \A i, k : Touches(i, k)' <=> Touches(i, k)
      /\ \A m, n, k : Touched(m, n, k)' <=> Touched(m, n, k)
  BY Fixed
<1>2. at \in 1..NumEvents /\ at <= NumEvents
  BY <1>0, PlanAssumption DEF ApplyTypeOK, SendingInv
<1>3. /\ Taken \in States
      /\ \A k \in Keys : ~Touches(at, k) => Taken[k] = store[k]
  BY <1>0, Takes
<1>4. ApplyTypeInv'
  <2>1. ApplyTypeOK'
    BY <1>0, <1>3 DEF ApplyTypeOK
  <2> QED
    BY <1>0, <1>2, <2>1 DEF ApplyTypeInv
<1>5. (PlanInv /\ EntriesInv /\ SendingInv /\ SuccessIsSequential)'
  BY DEF PlanInv, EntriesInv, SendingInv, SuccessIsSequential
<1>6. StoreInv'
  <2>1. ASSUME NEW k \in Keys, ~Touched(at, NumEvents, k)
        PROVE  store'[k] = Sequential[NumEvents][k]
    <3>1. ~Touches(at, k) /\ store[k] = Sequential[NumEvents][k]
      BY <1>0, <1>2, <2>1, DealtWith
    <3> QED
      BY <1>3, <3>1
  <2>2. ASSUME NEW k \in Keys, ~Touched(from, NumEvents, k)
        PROVE  ~Touched(at, NumEvents, k)
    <3>1. \A i \in at..NumEvents : i \in from..NumEvents
      BY <1>0, PlanAssumption DEF ApplyTypeInv, ApplyTypeOK
    <3> QED
      BY <2>2, <3>1 DEF Touched
  <2> QED
    BY <1>1, <2>1, <2>2 DEF StoreInv
<1>7. WholeInv'
  <2>1. ASSUME ~mixed
        PROVE  store' \in {Sequential[at - 1], Sequential[at]}
    <3>1. Taken = Sequential[at]
      BY <1>0, <2>1, TakesWhole
    <3>2. store \in {Sequential[at - 1], Sequential[at]}
      BY <1>0, <2>1 DEF WholeInv, Halfway
    <3> QED
      BY <3>1, <3>2
  <2> QED
    BY <1>1, <2>1 DEF WholeInv, Halfway
<1>8. RefusalsAreReal'
  BY <1>0 DEF RefusalsAreReal, RefusedOnlyIfDoomed, RequestsAcceptable
<1> QED
  BY <1>4, <1>5, <1>6, <1>7, <1>8 DEF ApplyInv

LEMMA SendFaultApplyInv == ApplyInv /\ SendFault => ApplyInv'
<1> SUFFICES ASSUME ApplyInv, SendFault PROVE ApplyInv'
  OBVIOUS
<1>1. ApplyTypeOK
  BY DEF ApplyInv, ApplyTypeInv
<1>2. faults' \in 0..MaxFaults
  BY <1>1, PlanAssumption DEF SendFault, Fault, ApplyTypeOK
<1>3. store' \in {store, Taken}
  BY DEF SendFault, Taken
<1>4. pc = "apply" /\ reqs # <<>> /\ pc' = "failed"
      /\ UNCHANGED <<events, origin, from, at, cache, planned, written, plan, reqs, mixed>>
  BY DEF SendFault
<1> QED
  BY <1>2, <1>3, <1>4, FailsApplyInv

LEMMA SendApplyInv == ApplyInv /\ Send => ApplyInv'
<1> SUFFICES ASSUME ApplyInv, Send PROVE ApplyInv'
  OBVIOUS
<1>0. ApplyTypeInv /\ ApplyTypeOK /\ EntriesInv /\ SendingInv /\ StoreInv /\ WholeInv /\ RefusalsAreReal
      /\ pc = "apply" /\ reqs # <<>>
  BY DEF ApplyInv, ApplyTypeInv, Send
<1>1. UNCHANGED <<events, origin, from, cache, planned, written, plan, faults, mixed>>
  BY DEF Send
<1>2. CASE ~Accepts(Head(reqs))
  <2>1. pc' = "failed" /\ store' = store /\ reqs' = reqs /\ at' = at
    BY <1>2 DEF Send
  <2>2. faults' \in 0..MaxFaults
    BY <1>0, <1>1 DEF ApplyTypeOK
  <2> QED
    BY <1>0, <1>1, <2>1, <2>2, FailsApplyInv
<1>3. CASE Accepts(Head(reqs))
  <2>1. /\ store' = Taken /\ reqs' = Rest /\ pc' = pc
        /\ at' = IF Len(reqs) = 1 THEN at + 1 ELSE at
    BY <1>3 DEF Send, Taken, Rest
  <2>2. /\ Sequential' = Sequential
        /\ \A i, k : Touches(i, k)' <=> Touches(i, k)
        /\ \A m, n, k : Touched(m, n, k)' <=> Touched(m, n, k)
    BY <1>1, Fixed
  <2>3. /\ NumEvents \in Nat \ {0} /\ at \in 1..NumEvents /\ at \in Nat /\ from \in Nat /\ from <= at
    BY <1>0, PlanAssumption DEF ApplyTypeInv, ApplyTypeOK, SendingInv
  <2>4. /\ Taken \in States
        /\ \A k \in Keys : ~Touches(at, k) => Taken[k] = store[k]
    BY <1>0, Takes
  <2>5. /\ Rest \in Seq(Changes) /\ Len(Rest) = Len(reqs) - 1 /\ Len(reqs) \in Nat \ {0}
        /\ \A i \in 1..Len(Rest) : i + 1 \in 1..Len(reqs) /\ Rest[i] = reqs[i + 1]
        /\ Len(Rest) = 0 => Rest = <<>>
    BY <1>0, TailOfRequests DEF Rest
  <2>6. at' \in 1..NumEvents + 1 /\ at' >= at /\ from' <= at' /\ at' \in Nat
    BY <1>1, <2>1, <2>3
  <2>7. ApplyTypeInv'
    <3>1. ApplyTypeOK'
      BY <1>0, <1>1, <2>1, <2>4, <2>6 DEF ApplyTypeOK
    <3> QED
      BY <1>0, <1>1, <2>1, <2>5, <2>6, <3>1 DEF ApplyTypeInv
  <2>8. (PlanInv /\ SuccessIsSequential)'
    BY <1>0, <2>1 DEF PlanInv, SuccessIsSequential
  <2>9. EntriesInv'
    <3>1. ASSUME NEW i \in (at + 1)..NumEvents
          PROVE  EntryHolds(i)'
      <4>1. i \in at..NumEvents /\ i # at
        BY <2>3
      <4>2. EntryHolds(i)
        BY <1>0, <4>1 DEF EntriesInv
      <4>3. plan'[Position(i)'] = plan[Position(i)]
        BY <1>1 DEF Position
      <4>4. ASSUME NEW k \in Keys
            PROVE  Before(i, k)' = Before(i, k)
        <5>1. CASE Touched(from, i - 1, k)
          BY <1>1, <2>2, <5>1 DEF Before
        <5>2. CASE ~Touched(from, i - 1, k)
          <6>1. at \in from..(i - 1)
            BY <2>3
          <6>2. ~Touches(at, k)
            BY <5>2, <6>1 DEF Touched
          <6> QED
            BY <1>1, <2>1, <2>2, <2>4, <5>2, <6>2 DEF Before
        <5> QED
          BY <5>1, <5>2
      <4> QED
        BY <1>1, <2>2, <4>2, <4>3, <4>4 DEF EntryHolds
    <3>2. CASE Len(reqs) = 1
      BY <1>0, <2>1, <2>3, <3>1, <3>2 DEF EntriesInv
    <3>3. CASE Len(reqs) # 1
      <4>1. at' = at /\ reqs' # <<>>
        BY <2>1, <2>5, <3>3
      <4>2. \A i \in at..NumEvents : i = at \/ i \in (at + 1)..NumEvents
        BY <2>3
      <4> QED
        BY <1>0, <2>1, <3>1, <4>1, <4>2 DEF EntriesInv
    <3> QED
      BY <3>2, <3>3
  <2>10. SendingInv'
    <3> SUFFICES ASSUME reqs' # <<>> PROVE SendingInv'
      BY DEF SendingInv
    <3>1. at' = at /\ Len(reqs) # 1
      BY <2>1, <2>5
    <3>2. \A k : (Puttable(k)' <=> StillPut(k)) /\ (Deletable(k)' <=> StillDelete(k))
      BY <2>1 DEF Puttable, Deletable, StillPut, StillDelete
    <3>3. ASSUME NEW k \in Keys
          PROVE  /\ Puttable(k)' \/ Deletable(k)' => Touches(at, k)'
                 /\ Touches(at, k)' /\ ~Puttable(k)' =>
                       events'[at'].want[k] = IF Deletable(k)' THEN Absent ELSE store'[k]
      <4>1. Touches(at, k)' <=> Touches(at, k)
        BY <1>1, <3>1 DEF Touches
      <4>2. /\ Touches(at, k) /\ ~StillPut(k) =>
                  events[at].want[k] = IF StillDelete(k) THEN Absent ELSE Taken[k]
            /\ StillPut(k) \/ StillDelete(k) => Touches(at, k)
        BY <1>0, Takes
      <4> QED
        BY <1>1, <2>1, <3>1, <3>2, <4>1, <4>2
    <3>4. ASSUME NEW i \in 1..Len(reqs'), NEW k \in DOMAIN reqs'[i].put
          PROVE  /\ reqs'[i].put[k] = events'[at'].want[k]
                 /\ \A j \in (i + 1)..Len(reqs') : k \notin reqs'[j].del
      <4>1. i + 1 \in 1..Len(reqs) /\ reqs'[i] = reqs[i + 1]
        BY <2>1, <2>5
      <4>2. /\ reqs[i + 1].put[k] = events[at].want[k]
            /\ \A j \in ((i + 1) + 1)..Len(reqs) : k \notin reqs[j].del
        BY <1>0, <4>1 DEF SendingInv
      <4>3. ASSUME NEW j \in (i + 1)..Len(reqs')
            PROVE  k \notin reqs'[j].del
        <5>1. j \in 1..Len(Rest) /\ j + 1 \in ((i + 1) + 1)..Len(reqs)
          BY <2>1, <2>5
        <5> QED
          BY <2>1, <2>5, <4>2, <5>1
      <4> QED
        BY <1>1, <3>1, <4>1, <4>2, <4>3
    <3> QED
      BY <2>3, <3>1, <3>3, <3>4 DEF SendingInv
  <2>11. StoreInv'
    <3>1. ASSUME NEW k \in Keys, ~Touched(from, NumEvents, k)
          PROVE  Taken[k] = Sequential[NumEvents][k]
      <4>1. at \in from..NumEvents
        BY <2>3
      <4>2. ~Touches(at, k)
        BY <3>1, <4>1 DEF Touched
      <4> QED
        BY <1>0, <2>4, <3>1, <4>2 DEF StoreInv
    <3>2. CASE Len(reqs) = 1
      <4>1. reqs' = <<>> /\ at' - 1 = at
        BY <2>1, <2>3, <2>5, <3>2
      <4>2. ASSUME NEW k \in Keys, Touched(from, at, k)
            PROVE  Taken[k] = Sequential[at][k]
        <5>1. /\ Touches(at, k) => Taken[k] = Sequential[at][k]
              /\ ~Touches(at, k) => Taken[k] = store[k] /\ Sequential[at][k] = Sequential[at - 1][k]
          BY <1>0, <3>2, TakesLast
        <5>2. CASE ~Touches(at, k)
          <6>1. \A i \in from..at : i \in from..(at - 1) \/ i = at
            BY <2>3
          <6>2. Touched(from, at - 1, k)
            BY <4>2, <5>2, <6>1 DEF Touched
          <6> QED
            BY <1>0, <5>1, <5>2, <6>2 DEF StoreInv
        <5> QED
          BY <5>1, <5>2
      <4> QED
        BY <1>0, <1>1, <2>1, <2>2, <3>1, <4>1, <4>2 DEF StoreInv
    <3>3. CASE Len(reqs) # 1
      <4>1. at' = at /\ reqs' # <<>>
        BY <2>1, <2>5, <3>3
      <4> QED
        BY <1>0, <1>1, <2>1, <2>2, <2>4, <3>1, <4>1 DEF StoreInv
    <3> QED
      BY <3>2, <3>3
  <2>12. WholeInv'
    <3> SUFFICES ASSUME ~mixed PROVE WholeInv'
      BY <1>1 DEF WholeInv
    <3>1. Len(reqs) = 1 /\ Taken = Sequential[at]
      BY <1>0, TakesWhole
    <3>2. at' - 1 = at /\ Len(reqs') <= 1
      BY <2>1, <2>3, <2>5, <3>1
    <3> QED
      BY <1>0, <2>1, <2>2, <3>1, <3>2 DEF WholeInv
  <2>13. RefusalsAreReal'
    <3>1. RequestsAcceptable'
      BY <1>0, <2>1, <2>5 DEF RefusalsAreReal, RequestsAcceptable
    <3> QED
      BY <1>0, <2>1, <3>1 DEF RefusalsAreReal, RefusedOnlyIfDoomed
  <2> QED
    BY <2>7, <2>8, <2>9, <2>10, <2>11, <2>12, <2>13 DEF ApplyInv
<1> QED
  BY <1>2, <1>3

LEMMA StutterApplyInv == ApplyInv /\ UNCHANGED applyVars => ApplyInv'
<1> SUFFICES ASSUME ApplyInv, UNCHANGED applyVars PROVE ApplyInv'
  OBVIOUS
<1> USE DEF applyVars
<1>1. Sequential' = Sequential
  BY Fixed
<1>2. ApplyTypeInv'
  BY DEF ApplyInv, ApplyTypeInv, ApplyTypeOK
<1>3. PlanInv'
  BY <1>1 DEF ApplyInv, PlanInv, Virtual, Before, Touched, Touches
<1>4. EntriesInv'
  BY <1>1 DEF ApplyInv, EntriesInv, EntryHolds, Position, Before, Touched, Touches
<1>5. SendingInv'
  BY DEF ApplyInv, SendingInv, Puttable, Deletable, Touches
<1>6. StoreInv'
  BY <1>1 DEF ApplyInv, StoreInv, Touched, Touches
<1>7. WholeInv' /\ SuccessIsSequential'
  BY <1>1 DEF ApplyInv, WholeInv, Halfway, SuccessIsSequential
<1>8. RefusalsAreReal'
  BY <1>1 DEF ApplyInv, RefusalsAreReal, RefusedOnlyIfDoomed, RequestsAcceptable
<1> QED
  BY <1>2, <1>3, <1>4, <1>5, <1>6, <1>7, <1>8 DEF ApplyInv

-------------------------------------------------------------------------------
LEMMA ApplyInductive == ApplySpec => []ApplyInv
<1>1. ApplyInv /\ [ApplyNext]_applyVars => ApplyInv'
  <2> SUFFICES ASSUME ApplyInv, [ApplyNext]_applyVars PROVE ApplyInv'
    OBVIOUS
  <2>1. CASE PlanEvent
    BY <2>1, PlannedApplyInv, RefusedApplyInv
  <2>2. CASE PlanFault
    BY <2>2, PlanFaultApplyInv
  <2>3. CASE Confirm
    BY <2>3, ConfirmApplyInv
  <2>4. CASE NextEvent
    BY <2>4, NextEventApplyInv
  <2>5. CASE Send
    BY <2>5, SendApplyInv
  <2>6. CASE SendFault
    BY <2>6, SendFaultApplyInv
  <2>7. CASE Finish
    BY <2>7, FinishApplyInv
  <2>8. CASE Resume
    BY <2>8, ResumeApplyInv
  <2>9. CASE UNCHANGED applyVars
    BY <2>9, StutterApplyInv
  <2> QED
    BY <2>1, <2>2, <2>3, <2>4, <2>5, <2>6, <2>7, <2>8, <2>9 DEF ApplyNext
<1> QED
  BY <1>1, InitApplyInv, PTL DEF ApplySpec

LEMMA WholeFollows == ApplyInv => WholeEvents
<1> SUFFICES ASSUME ApplyInv, ~mixed PROVE \E n \in 0..NumEvents : store = Sequential[n]
  BY DEF WholeEvents
<1>1. ApplyTypeOK /\ WholeInv /\ SuccessIsSequential
  BY DEF ApplyInv, ApplyTypeInv
<1>2. NumEvents \in Nat \ {0} /\ from \in 1..NumEvents /\ at \in 1..NumEvents + 1
  BY <1>1, PlanAssumption DEF ApplyTypeOK
<1>3. /\ NumEvents \in 0..NumEvents /\ from - 1 \in 0..NumEvents /\ from \in 0..NumEvents
      /\ at - 1 \in 0..NumEvents
  BY <1>2
<1>4. pc = "failed" => at \in 0..NumEvents
  BY <1>2 DEF ApplyInv, ApplyTypeInv
<1>5. CASE pc \in {"plan", "refused"}
  BY <1>1, <1>3, <1>5 DEF WholeInv, Halfway
<1>6. CASE pc = "failed"
  BY <1>1, <1>3, <1>4, <1>6 DEF WholeInv, Halfway
<1>7. CASE pc = "apply"
  BY <1>1, <1>3, <1>7 DEF WholeInv, Halfway
<1>8. CASE pc = "done"
  BY <1>1, <1>3, <1>8 DEF SuccessIsSequential
<1> QED
  BY <1>1, <1>5, <1>6, <1>7, <1>8 DEF ApplyTypeOK

(* Although all events are planned before any is written, a run that        *)
(* succeeds leaves the store as if each had been applied on its own, in     *)
(* order, whatever runs failed before it and were resumed or made again;    *)
(* while every event fits in one request, the store is at each moment what  *)
(* some number of whole events makes of it (PlanEvents and the recorder in  *)
(* plan.go, Execute and applyEvent in execute.go).                          *)
THEOREM StoreIsSequential == ApplySpec => []StoreFollowsEvents
<1>1. ApplyInv => StoreFollowsEvents
  BY WholeFollows DEF ApplyInv, StoreFollowsEvents
<1> QED
  BY <1>1, ApplyInductive, PTL

(* A plan is refused only for a write that the server would refuse at that  *)
(* event in every run, and no request is refused for how it was made up:    *)
(* none is too large, none deletes and writes a tuple (trackWrites and      *)
(* deletesFirst in plan.go, applyEvent in execute.go).                      *)
THEOREM RefusalsAreDoomed == ApplySpec => []RefusalsAreReal
<1>1. ApplyInv => RefusalsAreReal
  BY DEF ApplyInv
<1> QED
  BY <1>1, ApplyInductive, PTL

-------------------------------------------------------------------------------
(* The workspace.                                                          *)

(* Types, as far as the proof needs them.                                  *)
Samples == Events \cup {None}
PlanKeys == [src : Texts \cup {None}, sel : Seq(Samples), from : Nat]
Planned == PlanKeys \cup {None}
Waits == [key : PlanKeys, confirm : BOOLEAN] \cup {None}
Marks == {"none", "on", "off"}
Panes == [sample : Samples, picked : BOOLEAN, paste : Marks, plan : Planned, old : BOOLEAN,
          pending : Waits, applying : BOOLEAN, gen : Nat, resumeAt : Nat]
Flights == [kind : {"plan", "apply"}, gen : Nat, of : PlanKeys, at : Nat, stop : BOOLEAN]

USE WorkspaceAssumption DEF WorkspaceAssumption

-------------------------------------------------------------------------------
(* The Apply pane.                                                         *)

LEMMA OneInSeq == ASSUME NEW S, NEW x \in S PROVE <<x>> \in Seq(S)
  BY SMT

LEMMA SelectedType == ASSUME NEW a \in Panes PROVE Selected(a) \in Seq(Samples)
  <1> DEFINE s1 == IF a.picked THEN <<a.sample>> ELSE <<>>
             s2 == IF a.paste = "on" THEN <<Pasted>> ELSE <<>>
  <1>1. a.sample \in Samples /\ Pasted \in Samples
    BY SMT DEF Panes, Samples, Events
  <1>2. <<a.sample>> \in Seq(Samples) /\ <<Pasted>> \in Seq(Samples) /\ <<>> \in Seq(Samples)
    BY <1>1, OneInSeq, EmptySeq
  <1>3. s1 \in Seq(Samples) /\ s2 \in Seq(Samples)
    BY <1>2, Zenon
  <1>4. Selected(a) = s1 \o s2
    BY DEF Selected
  <1> HIDE DEF s1, s2
  <1> QED
    BY <1>3, <1>4, ConcatProperties

(* The selected events depend on three fields.                             *)
LEMMA SelectedOf ==
    ASSUME NEW a, NEW b, a.picked = b.picked, a.sample = b.sample, a.paste = b.paste
    PROVE  Selected(a) = Selected(b)
  BY Zenon DEF Selected

LEMMA KeyType ==
    ASSUME NEW a \in Panes, NEW n \in Nat, file \in Texts \cup {None}
    PROVE  PlanKey(a, n) \in PlanKeys /\ PlanKey(a, n) # None
           /\ PlanKey(a, n).sel = Selected(a) /\ PlanKey(a, n).from = n /\ PlanKey(a, n).src = file
  BY SelectedType DEF PlanKey, PlanKeys, Samples

(* What a change of the pane may do to its plan: nothing, or drop it.      *)
Same(a, b) ==
    /\ Selected(b) = Selected(a)
    /\ b.plan = a.plan /\ b.pending = a.pending /\ b.gen = a.gen
    /\ b.applying = a.applying /\ b.resumeAt = a.resumeAt

Dropped(a, b) ==
    /\ ~a.applying /\ ~b.applying
    /\ b.plan = None /\ b.pending = None /\ b.gen >= a.gen
    /\ \/ b.resumeAt = 0
       \/ b.resumeAt = a.resumeAt /\ Selected(b) = Selected(a)

(* Planning is over: its number is given up with it.                       *)
LEMMA CancelType ==
    ASSUME NEW a \in Panes
    PROVE  /\ CancelPlanning(a) \in Panes
           /\ Selected(CancelPlanning(a)) = Selected(a)
           /\ CancelPlanning(a).plan = a.plan /\ CancelPlanning(a).pending = None
           /\ CancelPlanning(a).gen >= a.gen /\ CancelPlanning(a).resumeAt = a.resumeAt
           /\ CancelPlanning(a).applying => a.applying
           /\ a.pending = None => CancelPlanning(a) = a
  <1>0. a.gen \in Nat
    BY DEF Panes
  <1>1. CASE a.pending = None
    BY <1>0, <1>1, SMT DEF CancelPlanning
  <1>2. CASE a.pending # None
    <2>1. PICK n \in Nat : n = a.gen + 1
      BY <1>0
    <2> DEFINE c == [a EXCEPT !.pending = None, !.applying = FALSE, !.gen = n]
    <2>2. CancelPlanning(a) = c
      BY <1>2, <2>1, SMT DEF CancelPlanning, EndRun, Panes
    <2>3. c \in Panes
      BY <2>1 DEF Panes, Waits
    <2>4. c.plan = a.plan /\ c.pending = None /\ c.gen = n /\ c.resumeAt = a.resumeAt
          /\ c.applying = FALSE /\ c.picked = a.picked /\ c.sample = a.sample /\ c.paste = a.paste
      BY SMT DEF Panes
    <2> HIDE DEF c
    <2>5. Selected(c) = Selected(a)
      BY <2>4, SelectedOf
    <2> QED
      BY <1>0, <1>2, <2>1, <2>2, <2>3, <2>4, <2>5, SMT
  <1> QED
    BY <1>1, <1>2

LEMMA DropType ==
    ASSUME NEW a \in Panes
    PROVE  /\ DropPlan(a) \in Panes
           /\ a.applying => DropPlan(a) = a
           /\ ~a.applying => Dropped(a, DropPlan(a)) /\ Selected(DropPlan(a)) = Selected(a)
                             /\ DropPlan(a).resumeAt = a.resumeAt
  <1>1. CASE a.applying
    BY <1>1 DEF DropPlan
  <1>2. CASE ~a.applying
    <2> DEFINE c == CancelPlanning(a)
               e == [c EXCEPT !.plan = None, !.old = FALSE]
    <2>1. c \in Panes /\ Selected(c) = Selected(a) /\ c.pending = None /\ c.gen >= a.gen
          /\ c.resumeAt = a.resumeAt /\ ~c.applying
      BY <1>2, CancelType, Zenon
    <2>2. DropPlan(a) = e
      BY <1>2 DEF DropPlan
    <2> HIDE DEF c
    <2>3. e \in Panes
      <3>1. None \in Planned
        BY DEF Planned
      <3> QED
        BY <2>1, <3>1 DEF Panes
    <2>4. e.plan = None /\ e.pending = c.pending /\ e.gen = c.gen /\ e.resumeAt = c.resumeAt
          /\ e.applying = c.applying /\ e.picked = c.picked /\ e.sample = c.sample /\ e.paste = c.paste
      BY <2>1, SMT DEF Panes
    <2> HIDE DEF e
    <2>5. Selected(e) = Selected(c)
      BY <2>4, SelectedOf
    <2> QED
      BY <1>2, <2>1, <2>2, <2>3, <2>4, <2>5 DEF Dropped
  <1> QED
    BY <1>1, <1>2

LEMMA ChangeType ==
    ASSUME NEW a \in Panes, ~a.applying
    PROVE  /\ SelectionChanged(a) \in Panes
           /\ \A b \in Panes : b.gen = a.gen /\ ~b.applying => Dropped(b, SelectionChanged(a))
           /\ SelectionChanged(a).resumeAt = 0
  <1> DEFINE c == [a EXCEPT !.resumeAt = 0]
  <1>1. c \in Panes /\ ~c.applying /\ c.resumeAt = 0 /\ c.gen = a.gen
    BY DEF Panes
  <1>2. SelectionChanged(a) = DropPlan(c)
    BY DEF SelectionChanged
  <1> HIDE DEF c
  <1> QED
    BY <1>1, <1>2, DropType DEF Dropped

LEMMA SyncType ==
    ASSUME NEW a \in Panes, NEW d \in Docs, NEW blocked \in BOOLEAN
    PROVE  /\ SyncApply(a, d, blocked) \in Panes
           /\ Same(a, SyncApply(a, d, blocked)) \/ Dropped(a, SyncApply(a, d, blocked))
  <1> DEFINE b == SetSamples(a, d)
  <1>1. b \in Panes
    BY DEF Panes, SetSamples, Samples, Events
  <1>2. b.gen = a.gen /\ b.applying = a.applying /\ b.resumeAt = a.resumeAt
        /\ b.plan = a.plan /\ b.pending = a.pending
    BY DEF Panes, SetSamples
  <1> HIDE DEF b
  <1>3. CASE blocked \/ a.applying
    <2>1. SyncApply(a, d, blocked) = a
      BY <1>3 DEF SyncApply
    <2> QED
      BY <2>1 DEF Same
  <1>4. CASE ~blocked /\ ~a.applying /\ Selected(a) # Selected(b)
    <2>1. SyncApply(a, d, blocked) = SelectionChanged(b)
      BY <1>4 DEF SyncApply, b
    <2> QED
      BY <1>1, <1>2, <1>4, <2>1, ChangeType
  <1>5. CASE ~blocked /\ ~a.applying /\ Selected(a) = Selected(b)
    <2>1. SyncApply(a, d, blocked) = b
      BY <1>5 DEF SyncApply, b
    <2> QED
      BY <1>1, <1>2, <1>5, <2>1 DEF Same
  <1> QED
    BY <1>3, <1>4, <1>5

-------------------------------------------------------------------------------
(* The invariant.                                                          *)

TypeInv ==
    /\ doc \in Docs /\ file \in Texts \cup {None} /\ disk \in Texts \cup {Broken, None}
    /\ fresh \in BOOLEAN /\ loadErr \in BOOLEAN /\ dirty \in BOOLEAN
    /\ pane \in Panes /\ flights \subseteq Flights

(* A text that the document can be compared with, or that it cannot leave. *)
Loaded == ~loadErr /\ ~fresh => Editable(file) \/ file.doc = doc

(* What a save renames is the document, over a file it has compared.       *)
Committed ==
    commit # None =>
        /\ commit.text \in Texts /\ commit.text.doc = doc
        /\ commit.new \/ commit.confirmed \/ disk = file \/ EditorRaces

DocInv == Loaded /\ CleanMeansSaved /\ Committed

(* The events before the n-th have been sent whole.                        *)
Sent(sel, n) == \A i \in 1..(n - 1) : i <= Len(sel) /\ sel[i] \in landed

Waiting == pane.pending # None => pane.plan = None /\ ~pane.applying /\ ~loadErr
Resuming ==
    /\ Sent(Selected(pane), pane.resumeAt)
    /\ pane.plan # None => Sent(pane.plan.sel, pane.plan.from)

(* A run has its number to itself: the one that has the pane's is the one  *)
(* the pane waits for.                                                     *)
FlightInv(f) ==
    /\ f.gen <= pane.gen
    /\ f.kind = "plan" =>
          /\ Sent(f.of.sel, f.of.from)
          /\ f.gen = pane.gen /\ pane.pending # None => f.of = pane.pending.key
    /\ f.kind = "apply" =>
          /\ Sent(f.of.sel, f.at)
          /\ f.gen = pane.gen /\ pane.applying => f.of = pane.plan

PaneInv == PlanIsCurrent /\ Waiting /\ Resuming /\ \A f \in flights : FlightInv(f)

(* Nothing is saved while events are sent, and the question whether to     *)
(* send them is about a plan of a file that was loaded.                    *)
DialogInv ==
    /\ commit # None => ~pane.applying
    /\ overlay.kind = "apply" => ~loadErr /\ ~pane.applying /\ overlay.plan # None

IInv == TypeInv /\ DocInv /\ PaneInv /\ DialogInv

(* Init establishes the invariant: nothing is planned.                     *)
LEMMA InitHolds == Init => IInv
  <1> SUFFICES ASSUME Init PROVE IInv
    OBVIOUS
  <1>1. /\ pane \in Panes /\ pane.plan = None /\ pane.pending = None /\ pane.applying = FALSE
        /\ pane.resumeAt = 0 /\ flights = {}
    BY DEF Init, Panes, Samples, Marks, Planned, Waits
  <1>2. DocInv
    BY DEF Init, DocInv, Loaded, CleanMeansSaved, Committed, Editable, Texts
  <1>3. TypeInv
    BY <1>1 DEF Init, TypeInv, Texts
  <1>4. PaneInv
    BY <1>1 DEF PaneInv, PlanIsCurrent, Waiting, Resuming, Sent
  <1>5. DialogInv
    BY <1>1 DEF Init, DialogInv, Closed
  <1> QED
    BY <1>2, <1>3, <1>4, <1>5 DEF IInv

-------------------------------------------------------------------------------
(* Steps that start and end no run.                                        *)

Steady ==
    /\ pane' \in Panes
    /\ flights' = flights /\ landed' = landed
    /\ \/ Same(pane, pane') /\ file' = file /\ (~loadErr => ~loadErr')
       \/ Dropped(pane, pane')

LEMMA SteadyHolds ==
    ASSUME TypeInv, PaneInv, Steady
    PROVE  PaneInv' /\ (pane'.applying <=> pane.applying)
  <1> USE DEF PaneInv, PlanIsCurrent, Waiting, Resuming, FlightInv, TypeInv, PlanKey
  <1>1. pane.gen \in Nat /\ pane'.gen \in Nat /\ pane.applying \in BOOLEAN /\ pane'.applying \in BOOLEAN
        /\ flights' = flights /\ \A f \in flights : f.gen \in Nat
    BY DEF Steady, Panes, Flights
  <1>2. \A q, n : Sent(q, n)' <=> Sent(q, n)
    BY DEF Steady, Sent
  <1>3. CASE Same(pane, pane') /\ file' = file /\ (~loadErr => ~loadErr')
    BY <1>1, <1>2, <1>3 DEF Same, Steady
  <1>4. CASE Dropped(pane, pane')
    <2>1. Resuming'
      <3>1. Sent(Selected(pane), 0)'
        BY SMT DEF Sent
      <3> QED
        BY <1>2, <1>4, <3>1 DEF Dropped
    <2>2. \A f \in flights : FlightInv(f)'
      BY <1>1, <1>2, <1>4, SMT DEF Dropped
    <2> QED
      BY <1>1, <1>4, <2>1, <2>2 DEF Dropped
  <1> QED
    BY <1>3, <1>4 DEF Steady

LEMMA SyncSteady ==
    ASSUME TypeInv, NEW d \in Docs, NEW blocked \in BOOLEAN
    PROVE  /\ SyncApply(pane, d, blocked) \in Panes
           /\ Same(pane, SyncApply(pane, d, blocked)) \/ Dropped(pane, SyncApply(pane, d, blocked))
  BY SyncType DEF TypeInv

LEMMA ShownSteady ==
    ASSUME TypeInv
    PROVE  Shown(pane) \in Panes /\ (Same(pane, Shown(pane)) \/ Dropped(pane, Shown(pane)))
  <1>1. (loadErr \/ fresh) \in BOOLEAN
    BY Zenon
  <1>2. doc \in Docs /\ pane \in Panes
    BY DEF TypeInv
  <1> QED
    BY <1>1, <1>2, SyncSteady DEF Shown, Same

(* A file that is replaced takes its plan with it.                         *)
LEMMA ReplacedDrops ==
    ASSUME TypeInv, ~pane.applying, NEW d \in Docs, NEW blocked \in BOOLEAN
    PROVE  /\ SyncApply(DropPlan(pane), d, blocked) \in Panes
           /\ Dropped(pane, SyncApply(DropPlan(pane), d, blocked))
  <1> DEFINE c == DropPlan(pane)
             e == SyncApply(c, d, blocked)
  <1>1. c \in Panes /\ Dropped(pane, c) /\ Selected(c) = Selected(pane)
    BY DropType DEF TypeInv
  <1>2. e \in Panes /\ (Same(c, e) \/ Dropped(c, e))
    BY <1>1, SyncType
  <1>3. pane.gen \in Nat /\ c.gen \in Nat /\ e.gen \in Nat
    BY <1>1, <1>2 DEF TypeInv, Panes
  <1> HIDE DEF c, e
  <1>4. Dropped(pane, e)
    BY <1>1, <1>2, <1>3, SMT DEF Same, Dropped
  <1> QED
    BY <1>2, <1>4 DEF c, e

LEMMA CancelSteady ==
    ASSUME TypeInv, PaneInv, ~pane.applying
    PROVE  /\ CancelPlanning(pane) \in Panes
           /\ Same(pane, CancelPlanning(pane)) \/ Dropped(pane, CancelPlanning(pane))
  <1>1. CASE pane.pending = None
    BY <1>1, CancelType DEF Same, TypeInv
  <1>2. CASE pane.pending # None
    BY <1>2, CancelType DEF Dropped, TypeInv, PaneInv, Waiting
  <1> QED
    BY <1>1, <1>2

-------------------------------------------------------------------------------
(* Steps that start or end a run.                                          *)

(* What SteadyHolds gives for them, and what their types need.             *)
Kept ==
    /\ pane' \in Panes /\ flights' \subseteq Flights
    /\ PaneInv' /\ ~loadErr' /\ ~pane'.applying

LEMMA StartPlanHolds ==
    ASSUME TypeInv, PaneInv, ~pane.applying, ~loadErr, UNCHANGED <<file, loadErr, landed>>,
           NEW n \in Nat, NEW confirm \in BOOLEAN, Sent(Selected(pane), n),
           StartPlan(pane, n, confirm)
    PROVE  Kept
  <1> DEFINE b == DropPlan(pane)
  <1>1. b = [CancelPlanning(pane) EXCEPT !.plan = None, !.old = FALSE]
    BY DEF DropPlan
  <1>2. b \in Panes /\ Dropped(pane, b) /\ Selected(b) = Selected(pane) /\ b.gen \in Nat
    <2>1. b \in Panes /\ Dropped(pane, b) /\ Selected(b) = Selected(pane)
      BY DropType DEF TypeInv
    <2> QED
      BY <2>1 DEF Panes
  <1>3. PlanKey(b, n) \in PlanKeys /\ PlanKey(b, n) # None /\ PlanKey(b, n).sel = Selected(pane)
        /\ PlanKey(b, n).from = n
    BY <1>2, KeyType DEF TypeInv
  <1>4. CASE pane' = b /\ UNCHANGED flights
    <2>1. Steady
      BY <1>2, <1>4 DEF Steady
    <2> QED
      BY <1>2, <1>4, <2>1, SteadyHolds DEF Kept, TypeInv
  <1>5. CASE ~(pane' = b /\ UNCHANGED flights)
    <2> DEFINE w == [key |-> PlanKey(b, n), confirm |-> confirm]
               g == b.gen + 1
               f0 == [kind |-> "plan", gen |-> g, of |-> PlanKey(b, n), at |-> n, stop |-> FALSE]
    <2>1. pane' = [b EXCEPT !.gen = g, !.pending = w] /\ flights' = flights \cup {f0}
      <3>1. /\ pane' = [b EXCEPT !.gen = @ + 1, !.pending = [key |-> PlanKey(b, n), confirm |-> confirm]]
            /\ flights' = flights \cup
                 {[kind |-> "plan", gen |-> b.gen + 1, of |-> PlanKey(b, n), at |-> n, stop |-> FALSE]}
        BY <1>1, <1>5, Zenon DEF StartPlan
      <3> QED
        BY <3>1, <1>2 DEF Panes
    <2>2. w \in Waits /\ w.key = PlanKey(b, n)
      BY <1>3 DEF Waits
    <2>3. g \in Nat /\ g > b.gen /\ g > pane.gen /\ pane.gen \in Nat
      BY <1>2, SMT DEF Dropped, TypeInv, Panes
    <2>4. f0 \in Flights /\ f0.kind = "plan" /\ f0.of = PlanKey(b, n) /\ f0.gen = g
      BY <1>3, <2>3 DEF Flights
    <2> HIDE DEF w, g, f0, b
    <2>5. /\ pane' \in Panes /\ pane'.gen = g /\ pane'.pending = w /\ pane'.plan = b.plan
          /\ pane'.applying = b.applying /\ pane'.resumeAt = b.resumeAt
          /\ pane'.picked = b.picked /\ pane'.sample = b.sample /\ pane'.paste = b.paste
      BY <1>2, <2>1, <2>2, <2>3 DEF Panes
    <2>6. Selected(pane') = Selected(b)
      BY <2>5, SelectedOf
    <2>7. \A q, i : Sent(q, i)' <=> Sent(q, i)
      BY DEF Sent
    <2>8. PlanIsCurrent' /\ Waiting'
      BY <1>2, <2>5 DEF PlanIsCurrent, Waiting, Dropped
    <2>9. Resuming'
      <3>1. b.resumeAt = 0 \/ b.resumeAt = pane.resumeAt
        BY <1>2 DEF Dropped
      <3>2. Sent(Selected(pane), 0)
        BY SMT DEF Sent
      <3> QED
        BY <1>2, <2>5, <2>6, <2>7, <3>1, <3>2 DEF Resuming, Dropped, PaneInv
    <2>10. ASSUME NEW f \in flights' PROVE FlightInv(f)'
      <3>1. CASE f = f0
        BY <1>2, <1>3, <2>2, <2>3, <2>4, <2>5, <2>7, <3>1 DEF FlightInv
      <3>2. CASE f \in flights
        <4>1. f.gen \in Nat /\ f.gen <= pane.gen /\ FlightInv(f)
          BY <3>2 DEF TypeInv, Flights, PaneInv, FlightInv
        <4>2. f.gen <= g /\ f.gen # g
          BY <2>3, <4>1
        <4> QED
          BY <2>5, <2>7, <4>1, <4>2 DEF FlightInv
      <3> QED
        BY <2>1, <3>1, <3>2
    <2> QED
      BY <1>2, <2>1, <2>4, <2>5, <2>8, <2>9, <2>10 DEF Kept, PaneInv, Dropped, TypeInv
  <1> QED
    BY <1>4, <1>5

LEMMA NotReadyHolds ==
    ASSUME TypeInv, PaneInv, ~pane.applying, ~loadErr, UNCHANGED <<file, loadErr, landed>>,
           NEW p \in PlanKeys, NotReady(pane, p)
    PROVE  Kept
  <1>1. CASE pane' = pane /\ UNCHANGED flights
    <2>1. Steady
      BY <1>1 DEF Steady, Same, TypeInv
    <2> QED
      BY <1>1, <2>1, SteadyHolds DEF Kept, TypeInv
  <1>2. CASE pane' = DropPlan(pane) /\ UNCHANGED flights
    <2>1. Steady
      BY <1>2, DropType DEF Steady, TypeInv
    <2> QED
      BY <1>2, <2>1, SteadyHolds DEF Kept, TypeInv, Steady
  <1>3. CASE pane.plan = p /\ StartPlan(pane, p.from, TRUE)
    <2>1. p # None /\ p.from \in Nat
      BY DEF PlanKeys, Samples
    <2>2. Sent(Selected(pane), p.from)
      BY <1>3, <2>1 DEF PaneInv, Resuming, PlanIsCurrent, PlanKey
    <2> QED
      BY <1>3, <2>1, <2>2, StartPlanHolds
  <1> QED
    BY <1>1, <1>2, <1>3 DEF NotReady

LEMMA PlanOrResumeHolds ==
    ASSUME IInv, PlanOrResume
    PROVE  Kept
  <1>1. /\ ~pane.applying /\ ~loadErr /\ UNCHANGED <<file, loadErr, landed>>
        /\ StartPlan(pane, 1, FALSE) \/ StartPlan(pane, pane.resumeAt, TRUE)
    BY DEF PlanOrResume, PlanRefused, document
  <1>2. Sent(Selected(pane), 1) /\ Sent(Selected(pane), pane.resumeAt) /\ pane.resumeAt \in Nat
    <2>1. Sent(Selected(pane), 1)
      BY SMT DEF Sent
    <2> QED
      BY <2>1 DEF IInv, TypeInv, Panes, PaneInv, Resuming
  <1> QED
    BY <1>1, <1>2, StartPlanHolds DEF IInv

(* The keys that ask whether to send a plan.                               *)
LEMMA AskHolds ==
    ASSUME IInv, Ask
    PROVE  Kept /\ (overlay' = overlay \/ overlay'.plan # None)
  <1>1. /\ ~pane.applying /\ ~loadErr /\ UNCHANGED <<file, loadErr, landed>>
        /\ pane.plan \in PlanKeys /\ pane.plan # None
    BY DEF Ask, AtApply, document, IInv, TypeInv, Panes, Planned
  <1>2. CASE Ready(pane, pane.plan) /\ pane' = pane /\ UNCHANGED flights
             /\ overlay' = [kind |-> "apply", plan |-> pane.plan]
    <2>1. Steady
      BY <1>1, <1>2 DEF Steady, Same, IInv, TypeInv
    <2> QED
      BY <1>1, <1>2, <2>1, SteadyHolds DEF Kept, IInv, TypeInv
  <1>3. CASE NotReady(pane, pane.plan) /\ UNCHANGED overlay
    BY <1>1, <1>3, NotReadyHolds DEF IInv
  <1> QED
    BY <1>2, <1>3 DEF Ask, AskApply

(* y to the question: the run gets a number of its own.                    *)
LEMMA StartApplyHolds ==
    ASSUME IInv, StartApply
    PROVE  /\ pane' \in Panes /\ flights' \subseteq Flights /\ PaneInv'
           /\ pane'.applying => Ready(pane, overlay.plan)
  <1>1. /\ ~pane.applying /\ ~loadErr /\ UNCHANGED <<file, loadErr, landed>>
        /\ overlay.plan # None
    BY DEF StartApply, document, IInv, DialogInv
  <1> DEFINE p == overlay.plan
             g == pane.gen + 1
             f0 == [kind |-> "apply", gen |-> g, of |-> p, at |-> p.from, stop |-> FALSE]
  <1>2. CASE Ready(pane, p) /\ pane' = [pane EXCEPT !.gen = g, !.applying = TRUE, !.resumeAt = 0]
             /\ flights' = flights \cup {f0}
    <2>1. pane \in Panes /\ pane.gen \in Nat /\ g \in Nat /\ g > pane.gen
      BY SMT DEF IInv, TypeInv, Panes
    <2>2. pane.plan = p /\ p \in PlanKeys /\ p.from \in Nat
      <3>1. pane.plan = p /\ p \in PlanKeys
        BY <1>1, <1>2, <2>1 DEF Ready, Panes, Planned
      <3> QED
        BY <3>1 DEF PlanKeys
    <2>3. f0 \in Flights /\ f0.kind = "apply" /\ f0.of = p /\ f0.gen = g /\ f0.at = p.from
      BY <2>1, <2>2 DEF Flights
    <2> HIDE DEF f0, g, p
    <2>4. /\ pane' \in Panes /\ pane'.gen = g /\ pane'.pending = pane.pending /\ pane'.plan = p
          /\ pane'.applying = TRUE /\ pane'.resumeAt = 0
          /\ pane'.picked = pane.picked /\ pane'.sample = pane.sample /\ pane'.paste = pane.paste
      BY <1>2, <2>1, <2>2 DEF Panes
    <2>5. Selected(pane') = Selected(pane)
      BY <2>4, SelectedOf
    <2>6. \A q, i : Sent(q, i)' <=> Sent(q, i)
      BY <1>1 DEF Sent
    <2>7. pane.pending = None
      BY <1>1, <2>2 DEF IInv, PaneInv, Waiting, p
    <2>8. PlanIsCurrent' /\ Waiting'
      BY <1>1, <2>2, <2>4, <2>5, <2>7 DEF PlanIsCurrent, Waiting, IInv, PaneInv, PlanKey, p
    <2>9. Sent(Selected(pane), 0) /\ Sent(p.sel, p.from)
      <3>1. Sent(Selected(pane), 0)
        BY SMT DEF Sent
      <3> QED
        BY <3>1, <1>1, <2>2 DEF IInv, PaneInv, Resuming, p
    <2>10. Resuming'
      BY <2>4, <2>5, <2>6, <2>9 DEF Resuming
    <2>11. ASSUME NEW f \in flights' PROVE FlightInv(f)'
      <3>1. CASE f = f0
        BY <2>1, <2>3, <2>4, <2>6, <2>9, <3>1 DEF FlightInv
      <3>2. CASE f \in flights
        <4>1. f.gen \in Nat /\ f.gen <= pane.gen /\ FlightInv(f)
          BY <3>2 DEF IInv, TypeInv, Flights, PaneInv, FlightInv
        <4>2. f.gen <= g /\ f.gen # g
          BY <2>1, <4>1
        <4> QED
          BY <2>4, <2>6, <2>7, <4>1, <4>2 DEF FlightInv
      <3> QED
        BY <1>2, <3>1, <3>2
    <2> QED
      BY <1>2, <2>3, <2>4, <2>8, <2>10, <2>11 DEF PaneInv, IInv, TypeInv, p
  <1>3. CASE ~Ready(pane, p) /\ NotReady(pane, p)
    <2>1. CASE p \in PlanKeys
      BY <1>1, <1>3, <2>1, NotReadyHolds DEF IInv, Kept
    <2>2. CASE p \notin PlanKeys
      <3>1. pane.plan # p
        BY <1>1, <2>2 DEF IInv, TypeInv, Panes, Planned
      <3>2. pane' = pane /\ UNCHANGED flights
        BY <1>3, <3>1 DEF NotReady
      <3>3. Steady
        BY <1>1, <3>2 DEF Steady, Same, IInv, TypeInv
      <3> QED
        BY <1>1, <3>2, <3>3, SteadyHolds DEF IInv, TypeInv
    <2> QED
      BY <2>1, <2>2
  <1>4. Ready(pane, p) => [pane EXCEPT !.gen = @ + 1, !.applying = TRUE, !.resumeAt = 0]
                          = [pane EXCEPT !.gen = g, !.applying = TRUE, !.resumeAt = 0]
    BY DEF IInv, TypeInv, Panes
  <1> QED
    BY <1>2, <1>3, <1>4, Zenon DEF StartApply

(* A plan lands.  What is late is dropped; what is not is of the key that  *)
(* the pane waits for, and of what is selected.                            *)
LEMMA EndRunType ==
    ASSUME NEW a \in Panes
    PROVE  /\ EndRun(a) \in Panes /\ EndRun(a).pending = None /\ EndRun(a).applying = FALSE
           /\ EndRun(a).gen = a.gen /\ EndRun(a).plan = a.plan /\ EndRun(a).resumeAt = a.resumeAt
           /\ Selected(EndRun(a)) = Selected(a)
  <1> DEFINE e == EndRun(a)
  <1>1. e \in Panes
    BY DEF EndRun, Panes, Waits
  <1>2. /\ e.pending = None /\ e.applying = FALSE /\ e.gen = a.gen /\ e.plan = a.plan
        /\ e.resumeAt = a.resumeAt /\ e.picked = a.picked /\ e.sample = a.sample /\ e.paste = a.paste
    BY DEF EndRun, Panes
  <1> HIDE DEF e
  <1>3. Selected(e) = Selected(a)
    BY <1>2, SelectedOf
  <1> QED
    BY <1>1, <1>2, <1>3 DEF e

(* A pane without a run, showing the plan q or what it showed.             *)
Settled(q, r) ==
    /\ pane' \in Panes
    /\ pane'.pending = None /\ ~pane'.applying /\ pane'.gen = pane.gen
    /\ Selected(pane') = Selected(pane)
    /\ pane'.plan = q /\ pane'.resumeAt = r

LEMMA SettledHolds ==
    ASSUME TypeInv, PaneInv, flights' \subseteq flights, file' = file, landed' = landed,
           NEW q, NEW r, Settled(q, r), Sent(Selected(pane), r),
           q # None => q = PlanKey(pane, q.from) /\ Sent(q.sel, q.from)
    PROVE  PaneInv'
  <1>1. \A s, i : Sent(s, i)' <=> Sent(s, i)
    BY DEF Sent
  <1>2. PlanIsCurrent' /\ Waiting'
    BY DEF PlanIsCurrent, Waiting, Settled, PlanKey
  <1>3. Resuming'
    BY <1>1 DEF Resuming, Settled
  <1>4. ASSUME NEW f \in flights' PROVE FlightInv(f)'
    BY <1>1 DEF FlightInv, Settled, PaneInv
  <1> QED
    BY <1>2, <1>3, <1>4 DEF PaneInv

LEMMA PlanDoneHolds ==
    ASSUME IInv, NEW f \in flights, PlanDone(f)
    PROVE  /\ pane' \in Panes /\ PaneInv' /\ (pane'.applying => pane.applying)
           /\ overlay' = overlay \/ (~loadErr /\ ~pane'.applying /\ overlay'.plan # None)
  <1> DEFINE p == pane.pending
             a == EndRun(pane)
             shown == [a EXCEPT !.plan = f.of, !.old = FALSE]
  <1>1. /\ f.kind = "plan" /\ flights' = flights \ {f}
        /\ UNCHANGED <<file, loadErr, landed>>
    BY DEF PlanDone, document
  <1>2. TypeInv /\ PaneInv /\ pane \in Panes /\ f \in Flights /\ f.of \in PlanKeys /\ FlightInv(f)
    BY DEF IInv, TypeInv, PaneInv, Flights
  <1>3. Sent(Selected(pane), pane.resumeAt) /\ Sent(Selected(pane), 0)
    <2>1. Sent(Selected(pane), 0)
      BY SMT DEF Sent
    <2> QED
      BY <2>1, <1>2 DEF PaneInv, Resuming
  <1>4. pane.plan # None => pane.plan = PlanKey(pane, pane.plan.from) /\ Sent(pane.plan.sel, pane.plan.from)
    BY <1>2 DEF PaneInv, PlanIsCurrent, Resuming
  <1>5. CASE Late(f)
    <2>1. pane' = pane /\ overlay' = overlay
      BY <1>5 DEF PlanDone
    <2>2. PaneInv'
      <3>1. \A s, i : Sent(s, i)' <=> Sent(s, i)
        BY <1>1 DEF Sent
      <3> QED
        BY <1>1, <1>2, <2>1, <3>1
        DEF PaneInv, PlanIsCurrent, Waiting, Resuming, FlightInv, PlanKey
    <2> QED
      BY <1>2, <2>1, <2>2
  <1>6. CASE ~Late(f)
    <2>1. /\ p # None /\ f.of = p.key /\ ~loadErr /\ ~pane.applying /\ pane.plan = None
          /\ Sent(f.of.sel, f.of.from)
      BY <1>1, <1>2, <1>6 DEF Late, FlightInv, PaneInv, Waiting
    <2>2. a \in Panes /\ a.pending = None /\ ~a.applying /\ a.gen = pane.gen /\ a.plan = None
          /\ a.resumeAt = pane.resumeAt /\ Selected(a) = Selected(pane)
      BY <1>2, <2>1, EndRunType, Zenon
    <2> HIDE DEF a
    <2>3. shown \in Panes
      <3>1. f.of \in Planned
        BY <1>2 DEF Planned
      <3> QED
        BY <2>2, <3>1 DEF Panes
    <2>4. /\ shown.pending = a.pending /\ shown.applying = a.applying /\ shown.gen = a.gen
          /\ shown.plan = f.of /\ shown.resumeAt = a.resumeAt
          /\ shown.picked = a.picked /\ shown.sample = a.sample /\ shown.paste = a.paste
      BY <2>2 DEF Panes
    <2>5. Selected(shown) = Selected(a)
      <3> HIDE DEF shown
      <3> QED
        BY <2>4, SelectedOf
    <2>6. CASE pane' = a /\ UNCHANGED overlay
      <3>1. Settled(None, pane.resumeAt)
        BY <2>2, <2>6 DEF Settled
      <3> QED
        BY <1>1, <1>2, <1>3, <2>2, <2>6, <3>1, SettledHolds
    <2>7. CASE p.key = PlanKey(pane, p.key.from)
               /\ pane' = [shown EXCEPT !.resumeAt = 0] /\ UNCHANGED overlay
      <3> DEFINE e == [shown EXCEPT !.resumeAt = 0]
      <3> HIDE DEF shown
      <3>1. e \in Panes
        BY <2>3 DEF Panes
      <3>2. /\ e.pending = shown.pending /\ e.applying = shown.applying /\ e.gen = shown.gen
            /\ e.plan = shown.plan /\ e.resumeAt = 0
            /\ e.picked = shown.picked /\ e.sample = shown.sample /\ e.paste = shown.paste
        BY <2>3 DEF Panes
      <3>3. pane' = e
        BY <2>7
      <3> HIDE DEF e
      <3>4. Selected(e) = Selected(shown)
        BY <3>2, SelectedOf
      <3>5. Settled(f.of, 0)
        BY <2>2, <2>4, <2>5, <3>1, <3>2, <3>3, <3>4 DEF Settled
      <3> QED
        BY <1>1, <1>2, <1>3, <2>1, <2>2, <2>4, <2>7, <3>1, <3>2, <3>3, <3>5, SettledHolds
    <2>8. CASE /\ p.key = PlanKey(pane, p.key.from)
               /\ pane' = shown
               /\ overlay' = overlay \/ overlay'.plan # None
      <3> HIDE DEF shown
      <3>1. Settled(f.of, pane.resumeAt)
        BY <2>2, <2>3, <2>4, <2>5, <2>8 DEF Settled
      <3> QED
        BY <1>1, <1>2, <1>3, <2>1, <2>2, <2>3, <2>4, <2>8, <3>1, SettledHolds
    <2>9. CASE pane' = DropPlan(shown) /\ UNCHANGED overlay
      <3> DEFINE e == DropPlan(shown)
      <3> HIDE DEF shown
      <3>0. ~shown.applying /\ shown.pending = None /\ shown.gen = pane.gen
        BY <2>2, <2>4
      <3>1. /\ e \in Panes /\ Dropped(shown, e) /\ Selected(e) = Selected(shown)
            /\ e.resumeAt = shown.resumeAt
        BY <2>3, <3>0, DropType
      <3>2. e = [shown EXCEPT !.plan = None, !.old = FALSE]
        BY <3>0, Zenon DEF DropPlan, CancelPlanning
      <3>3. e.gen = shown.gen
        BY <2>3, <3>2 DEF Panes
      <3> HIDE DEF e
      <3>4. Settled(None, pane.resumeAt)
        BY <2>2, <2>4, <2>5, <2>9, <3>0, <3>1, <3>3 DEF Settled, Dropped, e
      <3> QED
        BY <1>1, <1>2, <1>3, <2>9, <3>1, <3>4, SettledHolds DEF Dropped, e
    <2>10. f.of # None
      BY <1>2 DEF PlanKeys, Samples
    <2> QED
      BY <1>6, <2>4, <2>6, <2>7, <2>8, <2>9, <2>10 DEF PlanDone, AskOnArrival, a
  <1> QED
    BY <1>5, <1>6

(* Execute sends one event more.                                           *)
LEMMA SendEventHolds ==
    ASSUME IInv, NEW f \in flights, SendEvent(f)
    PROVE  pane' = pane /\ flights' \subseteq Flights /\ PaneInv'
  <1>1. /\ f.kind = "apply" /\ f.at <= Len(f.of.sel) /\ f.at \in Nat /\ f \in Flights
        /\ UNCHANGED <<file, loadErr, pane>> /\ landed' = landed \cup {f.of.sel[f.at]}
        /\ f.gen \in Nat
    BY DEF SendEvent, document, IInv, TypeInv, Flights
  <1> DEFINE h == [f EXCEPT !.at = @ + 1]
             n == f.at + 1
  <1>2. h = [f EXCEPT !.at = n] /\ n \in Nat
    BY <1>1 DEF Flights
  <1>3. /\ h \in Flights /\ h.kind = "apply" /\ h.gen = f.gen /\ h.of = f.of /\ h.at = n
    BY <1>1, <1>2 DEF Flights
  <1>4. flights' = (flights \ {f}) \cup {h}
    BY DEF SendEvent
  <1> HIDE DEF h
  <1>5. \A s, i : Sent(s, i) => Sent(s, i)'
    BY <1>1 DEF Sent
  <1>6. FlightInv(f)
    BY DEF IInv, PaneInv
  <1>7. Sent(f.of.sel, n)'
    <2>1. \A i \in 1..(n - 1) : i \in 1..(f.at - 1) \/ i = f.at
      BY <1>1, SMT
    <2> QED
      BY <1>1, <1>5, <1>6, <2>1 DEF FlightInv, Sent
  <1>8. FlightInv(h)'
    BY <1>1, <1>3, <1>6, <1>7 DEF FlightInv
  <1>9. ASSUME NEW g \in flights PROVE FlightInv(g)'
    BY <1>1, <1>5 DEF FlightInv, IInv, PaneInv
  <1>10. (PlanIsCurrent /\ Waiting /\ Resuming)'
    BY <1>1, <1>5 DEF PlanIsCurrent, Waiting, Resuming, IInv, PaneInv, PlanKey
  <1> QED
    BY <1>1, <1>3, <1>4, <1>8, <1>9, <1>10 DEF PaneInv, IInv, TypeInv

(* An apply ends: what it has sent is what resuming skips.                 *)
LEMMA ApplyDoneHolds ==
    ASSUME IInv, NEW f \in flights, ApplyDone(f)
    PROVE  pane' \in Panes /\ PaneInv' /\ (pane'.applying => pane.applying)
  <1>1. /\ f.kind = "apply" /\ flights' = flights \ {f} /\ UNCHANGED <<file, loadErr, landed>>
    BY DEF ApplyDone, document
  <1>2. TypeInv /\ PaneInv /\ pane \in Panes /\ f \in Flights /\ f.at \in Nat /\ FlightInv(f)
    BY DEF IInv, TypeInv, PaneInv, Flights
  <1>3. CASE f.gen # pane.gen \/ ~pane.applying
    <2>1. pane' = pane
      BY <1>3 DEF ApplyDone
    <2>2. \A s, i : Sent(s, i)' <=> Sent(s, i)
      BY <1>1 DEF Sent
    <2>3. PaneInv'
      BY <1>1, <1>2, <2>1, <2>2 DEF PaneInv, PlanIsCurrent, Waiting, Resuming, FlightInv, PlanKey
    <2> QED
      BY <1>2, <2>1, <2>3
  <1>4. CASE ~(f.gen # pane.gen \/ ~pane.applying)
    <2> DEFINE a == EndRun(pane)
               r == IF f.at > Len(f.of.sel) THEN 0 ELSE f.at
               e == [a EXCEPT !.plan = None, !.old = FALSE, !.resumeAt = r]
    <2>1. pane' = e
      BY <1>4, Zenon DEF ApplyDone
    <2>2. a \in Panes /\ a.pending = None /\ ~a.applying /\ a.gen = pane.gen
          /\ Selected(a) = Selected(pane)
      BY <1>2, EndRunType, Zenon
    <2>3. r \in Nat
      BY <1>2
    <2> HIDE DEF a
    <2>4. r = 0 \/ r = f.at
      OBVIOUS
    <2> HIDE DEF r
    <2>5. e \in Panes
      <3>1. None \in Planned
        BY DEF Planned
      <3> QED
        BY <2>2, <2>3, <3>1 DEF Panes
    <2>6. /\ e.pending = a.pending /\ e.applying = a.applying /\ e.gen = a.gen
          /\ e.plan = None /\ e.resumeAt = r
          /\ e.picked = a.picked /\ e.sample = a.sample /\ e.paste = a.paste
      BY <2>2 DEF Panes
    <2> HIDE DEF e
    <2>7. Selected(e) = Selected(a)
      BY <2>6, SelectedOf
    <2>8. Sent(Selected(pane), r)
      <3>1. f.of = pane.plan /\ pane.plan # None /\ Sent(f.of.sel, f.at)
        BY <1>1, <1>2, <1>4 DEF FlightInv, PaneInv, PlanIsCurrent
      <3>2. f.of.sel = Selected(pane)
        BY <1>2, <3>1 DEF PaneInv, PlanIsCurrent, PlanKey
      <3>3. Sent(Selected(pane), 0)
        BY SMT DEF Sent
      <3> QED
        BY <2>4, <3>1, <3>2, <3>3
    <2>9. Settled(None, r)
      BY <2>1, <2>2, <2>5, <2>6, <2>7 DEF Settled
    <2> QED
      BY <1>1, <1>2, <2>1, <2>2, <2>5, <2>6, <2>8, <2>9, SettledHolds
  <1> QED
    BY <1>3, <1>4

-------------------------------------------------------------------------------
(* Every step.                                                             *)

(* The pane's half: what a step makes of the pane and its runs, and that   *)
(* nothing but the y of the question starts to send.                       *)
PaneStep ==
    /\ pane' \in Panes /\ flights' \subseteq Flights /\ PaneInv'
    /\ pane'.applying => pane.applying \/ StartApply

LEMMA SteadyStep ==
    ASSUME TypeInv, PaneInv, Steady
    PROVE  PaneStep
  BY SteadyHolds DEF PaneStep, Steady, TypeInv

(* An edit, a dialog, the debounce, or another program: the pane rests.    *)
LEMMA RestSteady ==
    ASSUME TypeInv, PaneInv, UNCHANGED <<pane, flights, landed, file, loadErr>>
    PROVE  Steady
  BY DEF Steady, Same, TypeInv

(* A choice of other events drops the plan of the ones before.             *)
LEMMA ChooseSteady ==
    ASSUME TypeInv, Pick \/ Paste \/ Unpaste
    PROVE  Steady
  <1>1. /\ ~pane.applying /\ UNCHANGED <<flights, landed, file, loadErr>> /\ pane \in Panes
    BY DEF Pick, Paste, Unpaste, Choosing, document, TypeInv
  <1>2. PICK c \in Panes : ~c.applying /\ c.gen = pane.gen /\ pane' = SelectionChanged(c)
    <2>1. CASE Pick
      <3> DEFINE c == [pane EXCEPT !.picked = ~pane.picked]
      <3>1. (~pane.picked) \in BOOLEAN
        BY Zenon
      <3>2. c \in Panes /\ ~c.applying /\ c.gen = pane.gen
        BY <1>1, <3>1 DEF Panes
      <3>3. pane' = SelectionChanged(c)
        BY <2>1, Zenon DEF Pick
      <3> QED
        BY <3>2, <3>3
    <2>2. CASE Paste \/ Unpaste
      <3>1. PICK q \in Marks : pane' = SelectionChanged([pane EXCEPT !.paste = q])
        BY <2>2 DEF Paste, Unpaste, Marks
      <3>2. [pane EXCEPT !.paste = q] \in Panes /\ ~[pane EXCEPT !.paste = q].applying
            /\ [pane EXCEPT !.paste = q].gen = pane.gen
        BY <1>1 DEF Panes
      <3> QED
        BY <3>1, <3>2
    <2> QED
      BY <2>1, <2>2
  <1>3. pane' \in Panes /\ Dropped(pane, pane')
    BY <1>1, <1>2, ChangeType
  <1> QED
    BY <1>1, <1>3 DEF Steady

(* Quitting while events are sent stops the run and changes no number.     *)
LEMMA QuitHolds ==
    ASSUME IInv, Quit
    PROVE  PaneStep
  <1>1. TypeInv /\ PaneInv /\ UNCHANGED <<landed, file, loadErr>>
    BY DEF IInv, Quit
  <1>2. CASE pane.applying
    <2>1. pane' = pane /\ flights' = {Stopped(f) : f \in flights}
      BY <1>2 DEF Quit
    <2>2. ASSUME NEW f \in flights
          PROVE  /\ Stopped(f) \in Flights
                 /\ Stopped(f).kind = f.kind /\ Stopped(f).gen = f.gen
                 /\ Stopped(f).of = f.of /\ Stopped(f).at = f.at
      <3>1. f \in Flights
        BY <1>1 DEF TypeInv
      <3>2. (f.stop \/ f.kind = "apply") \in BOOLEAN
        BY Zenon
      <3>3. PICK x \in BOOLEAN : Stopped(f) = [f EXCEPT !.stop = x]
        BY <3>1, <3>2, Zenon DEF Stopped
      <3> QED
        BY <3>1, <3>3 DEF Flights
    <2>3. \A s, i : Sent(s, i)' <=> Sent(s, i)
      BY <1>1 DEF Sent
    <2>4. ASSUME NEW g \in flights' PROVE FlightInv(g)'
      <3>1. PICK f \in flights : g = Stopped(f)
        BY <2>1
      <3> QED
        BY <1>1, <2>1, <2>2, <2>3, <3>1 DEF FlightInv, PaneInv
    <2>5. (PlanIsCurrent /\ Waiting /\ Resuming)'
      BY <1>1, <2>1, <2>3 DEF PaneInv, PlanIsCurrent, Waiting, Resuming, PlanKey
    <2>6. flights' \subseteq Flights
      BY <2>1, <2>2
    <2> QED
      BY <1>1, <1>2, <2>1, <2>4, <2>5, <2>6 DEF PaneStep, PaneInv, TypeInv
  <1>3. CASE ~pane.applying
    <2>1. (pane' = pane \/ pane' = CancelPlanning(pane)) /\ flights' = flights
      BY <1>3 DEF Quit
    <2>2. Steady
      BY <1>1, <1>3, <2>1, CancelSteady DEF Steady, Same, TypeInv
    <2> QED
      BY <1>1, <2>2, SteadyStep
  <1> QED
    BY <1>2, <1>3

(* Loading the file again takes its plan, unless events are being sent or  *)
(* there is nothing to load.                                               *)
LEMMA ReloadSteady ==
    ASSUME TypeInv, Reload
    PROVE  Steady
  <1>1. UNCHANGED <<flights, landed>>
    BY DEF Reload
  <1>2. CASE pane.applying \/ disk = None
    BY <1>1, <1>2, ShownSteady DEF Reload, Steady, document
  <1>3. CASE ~pane.applying /\ disk = Broken /\ disk # None
    <2>1. pane' = DropPlan(pane)
      BY <1>3 DEF Reload
    <2> QED
      BY <1>1, <1>3, <2>1, DropType DEF Steady, TypeInv
  <1>4. CASE ~pane.applying /\ disk # None /\ disk # Broken
    <2>1. pane' = SyncApply(DropPlan(pane), disk.doc, FALSE) /\ disk.doc \in Docs
      BY <1>4 DEF Reload, TypeInv, Texts
    <2> QED
      BY <1>1, <1>4, <2>1, ReplacedDrops DEF Steady
  <1> QED
    BY <1>2, <1>3, <1>4

(* A save made drops the plan of the file it replaced.                     *)
LEMMA RenameSteady ==
    ASSUME IInv, Rename
    PROVE  Steady
  <1>1. UNCHANGED <<flights, landed, loadErr>> /\ ~pane.applying /\ TypeInv
    BY DEF Rename, IInv, DialogInv
  <1>2. CASE pane' = SyncApply(DropPlan(pane), doc, loadErr)
    BY <1>1, <1>2, ReplacedDrops DEF Steady, TypeInv
  <1>3. CASE UNCHANGED <<file, pane>>
    BY <1>1, <1>3 DEF Steady, Same, TypeInv
  <1> QED
    BY <1>2, <1>3 DEF Rename

LEMMA PaneHolds ==
    ASSUME IInv, [Next]_vars
    PROVE  PaneStep
  <1>0. TypeInv /\ PaneInv
    BY DEF IInv
  <1>1. CASE SaveKey \/ QuitSave
    <2>1. (pane' = pane \/ pane' = Shown(pane)) /\ UNCHANGED <<flights, landed, file, loadErr>>
      BY <1>1 DEF SaveKey, QuitSave, Save
    <2>2. Steady
      BY <1>0, <2>1, ShownSteady DEF Steady, Same, TypeInv
    <2> QED
      BY <1>0, <2>2, SteadyStep
  <1>2. CASE Rename
    BY <1>0, <1>2, RenameSteady, SteadyStep
  <1>3. CASE SaveReformatted \/ Overwrite \/ CancelDialog
    <2>1. (pane' = pane \/ pane' = Shown(pane)) /\ UNCHANGED <<flights, landed, file, loadErr>>
      BY <1>3 DEF SaveReformatted, Overwrite, CancelDialog, document
    <2>2. Steady
      BY <1>0, <2>1, ShownSteady DEF Steady, Same, TypeInv
    <2> QED
      BY <1>0, <2>2, SteadyStep
  <1>4. CASE ReloadConfirmed \/ EditorDone
    BY <1>0, <1>4, ReloadSteady, SteadyStep DEF ReloadConfirmed, EditorDone
  <1>5. CASE AnswerConflict \/ (\E d \in Docs : Edit(d)) \/ Debounced \/ Outside \/ UNCHANGED vars
    <2>1. UNCHANGED <<pane, flights, landed, file, loadErr>>
      BY <1>5 DEF AnswerConflict, Edit, Debounced, Outside, vars, document
    <2> QED
      BY <1>0, <2>1, RestSteady, SteadyStep
  <1>6. CASE Quit
    BY <1>6, QuitHolds
  <1>7. CASE QuitDiscard \/ CancelKey
    <2>1. pane' = CancelPlanning(pane) /\ UNCHANGED <<flights, landed, file, loadErr>>
      BY <1>7 DEF QuitDiscard, CancelKey, Choosing, document
    <2>2. CASE pane.applying
      <3>1. CASE pane.pending = None
        BY <1>0, <2>1, <3>1, RestSteady, SteadyStep DEF CancelPlanning
      <3> QED
        BY <1>0, <2>2, <3>1 DEF PaneInv, Waiting
    <2>3. CASE ~pane.applying
      <3>1. Steady
        BY <1>0, <2>1, <2>3, CancelSteady DEF Steady
      <3> QED
        BY <1>0, <3>1, SteadyStep
    <2> QED
      BY <2>2, <2>3
  <1>8. CASE \E p \in {"rules", "apply"} : Show(p)
    <2>1. /\ pane' = pane \/ pane' = SyncApply(pane, doc, loadErr \/ fresh)
          /\ UNCHANGED <<flights, landed, file, loadErr>>
      BY <1>8, Zenon DEF Show, document
    <2>2. (loadErr \/ fresh) \in BOOLEAN /\ doc \in Docs
      BY <1>0, Zenon DEF TypeInv
    <2>3. Steady
      BY <1>0, <2>1, <2>2, SyncSteady DEF Steady, Same, TypeInv
    <2> QED
      BY <1>0, <2>3, SteadyStep
  <1>9. CASE Pick \/ Paste \/ Unpaste
    BY <1>0, <1>9, ChooseSteady, SteadyStep
  <1>10. CASE PlanOrResume
    BY <1>10, PlanOrResumeHolds DEF PaneStep, Kept
  <1>11. CASE Ask
    BY <1>11, AskHolds DEF PaneStep, Kept
  <1>12. CASE \E f \in flights : PlanDone(f)
    <2>1. flights' \subseteq Flights
      BY <1>0, <1>12 DEF PlanDone, TypeInv
    <2> QED
      BY <1>12, <2>1, PlanDoneHolds DEF PaneStep
  <1>13. CASE \E f \in flights : SendEvent(f)
    BY <1>0, <1>13, SendEventHolds DEF PaneStep, TypeInv
  <1>14. CASE \E f \in flights : ApplyDone(f)
    <2>1. flights' \subseteq Flights
      BY <1>0, <1>14 DEF ApplyDone, TypeInv
    <2> QED
      BY <1>14, <2>1, ApplyDoneHolds DEF PaneStep
  <1>15. CASE StartApply
    BY <1>15, StartApplyHolds DEF PaneStep
  <1>16. CASE Age
    <2>1. pane' = [pane EXCEPT !.old = TRUE] /\ UNCHANGED <<flights, landed, file, loadErr>>
      BY <1>16 DEF Age, document
    <2>2. Steady
      <3> DEFINE e == [pane EXCEPT !.old = TRUE]
      <3>1. e \in Panes /\ e.pending = pane.pending /\ e.applying = pane.applying /\ e.gen = pane.gen
            /\ e.plan = pane.plan /\ e.resumeAt = pane.resumeAt
            /\ e.picked = pane.picked /\ e.sample = pane.sample /\ e.paste = pane.paste
        BY <1>0 DEF TypeInv, Panes
      <3> HIDE DEF e
      <3>2. Selected(e) = Selected(pane)
        BY <3>1, SelectedOf
      <3> QED
        BY <2>1, <3>1, <3>2 DEF Steady, Same, e
    <2> QED
      BY <1>0, <2>2, SteadyStep
  <1> QED
    BY <1>1, <1>2, <1>3, <1>4, <1>5, <1>6, <1>7, <1>8, <1>9, <1>10, <1>11, <1>12, <1>13, <1>14,
       <1>15, <1>16
    DEF Next

(* The document's half.                                                    *)
DocTypes ==
    /\ doc \in Docs /\ file \in Texts \cup {None} /\ disk \in Texts \cup {Broken, None}
    /\ fresh \in BOOLEAN /\ loadErr \in BOOLEAN /\ dirty \in BOOLEAN

DocStep == DocTypes' /\ DocInv'

(* What asks for nothing to be saved means what the file means.            *)
LEMMA NothingToSave ==
    ASSUME Loaded, ~Unsaved, ~loadErr
    PROVE  ~fresh /\ file.doc = doc
  BY DEF Loaded, Unsaved

LEMMA SaveHolds ==
    ASSUME IInv, SaveKey \/ QuitSave
    PROVE  DocStep
  <1>1. /\ DocTypes /\ DocInv /\ commit = None
        /\ UNCHANGED <<disk, file, fresh, loadErr, doc>>
    BY DEF IInv, TypeInv, DocTypes, SaveKey, QuitSave, Idle, Save
  <1>2. CASE SaveOutcome = "nothing"
    <2>1. ~Unsaved
      BY <1>2 DEF SaveOutcome
    <2>2. dirty' \in BOOLEAN
      BY <1>2, Zenon DEF SaveKey, QuitSave, Save
    <2>3. ~loadErr => ~fresh /\ file.doc = doc
      BY <1>1, <2>1, NothingToSave DEF DocInv
    <2>4. commit' = None
      BY <1>1, <1>2 DEF SaveKey, QuitSave, Save
    <2> QED
      BY <1>1, <2>2, <2>3, <2>4
      DEF DocStep, DocTypes, DocInv, Loaded, Editable, CleanMeansSaved, Committed
  <1>3. CASE SaveOutcome # "nothing"
    <2>1. dirty' = dirty
      BY <1>1, <1>3 DEF SaveKey, QuitSave, Save, DocTypes
    <2>2. Committed'
      <3>1. CASE SaveOutcome = "write"
        <4>1. commit' = Put(fresh, TRUE, FALSE) \/ commit' = Put(fresh, FALSE, FALSE)
          BY <3>1, Zenon DEF SaveKey, QuitSave, Save
        <4>2. fresh \/ disk = file
          BY <3>1 DEF SaveOutcome, ChangedOnDisk
        <4>3. commit'.text = [doc |-> doc, layout |-> "kept"] /\ (commit'.new <=> fresh)
          BY <4>1, <1>1 DEF Put, DocTypes
        <4>4. commit'.text \in Texts /\ commit'.text.doc = doc
          BY <1>1, <4>3 DEF Texts, DocTypes
        <4> QED
          BY <1>1, <4>2, <4>3, <4>4, Zenon DEF Committed
      <3>2. CASE SaveOutcome # "write"
        <4>1. commit' = None
          BY <1>1, <3>2 DEF SaveKey, QuitSave, Save
        <4> QED
          BY <4>1 DEF Committed
      <3> QED
        BY <3>1, <3>2
    <2> QED
      BY <1>1, <2>1, <2>2
      DEF DocStep, DocTypes, DocInv, Loaded, Editable, CleanMeansSaved
  <1> QED
    BY <1>2, <1>3

LEMMA PutHolds ==
    ASSUME IInv, SaveReformatted \/ Overwrite
    PROVE  DocStep
  <1>1. /\ DocTypes /\ DocInv /\ commit = None
        /\ UNCHANGED <<disk, file, fresh, loadErr, doc, dirty>>
    BY DEF IInv, TypeInv, DocTypes, SaveReformatted, Overwrite, Idle, document
  <1>2. \A new, leave, confirmed : Put(new, leave, confirmed).text \in Texts
                                   /\ Put(new, leave, confirmed).text.doc = doc
                                   /\ Put(new, leave, confirmed).confirmed = confirmed
    BY <1>1 DEF Put, Texts, DocTypes
  <1>3. Committed'
    <2>1. CASE SaveReformatted
      <3>1. CASE commit' = None
        BY <3>1 DEF Committed
      <3>2. CASE commit' = Put(FALSE, overlay.kind = "reformat and quit", FALSE) /\ ~ChangedOnDisk
        <4>1. commit'.text \in Texts /\ commit'.text.doc = doc
          BY <1>1, <3>2 DEF Put, Texts, DocTypes
        <4> QED
          BY <1>1, <3>2, <4>1, Zenon DEF ChangedOnDisk, Committed
      <3> QED
        BY <1>1, <2>1, <3>1, <3>2 DEF SaveReformatted
    <2>2. CASE Overwrite
      <3>1. CASE commit' = None
        BY <3>1 DEF Committed
      <3>2. CASE commit' = Put(FALSE, FALSE, TRUE)
        BY <1>1, <1>2, <3>2 DEF Committed
      <3> QED
        BY <2>2, <3>1, <3>2 DEF Overwrite
    <2> QED
      BY <2>1, <2>2
  <1> QED
    BY <1>1, <1>3
    DEF DocStep, DocTypes, DocInv, Loaded, Editable, CleanMeansSaved

LEMMA RenameHolds ==
    ASSUME IInv, Rename
    PROVE  DocStep
  <1>1. /\ DocTypes /\ DocInv /\ commit # None /\ commit' = None
        /\ UNCHANGED <<doc, loadErr>>
    BY DEF IInv, TypeInv, DocTypes, Rename
  <1>2. commit.text \in Texts /\ commit.text.doc = doc
    BY <1>1 DEF DocInv, Committed
  <1>3. CASE disk' = commit.text /\ file' = commit.text /\ fresh' = FALSE /\ dirty' = FALSE
    BY <1>1, <1>2, <1>3 DEF DocStep, DocTypes, DocInv, Loaded, CleanMeansSaved, Committed
  <1>4. CASE UNCHANGED <<disk, file, fresh, dirty>>
    BY <1>1, <1>4
    DEF DocStep, DocTypes, DocInv, Loaded, Editable, CleanMeansSaved, Committed
  <1> QED
    BY <1>3, <1>4 DEF Rename

LEMMA ReloadHolds ==
    ASSUME IInv, ReloadConfirmed \/ EditorDone
    PROVE  DocStep
  <1>1. /\ DocTypes /\ DocInv /\ commit = None /\ commit' = None /\ disk' = disk /\ Reload
    BY DEF IInv, TypeInv, DocTypes, ReloadConfirmed, EditorDone, Reload, Idle
  <1>2. CASE UNCHANGED document
    BY <1>1, <1>2
    DEF document, DocStep, DocTypes, DocInv, Loaded, Editable, CleanMeansSaved, Committed
  <1>3. CASE /\ file' = None /\ fresh' = FALSE /\ loadErr' = TRUE /\ dirty' = FALSE /\ UNCHANGED doc
    BY <1>1, <1>3 DEF DocStep, DocTypes, DocInv, Loaded, CleanMeansSaved, Committed
  <1>4. CASE /\ disk # Broken /\ disk # None
             /\ file' = disk /\ fresh' = FALSE /\ loadErr' = FALSE /\ dirty' = FALSE
             /\ doc' = disk.doc
    BY <1>1, <1>4 DEF DocStep, DocTypes, DocInv, Loaded, CleanMeansSaved, Committed, Texts
  <1> QED
    BY <1>1, <1>2, <1>3, <1>4 DEF Reload

LEMMA DocHolds ==
    ASSUME IInv, [Next]_vars
    PROVE  DocStep
  <1>0. DocTypes /\ DocInv
    BY DEF IInv, TypeInv, DocTypes
  <1>1. CASE SaveKey \/ QuitSave
    BY <1>1, SaveHolds
  <1>2. CASE Rename
    BY <1>2, RenameHolds
  <1>3. CASE SaveReformatted \/ Overwrite
    BY <1>3, PutHolds
  <1>4. CASE ReloadConfirmed \/ EditorDone
    BY <1>4, ReloadHolds
  <1>5. CASE \E d \in Docs : Edit(d)
    <2>1. /\ fresh \/ Editable(file)
          /\ dirty' = TRUE /\ doc' \in Docs /\ commit = None
          /\ UNCHANGED <<disk, file, fresh, loadErr, commit>>
      BY <1>5 DEF Edit, Idle
    <2> QED
      BY <1>0, <2>1
      DEF DocStep, DocTypes, DocInv, Loaded, Editable, CleanMeansSaved, Committed
  <1>6. CASE Debounced
    <2>1. /\ dirty' = Unsaved /\ commit = None
          /\ UNCHANGED <<disk, file, fresh, loadErr, doc, commit>>
      BY <1>6 DEF Debounced, Idle
    <2>2. dirty' \in BOOLEAN
      BY <2>1, Zenon DEF Unsaved
    <2>3. ~dirty' /\ ~loadErr => ~fresh /\ file.doc = doc
      BY <1>0, <2>1, NothingToSave, Zenon DEF DocInv
    <2> QED
      BY <1>0, <2>1, <2>2, <2>3
      DEF DocStep, DocTypes, DocInv, Loaded, Editable, CleanMeansSaved, Committed
  <1>7. CASE Quit
    <2>1. commit = None /\ UNCHANGED <<disk, file, fresh, loadErr, doc, commit>>
      BY <1>7 DEF Quit, Idle
    <2>2. dirty' = dirty \/ dirty' = (dirty /\ Unsaved)
      BY <1>7, Zenon DEF Quit
    <2>3. dirty' \in BOOLEAN
      BY <1>0, <2>2, Zenon DEF DocTypes
    <2>4. ~dirty' /\ ~loadErr => ~fresh /\ file.doc = doc
      BY <1>0, <2>2, NothingToSave, Zenon DEF DocInv, CleanMeansSaved
    <2> QED
      BY <1>0, <2>1, <2>3, <2>4
      DEF DocStep, DocTypes, DocInv, Loaded, Editable, CleanMeansSaved, Committed
  <1>8. CASE Outside
    <2>1. /\ disk' \in Texts \cup {Broken, None} /\ (commit = None \/ EditorRaces)
          /\ UNCHANGED <<file, fresh, loadErr, doc, dirty, commit>>
      BY <1>8 DEF Outside, document, Texts
    <2> QED
      BY <1>0, <2>1
      DEF DocStep, DocTypes, DocInv, Loaded, Editable, CleanMeansSaved, Committed
  <1>9. CASE UNCHANGED <<disk, document, commit>>
    BY <1>0, <1>9
    DEF document, DocStep, DocTypes, DocInv, Loaded, Editable, CleanMeansSaved, Committed
  <1>10. \/ AnswerConflict \/ CancelDialog \/ QuitDiscard \/ Pick \/ Paste \/ Unpaste \/ CancelKey
         \/ PlanOrResume \/ Ask \/ StartApply \/ Age \/ (\E p \in {"rules", "apply"} : Show(p))
         \/ (\E f \in flights : PlanDone(f) \/ SendEvent(f) \/ ApplyDone(f)) \/ UNCHANGED vars
         => UNCHANGED <<disk, document, commit>>
    BY DEF AnswerConflict, CancelDialog, QuitDiscard, Pick, Paste, Unpaste, CancelKey, Choosing,
       PlanOrResume, Ask, StartApply, Age, Show, PlanDone, SendEvent, ApplyDone, vars, document
  <1> QED
    BY <1>1, <1>2, <1>3, <1>4, <1>5, <1>6, <1>7, <1>8, <1>9, <1>10 DEF Next

(* The dialog's half: the question closes before anything it relies on     *)
(* changes.                                                                *)
LEMMA DialogHolds ==
    ASSUME IInv, [Next]_vars
    PROVE  DialogInv'
  <1>0. TypeInv /\ DialogInv /\ PaneStep
    BY PaneHolds DEF IInv
  <1>1. commit' # None => ~pane'.applying
    <2>1. CASE StartApply
      BY <2>1 DEF StartApply, Idle
    <2>2. CASE ~StartApply
      <3>1. commit' = None \/ commit' = commit \/ ~pane.applying
        <4>1. CASE SaveKey \/ QuitSave
          BY <4>1, Zenon DEF SaveKey, QuitSave, Save, SaveOutcome
        <4>2. CASE SaveReformatted \/ Overwrite
          BY <4>2, Zenon DEF SaveReformatted, Overwrite, Idle
        <4>3. CASE ~(SaveKey \/ QuitSave \/ SaveReformatted \/ Overwrite)
          BY <2>2, <4>3
          DEF Next, vars, Rename, ReloadConfirmed, EditorDone, Reload, AnswerConflict, CancelDialog,
              Edit, Debounced, Quit, QuitDiscard, Show, Pick, Paste, Unpaste, CancelKey, Choosing,
              PlanOrResume, Ask, PlanDone, SendEvent, ApplyDone, Age, Outside
        <4> QED
          BY <4>1, <4>2, <4>3
      <3> QED
        BY <1>0, <2>2, <3>1 DEF PaneStep, DialogInv
    <2> QED
      BY <2>1, <2>2
  <1>2. overlay'.kind = "apply" => ~loadErr' /\ ~pane'.applying /\ overlay'.plan # None
    <2>1. CASE Ask
      <3>1. Kept /\ (overlay' = overlay \/ overlay'.plan # None)
        BY <2>1, AskHolds
      <3> QED
        BY <1>0, <3>1 DEF Kept, DialogInv
    <2>2. CASE \E f \in flights : PlanDone(f)
      <3>1. UNCHANGED loadErr
        BY <2>2 DEF PlanDone, document
      <3>2. /\ pane'.applying => pane.applying
            /\ overlay' = overlay \/ (~loadErr /\ ~pane'.applying /\ overlay'.plan # None)
        BY <2>2, PlanDoneHolds
      <3> QED
        BY <1>0, <3>1, <3>2 DEF DialogInv
    <2>3. CASE StartApply
      BY <2>3 DEF StartApply, Closed
    <2>4. CASE ~Ask /\ ~StartApply /\ ~(\E f \in flights : PlanDone(f))
      <3>1. overlay'.kind # "apply" \/ (overlay' = overlay /\ loadErr' = loadErr)
        <4>1. CASE SaveKey \/ QuitSave
          <5>1. \/ overlay' = overlay \/ overlay' = Closed
                \/ overlay' = Dialog("reformat and quit")
                \/ overlay' = Dialog(SaveOutcome) /\ SaveOutcome \in {"conflict", "reformat"}
            BY <4>1, Zenon DEF SaveKey, QuitSave, Save
          <5>2. loadErr' = loadErr
            BY <4>1 DEF SaveKey, QuitSave, Save
          <5>3. CASE overlay' = Dialog(SaveOutcome) /\ SaveOutcome \in {"conflict", "reformat"}
            <6>1. Dialog(SaveOutcome).kind = SaveOutcome
              BY DEF Dialog
            <6> QED
              BY <5>3, <6>1
          <5>4. CASE overlay' = Closed
            BY <5>4 DEF Closed
          <5>5. CASE overlay' = Dialog("reformat and quit")
            <6>1. Dialog("reformat and quit").kind = "reformat and quit"
              BY Zenon DEF Dialog
            <6>2. "reformat and quit" # "apply"
              BY Zenon
            <6> QED
              BY <5>5, <6>1, <6>2, Zenon
          <5> QED
            BY <5>1, <5>2, <5>3, <5>4, <5>5, Zenon
        <4>2. CASE Rename \/ Quit
          <5>1. /\ overlay' = overlay \/ overlay' = Dialog("conflict") \/ overlay' = Dialog("quit")
                /\ loadErr' = loadErr
            BY <4>2, Zenon DEF Rename, Quit
          <5> QED
            BY <5>1 DEF Dialog
        <4>3. CASE SaveReformatted \/ Overwrite \/ CancelDialog \/ QuitDiscard
          <5>1. overlay' = Closed \/ overlay' = Dialog("conflict")
            BY <4>3, Zenon DEF SaveReformatted, Overwrite, CancelDialog, QuitDiscard
          <5> QED
            BY <5>1 DEF Dialog, Closed
        <4>4. CASE AnswerConflict
          BY <4>4 DEF AnswerConflict, Dialog
        <4>5. CASE ReloadConfirmed \/ EditorDone
          <5>1. overlay' = Closed
            BY <4>5, Zenon DEF ReloadConfirmed, EditorDone, Reload
          <5> QED
            BY <5>1 DEF Closed
        <4>6. CASE ~(SaveKey \/ QuitSave \/ Rename \/ SaveReformatted \/ Overwrite \/ AnswerConflict
                     \/ CancelDialog \/ QuitDiscard \/ Quit \/ ReloadConfirmed \/ EditorDone)
          BY <2>4, <4>6
          DEF Next, vars, Edit, Debounced, Show, Pick, Paste, Unpaste, CancelKey, Choosing,
              PlanOrResume, SendEvent, ApplyDone, Age, Outside, document
        <4> QED
          BY <4>1, <4>2, <4>3, <4>4, <4>5, <4>6
      <3> QED
        BY <1>0, <2>4, <3>1 DEF PaneStep, DialogInv
    <2> QED
      BY <2>1, <2>2, <2>3, <2>4
  <1> QED
    BY <1>1, <1>2 DEF DialogInv

LEMMA StepHolds == IInv /\ [Next]_vars => IInv'
  BY PaneHolds, DocHolds, DialogHolds DEF IInv, PaneStep, DocStep, DocTypes, TypeInv

LEMMA WorkspaceInvariance == Spec => []IInv
  BY InitHolds, StepHolds, PTL DEF Spec

-------------------------------------------------------------------------------
(* What the invariant is for.                                              *)

(* The plan on screen is of the file last saved and of the events selected *)
(* now, also while it is being sent, and neither it nor the offer to       *)
(* resume skips an event that has not been sent whole (apply.go, planKey,  *)
(* selectionChanged and resumeAt).                                         *)
THEOREM PlanIsAlwaysSound == Spec => []PlanIsSound
  <1>1. ASSUME IInv PROVE PlanIsSound
    <2>1. pane.resumeAt \in Nat /\ pane.plan \in Planned
      BY <1>1 DEF IInv, TypeInv, Panes
    <2>2. pane.plan # None => pane.plan.from \in Nat
      BY <2>1 DEF Planned, PlanKeys
    <2>3. \A i \in 1..2 : i < pane.resumeAt => i <= Len(Selected(pane)) /\ Selected(pane)[i] \in landed
      BY <1>1, <2>1 DEF IInv, PaneInv, Resuming, Sent
    <2>4. pane.plan # None => \A i \in 1..2 : i < pane.plan.from => pane.plan.sel[i] \in landed
      BY <1>1, <2>2 DEF IInv, PaneInv, Resuming, Sent
    <2> QED
      BY <1>1, <2>3, <2>4 DEF PlanIsSound, ResumeSkipsOnlySent, IInv, PaneInv
  <1> QED
    BY <1>1, WorkspaceInvariance, PTL

(* While the workspace thinks there is nothing to save, the document means *)
(* what its file means: quitting without a question loses nothing (dirty   *)
(* and Unsaved in workspace.go).                                           *)
THEOREM CleanIsAlwaysSaved == Spec => []CleanMeansSaved
  <1>1. IInv => CleanMeansSaved
    BY DEF IInv, DocInv
  <1> QED
    BY <1>1, WorkspaceInvariance, PTL

(* Where no other program writes between the comparison and the rename, a  *)
(* save replaces only what it has compared with, or what the user agreed   *)
(* to replace (File.Save in internal/mapping/save.go).                     *)
THEOREM NoOutsideEditIsLost ==
    ASSUME EditorRaces = FALSE
    PROVE  Spec => NoOutsideEditLost
  <1> DEFINE Replaces == disk' # disk /\ outside' = outside /\ disk # None
  <1>1. ASSUME IInv, [Next]_vars, Replaces
        PROVE  disk = file \/ commit.confirmed
    <2>1. CASE Rename
      <3>1. commit # None /\ ~commit.new
        BY <1>1, <2>1 DEF Rename
      <3> QED
        BY <1>1, <3>1 DEF IInv, DocInv, Committed
    <2>2. CASE Outside
      <3>1. outside \in Nat => outside' # outside
        BY <2>2 DEF Outside
      <3> QED
        BY <1>1, <2>2, <3>1 DEF Outside
    <2>3. CASE ~Rename /\ ~Outside
      <3>1. disk' = disk
        BY <1>1, <2>3
        DEF Next, vars, SaveKey, QuitSave, Save, SaveReformatted, Overwrite, ReloadConfirmed,
            EditorDone, Reload, AnswerConflict, CancelDialog, Edit, Debounced, Quit, QuitDiscard,
            Show, Pick, Paste, Unpaste, CancelKey, Choosing, PlanOrResume, Ask, PlanDone,
            StartApply, SendEvent, ApplyDone, Age
      <3> QED
        BY <1>1, <3>1
    <2> QED
      BY <2>1, <2>2, <2>3
  <1>2. IInv /\ [Next]_vars => [Replaces => disk = file \/ commit.confirmed]_vars
    BY <1>1
  <1> QED
    BY <1>2, WorkspaceInvariance, PTL DEF Spec, NoOutsideEditLost

(* Events are sent only of the file as it is on disk, with no edit of it   *)
(* unsaved, and of the plan the user was asked about (startApply in        *)
(* apply.go, which makes the checks of the question again).                *)
THEOREM SendsOnlyWhatIsSaved == Spec => AppliesWhatIsSaved
  <1> DEFINE Sends == pane'.applying /\ ~pane.applying
             Right == disk = file /\ doc = file.doc /\ pane.plan = overlay.plan /\ ~pane.old
  <1>1. ASSUME IInv, [Next]_vars, Sends
        PROVE  Right
    <2>1. StartApply
      BY <1>1, PaneHolds DEF PaneStep
    <2>2. ~loadErr
      BY <1>1, <2>1 DEF StartApply, IInv, DialogInv
    <2>3. Ready(pane, overlay.plan)
      BY <1>1, <2>1, StartApplyHolds
    <2>4. ~dirty /\ disk = file /\ pane.plan = overlay.plan /\ ~pane.old
      BY <2>3, Zenon DEF Ready, Current, ChangedOnDisk
    <2>5. doc = file.doc
      BY <1>1, <2>2, <2>4 DEF IInv, DocInv, CleanMeansSaved
    <2> QED
      BY <2>4, <2>5
  <1>2. IInv /\ [Next]_vars => [Sends => Right]_vars
    BY <1>1
  <1> QED
    BY <1>2, WorkspaceInvariance, PTL DEF Spec, AppliesWhatIsSaved

=============================================================================
