------------------------------ MODULE Optimizer ------------------------------
(* The safe rewrites of `ofga model optimize` (optimize), and the benchmark *)
(* that checks them (optimize/bench).                                       *)
(*                                                                          *)
(* rewrite derives, from the model as it is now, which usersets are         *)
(* contained in which, drops the operands that add nothing, at most one per *)
(* relation and pass, and starts again. The safety gates ask the OpenFGA    *)
(* libraries whether the model stays valid and keeps its resolvers, and a   *)
(* subset rewrite asks the user: both may refuse any finding, so a pass     *)
(* applies any of the findings it derived. Slip is a rewrite that no proof  *)
(* supports: the benchmark is there to find it.                             *)
EXTENDS AuthModel, TLC

CONSTANTS Pool,          \* the models a user may pass
          Objs, Users,   \* the objects and users of the benchmark's tuples
          Asked,         \* the users it checks: plain users and usersets
          MaxPasses,     \* maxPasses
          MaxTuples,     \* bound: the tuples of a benchmark
          Slips          \* may a rule be wrong once?

VARIABLES before, cur,   \* the model as given and as rewritten so far
          pass,          \* passes done
          slipped,       \* a rewrite without a proof was applied
          tuples,        \* the tuples the benchmark writes to both stores
          stage          \* "rewrite", "rewritten", "benched"

vars == <<before, cur, pass, slipped, tuples, stage>>

----------------------------------------------------------------------------
(* The lattice of proven containments.                                      *)

TermOf(key, us) ==
  CASE us.op = "this" -> [k |-> "D", type |-> key[1], owner |-> key[2]]
    [] us.op = "computed" -> [k |-> "C", type |-> key[1], rel |-> us.rel]
    [] us.op = "ttu" -> [k |-> "T", type |-> key[1], tupleset |-> us.tupleset, rel |-> us.rel]

ComputedTerm(type, rel) == [k |-> "C", type |-> type, rel |-> rel]
IsTerm(us) == us.op \in {"this", "computed", "ttu"}

(* What BuildLattice starts from: a relation contains the operands of its   *)
(* union, an alias contains what it names, and never the other way.         *)
Alternatives(us) == IF us.op = "union" THEN {k \in Kids(us) : IsTerm(k)}
                    ELSE IF IsTerm(us) THEN {us} ELSE {}

MutantGiven(m) ==
  UNION {{<<TermOf(k, a), ComputedTerm(k[1], k[2])>> : a \in Alternatives(m.rewrite[k])}
           \cup {<<ComputedTerm(k[1], k[2]), TermOf(k, a)>> :
                   a \in IF IsTerm(m.rewrite[k]) THEN {m.rewrite[k]} ELSE {}} : k \in Keys(m)}

Given(m) == UNION {{<<TermOf(k, a), ComputedTerm(k[1], k[2])>> : a \in Alternatives(m.rewrite[k])}
                   : k \in Keys(m)}

RECURSIVE CollectTTU(_, _)
CollectTTU(type, us) ==
  IF us.op = "ttu" THEN {TermOf(<<type, "">>, us)}
  ELSE UNION {CollectTTU(type, k) : k \in Kids(us)}

TTUTerms(m) == UNION {CollectTTU(k[1], m.rewrite[k]) : k \in Keys(m)}

SameTupleset(a, b) == a.k = "T" /\ b.k = "T" /\ a.type = b.type /\ a.tupleset = b.tupleset

(* Every parent type of the tupleset proves it, or lacks the relation.      *)
TtuHolds(m, P, a, b) ==
  LET parents == {r.type : r \in m.direct[Key(a.type, a.tupleset)]}
  IN /\ parents # {}
     /\ \A p \in parents :
          \/ Key(p, a.rel) \notin Keys(m)
          \/ a.rel = b.rel
          \/ <<ComputedTerm(p, a.rel), ComputedTerm(p, b.rel)>> \in P

RECURSIVE Closed(_, _, _)
Closed(m, ts, P) ==
  LET trans == {<<p[1][1], p[2][2]>> : p \in {q \in P \X P : q[1][2] = q[2][1] /\ q[1][1] # q[2][2]}}
      ttu == {p \in ts \X ts : p[1] # p[2] /\ SameTupleset(p[1], p[2]) /\ TtuHolds(m, P, p[1], p[2])}
      all == P \cup trans \cup ttu
  IN IF all = P THEN P ELSE Closed(m, ts, all)

BuildLattice(m) == Closed(m, TTUTerms(m), {p \in Given(m) : p[1] # p[2]})

Subset(m, L, a, b) ==
  \/ a = b
  \/ <<a, b>> \in L
  \/ SameTupleset(a, b) /\ TtuHolds(m, L, a, b)

----------------------------------------------------------------------------
(* The rules: each finding is the relation it edits and the edit.           *)

(* A union that is the whole definition, or the base of a top-level but not.*)
Site(us) ==
  CASE us.op = "union" -> us.kids
    [] us.op = "difference" /\ us.kids[1].op = "union" -> us.kids[1].kids
    [] OTHER -> <<>>

Without(kids, i) == [j \in 1..Len(kids) - 1 |-> IF j < i THEN kids[j] ELSE kids[j + 1]]
Collapsed(kids) == IF Len(kids) = 1 THEN kids[1] ELSE Union(kids)

DropOperand(us, i) ==
  IF us.op = "union" THEN Collapsed(Without(us.kids, i))
  ELSE Difference(Collapsed(Without(us.kids[1].kids, i)), us.kids[2])

(* S1 and S4: an operand that another one contains. Of two that contain     *)
(* each other the earlier stays.                                            *)
UnionRule(m, L, key) ==
  LET kids == Site(m.rewrite[key])
      term == [i \in DOMAIN kids |-> TermOf(key, kids[i])]
      Terms == {i \in DOMAIN kids : IsTerm(kids[i])}
  IN {i \in {x \in Terms : kids[x].op # "this"} :
        \E j \in Terms \ {i} :
          /\ term[i] # term[j]
          /\ Subset(m, L, term[i], term[j])
          /\ ~(Subset(m, L, term[j], term[i]) /\ j > i)}

(* S3: an operand written twice.                                            *)
DuplicateRule(m, key) ==
  LET kids == Site(m.rewrite[key])
  IN {j \in DOMAIN kids : kids[j].op # "this" /\ \E i \in 1..j - 1 : kids[i] = kids[j]}

(* S2: the operand of a two-way intersection that implies the other.        *)
IntersectionRule(m, L, key) ==
  LET us == m.rewrite[key]
      term == [i \in DOMAIN us.kids |-> TermOf(key, us.kids[i])]
  IN IF /\ us.op = "intersection" /\ Len(us.kids) = 2
        /\ us.kids[1].op = "computed" /\ us.kids[2].op = "computed"
        /\ us.kids[1] # us.kids[2]
     THEN IF Subset(m, L, term[1], term[2]) THEN {us.kids[1]}
          ELSE IF Subset(m, L, term[2], term[1]) THEN {us.kids[2]} ELSE {}
     ELSE {}

(* Every rewrite a pass can make of one relation.                           *)
Rewrites(m, L, key) ==
  {DropOperand(m.rewrite[key], i) : i \in UnionRule(m, L, key) \cup DuplicateRule(m, key)}
    \cup IntersectionRule(m, L, key)

----------------------------------------------------------------------------
(* The guard: what a definition can evaluate, and recursion under but not.  *)

RECURSIVE RelationEdges(_, _, _)
RelationEdges(m, key, us) ==
  CASE us.op = "this" -> {Key(r.type, r.rel) : r \in {x \in m.direct[key] : x.rel \notin {"", "*"}}}
    [] us.op = "computed" -> {Key(key[1], us.rel)}
    [] us.op = "ttu" ->
         {Key(key[1], us.tupleset)}
           \cup ({Key(r.type, us.rel) : r \in m.direct[Key(key[1], us.tupleset)]} \cap Keys(m))
    [] OTHER -> UNION {RelationEdges(m, key, k) : k \in Kids(us)}

(* The same with subtractOnly: the edges found inside a subtracted side.    *)
RECURSIVE SubtractEdges(_, _, _)
SubtractEdges(m, key, us) ==
  CASE us.op = "difference" ->
         SubtractEdges(m, key, us.kids[1]) \cup RelationEdges(m, key, us.kids[2])
    [] OTHER -> UNION {SubtractEdges(m, key, k) : k \in Kids(us)}

MutantDependencyGraph(m) ==
  [k \in Keys(m) |-> {e \in RelationEdges(m, k, m.rewrite[k]) : e[1] = k[1]}]

DependencyGraph(m) == [k \in Keys(m) |-> RelationEdges(m, k, m.rewrite[k])]

RECURSIVE Reachable(_, _)
Reachable(graph, from) ==
  LET next == from \cup UNION {graph[k] : k \in from}
  IN IF next = from THEN from ELSE Reachable(graph, next)

CyclicRelations(graph) == {k \in DOMAIN graph : k \in Reachable(graph, graph[k])}

RecursiveExclusion(m) ==
  LET graph == DependencyGraph(m)
      cyclic == CyclicRelations(graph)
  IN \E k \in Keys(m) : Reachable(graph, SubtractEdges(m, k, m.rewrite[k])) \cap cyclic # {}

Dependents(m, targets) ==
  LET graph == DependencyGraph(m)
  IN {k \in Keys(m) : Reachable(graph, {k}) \cap targets # {}}

ChangedRelations(b, a) ==
  {k \in Keys(a) : k \notin Keys(b) \/ b.rewrite[k] # a.rewrite[k] \/ b.direct[k] # a.direct[k]}
    \cup (Keys(b) \ Keys(a))

----------------------------------------------------------------------------
Init ==
  /\ before \in Pool
  /\ cur = before
  /\ pass = 0
  /\ slipped = FALSE
  /\ tuples = {}
  /\ stage = "rewrite"

Replaced(m, new) == [m EXCEPT !.rewrite = [k \in Keys(m) |-> IF k \in DOMAIN new THEN new[k] ELSE @[k]]]

(* One pass: any of the findings, at most one for each relation, all derived*)
(* from the model the pass began with.                                      *)
Pass ==
  /\ stage = "rewrite"
  /\ pass < MaxPasses
  /\ ~RecursiveExclusion(before)
  /\ LET L == BuildLattice(cur)
         found == [k \in Keys(cur) |-> Rewrites(cur, L, k)]
     IN \E taken \in (SUBSET {k \in Keys(cur) : found[k] # {}}) \ {{}} :
          \E new \in [taken -> UNION {found[k] : k \in taken}] :
            /\ \A k \in taken : new[k] \in found[k]
            /\ cur' = Replaced(cur, new)
  /\ pass' = pass + 1
  /\ UNCHANGED <<before, slipped, tuples, stage>>

(* A rule with a mistake: an operand goes that nothing contains.            *)
Slip ==
  /\ stage = "rewrite"
  /\ Slips /\ pass = 0
  /\ \E k \in Keys(cur) : \E i \in DOMAIN Site(cur.rewrite[k]) :
       cur' = Replaced(cur, (k :> DropOperand(cur.rewrite[k], i)))
  /\ slipped' = TRUE
  /\ stage' = "rewritten"
  /\ UNCHANGED <<before, pass, tuples>>

(* No more findings, every one refused, or the passes are used up.          *)
Rewritten ==
  /\ stage = "rewrite"
  /\ stage' = "rewritten"
  /\ UNCHANGED <<before, cur, pass, slipped, tuples>>

(* bench.Run: the same tuples in a store of each model.                     *)
Loads(m) == {T \in SUBSET ValidTuples(m, Objs, Users) : Cardinality(T) \in 1..MaxTuples}

Bench ==
  /\ stage = "rewritten"
  /\ cur # before
  /\ tuples' \in Loads(before)
  /\ stage' = "benched"
  /\ UNCHANGED <<before, cur, pass, slipped>>

Next == Pass \/ Slip \/ Rewritten \/ Bench

Spec == Init /\ [][Next]_vars

----------------------------------------------------------------------------
(* A relation that some check of the benchmark answers differently.         *)
Mismatched(k) ==
  \E o \in {x \in Objs : TypeOf(x) = k[1]} : \E s \in Asked :
    Check(before, tuples, s, k[2], o) # Check(cur, tuples, s, k[2], o)
Mismatches == {k \in Keys(before) : Mismatched(k)}

(* splitUnstable: a difference is dismissed as noise by the rewritten       *)
(* model's graph alone, when the answers of the original do not vary; the   *)
(* exit code 3 reports the others.                                          *)
Dismissed == Keys(before) \ Dependents(cur, ChangedRelations(before, cur))

(* The rewrites the rules derive, taken together in any combination the     *)
(* gates and the user leave, answer every check as the model did, for       *)
(* plain users and for usersets (rewrite.go: "safe").                       *)
RewriteKeepsAnswers == (stage = "benched" /\ ~slipped) => Mismatches = {}

(* A rewrite that does change an answer is never dismissed as noise of the  *)
(* engine: the relation can reach a changed one in the rewritten model      *)
(* (bench/run.go, the comment of splitUnstable).                            *)
MismatchIsReported == stage = "benched" => \A k \in Dismissed : ~Mismatched(k)
==============================================================================
