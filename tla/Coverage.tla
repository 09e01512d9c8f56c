------------------------------- MODULE Coverage -------------------------------
(* How `ofga model test --explain` and `--coverage` attribute a decision:   *)
(* the server's one-level Expand trees are spliced into one tree within a   *)
(* budget (fga/resolution.go ExpandTree), every node is marked with whether *)
(* it grants (MarkGranted), and the arms of the rewrites that granted are   *)
(* credited (modeltest/trace.go computeArmGrants) against the branches of   *)
(* the model (modeltest/coverage.go).                                       *)
(*                                                                          *)
(* A node is [name, op, kids, leaf]: leaf is what an operand refers to, the *)
(* users of a direct assignment, a computed relation or a tuple-to-userset. *)
EXTENDS AuthModel, SequencesExt

CONSTANTS MaxDepth, MaxNodes     \* traceMaxDepth, traceMaxNodes

NoLeaf == [k |-> "none"]
Leaf(name, leaf) == [name |-> name, op |-> "leaf", kids |-> <<>>, leaf |-> leaf]

(* The server's Expand, one level deep, as ParseResolution reads it: every  *)
(* node carries the relation that was expanded.                             *)
RECURSIVE ExpandUserset(_, _, _, _, _)
ExpandUserset(m, T, o, r, us) ==
  LET name == Userset(o, r)
  IN CASE us.op = "this" -> Leaf(name, [k |-> "users", users |-> Listed(T, o, r)])
       [] us.op = "computed" -> Leaf(name, [k |-> "computed", ref |-> Userset(o, us.rel)])
       [] us.op = "ttu" -> Leaf(name, [k |-> "ttu", from |-> us.tupleset, rel |-> us.rel,
                                       parents |-> {u[1] : u \in Listed(T, o, us.tupleset)}])
       [] OTHER -> [name |-> name, op |-> us.op, leaf |-> NoLeaf,
                    kids |-> [i \in DOMAIN us.kids |-> ExpandUserset(m, T, o, r, us.kids[i])]]

Expand(m, T, ref) ==
  ExpandUserset(m, T, ref[1], ref[2], m.rewrite[Key(TypeOf(ref[1]), ref[2])])

----------------------------------------------------------------------------
(* ExpandTree. s is the budget left, whether an arm had to be left out and  *)
(* whether a request failed.                                                *)

(* What a leaf stands for. Expand names the relation of a tuple-to-userset  *)
(* once for each parent, and the code takes every parent with every name:   *)
(* n parents are attached n times.                                          *)
Refs(leaf) ==
  CASE leaf.k = "computed" -> <<leaf.ref>>
    [] leaf.k = "ttu" -> LET n == Cardinality(leaf.parents)
                             xs == SetToSeq(leaf.parents)
                         IN [i \in 1..n * n |-> Userset(xs[(i - 1) \div n + 1], leaf.rel)]
    [] OTHER -> <<>>

RECURSIVE ExpandNode(_, _, _, _, _, _), ExpandKids(_, _, _, _, _, _, _), Attach(_, _, _, _, _, _, _)

(* Every child of a structural node in turn, sharing the budget.            *)
ExpandKids(m, T, kids, depth, path, s, done) ==
  IF kids = <<>> THEN [kids |-> done, s |-> s]
  ELSE LET one == ExpandNode(m, T, Head(kids), depth, path, s)
       IN ExpandKids(m, T, Tail(kids), depth, path, one.s, Append(done, one.node))

(* attachExpansion for each reference: a reference on the path is a cycle   *)
(* and is left out silently, one beyond the budget makes the tree partial,  *)
(* and one whose type lacks the relation fails the whole trace.             *)
Attach(m, T, refs, depth, path, s, done) ==
  IF refs = <<>> THEN [kids |-> done, s |-> s]
  ELSE LET ref == Head(refs)
           rest == Tail(refs)
       IN CASE ref \in path -> Attach(m, T, rest, depth, path, s, done)
            [] ref \notin path /\ s.budget = 0 ->
                 Attach(m, T, rest, depth, path, [s EXCEPT !.cut = TRUE], done)
            [] ref \notin path /\ s.budget # 0 /\ Key(TypeOf(ref[1]), ref[2]) \notin Keys(m) ->
                 Attach(m, T, rest, depth, path, [s EXCEPT !.budget = @ - 1, !.failed = TRUE], done)
            [] OTHER ->
                 LET sub == ExpandNode(m, T, Expand(m, T, ref), depth - 1, path \cup {ref},
                                       [s EXCEPT !.budget = @ - 1])
                 IN Attach(m, T, rest, depth, path, sub.s, Append(done, sub.node))

ExpandNode(m, T, n, depth, path, s) ==
  IF n.op # "leaf"
  THEN LET e == ExpandKids(m, T, n.kids, depth, path, s, <<>>)
       IN [node |-> [n EXCEPT !.kids = e.kids], s |-> e.s]
  ELSE IF Refs(n.leaf) = <<>> THEN [node |-> n, s |-> s]
  ELSE IF depth = 0 THEN [node |-> n, s |-> [s EXCEPT !.cut = TRUE]]
  ELSE LET e == Attach(m, T, Refs(n.leaf), depth, path, s, <<>>)
       IN [node |-> [n EXCEPT !.kids = e.kids], s |-> e.s]

ExpandTree(m, T, ref) ==
  ExpandNode(m, T, Expand(m, T, ref), MaxDepth, {ref}, [budget |-> MaxNodes, cut |-> FALSE, failed |-> FALSE])

----------------------------------------------------------------------------
(* MarkGranted with a live Check (CheckDirectLeaves).                       *)

DirectMember(leaf, s) == leaf.k = "users" /\ {s, WildcardFor(s)} \cap leaf.users # {}

MutantLeafGrants(m, T, n, s) ==
  CASE n.leaf.k = "users" -> DirectMember(n.leaf, s)
    [] OTHER -> \E i \in DOMAIN Refs(n.leaf) :
                  Check(m, T, s, Refs(n.leaf)[i][2], Refs(n.leaf)[i][1])

LeafGrants(m, T, n, s) ==
  CASE n.leaf.k = "users" ->
         IF DirectMember(n.leaf, s) THEN Check(m, T, s, n.name[2], n.name[1])
         ELSE \E u \in {x \in n.leaf.users : ~IsUser(x)} : Check(m, T, s, u[2], u[1])
    [] OTHER -> \E i \in DOMAIN Refs(n.leaf) :
                  Check(m, T, s, Refs(n.leaf)[i][2], Refs(n.leaf)[i][1])

RECURSIVE MarkGranted(_, _, _, _)
MarkGranted(m, T, n, s) ==
  LET kids == [i \in DOMAIN n.kids |-> MarkGranted(m, T, n.kids[i], s)]
      granted == {i \in DOMAIN kids : kids[i].granted}
  IN [name |-> n.name, op |-> n.op, leaf |-> n.leaf, kids |-> kids,
      granted |->
        CASE n.op = "leaf" /\ kids = <<>> -> LeafGrants(m, T, n, s)
          [] n.op \in {"union", "leaf"} /\ (n.op = "union" \/ kids # <<>>) -> granted # {}
          [] n.op = "intersection" -> granted = DOMAIN kids
          [] n.op = "difference" -> 1 \in granted /\ 2 \notin granted]

----------------------------------------------------------------------------
(* Branches: what there is to cover. A subtracted side is one branch, a     *)
(* condition two.                                                           *)

Outcome == {"true", "false"}

RECURSIVE BranchesOf(_, _, _)
BranchesOf(m, key, us) ==
  CASE us.op = "this" ->
         {<<key, "direct", r.type, r.rel>> : r \in m.direct[key]}
           \cup (IF key \in m.conditioned THEN {<<key, "condition", o, "">> : o \in Outcome} ELSE {})
    [] us.op = "computed" -> {<<key, "computed", us.rel, "">>}
    [] us.op = "ttu" -> {<<key, "ttu", us.tupleset, us.rel>>}
    [] us.op = "difference" -> BranchesOf(m, key, us.kids[1]) \cup {<<key, "but-not", "", "">>}
    [] OTHER -> UNION {BranchesOf(m, key, us.kids[i]) : i \in DOMAIN us.kids}

Branches(m) == UNION {BranchesOf(m, k, m.rewrite[k]) : k \in Keys(m)}

KeyOf(n) == Key(TypeOf(n.name[1]), n.name[2])


DirectCredit(m, T, n, s) ==
  LET literal == (IF s \in n.leaf.users THEN {<<KeyOf(n), "direct", TypeOf(s[1]), "">>} ELSE {})
                   \cup (IF IsUser(s) /\ WildcardFor(s) \in n.leaf.users
                         THEN {<<KeyOf(n), "direct", TypeOf(s[1]), "*">>} ELSE {})
  IN IF literal # {} THEN literal
     ELSE {<<KeyOf(n), "direct", TypeOf(u[1]), u[2]>> :
             u \in {x \in n.leaf.users : ~IsUser(x) /\ Check(m, T, s, x[2], x[1])}}

LeafCredit(m, T, n, s) ==
  CASE n.leaf.k = "computed" -> {<<KeyOf(n), "computed", n.leaf.ref[2], "">>}
    [] n.leaf.k = "ttu" -> {<<KeyOf(n), "ttu", n.leaf.from, n.leaf.rel>>}
    [] n.leaf.k = "users" -> DirectCredit(m, T, n, s)

(* computeArmGrants: the arms that granted; the subtracted side is not      *)
(* entered, it counts when it excluded the user.                            *)
RECURSIVE ArmGrants(_, _, _, _)
ArmGrants(m, T, n, s) ==
  CASE n.op = "difference" ->
         ArmGrants(m, T, n.kids[1], s)
           \cup (IF n.kids[2].granted THEN {<<KeyOf(n), "but-not", "", "">>} ELSE {})
    [] OTHER ->
         (IF n.op = "leaf" /\ n.granted THEN LeafCredit(m, T, n, s) ELSE {})
           \cup UNION {ArmGrants(m, T, n.kids[i], s) : i \in DOMAIN n.kids}

(* walkExplainNode: a conditioned tuple that names the user tells what its  *)
(* condition came to, by whether its node granted.                          *)
RECURSIVE ConditionCredit(_, _, _, _)
ConditionCredit(m, T, n, s) ==
  (IF DirectMember(n.leaf, s) /\ KeyOf(n) \in m.conditioned
   THEN {<<KeyOf(n), "condition", IF n.granted THEN "true" ELSE "false", "">>} ELSE {})
    \cup UNION {ConditionCredit(m, T, n.kids[i], s) : i \in DOMAIN n.kids}

(* One assertion: check s r o.                                              *)
Trace(m, T, s, r, o) ==
  LET e == ExpandTree(m, T, Userset(o, r))
      root == MarkGranted(m, T, e.node, s)
  IN [verdict |-> Check(m, T, s, r, o), granted |-> root.granted, bounded |-> e.s.cut, failed |-> e.s.failed,
      arms |-> ArmGrants(m, T, root, s) \cup ConditionCredit(m, T, root, s)]

----------------------------------------------------------------------------
(* What a credited branch has to mean: on some object the arm grants the    *)
(* user by itself, and an exclusion excludes it.                            *)
RECURSIVE Parts(_)
Parts(us) == {us} \cup UNION {Parts(k) : k \in Kids(us)}

ArmHolds(m, T, objs, s, b) ==
  \E o \in {x \in objs : TypeOf(x) = b[1][1]} :
    CASE b[2] = "direct" ->
           \E u \in Related(T, o, b[1][2]) :
             /\ RefOf(u) = Ref(b[3], b[4])
             /\ u \in {s, WildcardFor(s)} \/ (~IsUser(u) /\ Check(m, T, s, u[2], u[1]))
      [] b[2] = "computed" -> Check(m, T, s, b[3], o)
      [] b[2] = "ttu" -> Eval(m, T, s, o, b[1][2], TTU(b[3], b[4]), {})
      [] b[2] = "condition" ->
           \E t \in Stored(T, o, b[1][2]) :
             t.user \in {s, WildcardFor(s)} /\ t.holds = (b[3] = "true")
      [] b[2] = "but-not" ->
           \E d \in {x \in Parts(m.rewrite[b[1]]) : x.op = "difference"} :
             Eval(m, T, s, o, b[1][2], d.kids[2], {})
==============================================================================
