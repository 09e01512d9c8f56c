------------------------------ MODULE AuthModel ------------------------------
(* Authorization models as data, and what they mean.                        *)
(*                                                                          *)
(* A model gives every relation, a key <<type, relation>>, its rewrite and  *)
(* its directly related types. Objects are <<type, id>>; a user is          *)
(* <<object, "">>, a userset <<object, relation>>, the public wildcard      *)
(* <<<<type, "*">>, "">>. Check and Expand are the server's (OpenFGA is not *)
(* in the repository): Check is the least fixpoint of the rewrites, a       *)
(* userset is a member of itself, a tuple-to-userset skips parents whose    *)
(* type lacks the relation, a tuple whose condition fails is not there.     *)
EXTENDS Naturals, Sequences, FiniteSets

This == [op |-> "this"]
Computed(r) == [op |-> "computed", rel |-> r]
TTU(ts, r) == [op |-> "ttu", tupleset |-> ts, rel |-> r]
Union(kids) == [op |-> "union", kids |-> kids]
Intersection(kids) == [op |-> "intersection", kids |-> kids]
Difference(base, sub) == [op |-> "difference", kids |-> <<base, sub>>]

Ref(type, rel) == [type |-> type, rel |-> rel]
Plain(type) == Ref(type, "")
Wild(type) == Ref(type, "*")

Operands(s) == {s[i] : i \in DOMAIN s}
Kids(us) == IF us.op \in {"union", "intersection", "difference"} THEN Operands(us.kids) ELSE {}

Keys(m) == DOMAIN m.rewrite
Key(type, rel) == <<type, rel>>
TypeOf(o) == o[1]
Userset(o, r) == <<o, r>>
IsUser(s) == s[2] = ""
WildcardFor(s) == IF IsUser(s) THEN <<<<TypeOf(s[1]), "*">>, "">> ELSE s

(* holds: the outcome of the tuple's condition in the context of the check. *)
Tuple(o, r, u, holds) == [obj |-> o, rel |-> r, user |-> u, holds |-> holds]
Stored(T, o, r) == {t \in T : t.obj = o /\ t.rel = r}
Listed(T, o, r) == {t.user : t \in Stored(T, o, r)}
Related(T, o, r) == {t.user : t \in {u \in Stored(T, o, r) : u.holds}}

(* The tuples a store of the model can hold over the given objects. The     *)
(* users and wildcards assigned in m.conditioned carry a condition.         *)
RefOf(u) ==
  IF IsUser(u) /\ u[1][2] = "*" THEN Wild(TypeOf(u[1])) ELSE Ref(TypeOf(u[1]), u[2])

Outcomes(m, k, u) == IF k \in m.conditioned /\ IsUser(u) THEN BOOLEAN ELSE {TRUE}

ValidTuples(m, objs, users) ==
  UNION {UNION {{Tuple(o, k[2], u, h) : h \in Outcomes(m, k, u), o \in {x \in objs : TypeOf(x) = k[1]}}
                : u \in {x \in users : RefOf(x) \in m.direct[k]}} : k \in Keys(m)}

RECURSIVE Grants(_, _, _, _, _, _)
RECURSIVE Eval(_, _, _, _, _, _, _)

(* s has r on o: the derivation must not come back to a goal it is proving. *)
Grants(m, T, s, o, r, path) ==
  /\ Key(TypeOf(o), r) \in Keys(m)
  /\ \/ Userset(o, r) = s
     \/ /\ Userset(o, r) \notin path
        /\ Eval(m, T, s, o, r, m.rewrite[Key(TypeOf(o), r)], path \cup {Userset(o, r)})

Eval(m, T, s, o, r, us, path) ==
  CASE us.op = "this" ->
         \E u \in Related(T, o, r) :
           \/ u \in {s, WildcardFor(s)}
           \/ ~IsUser(u) /\ Grants(m, T, s, u[1], u[2], path)
    [] us.op = "computed" -> Grants(m, T, s, o, us.rel, path)
    [] us.op = "ttu" ->
         \E u \in Related(T, o, us.tupleset) : Grants(m, T, s, u[1], us.rel, path)
    [] us.op = "union" -> \E k \in Kids(us) : Eval(m, T, s, o, r, k, path)
    [] us.op = "intersection" -> \A k \in Kids(us) : Eval(m, T, s, o, r, k, path)
    [] us.op = "difference" ->
         Eval(m, T, s, o, r, us.kids[1], path) /\ ~Eval(m, T, s, o, r, us.kids[2], path)

Check(m, T, s, r, o) == Grants(m, T, s, o, r, {})
==============================================================================
