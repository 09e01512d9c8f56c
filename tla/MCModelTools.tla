----------------------------- MODULE MCModelTools -----------------------------
(* Folders and documents: a document has parents, folders or documents, and *)
(* three relations that refer to each other and to the parents'.            *)
EXTENDS ModelTools

CONSTANTS Conditioned   \* the relations whose users carry a condition

f1 == <<"fol", "1">>
d1 == <<"doc", "1">>
d2 == <<"doc", "2">>
ann == <<<<"user", "ann">>, "">>
anyone == <<<<"user", "*">>, "">>

MCObjs == {f1, d1, d2}
MCUsers == {ann, anyone, <<f1, "">>, <<d2, "">>, <<f1, "b">>, <<d2, "c">>}
MCAsked == {ann} \cup {<<o, r>> : o \in {d1, f1}, r \in {"a", "b", "c"}}

RECURSIVE HasThis(_)
HasThis(us) == us.op = "this" \/ \E x \in Kids(us) : HasThis(x)

FolB == {Computed("a"), Union(<<This, Computed("a")>>)}

Parents == {{Plain("fol")}, {Plain("doc")}, {Plain("fol"), Plain("doc")}}

BShapes ==
  {Computed("a"),
   Union(<<This, TTU("p", "b"), TTU("p", "c")>>),
   Union(<<Computed("a"), TTU("p", "b"), TTU("p", "a")>>),
   Union(<<This, TTU("p", "c")>>)}

CShapes ==
  {Union(<<Computed("a"), Computed("b")>>),
   Intersection(<<Computed("b"), Computed("a")>>),
   Union(<<Computed("b"), TTU("p", "b"), TTU("p", "c")>>),
   Union(<<This, Computed("b"), Computed("a"), Computed("b")>>),
   Difference(Union(<<This, Computed("b"), Computed("a")>>), TTU("p", "a")),
   Union(<<Intersection(<<This, TTU("p", "a")>>), Computed("a"), TTU("p", "b")>>)}

ADirect == {{Plain("user"), Wild("user")}, {Plain("user"), Ref("doc", "c"), Ref("fol", "b")}}

Build(fb, p, ad, b, c) ==
  LET assigned(us) == IF HasThis(us) THEN {Plain("user")} ELSE {}
  IN [rewrite |-> (<<"fol", "a">> :> This @@ <<"fol", "b">> :> fb @@ <<"doc", "p">> :> This
                   @@ <<"doc", "a">> :> This @@ <<"doc", "b">> :> b @@ <<"doc", "c">> :> c),
      direct |-> (<<"fol", "a">> :> {Plain("user")} @@ <<"fol", "b">> :> assigned(fb)
                  @@ <<"doc", "p">> :> p @@ <<"doc", "a">> :> ad
                  @@ <<"doc", "b">> :> assigned(b) @@ <<"doc", "c">> :> assigned(c)),
      conditioned |-> Conditioned]

MCPool == {Build(fb, p, ad, b, c) :
             fb \in FolB, p \in Parents, ad \in ADirect, b \in BShapes, c \in CShapes}

NoConditions == {}
OnDocA == {<<"doc", "a">>, <<"doc", "c">>}
==============================================================================
