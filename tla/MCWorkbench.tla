------------------------------ MODULE MCWorkbench ------------------------------
(* Small instances of PlaygroundTui.  Workbench: two sample stores, a third *)
(* that the user may make, two rewrites of which the second needs the       *)
(* first.  Panels: two models that answer every ask differently, a check    *)
(* with and without context and a listing, lists of one and two assertions. *)
EXTENDS PlaygroundTui

CONSTANTS a, b, c, f, g, r1, r2, x, y, u

MCRequires == (r1 :> {}) @@ (r2 :> {r1})
MCFaulty == {{r1, r2}}

MCAsks == {[mode |-> "check", vals |-> x, ctx |-> Plain],
           [mode |-> "check", vals |-> x, ctx |-> "abac"],
           [mode |-> "list-objects", vals |-> y, ctx |-> Plain]}
MCAllows == {<<n, ask>> \in Models \X MCAsks : (n = First) # (ask.ctx = Plain)}
Row(vals) == [vals |-> vals, expect |-> TRUE]
MCCandidates == {Row(y)}
(* Nothing is claimed of what follows a key that rushes, or a review of     *)
(* another store's text.                                                    *)
Claimed == ~rushed /\ ~foreign

MCLists == {<<Row(x), Row(y)>>, <<Row(y)>>}
================================================================================
