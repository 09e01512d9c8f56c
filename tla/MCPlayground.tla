----------------------------- MODULE MCPlayground -----------------------------
(* Small instances of Playground: two servers that use the same store ids.  *)
EXTENDS Playground, TLC

CONSTANTS dev, prod, a, b, f

Empty == [models |-> 0, tuples |-> {}, asserts |-> [n \in 1..MaxModels |-> {}]]
OneModel == [Empty EXCEPT !.models = 1, !.asserts[1] = {0}]

(* On each server a store with a model and one without.                     *)
MCServers == {[p \in Profiles |-> [s \in Stores |->
                 IF s = a THEN OneModel ELSE Empty]]}

Pin(s, model) == [store |-> s, model |-> model]

(* A model that is gone, with and without another in the store, and nothing *)
(* pinned beside a profile without a store.                                 *)
Profile(start, other) == [p \in Profiles |-> IF p = Start THEN start ELSE other]
Other == Pin(a, Model(prod, a, 1))
MCPins == {Profile(Pin(a, Model(dev, b, 1)), Other),
           Profile(Pin(b, Model(dev, a, 1)), Other),
           Profile(Pin(a, None), Pin(None, None))}
===============================================================================
