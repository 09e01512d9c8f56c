----------------------------- MODULE MCModelTests -----------------------------
EXTENDS ModelTests

CONSTANTS model, fixture

(* Every test uses one model; the first one also the fixture file.         *)
MCNeeds == [t \in 1 .. NTests |-> IF t = 1 THEN <<model, fixture>> ELSE <<model>>]

(* A single run has all the tests; --watch, where what matters is what a    *)
(* run reads and when, has one.                                            *)
MCInit ==
    /\ Init
    /\ IF opts.watch THEN opts.tests = 1 /\ opts.parallel = 1 ELSE opts.tests = NTests

MCSpec == MCInit /\ [][Next]_vars /\ Fairness
===============================================================================
