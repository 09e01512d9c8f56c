------------------------------- MODULE MCCommands -------------------------------
(* Every command line of Commands; a tour of two servers, two stores with a *)
(* model each, of which only one is shown without credentials.              *)
EXTENDS Invocation, TLC

CONSTANTS acc, s1, s2, m1, m2
MCSees == (acc :> {s1, s2}) @@ (NoAuth :> {s1})
MCModelsOf == (s1 :> {m1}) @@ (s2 :> {m2})
================================================================================
