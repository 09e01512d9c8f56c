---------------------------- MODULE MCConfigStore ----------------------------
(* A small instance of ConfigStore.                                         *)
EXTENDS ConfigStore, TLC

(* An old release left the bearer token of the default profile.             *)
OldToken == CHOOSE v \in Secrets : TRUE
LegacyToken == [s \in Slots |-> IF s = <<DefaultName, Token>> THEN OldToken ELSE None]

ProcSymmetry == Permutations(Procs)
==============================================================================
