---------------------------- MODULE MCMappingChecks ----------------------------
(* Small instances of MappingTui.  Two documents are edited back and forth. *)
(* The editors open one of two rules and a test: the first rule has two     *)
(* tuples and an event no test has, the second iterates.                   *)
EXTENDS MappingTui

CONSTANTS d1, d2, e1, e2

NoItems == [l \in Lists |-> <<>>]
MCDrafts ==
    {[rules |-> <<[id |-> 1, event |-> e1, iter |-> FALSE,
                   lists |-> [NoItems EXCEPT !["tuples"] = <<3, 4>>]],
                  [id |-> 2, event |-> e2, iter |-> TRUE,
                   lists |-> [NoItems EXCEPT !["filters"] = <<5>>, !["each"] = <<6>>]]>>,
      tests |-> <<[id |-> 7, event |-> e2, expects |-> <<8>>]>>]}
===============================================================================
