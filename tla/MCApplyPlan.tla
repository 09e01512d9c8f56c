----------------------------- MODULE MCApplyPlan -----------------------------
(* A small instance of ApplyPlan: three tuples, two conditions, and a set   *)
(* of events that overlap in every way that matters.                        *)
EXTENDS ApplyPlan, TLC

CONSTANTS k1, k2, k3, c1, c2

Tuple(k, c) == [x \in Keys |-> IF x = k THEN c ELSE Absent]
NoTuple == [x \in Keys |-> Absent]
Event(f, w, d) == [filter |-> f, want |-> w, drop |-> d]

(* A filter over one, two or three tuples, kept, changed or emptied; a      *)
(* tuple written or deleted unread; one deleted and written by two rules;   *)
(* more changes than one request takes.                                     *)
AllThree(c) == [x \in Keys |-> c]
OverlappingEvents ==
    {Event({k1}, Tuple(k1, c), {}) : c \in {c1, c2}}
    \cup {Event({}, Tuple(k1, c), {}) : c \in {c1, c2}}
    \cup {Event({k1, k2, k3}, w, {}) : w \in {NoTuple, AllThree(c1)}}
    \cup {Event({k1, k2}, Tuple(k2, c1), {}), Event({}, NoTuple, {k1}),
          Event({}, Tuple(k1, c1), {k1}), Event({k1}, Tuple(k1, c1), {k2})}
==============================================================================
