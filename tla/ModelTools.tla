------------------------------ MODULE ModelTools ------------------------------
(* One model under both tools that evaluate it: `ofga model optimize`       *)
(* rewrites and benchmarks it (Optimizer), `ofga model test` loads tuples   *)
(* into a store of it and traces every check (Coverage).                    *)
EXTENDS Optimizer, Coverage

(* An exclusion that subtracts itself has no meaning to compare with: what  *)
(* the server answers depends on how it evaluates it.                       *)
WellFounded(m) ==
  \A k \in Keys(m) : k \notin Reachable(DependencyGraph(m), SubtractEdges(m, k, m.rewrite[k]))

(* A test loads its tuples and runs its checks with --explain full.         *)
TestModel ==
  /\ stage = "rewrite" /\ cur = before
  /\ WellFounded(cur)
  /\ tuples' \in Loads(cur)
  /\ stage' = "tested"
  /\ UNCHANGED <<before, cur, pass, slipped>>

ToolsNext == Next \/ TestModel

ToolsSpec == Init /\ [][ToolsNext]_vars

Assertions == {a \in {u \in Asked : IsUser(u)} \X Objs \X {k[2] : k \in Keys(cur)} :
                 Key(TypeOf(a[2]), a[3]) \in Keys(cur)}

Traced(a) == Trace(cur, tuples, a[1], a[3], a[2])

(* The explanation of a check agrees with the server's answer, wherever the *)
(* trace did not say that it had to stop (fga/resolution.go, ExpandTree:    *)
(* "a cycle stop does not count as truncation").                            *)
TraceAgrees(t) == t.bounded \/ t.granted = t.verdict

(* What a trace credits, a partial one too, is a branch of the model, and   *)
(* that arm by itself grants the user on some object (docs/site/.../test.mdx*)
(* line 18: "covered only when a check assertion showed that specific arm   *)
(* granting").                                                              *)
CreditsAreReal(t, user) ==
  /\ t.arms \subseteq Branches(cur)
  /\ \A b \in t.arms : ArmHolds(cur, tuples, Objs, user, b)

==============================================================================
