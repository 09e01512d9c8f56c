--------------------------- MODULE InvocationProofs ---------------------------
EXTENDS Invocation, TLAPS

(* What the proofs need to know of the bodies.                              *)
Runs == Diffs \cup {"optimize", "model_test", "mappings_test", "mappings_validate"}
Previews == {"stores_create", "stores_delete", "models_write", "tuples_write", "tuples_delete",
             "assertions_write"}
Saves == {"profiles_use", "profiles_set", "profiles_add", "profiles_unset", "profiles_remove",
          "profiles_cleanup", "init", "theme"}
Last == {"emit", "finish", "verdict", "commit"}
RunSteps == {"run", "show", "print", "report", "verdict", "commit"}

(* One step is the last; what changes the server comes late and once.       *)
Ordered(p) ==
    /\ DOMAIN p = 1..Len(p) /\ Len(p) \in Nat \ {0}
    /\ p[Len(p)] \in Last
    /\ \A i \in 1..Len(p) : p[i] \in Last \ {"verdict"} => i = Len(p)
    /\ \A i, j \in 1..Len(p) : p[i] \in Changing /\ i < j => p[j] \in {"save", "emit"}
    /\ \A i \in 1..Len(p) : p[i] \in Destructive => \E j \in 1..(i - 1) : p[j] = "confirm"
    /\ \A i, j \in 1..Len(p) : p[i] = "save_config" /\ p[j] = "confirm" => j < i
    /\ \A i, j \in 1..Len(p) : p[i] = "preview" /\ p[j] \in Changing => i < j

(* Which command has which step.                                            *)
StepsFit(c, p) ==
    \A i \in 1..Len(p) :
        /\ p[i] \in RunSteps => c \in Runs
        /\ p[i] \in {"show", "commit"} => c = "optimize"
        /\ p[i] = "apply_events" => c = "mappings_apply" /\ i = Len(p) - 1
        /\ p[i] \in {"plan", "name_store"} => c = "mappings_apply"
        /\ p[i] = "batch_check" => c = "batch_check" /\ i = Len(p) - 1
        /\ p[i] = "run_assertion" => c = "assertions_test" /\ i = Len(p) - 1 /\ p[Len(p)] = "emit"
        /\ p[i] = "load_mapping" => c \in {"mappings_test", "mappings_validate", "mappings_apply"}
        /\ p[i] \in {"read_tuples", "sink", "finish"} => c = "tuples_read"
        /\ p[i] = "preview" => c \in Previews
        /\ p[i] = "save_config" => c \in Saves
        /\ p[i] = "install" => c \in Installs
        /\ p[i] = "tour" => c = "init"
        /\ p[i] = "look" => c \in Installs
        /\ p[i] = "save" => c = "stores_create"
        /\ c \in Runs => p[i] \notin Changing \cup {"save_config", "install", "confirm", "emit"}
        /\ c \in Saves => p[i] \notin Changing \cup {"install"}
        /\ c \in Installs => p[i] \notin Changing \cup {"save_config"}
        /\ c \in {"models_get", "models_latest", "tuples_read", "version", "assertions_test",
                  "batch_check"} => p[i] \notin Changing \cup {"save_config", "install"}

(* Where a command that tests has its steps.                                *)
RunsFit(c, p) ==
    /\ c \in Runs => \E i \in 1..(Len(p) - 1) : p[i] = "print"
    /\ c \in Runs \ {"optimize", "mappings_validate"} =>
           \E i \in 1..(Len(p) - 1) : p[i] = "report"
    /\ c \in {"optimize", "mappings_validate"} => \A i \in 1..Len(p) : p[i] # "report"
    /\ c = "optimize" => p[Len(p)] = "commit" /\ p[Len(p) - 1] = "verdict" /\ Len(p) > 1
    /\ c \in Runs \ {"optimize"} => p[Len(p)] = "verdict"
    /\ \A i \in 1..Len(p) : p[i] = "verdict" /\ i < Len(p) => i = Len(p) - 1 /\ c = "optimize"
    /\ \A i, j \in 1..Len(p) : p[i] = "run" /\ p[j] = "verdict" => i < j

Fits(c, p) == Ordered(p) /\ StepsFit(c, p) /\ RunsFit(c, p)

LEMMA BodiesFit ==
    ASSUME NEW v \in Invocations
    PROVE  Fits(v.cmd, Program(v))
<1> USE DEF Fits, Ordered, StepsFit, RunsFit, Runs, Previews, Saves, Last, RunSteps, Diffs, Changing,
            Destructive, Installs
<1>0. v.cmd \in Names /\ v.given \in BOOLEAN
  BY DEF Invocations
<1>1. Fits("stores_create", StoresCreate)
  BY DEF StoresCreate
<1>2. Fits("stores_list", StoresList)
  BY DEF StoresList
<1>3. Fits("stores_get", StoresGet(v))
  BY DEF StoresGet
<1>4. Fits("stores_delete", StoresDelete)
  BY DEF StoresDelete
<1>5. Fits("models_write", ModelsWrite)
  BY DEF ModelsWrite
<1>6. Fits("models_list", ModelsList)
  BY DEF ModelsList
<1>7. Fits("models_get", ModelsGet)
  BY DEF ModelsGet
<1>8. Fits("models_latest", ModelsLatest)
  BY DEF ModelsLatest
<1>9. Fits("models_graph", ModelsGraph(v))
  BY DEF ModelsGraph
<1>10. Fits("tuples_write", TuplesWrite)
  BY DEF TuplesWrite
<1>11. Fits("tuples_delete", TuplesDelete)
  BY DEF TuplesDelete
<1>12. Fits("tuples_read", TuplesRead)
  BY DEF TuplesRead
<1>13. Fits("check", QueryCheck)
  BY DEF QueryCheck
<1>14. Fits("batch_check", QueryBatchCheck)
  BY DEF QueryBatchCheck
<1>15. Fits("expand", QueryExpand)
  BY DEF QueryExpand
<1>16. Fits("list_relations", QueryListRelations(v))
  BY DEF QueryListRelations
<1>17. Fits("list_objects", QueryListObjects)
  BY DEF QueryListObjects
<1>18. Fits("list_users", QueryListUsers)
  BY DEF QueryListUsers
<1>19. Fits("assertions_read", AssertionsRead(v))
  BY DEF AssertionsRead, ResolveModelID
<1>20. Fits("assertions_write", AssertionsWrite(v))
  <2>1. CASE v.given
    BY <2>1 DEF AssertionsWrite, ResolveModelID
  <2>2. CASE ~v.given
    BY <2>2 DEF AssertionsWrite, ResolveModelID
  <2> QED
    BY <2>1, <2>2
<1>21. Fits("assertions_test", AssertionsTest(v))
  BY DEF AssertionsTest, ResolveModelID
<1>22. Fits("api_get", Api("raw_get"))
  BY DEF Api
<1>23. Fits("api_write", Api("raw_write"))
  BY DEF Api
<1>24. Fits("api_store", Api("raw_store"))
  BY DEF Api
<1>25. Fits("version", Version)
  BY DEF Version
<1>26. Fits("diff_files", ModelsDiffFiles)
  BY DEF ModelsDiffFiles
<1>27. Fits("diff_store", ModelsDiffStore)
  BY DEF ModelsDiffStore
<1>28. Fits("diff_models", ModelsDiffModels)
  BY DEF ModelsDiffModels
<1>29. Fits("optimize", ModelsOptimize(v))
  <2>1. CASE v.given
    BY <2>1 DEF ModelsOptimize
  <2>2. CASE ~v.given
    BY <2>2 DEF ModelsOptimize
  <2> QED
    BY <2>1, <2>2
<1>30. Fits("model_test", ModelsTest)
  BY DEF ModelsTest
<1>31. Fits("model_test_init", ModelsTestInit)
  BY DEF ModelsTestInit
<1>32. Fits("model_test_schema", ModelsTestSchema)
  BY DEF ModelsTestSchema
<1>33. Fits("mappings_test", MappingsTest)
  BY DEF MappingsTest
<1>34. Fits("mappings_validate", MappingsValidate(v))
  <2>1. CASE v.given
    BY <2>1 DEF MappingsValidate
  <2>2. CASE ~v.given
    BY <2>2 DEF MappingsValidate
  <2> QED
    BY <2>1, <2>2
<1>35. Fits("mappings_apply", MappingsApply)
  BY DEF MappingsApply
<1>36. Fits("profiles_list", ProfilesList)
  BY DEF ProfilesList
<1>37. Fits("profiles_current", ProfilesCurrent)
  BY DEF ProfilesCurrent
<1>38. Fits("profiles_show", ProfilesShow)
  BY DEF ProfilesShow
<1>39. Fits("profiles_use", ProfilesUse)
  BY DEF ProfilesUse
<1>40. Fits("profiles_set", ProfilesSet)
  BY DEF ProfilesSet
<1>41. Fits("profiles_add", ProfilesAdd)
  BY DEF ProfilesAdd
<1>42. Fits("profiles_unset", ProfilesUnset(v))
  BY DEF ProfilesUnset
<1>43. Fits("profiles_remove", ProfilesRemove)
  BY DEF ProfilesRemove
<1>44. Fits("profiles_cleanup", ProfilesCleanup(v))
  BY DEF ProfilesCleanup
<1>45. Fits("init", InitProfile(v))
  BY DEF InitProfile
<1>46. Fits("theme", Theme(v))
  BY DEF Theme
<1>47. Fits("config_path", ConfigPath)
  BY DEF ConfigPath
<1>48. Fits("skill_show", SkillShow)
  BY DEF SkillShow
<1>49. Fits("skill_install", SkillInstall)
  BY DEF SkillInstall
<1>50. Fits("docs_search", DocsSearch)
  BY DEF DocsSearch
<1>51. Fits("docs_show", DocsShow)
  BY DEF DocsShow
<1> HIDE DEF Fits
<1> QED
  BY <1>0, <1>1, <1>2, <1>3, <1>4, <1>5, <1>6, <1>7, <1>8, <1>9, <1>10, <1>11, <1>12,
     <1>13, <1>14, <1>15, <1>16, <1>17, <1>18, <1>19, <1>20, <1>21, <1>22, <1>23,
     <1>24, <1>25, <1>26, <1>27, <1>28, <1>29, <1>30, <1>31, <1>32, <1>33, <1>34,
     <1>35, <1>36, <1>37, <1>38, <1>39, <1>40, <1>41, <1>42, <1>43, <1>44, <1>45,
     <1>46, <1>47, <1>48, <1>49, <1>50, <1>51 DEF Program, Names

-------------------------------------------------------------------------------
Passed(s) == \E i \in 1..(at - 1) : Program(inv)[i] \in s
Working == pc \in {"flags", "environment", "body", "asking", "sent", "waiting"}
Codes == {0, 1, 2, 3, 4, 130}
PhaseInv ==
    /\ pc \in {"flags", "environment"} => at = 1
    /\ pc \in {"sent", "waiting"} => Step \in DOMAIN Calls
    /\ pc = "asking" => Step = "confirm" /\ Interactive(inv)
    /\ err.code \in Codes /\ held.code \in Codes
AskInv ==
    Working =>
      /\ Passed({"confirm"}) => Approved \/ at = Len(Program(inv)) \/ inv.cmd = "skill_install"
      /\ inv.dryRun /\ Passed({"preview", "plan"}) => at = Len(Program(inv))
      /\ inv.cmd = "skill_install" =>
            /\ at = 3 => seen = "other"
            /\ at = 4 => seen \in {"absent", "other"} /\ (seen = "other" => Approved)
AppliedInv ==
    IF inv.cmd = "mappings_apply"
    THEN /\ at < 9 => applied = 0
         /\ at = 9 => applied < page + lost
         /\ applied <= MaxPages + lost
    ELSE /\ applied <= lost + 1
         /\ Working /\ (\E i \in at..Len(Program(inv)) : Program(inv)[i] \in Changing) => applied <= lost
BInv == TypeOK /\ PhaseInv /\ AskInv /\ AppliedInv


-------------------------------------------------------------------------------
LEMMA AnyBody ==
    ASSUME TypeOK
    PROVE  /\ Ordered(Program(inv)) /\ StepsFit(inv.cmd, Program(inv)) /\ RunsFit(inv.cmd, Program(inv))
           /\ at \in 1..Len(Program(inv)) /\ Len(Program(inv)) \in Nat /\ at \in Nat
<1>1. inv \in Invocations /\ at \in 1..Len(Program(inv))
  BY DEF TypeOK
<1>2. Fits(inv.cmd, Program(inv))
  BY <1>1, BodiesFit
<1>3. Len(Program(inv)) \in Nat
  BY <1>2 DEF Fits, Ordered
<1> QED
  BY <1>1, <1>2, <1>3 DEF Fits

LEMMA NotLast ==
    ASSUME TypeOK, Step \notin Last
    PROVE  at < Len(Program(inv)) /\ at + 1 \in 1..Len(Program(inv))
<1>1. at # Len(Program(inv))
  BY AnyBody DEF Ordered, Step
<1> QED
  BY <1>1, AnyBody

LEMMA PassedOn ==
    ASSUME TypeOK, at' = at + 1, inv' = inv, NEW s
    PROVE  Passed(s)' <=> Passed(s) \/ Step \in s
<1>1. 1..(at' - 1) = 1..(at - 1) \cup {at}
  BY AnyBody
<1> QED
  BY <1>1 DEF Passed, Step

LEMMA PassedStays ==
    ASSUME at' = at, inv' = inv, NEW s
    PROVE  Passed(s)' <=> Passed(s)
BY DEF Passed

LEMMA CallsAre ==
    DOMAIN Calls = {"create_store", "list_stores", "get_store", "delete_store", "write_model",
        "list_models", "get_model", "latest_model", "write_tuple", "delete_tuple",
        "read_tuples", "check", "batch_check", "list_relations", "expand", "list_objects",
        "list_users", "read_assertions", "write_assertions", "run_assertion", "raw_get",
        "raw_write", "raw_store", "name_store", "plan_reads", "apply_events"}
BY DEF Calls

LEMMA ChangesAreNotIdempotent ==
    ASSUME NEW s \in Changing
    PROVE  ~IsIdempotentRPC(Calls[s])
<1>1. \A i, v : ~IsIdempotentRPC(Rpc("DELETE", i, v)) /\ ~IsIdempotentRPC(Rpc("PUT", i, v))
  BY DEF Rpc, IsIdempotentRPC
<1>2. \A i : /\ ~IsIdempotentRPC(Rpc("POST", i, "write"))
             /\ ~IsIdempotentRPC(Rpc("POST", i, "authorization-models"))
  BY DEF Rpc, IsIdempotentRPC
<1>3. \A v : ~IsIdempotentRPC(Rpc("POST", FALSE, v))
  BY DEF Rpc, IsIdempotentRPC
<1>4. /\ Calls["create_store"] = Rpc("POST", FALSE, "")
      /\ Calls["delete_store"] = Rpc("DELETE", TRUE, "")
      /\ Calls["write_model"] = Rpc("POST", TRUE, "authorization-models")
      /\ Calls["write_tuple"] = Rpc("POST", TRUE, "write")
      /\ Calls["delete_tuple"] = Rpc("POST", TRUE, "write")
      /\ Calls["write_assertions"] = Rpc("PUT", TRUE, "assertions")
      /\ Calls["raw_write"] = Rpc("POST", TRUE, "write")
      /\ Calls["raw_store"] = Rpc("POST", FALSE, "read")
      /\ Calls["apply_events"] = Rpc("POST", TRUE, "write")
  BY DEF Calls
<1>5. /\ ~IsIdempotentRPC(Calls["create_store"]) /\ ~IsIdempotentRPC(Calls["delete_store"])
      /\ ~IsIdempotentRPC(Calls["write_model"]) /\ ~IsIdempotentRPC(Calls["write_tuple"])
      /\ ~IsIdempotentRPC(Calls["delete_tuple"]) /\ ~IsIdempotentRPC(Calls["write_assertions"])
      /\ ~IsIdempotentRPC(Calls["raw_write"]) /\ ~IsIdempotentRPC(Calls["raw_store"])
      /\ ~IsIdempotentRPC(Calls["apply_events"])
  BY <1>1, <1>2, <1>3, <1>4, Zenon
<1> QED
  BY <1>5, Zenon DEF Changing

LEMMA CodesAre ==
    /\ \A e \in {NoErr, Plain, Cobra, Usage, NeedsForce, BadInput, TestFailed, NotFound, Invalid,
                LostServer, Pipe, Net, Canceled, Token} : e.code \in Codes
    /\ \A s : Status(s).code \in Codes
    /\ \A e \in DocsErrors : e.code \in Codes
<1>2. \A s : Status(s).code \in Codes
  BY DEF Error, Status, Codes
<1>3. \A e \in {NoErr, Plain, Cobra, Usage, NeedsForce, BadInput, TestFailed, NotFound, Invalid,
                LostServer, Pipe, Net, Canceled, Token} : e.code \in Codes
  <2>1. NoErr.code \in Codes /\ Plain.code \in Codes /\ Cobra.code \in Codes
    BY DEF Error, NoErr, Plain, Cobra, Codes
  <2>2. Usage.code \in Codes /\ NeedsForce.code \in Codes /\ BadInput.code \in Codes
    BY DEF Error, Usage, NeedsForce, BadInput, Codes
  <2>3. TestFailed.code \in Codes /\ NotFound.code \in Codes /\ Invalid.code \in Codes
    BY DEF Error, TestFailed, NotFound, Invalid, Codes
  <2>4. LostServer.code \in Codes /\ Pipe.code \in Codes /\ Net.code \in Codes
    BY DEF Error, LostServer, Pipe, Net, Codes
  <2>5. Canceled.code \in Codes /\ Token.code \in Codes
    BY DEF Error, Canceled, Token, Codes
  <2> QED
    BY <2>1, <2>2, <2>3, <2>4, <2>5
<1>4. \A e \in DocsErrors : e.code \in Codes
  BY DEF Error, DocsErrors, Codes
<1> QED
  BY <1>2, <1>3, <1>4

LEMMA MappingsApplyIs ==
    ASSUME inv.cmd = "mappings_apply"
    PROVE  /\ Program(inv) = MappingsApply /\ Len(Program(inv)) = 10
           /\ Program(inv)[9] = "apply_events" /\ Program(inv)[10] = "emit"
           /\ \A i \in 1..8 : Program(inv)[i] \notin Changing
BY DEF Program, MappingsApply, Changing

LEMMA SkillInstallIs ==
    ASSUME inv.cmd = "skill_install"
    PROVE  /\ Program(inv) = SkillInstall /\ Len(Program(inv)) = 5
           /\ Program(inv)[1] = "validate" /\ Program(inv)[2] = "look" /\ Program(inv)[3] = "confirm"
           /\ Program(inv)[4] = "install" /\ Program(inv)[5] = "emit"
BY DEF Program, SkillInstall

-------------------------------------------------------------------------------
LEMMA Bounds == MaxTries \in Nat \ {0} /\ MaxSends \in Nat \ {0} /\ MaxPages \in Nat \ {0}
BY CommandsAssumption

LEMMA Counters ==
    ASSUME TypeOK
    PROVE  /\ applied \in Nat /\ lost \in Nat /\ wire \in Nat
           /\ page \in Nat \ {0} /\ page <= MaxPages
BY Bounds DEF TypeOK

(* What a step keeps of each part of the invariant, by where it leaves the  *)
(* body: at the same step, at the next one, or at its end.                  *)

LEMMA AskEnds ==
    ASSUME ~Working'
    PROVE  AskInv'
BY DEF AskInv

LEMMA AskStays ==
    ASSUME AskInv, Working, inv' = inv, at' = at, seen' = seen, Approved => Approved'
    PROVE  AskInv'
<1>1. Passed({"confirm"})' <=> Passed({"confirm"})
  BY DEF Passed
<1>2. Passed({"preview", "plan"})' <=> Passed({"preview", "plan"})
  BY DEF Passed
<1> QED
  BY <1>1, <1>2 DEF AskInv

LEMMA AskMoves ==
    ASSUME TypeOK, AskInv, Working, inv' = inv, at' = at + 1, seen' = seen, Approved => Approved',
           Step \notin Last, Step = "confirm" => Approved',
           Step \in {"preview", "plan"} => ~inv.dryRun,
           inv.cmd = "skill_install" => Step \notin {"look", "install"}
    PROVE  AskInv'
<1>1. Passed({"confirm"})' <=> Passed({"confirm"}) \/ Step = "confirm"
  BY PassedOn
<1>2. Passed({"preview", "plan"})' <=> Passed({"preview", "plan"}) \/ Step \in {"preview", "plan"}
  BY PassedOn
<1>3. at < Len(Program(inv)) /\ Len(Program(inv)) \in Nat /\ at \in Nat
  BY NotLast, AnyBody
<1>4. inv.cmd = "skill_install" => at' # 3 /\ (at' = 4 => Step = "confirm" /\ at = 3)
  BY <1>3, SkillInstallIs DEF Step
<1> QED
  BY <1>1, <1>2, <1>3, <1>4 DEF AskInv

LEMMA AppliedStays ==
    ASSUME TypeOK, AppliedInv, inv' = inv, at' = at, page' = page, Working' => Working,
           applied' = applied, lost' = lost \/ lost' = lost + 1
    PROVE  AppliedInv'
<1>1. applied \in Nat /\ lost \in Nat /\ page \in Nat /\ MaxPages \in Nat
  BY Counters, Bounds
<1>2. CASE inv.cmd = "mappings_apply"
  BY <1>1, <1>2 DEF AppliedInv
<1>3. CASE inv.cmd # "mappings_apply"
  BY <1>1, <1>3 DEF AppliedInv
<1> QED
  BY <1>2, <1>3

LEMMA AppliedMoves ==
    ASSUME TypeOK, TypeOK', AppliedInv, Working, inv' = inv, at' \in Nat, at' > at,
           applied' = applied, lost' = lost \/ lost' = lost + 1
    PROVE  AppliedInv'
<1>1. applied \in Nat /\ lost \in Nat /\ page' \in Nat /\ page' >= 1 /\ at \in Nat /\ MaxPages \in Nat
  <2>1. applied \in Nat /\ lost \in Nat
    BY Counters
  <2>2. page' \in Nat /\ page' >= 1
    BY Bounds DEF TypeOK
  <2> QED
    BY <2>1, <2>2, AnyBody, Bounds
<1>2. CASE inv.cmd = "mappings_apply"
  <2>1. at' < 9 => applied = 0
    BY <1>1, <1>2 DEF AppliedInv
  <2>2. at' = 9 => applied' < page' + lost'
    <3>1. at' = 9 => applied' = 0
      BY <1>1, <1>2 DEF AppliedInv
    <3>2. \A p \in Nat \ {0} : 0 < p + lost'
      BY <1>1
    <3>3. page' \in Nat \ {0}
      BY <1>1
    <3> QED
      BY <3>1, <3>2, <3>3, Zenon
  <2>3. applied <= MaxPages + lost
    BY <1>2 DEF AppliedInv
  <2>4. applied' <= MaxPages + lost'
    BY <1>1, <2>3
  <2> QED
    BY <1>2, <2>1, <2>2, <2>4 DEF AppliedInv
<1>3. CASE inv.cmd # "mappings_apply"
  <2>1. at'..Len(Program(inv)) \subseteq at..Len(Program(inv))
    BY <1>1, AnyBody
  <2>2. applied <= lost + 1 => applied' <= lost' + 1
    BY <1>1
  <2>3. applied <= lost => applied' <= lost'
    BY <1>1
  <2> QED
    BY <1>3, <2>1, <2>2, <2>3 DEF AppliedInv
<1> QED
  BY <1>2, <1>3

(* A change carried out; it was due, or an answer was lost.                 *)
LEMMA AppliedChanges ==
    ASSUME TypeOK, TypeOK', AppliedInv, Working, inv' = inv, Step \in Changing,
           applied' = applied \/ applied' = applied + 1,
           \/ lost' = lost + 1 /\ at' = at /\ page' = page
           \/ (lost' = lost \/ lost' = lost + 1) /\ at' = at + 1
           \/ lost' = lost /\ Step = "apply_events" /\ at' = at /\ page' = page + 1
           \/ (lost' = lost \/ lost' = lost + 1) /\ Step # "apply_events" /\ at' = at /\ ~Working'
    PROVE  AppliedInv'
<1>1. /\ applied \in Nat /\ lost \in Nat /\ page \in Nat \ {0} /\ page' \in Nat \ {0} /\ page <= MaxPages
      /\ page' <= MaxPages /\ at \in Nat /\ MaxPages \in Nat /\ Len(Program(inv)) \in Nat
      /\ at <= Len(Program(inv))
  <2>1. page' \in Nat \ {0} /\ page' <= MaxPages
    BY Bounds DEF TypeOK
  <2> QED
    BY <2>1, Counters, AnyBody, Bounds
<1>2. CASE inv.cmd = "mappings_apply"
  <2>1. at \in 1..10 /\ at \notin 1..8
    BY <1>1, <1>2, AnyBody, MappingsApplyIs DEF Step
  <2>2. at # 10
    BY <1>2, MappingsApplyIs DEF Step, Changing
  <2>3. at = 9 /\ Step = "apply_events"
    BY <1>2, <2>1, <2>2, MappingsApplyIs DEF Step
  <2>4. applied < page + lost
    BY <1>2, <2>3 DEF AppliedInv
  <2>5. applied' <= MaxPages + lost' /\ at' >= 9 /\ (at' = 9 => applied' < page' + lost')
    <3>1. CASE lost' = lost + 1 /\ at' = at /\ page' = page
      BY <1>1, <2>3, <2>4, <3>1
    <3>2. CASE (lost' = lost \/ lost' = lost + 1) /\ at' = at + 1
      BY <1>1, <2>3, <2>4, <3>2
    <3>3. CASE lost' = lost /\ at' = at /\ page' = page + 1
      BY <1>1, <2>3, <2>4, <3>3
    <3> QED
      BY <2>3, <3>1, <3>2, <3>3
  <2> QED
    BY <1>2, <2>3, <2>5 DEF AppliedInv
<1>3. CASE inv.cmd # "mappings_apply"
  <2>1. Step # "apply_events"
    BY <1>3, AnyBody DEF StepsFit, Step
  <2>2. at \in at..Len(Program(inv)) /\ Program(inv)[at] \in Changing
    BY <1>1 DEF Step
  <2>3. applied <= lost
    BY <2>2, <1>3 DEF AppliedInv
  <2>4. \A i \in (at + 1)..Len(Program(inv)) : Program(inv)[i] \notin Changing
    <3> SUFFICES ASSUME NEW i \in (at + 1)..Len(Program(inv))
                 PROVE  Program(inv)[i] \notin Changing
      OBVIOUS
    <3>1. i \in 1..Len(Program(inv)) /\ at \in 1..Len(Program(inv)) /\ at < i
      BY <1>1, AnyBody
    <3>2. Program(inv)[i] \in {"save", "emit"}
      BY <3>1, <2>2, AnyBody DEF Ordered
    <3> QED
      BY <3>2 DEF Changing
  <2>5. CASE lost' = lost + 1 /\ at' = at
    BY <1>1, <1>3, <2>3, <2>5 DEF AppliedInv
  <2>6. CASE (lost' = lost \/ lost' = lost + 1) /\ at' = at + 1
    <3>1. ~\E i \in at'..Len(Program(inv')) : Program(inv')[i] \in Changing
      BY <2>4, <2>6
    <3>2. applied' <= lost' + 1
      BY <1>1, <2>3, <2>6
    <3> QED
      BY <1>3, <3>1, <3>2 DEF AppliedInv
  <2>7. CASE (lost' = lost \/ lost' = lost + 1) /\ ~Working'
    BY <1>1, <1>3, <2>3, <2>7 DEF AppliedInv
  <2> QED
    BY <2>1, <2>5, <2>6, <2>7
<1> QED
  BY <1>2, <1>3

-------------------------------------------------------------------------------
(* The ways the control goes on.                                            *)

LEMMA OnFail ==
    ASSUME BInv, Working, NEW e, e.code \in Codes, Fail(e)
    PROVE  BInv'
<1>1. TypeOK'
  BY DEF BInv, TypeOK, Fail, Return, request, effects, files, verdict
<1>2. PhaseInv' /\ ~Working'
  BY DEF BInv, PhaseInv, Working, Fail, Return
<1>3. AppliedInv'
  BY <1>2, AppliedStays DEF BInv, Fail, request, effects
<1> QED
  BY <1>1, <1>2, <1>3, AskEnds DEF BInv

LEMMA OnAdvance ==
    ASSUME BInv, pc = "body", Advance, Step \notin Last,
           Step = "confirm" => Approved, Step \in {"preview", "plan"} => ~inv.dryRun,
           inv.cmd = "skill_install" => Step \notin {"look", "install"}
    PROVE  BInv'
<1>1. TypeOK'
  <2>1. at + 1 \in 1..Len(Program(inv))
    BY NotLast DEF BInv
  <2> QED
    BY <2>1, Bounds DEF BInv, TypeOK, Advance, Fresh, effects, outputs, files, verdict
<1>2. PhaseInv' /\ Working
  BY DEF BInv, PhaseInv, Working, Advance
<1>3. AskInv'
  BY <1>2, AskMoves DEF BInv, Advance, Approved, outputs, files
<1>4. AppliedInv'
  BY <1>1, <1>2, AppliedMoves, AnyBody DEF BInv, Advance, effects
<1> QED
  BY <1>1, <1>2, <1>3, <1>4 DEF BInv

(* The process waits, or something happens around it.                       *)
LEMMA OnStay ==
    ASSUME BInv, TypeOK', PhaseInv', inv' = inv, at' = at, page' = page, seen' = seen,
           Approved => Approved', Working' => Working,
           applied' = applied, lost' = lost \/ lost' = lost + 1
    PROVE  BInv'
<1>1. AskInv'
  BY AskStays, AskEnds DEF BInv
<1>2. AppliedInv'
  BY AppliedStays DEF BInv
<1> QED
  BY <1>1, <1>2 DEF BInv

(* It goes on at a later step.                                              *)
LEMMA OnMove ==
    ASSUME BInv, Working, TypeOK', PhaseInv', inv' = inv, at' = at + 1, seen' = seen,
           Approved => Approved', Step \notin Last, Step = "confirm" => Approved',
           Step \in {"preview", "plan"} => ~inv.dryRun,
           inv.cmd = "skill_install" => Step \notin {"look", "install"},
           applied' = applied, lost' = lost \/ lost' = lost + 1
    PROVE  BInv'
<1>1. AskInv'
  BY AskMoves DEF BInv
<1>2. at' \in Nat /\ at' > at
  BY AnyBody DEF BInv
<1>3. AppliedInv'
  BY <1>2, AppliedMoves DEF BInv
<1> QED
  BY <1>1, <1>3 DEF BInv

-------------------------------------------------------------------------------
(* The steps before the requests.                                           *)

LEMMA InitHolds ==
    ASSUME Init
    PROVE  BInv
<1>1. Ordered(Program(inv)) /\ inv \in Invocations
  BY BodiesFit DEF Init, Fits
<1>2. TypeOK
  <2>1. disk \in {"absent", "other", "same"}
    BY DEF Init
  <2>2. at \in 1..Len(Program(inv))
    <3>1. Len(Program(inv)) \in Nat \ {0}
      BY <1>1 DEF Ordered
    <3>2. at = 1
      BY DEF Init
    <3> QED
      BY <3>1, <3>2
  <2>3. tries \in 1..MaxTries /\ sends \in 1..MaxSends /\ page \in 1..MaxPages
    <3>1. tries = 1 /\ sends = 1 /\ page = 1
      BY DEF Init
    <3> QED
      BY <3>1, Bounds
  <2> QED
    BY <1>1, <2>1, <2>2, <2>3 DEF Init, TypeOK
<1>3. PhaseInv
  BY CodesAre DEF Init, PhaseInv
<1>4. AskInv
  <2>1. at = 1
    BY DEF Init
  <2>2. \A s : ~Passed(s)
    BY <2>1 DEF Passed
  <2> QED
    BY <2>1, <2>2 DEF AskInv
<1>5. AppliedInv
  <2>1. applied = 0 /\ lost = 0 /\ at = 1
    BY DEF Init
  <2> QED
    BY <2>1, Bounds DEF AppliedInv
<1> QED
  BY <1>2, <1>3, <1>4, <1>5 DEF BInv

LEMMA ParseFlagsKeeps ==
    ASSUME BInv, ParseFlags
    PROVE  BInv'
<1>1. CASE \E e \in {Cobra, Plain, Usage} : Fail(e)
  BY <1>1, OnFail, CodesAre DEF ParseFlags, Working
<1>2. CASE /\ pc' = "environment" /\ ran' = TRUE
           /\ UNCHANGED <<inv, at, confirmed, interrupted, held, err, request, effects, reader,
                          outputs, verdict>>
  <2>1. TypeOK'
    BY <1>2 DEF BInv, TypeOK, request, effects, outputs, files, verdict
  <2>2. PhaseInv'
    BY <1>2 DEF BInv, PhaseInv, ParseFlags
  <2> QED
    BY <1>2, <2>1, <2>2, OnStay DEF ParseFlags, request, effects, outputs, files, Working, Approved
<1> QED
  BY <1>1, <1>2 DEF ParseFlags

LEMMA EnvironmentKeeps ==
    ASSUME BInv, Environment
    PROVE  BInv'
<1>1. CASE \E e \in {Plain, Usage, Cobra} : Fail(e)
  BY <1>1, OnFail, CodesAre DEF Environment, Working
<1>2. CASE /\ pc' = "body"
           /\ UNCHANGED <<inv, at, ran, confirmed, interrupted, held, err, request, effects,
                          reader, outputs, verdict>>
  <2>1. TypeOK'
    BY <1>2 DEF BInv, TypeOK, request, effects, outputs, files, verdict
  <2>2. PhaseInv'
    BY <1>2 DEF BInv, PhaseInv, Environment
  <2> QED
    BY <1>2, <2>1, <2>2, OnStay DEF Environment, request, effects, outputs, files, Working, Approved
<1> QED
  BY <1>1, <1>2 DEF Environment

(* The steps that fail or go on.                                            *)
Plainly == {"validate", "file", "profile", "refuse", "load_mapping", "client", "store", "save"}
LEMMA PlainlyKeeps ==
    ASSUME BInv, Validate \/ ReadInput \/ LookupProfile \/ Refuse \/ LoadMapping \/ Client
                 \/ ClientWithStore \/ Save
    PROVE  BInv'
<1>1. pc = "body" /\ Step \in Plainly
  BY DEF Body, Validate, ReadInput, LookupProfile, Refuse, LoadMapping, Client, ClientWithStore, Save,
         Plainly
<1>2. Advance => BInv'
  BY <1>1, OnAdvance DEF Plainly, Last
<1>3. \A e : e.code \in Codes /\ Fail(e) => BInv'
  BY <1>1, OnFail DEF Working
<1>4. Validate => BInv'
  BY <1>2, <1>3, CodesAre DEF Validate
<1>5. ReadInput => BInv'
  BY <1>2, <1>3, CodesAre DEF ReadInput, InputErrors
<1>6. LookupProfile => BInv'
  BY <1>2, <1>3, CodesAre DEF LookupProfile
<1>7. Refuse => BInv'
  BY <1>2, <1>3, CodesAre DEF Refuse
<1>8. LoadMapping => BInv'
  BY <1>2, <1>3, CodesAre DEF LoadMapping
<1>9. Client \/ ClientWithStore \/ Save => BInv'
  BY <1>2, <1>3, CodesAre DEF Client, ClientWithStore, Save
<1> QED
  BY <1>4, <1>5, <1>6, <1>7, <1>8, <1>9

LEMMA PreviewKeeps ==
    ASSUME BInv, Preview
    PROVE  BInv'
<1>1. pc = "body" /\ Step = "preview"
  BY DEF Preview, Body
<1>2. CASE ~inv.dryRun /\ Advance
  BY <1>1, <1>2, OnAdvance DEF Last
<1>3. CASE /\ inv.dryRun /\ at' = Len(Program(inv))
           /\ UNCHANGED <<inv, pc, ran, confirmed, interrupted, held, err, request, effects,
                          reader, outputs, verdict>>
  <2>1. TypeOK'
    BY <1>3, AnyBody DEF BInv, TypeOK, request, effects, outputs, files, verdict, Ordered
  <2>2. PhaseInv'
    BY <1>1, <1>3 DEF BInv, PhaseInv
  <2>3. inv.cmd # "skill_install"
    BY <1>1, AnyBody DEF BInv, StepsFit, Step, Previews
  <2>4. AskInv'
    BY <1>3, <2>3 DEF AskInv
  <2>5. at < at' /\ at' \in Nat
    BY <1>1, <1>3, NotLast, AnyBody DEF BInv, Last
  <2>6. AppliedInv'
    BY <1>1, <1>3, <2>1, <2>5, AppliedMoves DEF BInv, Working, effects
  <2> QED
    BY <2>1, <2>2, <2>4, <2>6 DEF BInv
<1> QED
  BY <1>2, <1>3 DEF Preview

LEMMA ConfirmKeeps ==
    ASSUME BInv, Confirm
    PROVE  BInv'
<1>1. pc = "body" /\ Step = "confirm"
  BY DEF Confirm, Body
<1>2. CASE Approves(inv) /\ Advance
  BY <1>1, <1>2, OnAdvance DEF Last, Approves, Approved
<1>3. CASE Fail(NeedsForce)
  BY <1>1, <1>3, OnFail, CodesAre DEF Working
<1>4. CASE /\ ~Approves(inv) /\ Interactive(inv)
           /\ pc' = "asking"
           /\ UNCHANGED <<inv, at, ran, confirmed, interrupted, held, err, request, effects,
                          reader, outputs, verdict>>
  <2>1. TypeOK'
    BY <1>4 DEF BInv, TypeOK, request, effects, outputs, files, verdict
  <2>2. PhaseInv'
    BY <1>1, <1>4 DEF BInv, PhaseInv, Step
  <2> QED
    BY <1>1, <1>4, <2>1, <2>2, OnStay DEF request, effects, outputs, files, Working, Approved
<1> QED
  BY <1>2, <1>3, <1>4 DEF Confirm

LEMMA AnswerKeeps ==
    ASSUME BInv, Answer
    PROVE  BInv'
<1>1. pc = "asking" /\ Step = "confirm" /\ Interactive(inv)
  BY DEF BInv, PhaseInv, Answer
<1>2. CASE Fail(Plain)
  BY <1>1, <1>2, OnFail, CodesAre DEF Working
<1>3. CASE /\ pc' = "body" /\ at' = at + 1 /\ confirmed' = TRUE
           /\ UNCHANGED <<inv, ran, interrupted, held, err, request, effects, reader, outputs,
                          verdict>>
  <2>0. at + 1 \in 1..Len(Program(inv))
    BY <1>1, NotLast DEF BInv, Last
  <2>1. TypeOK'
    BY <1>3, <2>0 DEF BInv, TypeOK, request, effects, outputs, files, verdict
  <2>2. PhaseInv'
    BY <1>1, <1>3 DEF BInv, PhaseInv
  <2>3. Approved'
    BY <1>1, <1>3 DEF Approved, Interactive
  <2>4. Working /\ Step \notin Last
    BY <1>1 DEF Working, Last
  <2> QED
    BY <1>1, <1>3, <2>1, <2>2, <2>3, <2>4, OnMove DEF effects, outputs, files
<1> QED
  BY <1>2, <1>3 DEF Answer

-------------------------------------------------------------------------------
(* The requests.                                                            *)

LEMMA CallingSteps ==
    ASSUME Step \in DOMAIN Calls
    PROVE  /\ Step \notin Last \cup {"confirm", "preview", "plan", "look", "install", "save_config"}
           /\ Step # "tour"
BY CallsAre DEF Last

(* What a request that failed for good leaves.                              *)
LEMMA OnGiveUp ==
    ASSUME BInv, pc \in {"body", "sent", "waiting"}, Step \in DOMAIN Calls,
           NEW e, e.code \in Codes, GiveUp(e),
           applied' = applied \/ (Step \in Changing /\ applied' = applied + 1),
           lost' = lost \/ lost' = lost + 1
    PROVE  BInv'
<1> DEFINE Leaves == pc' = "exiting" /\ Step # "apply_events" /\ at' = at /\ UNCHANGED <<held, request>>
           Goes == pc' = "body" /\ at' = at + 1 /\ Fresh /\ held'.code \in Codes /\ err' = err
<1>0. Working /\ Step \notin Last /\ Step \notin {"confirm", "preview", "plan", "look", "install"}
  BY CallingSteps DEF Working
<1>1. Leaves \/ Goes
  <2>1. CASE Advance
    BY <2>1 DEF BInv, PhaseInv, Advance
  <2>2. CASE Step # "apply_events" /\ Return(e) /\ UNCHANGED <<at, held, request, unmet>>
    BY <2>2 DEF Return
  <2>3. CASE /\ Step = "batch_check" /\ held' = e /\ unmet' = TRUE
             /\ pc' = "body" /\ at' = at + 1 /\ Fresh /\ UNCHANGED <<err, printed, staged>>
    BY <2>3
  <2>4. CASE /\ Step = "apply_events" /\ held' \in ApplyFailure(e)
             /\ pc' = "body" /\ at' = at + 1 /\ Fresh /\ UNCHANGED <<unmet, err, printed, staged>>
    <3>1. \A h \in ApplyFailure(e) : h.code \in Codes
      BY CodesAre DEF ApplyFailure, Code, Error, Codes
    <3> QED
      BY <2>4, <3>1
  <2> QED
    BY <2>1, <2>2, <2>3, <2>4 DEF GiveUp
<1>2. /\ inv' = inv /\ ran' = ran /\ confirmed' = confirmed /\ interrupted' = interrupted
      /\ reader' = reader /\ wire' = wire /\ UNCHANGED <<disk, seen, again>> /\ exit' = exit
      /\ export' = export
  BY DEF GiveUp, Advance, effects, outputs, files, verdict
<1>3. (err' = err \/ err' = e) /\ gaveUp' \in BOOLEAN /\ unmet' \in BOOLEAN /\ staged' \in BOOLEAN
      /\ printed' \in {"nothing", "error", "all"}
  BY DEF GiveUp, Advance, Return, effects, outputs, BInv, TypeOK
<1>4. at + 1 \in 1..Len(Program(inv)) /\ at \in 1..Len(Program(inv))
  BY <1>0, NotLast, AnyBody DEF BInv
<1>5. applied' \in Nat /\ lost' \in Nat
  BY Counters DEF BInv
<1>6. TypeOK'
  BY <1>1, <1>2, <1>3, <1>4, <1>5, Bounds DEF BInv, TypeOK, Fresh, request
<1>7. PhaseInv'
  BY <1>1, <1>3 DEF BInv, PhaseInv
<1>8. AskInv'
  <2>1. CASE Leaves
    BY <2>1, AskEnds DEF Working
  <2>2. CASE Goes
    BY <2>2, <1>0, <1>2, AskMoves DEF BInv, Approved
  <2> QED
    BY <1>1, <2>1, <2>2
<1>9. AppliedInv'
  <2>1. CASE applied' = applied /\ Leaves
    BY <2>1, <1>0, <1>2, AppliedStays DEF BInv, request
  <2>2. CASE applied' = applied /\ Goes
    <3>1. at' \in Nat /\ at' > at
      BY <2>2, AnyBody DEF BInv
    <3> QED
      BY <2>2, <3>1, <1>0, <1>2, <1>6, AppliedMoves DEF BInv
  <2>3. CASE Step \in Changing /\ applied' = applied + 1 /\ Leaves
    <3>1. ~Working'
      BY <2>3 DEF Working
    <3> QED
      BY <2>3, <3>1, <1>0, <1>2, <1>6, AppliedChanges DEF BInv
  <2>4. CASE Step \in Changing /\ applied' = applied + 1 /\ Goes
    BY <2>4, <1>0, <1>2, <1>6, AppliedChanges DEF BInv
  <2> QED
    BY <1>1, <2>1, <2>2, <2>3, <2>4
<1> QED
  BY <1>6, <1>7, <1>8, <1>9 DEF BInv

LEMMA SendKeeps ==
    ASSUME BInv, Send
    PROVE  BInv'
<1>1. TypeOK'
  <2>1. wire' \in Nat
    BY Counters DEF Send, BInv
  <2> QED
    BY <2>1 DEF BInv, TypeOK, Send, request, outputs, files, verdict
<1>2. PhaseInv'
  BY DEF BInv, PhaseInv, Send, Step
<1> QED
  BY <1>1, <1>2, OnStay DEF Send, request, outputs, files, Working, Approved

LEMMA SendCanceledKeeps ==
    ASSUME BInv, SendCanceled
    PROVE  BInv'
<1>1. PICK e \in {Net, Canceled} : GiveUp(e)
  BY DEF SendCanceled
<1> QED
  BY <1>1, OnGiveUp, CodesAre DEF SendCanceled

LEMMA BackoffKeeps ==
    ASSUME BInv, Backoff
    PROVE  BInv'
<1>1. pc = "waiting" /\ Step \in DOMAIN Calls
  BY DEF Backoff, BInv, PhaseInv
<1>2. CASE /\ pc' = "body"
           /\ UNCHANGED <<inv, at, ran, confirmed, interrupted, held, err, request, effects,
                          reader, outputs, verdict>>
  <2>1. TypeOK'
    BY <1>2 DEF BInv, TypeOK, request, effects, outputs, files, verdict
  <2>2. PhaseInv'
    BY <1>2 DEF BInv, PhaseInv
  <2> QED
    BY <1>1, <1>2, <2>1, <2>2, OnStay DEF request, effects, outputs, files, Working, Approved
<1>3. CASE GiveUp(Canceled) /\ UNCHANGED <<applied, lost>>
  BY <1>1, <1>3, OnGiveUp, CodesAre
<1> QED
  BY <1>2, <1>3 DEF Backoff

LEMMA WaitKeeps ==
    ASSUME BInv, pc = "sent", Retry \/ Resend,
           applied' = applied \/ (Step \in Changing /\ applied' = applied + 1 /\ lost' = lost + 1),
           lost' = lost \/ lost' = lost + 1
    PROVE  BInv'
<1>1. Step \in DOMAIN Calls /\ Working
  BY DEF BInv, PhaseInv, Working
<1>2. tries' \in 1..MaxTries /\ sends' \in 1..MaxSends
  BY Bounds DEF BInv, TypeOK, Retry, Resend
<1>3. applied' \in Nat /\ lost' \in Nat
  BY Counters DEF BInv
<1>4. Wait
  BY DEF Retry, Resend
<1>5. TypeOK'
  BY <1>2, <1>3, <1>4 DEF BInv, TypeOK, Wait, outputs, files, verdict
<1>6. PhaseInv'
  BY <1>1, <1>4 DEF BInv, PhaseInv, Wait, Step
<1>7. CASE applied' = applied
  BY <1>1, <1>4, <1>5, <1>6, <1>7, OnStay DEF Wait, outputs, files, Approved
<1>8. CASE Step \in Changing /\ applied' = applied + 1 /\ lost' = lost + 1
  <2>1. AskInv'
    BY <1>1, <1>4, AskStays DEF BInv, Wait, outputs, files, Approved
  <2>2. AppliedInv'
    BY <1>1, <1>4, <1>5, <1>8, AppliedChanges DEF BInv, Wait
  <2> QED
    BY <1>5, <1>6, <2>1, <2>2 DEF BInv
<1> QED
  BY <1>7, <1>8

LEMMA SucceedKeeps ==
    ASSUME BInv, pc = "sent", Succeed
    PROVE  BInv'
<1>1. Step \in DOMAIN Calls /\ Working
  BY DEF BInv, PhaseInv, Working
<1>2. Step \notin Last /\ Step \notin {"confirm", "preview", "plan", "look", "install"}
  BY <1>1, CallingSteps
<1>3. applied' = applied \/ (Step \in Changing /\ applied' = applied + 1)
  BY DEF Succeed, Apply
<1>4. /\ inv' = inv /\ lost' = lost /\ seen' = seen /\ confirmed' = confirmed
      /\ tries' = 1 /\ sends' = 1 /\ pc' = "body" /\ held' = held /\ err' = err
  BY DEF Succeed, outputs, files
<1>5. unmet' \in BOOLEAN
  BY DEF Succeed, BInv, TypeOK
<1>6. applied' \in Nat
  BY <1>3, Counters DEF BInv
<1>7. at \in 1..Len(Program(inv)) /\ at + 1 \in 1..Len(Program(inv))
  BY <1>2, NotLast, AnyBody DEF BInv
<1>8. \/ /\ Step \in Paged /\ page < MaxPages /\ page' = page + 1 /\ at' = at
      \/ page' = 1 /\ at' = at + 1
  BY DEF Succeed
<1>9. page' \in 1..MaxPages
  BY <1>8, Counters, Bounds DEF BInv
<1>10. TypeOK'
  BY <1>4, <1>5, <1>6, <1>7, <1>8, <1>9, Bounds DEF BInv, TypeOK, Succeed, outputs, files, verdict
<1>11. PhaseInv'
  BY <1>4 DEF BInv, PhaseInv
<1>12. CASE applied' = applied /\ page' = 1 /\ at' = at + 1
  BY <1>1, <1>2, <1>4, <1>10, <1>11, <1>12, OnMove DEF Approved
<1>13. CASE at' = at /\ page' = page + 1 /\ Step \in Paged
  <2>1. AskInv'
    BY <1>1, <1>4, <1>13, AskStays DEF BInv, Approved
  <2>2. AppliedInv'
    <3>1. CASE Step = "apply_events"
      <4>1. Step \in Changing
        BY <3>1 DEF Changing
      <4> QED
        BY <1>1, <1>3, <1>4, <1>10, <1>13, <3>1, <4>1, AppliedChanges DEF BInv
    <3>2. CASE Step # "apply_events"
      <4>1. applied' = applied
        BY <1>3, <1>13, <3>2 DEF Changing, Paged
      <4>2. inv.cmd = "mappings_apply" => at # 9
        BY <3>2, MappingsApplyIs DEF Step
      <4> QED
        BY <1>1, <1>4, <1>13, <4>1, <4>2 DEF BInv, AppliedInv, Working
    <3> QED
      BY <3>1, <3>2
  <2> QED
    BY <1>10, <1>11, <2>1, <2>2 DEF BInv
<1>14. CASE Step \in Changing /\ applied' = applied + 1 /\ page' = 1 /\ at' = at + 1
  <2>1. AskInv'
    BY <1>1, <1>2, <1>4, <1>14, AskMoves DEF BInv, Approved
  <2>2. AppliedInv'
    BY <1>1, <1>4, <1>10, <1>14, AppliedChanges DEF BInv
  <2> QED
    BY <1>10, <1>11, <2>1, <2>2 DEF BInv
<1> QED
  BY <1>3, <1>8, <1>12, <1>13, <1>14

LEMMA ExchangeKeeps ==
    ASSUME BInv, Exchange
    PROVE  BInv'
<1>1. pc = "sent" /\ Step \in DOMAIN Calls
  BY DEF Exchange, BInv, PhaseInv
<1>2. MayApply => applied' = applied \/ (Step \in Changing /\ applied' = applied + 1)
  BY DEF MayApply, Apply, CanApply
<1>3. CASE Succeed
  BY <1>1, <1>3, SucceedKeeps
<1>4. CASE StreamFails
  BY <1>1, <1>4, OnFail, CodesAre DEF StreamFails, Working
<1>5. CASE Refused
  <2>1. PICK s : GiveUp(Status(s))
    BY <1>5 DEF Refused
  <2> QED
    BY <1>1, <1>5, <2>1, OnGiveUp, CodesAre DEF Refused
<1>6. CASE Throttled
  <2>1. CASE Resend
    BY <1>1, <1>6, <2>1, WaitKeeps DEF Throttled
  <2>2. CASE GiveUp(Status("429"))
    BY <1>1, <1>6, <2>2, OnGiveUp, CodesAre DEF Throttled
  <2> QED
    BY <1>6, <2>1, <2>2 DEF Throttled
<1>7. CASE ServerFails
  <2>1. CASE IsIdempotentRPC(Calls[Step]) /\ Retry
    <3>1. applied' = applied
      BY <1>2, <1>7, <2>1, ChangesAreNotIdempotent DEF ServerFails
    <3> QED
      BY <1>1, <1>7, <2>1, <3>1, WaitKeeps DEF ServerFails
  <2>2. CASE GiveUp(Status("500"))
    BY <1>1, <1>2, <1>7, <2>2, OnGiveUp, CodesAre DEF ServerFails
  <2> QED
    BY <1>7, <2>1, <2>2 DEF ServerFails
<1>8. CASE Unanswered
  <2>1. CASE Resend
    BY <1>1, <1>2, <1>8, <2>1, WaitKeeps DEF Unanswered
  <2>2. CASE \E e \in Unreachable : GiveUp(e)
    <3>1. PICK e \in Unreachable : GiveUp(e)
      BY <2>2
    <3>2. e.code \in Codes
      BY CodesAre DEF Unreachable
    <3> QED
      BY <1>1, <1>2, <1>8, <3>1, <3>2, OnGiveUp DEF Unanswered
  <2> QED
    BY <1>8, <2>1, <2>2 DEF Unanswered
<1>9. CASE TokenRejected
  BY <1>1, <1>9, OnGiveUp, CodesAre DEF TokenRejected
<1>10. CASE Aborted
  BY <1>1, <1>2, <1>10, OnGiveUp, CodesAre DEF Aborted
<1> QED
  BY <1>3, <1>4, <1>5, <1>6, <1>7, <1>8, <1>9, <1>10 DEF Exchange

-------------------------------------------------------------------------------
(* The work done in the process, the configuration and the output.          *)

LEMMA OnReturn ==
    ASSUME BInv, Working, NEW e, e.code \in Codes, Return(e),
           UNCHANGED <<inv, at, ran, confirmed, interrupted, held, request, wire, applied, lost,
                       unmet, reader, files, verdict>>,
           gaveUp' \in BOOLEAN, printed' \in {"nothing", "error", "all"}, export' \in {"old", "new"}
    PROVE  BInv'
<1>1. TypeOK'
  BY DEF BInv, TypeOK, Return, request, files, verdict
<1>2. PhaseInv' /\ ~Working'
  BY DEF BInv, PhaseInv, Working, Return
<1>3. AppliedInv'
  BY <1>2, AppliedStays DEF BInv, request
<1> QED
  BY <1>1, <1>2, <1>3, AskEnds DEF BInv

LEMMA OnGo ==
    ASSUME BInv, pc = "body", GoTo(at + 1), confirmed' = confirmed, UNCHANGED files,
           Step \notin Last \cup {"confirm", "preview", "look", "install"},
           Step = "plan" => ~inv.dryRun,
           printed' \in {"nothing", "error", "all"}, export' \in {"old", "new"}
    PROVE  BInv'
<1>1. at + 1 \in 1..Len(Program(inv))
  BY NotLast DEF BInv
<1>2. TypeOK'
  BY <1>1, Bounds DEF BInv, TypeOK, GoTo, Fresh, effects, files, verdict
<1>3. PhaseInv'
  BY DEF BInv, PhaseInv, GoTo
<1> QED
  BY <1>2, <1>3, OnMove DEF GoTo, effects, files, Working, Approved

LEMMA AskingKeeps ==
    ASSUME BInv, NothingToAsk \/ AskDocs
    PROVE  BInv'
<1>1. pc = "body" /\ Step \in {"run_assertion", "plan_reads", "ask_docs"}
  BY DEF NothingToAsk, AskDocs, Body
<1>2. CASE Advance
  BY <1>1, <1>2, OnAdvance DEF Last
<1>3. CASE \E e \in DocsErrors : Lose(e)
  <2>1. PICK e \in DocsErrors : Lose(e)
    BY <1>3
  <2> QED
    BY <1>1, <2>1, OnReturn, CodesAre DEF Lose, Working, BInv, TypeOK
<1> QED
  BY <1>2, <1>3 DEF NothingToAsk, AskDocs

LEMMA RunKeeps ==
    ASSUME BInv, Run
    PROVE  BInv'
<1>1. pc = "body" /\ Step = "run" /\ Working
  BY DEF Run, Body, Working
<1>2. CASE \E e \in RunErrors(inv) : Fail(e)
  BY <1>1, <1>2, OnFail, CodesAre DEF RunErrors
<1>3. CASE Lose(LostServer)
  BY <1>1, <1>3, OnReturn, CodesAre DEF Lose, BInv, TypeOK
<1>4. CASE Fail(Canceled)
  BY <1>1, <1>4, OnFail, CodesAre
<1>5. CASE /\ unmet' \in BOOLEAN /\ at' = at + 1
           /\ UNCHANGED <<inv, pc, ran, confirmed, interrupted, held, err, request, wire,
                          applied, lost, gaveUp, reader, outputs, verdict>>
  <2>1. at + 1 \in 1..Len(Program(inv)) /\ Step \notin Last
    BY <1>1, NotLast DEF BInv, Last
  <2>2. TypeOK'
    BY <1>5, <2>1 DEF BInv, TypeOK, request, outputs, files, verdict
  <2>3. PhaseInv'
    BY <1>1, <1>5 DEF BInv, PhaseInv
  <2> QED
    BY <1>1, <1>5, <2>1, <2>2, <2>3, OnMove DEF outputs, files, Approved
<1> QED
  BY <1>2, <1>3, <1>4, <1>5 DEF Run

LEMMA ShowKeeps ==
    ASSUME BInv, Show
    PROVE  BInv'
<1>1. pc = "body" /\ Step = "show" /\ Working /\ Step \notin Last
  BY DEF Show, Body, Working, Last
<1>2. Advance => BInv'
  BY <1>1, OnAdvance
<1>3. Fail(Pipe) => BInv'
  BY <1>1, OnFail, CodesAre
<1>4. printed' = "all" /\ GoTo(at + 1) /\ UNCHANGED <<confirmed, export, files>> => BInv'
  BY <1>1, OnGo DEF BInv, TypeOK
<1> QED
  BY <1>2, <1>3, <1>4 DEF Show

LEMMA PrintKeeps ==
    ASSUME BInv, PrintResult
    PROVE  BInv'
<1>1. pc = "body" /\ Step = "print" /\ Working /\ Step \notin Last
  BY DEF PrintResult, Body, Working, Last
<1>2. (\E e \in {Pipe, Plain, TestFailed} : Fail(e)) => BInv'
  BY <1>1, OnFail, CodesAre
<1>3. CASE /\ GoTo(at + 1) /\ UNCHANGED <<confirmed, export, files>>
           /\ printed' \in {"all", printed}
  <2>1. printed' \in {"nothing", "error", "all"} /\ export' \in {"old", "new"}
    BY <1>3 DEF BInv, TypeOK
  <2> QED
    BY <1>1, <1>3, <2>1, OnGo
<1> QED
  BY <1>2, <1>3 DEF PrintResult, PreferGateOnBrokenPipe

LEMMA ReportKeeps ==
    ASSUME BInv, Report
    PROVE  BInv'
<1>1. pc = "body" /\ Step = "report" /\ Working /\ Step \notin Last
  BY DEF Report, Body, Working, Last
<1>2. (\E e \in {Pipe, Plain, TestFailed} : Fail(e)) => BInv'
  BY <1>1, OnFail, CodesAre
<1>3. Advance => BInv'
  BY <1>1, OnAdvance
<1>4. export' = "new" /\ GoTo(at + 1) /\ UNCHANGED <<confirmed, printed, files>> => BInv'
  BY <1>1, OnGo DEF BInv, TypeOK
<1> QED
  BY <1>2, <1>3, <1>4 DEF Report, PreferGateOnBrokenPipe

LEMMA GateKeeps ==
    ASSUME BInv, Gate
    PROVE  BInv'
<1>1. pc = "body" /\ Step = "verdict" /\ Working
  BY DEF Gate, Body, Working
<1>2. (\E e \in {NoErr, Usage, Plain, Invalid, TestFailed} : Fail(e)) => BInv'
  BY <1>1, OnFail, CodesAre
<1>3. CASE at < Len(Program(inv)) /\ Advance
  <2>1. at + 1 \in 1..Len(Program(inv)) /\ at' = at + 1 /\ at' \in Nat /\ at' > at
    BY <1>3, AnyBody DEF BInv, Advance
  <2>2. TypeOK'
    BY <1>3, <2>1, Bounds DEF BInv, TypeOK, Advance, Fresh, effects, outputs, files, verdict
  <2>3. PhaseInv'
    BY <1>3 DEF BInv, PhaseInv, Advance
  <2>4. AppliedInv'
    BY <1>1, <1>3, <2>1, <2>2, AppliedMoves DEF BInv, Advance, effects
  <2>5. inv.cmd \in Runs
    BY <1>1, AnyBody DEF BInv, StepsFit, RunSteps, Step
  <2>6. inv.cmd # "skill_install"
    BY <2>5 DEF Runs, Diffs
  <2>7. Passed({"confirm"})' => Passed({"confirm"})
    BY <1>1, <1>3, <2>1, PassedOn DEF BInv, Advance
  <2>8. Passed({"preview", "plan"})' => Passed({"preview", "plan"})
    BY <1>1, <1>3, <2>1, PassedOn DEF BInv, Advance
  <2>9. AskInv'
    BY <1>1, <1>3, <2>1, <2>6, <2>7, <2>8, AnyBody DEF BInv, AskInv, Advance, Approved
  <2> QED
    BY <2>2, <2>3, <2>4, <2>9 DEF BInv
<1> QED
  BY <1>2, <1>3 DEF Gate, VerdictError

LEMMA CommitKeeps ==
    ASSUME BInv, CommitRewrite
    PROVE  BInv'
<1>1. pc = "body" /\ Working
  BY DEF CommitRewrite, Body, Working
<1>2. (\E e \in {NoErr, Plain, Pipe} : Fail(e)) => BInv'
  BY <1>1, OnFail, CodesAre
<1>3. CASE /\ Return(NoErr) /\ export' = "new"
           /\ UNCHANGED <<inv, at, ran, confirmed, interrupted, held, request, effects, reader,
                          printed, files, verdict>>
  <2>1. printed' \in {"nothing", "error", "all"} /\ export' \in {"old", "new"} /\ gaveUp' \in BOOLEAN
    BY <1>3 DEF BInv, TypeOK, effects
  <2> QED
    BY <1>1, <1>3, <2>1, OnReturn, CodesAre DEF effects
<1> QED
  BY <1>2, <1>3 DEF CommitRewrite

LEMMA PlanKeeps ==
    ASSUME BInv, PlanChanges
    PROVE  BInv'
<1>1. pc = "body" /\ Step = "plan" /\ Working /\ Step \notin Last
  BY DEF PlanChanges, Body, Working, Last
<1>2. (\E e \in {Plain, Pipe} : Fail(e)) => BInv'
  BY <1>1, OnFail, CodesAre
<1>3. CASE /\ \E n \in {at + 1, Len(Program(inv))} : (inv.dryRun => n # at + 1) /\ GoTo(n)
           /\ UNCHANGED <<confirmed, export, files>>
           /\ printed' \in {printed, "all"}
  <2>1. printed' \in {"nothing", "error", "all"} /\ export' \in {"old", "new"}
    BY <1>3 DEF BInv, TypeOK
  <2>2. CASE GoTo(at + 1) /\ ~inv.dryRun
    BY <1>1, <1>3, <2>1, <2>2, OnGo
  <2>3. CASE GoTo(Len(Program(inv)))
    <3>1. Len(Program(inv)) \in 1..Len(Program(inv)) /\ at' = Len(Program(inv)) /\ at' \in Nat /\ at' > at
      BY <1>1, <2>3, NotLast, AnyBody DEF BInv, GoTo
    <3>2. TypeOK'
      BY <1>3, <2>1, <2>3, <3>1, Bounds DEF BInv, TypeOK, GoTo, Fresh, effects, files, verdict
    <3>3. PhaseInv'
      BY <2>3 DEF BInv, PhaseInv, GoTo
    <3>4. AppliedInv'
      BY <1>1, <2>3, <3>1, <3>2, AppliedMoves DEF BInv, GoTo, effects
    <3>5. inv.cmd # "skill_install"
      BY <1>1, AnyBody DEF BInv, StepsFit, Step
    <3>6. AskInv'
      BY <2>3, <3>1, <3>5 DEF AskInv, GoTo
    <3> QED
      BY <3>2, <3>3, <3>4, <3>6 DEF BInv
  <2> QED
    BY <1>3, <2>2, <2>3
<1> QED
  BY <1>2, <1>3 DEF PlanChanges

LEMMA SaveConfigKeeps ==
    ASSUME BInv, SaveConfig
    PROVE  BInv'
<1>1. pc = "body" /\ Step = "save_config" /\ Working /\ Step \notin Last
  BY DEF SaveConfig, Body, Working, Last
<1>2. Fail(Plain) => BInv'
  BY <1>1, OnFail, CodesAre
<1>3. CASE /\ Return(Plain) /\ export' = "new"
           /\ UNCHANGED <<inv, at, ran, confirmed, interrupted, held, request, effects, reader,
                          printed, files, verdict>>
  <2>1. printed' \in {"nothing", "error", "all"} /\ export' \in {"old", "new"} /\ gaveUp' \in BOOLEAN
    BY <1>3 DEF BInv, TypeOK, effects
  <2> QED
    BY <1>1, <1>3, <2>1, OnReturn, CodesAre DEF effects
<1>4. CASE export' = "new" /\ GoTo(at + 1) /\ UNCHANGED <<confirmed, printed, files>>
  BY <1>1, <1>4, OnGo DEF BInv, TypeOK
<1> QED
  BY <1>2, <1>3, <1>4 DEF SaveConfig

LEMMA InitIs ==
    ASSUME inv.cmd = "init"
    PROVE  /\ Program(inv)[1] = "refuse" /\ Program(inv)[2] = "file" /\ Program(inv)[3] = "tour"
           /\ Len(Program(inv)) \in {5, 6} /\ Program(inv)[Len(Program(inv))] = "emit"
           /\ Program(inv)[Len(Program(inv)) - 1] = "save_config"
           /\ Len(Program(inv)) = 6 => Program(inv)[4] = "confirm"
<1>1. CASE inv.given
  BY <1>1 DEF Program, InitProfile
<1>2. CASE ~inv.given
  BY <1>2 DEF Program, InitProfile
<1> QED
  BY <1>1, <1>2

LEMMA TourKeeps ==
    ASSUME BInv, Tour
    PROVE  BInv'
<1>1. pc = "body" /\ Step = "tour" /\ Working /\ Step \notin Last
  BY DEF Tour, Body, Working, Last
<1>2. (\E e \in {Plain, NoErr} : Fail(e)) => BInv'
  BY <1>1, OnFail, CodesAre
<1>3. Advance => BInv'
  BY <1>1, OnAdvance
<1>4. CASE /\ WizardEligible(inv) /\ confirmed' = TRUE /\ GoTo(Len(Program(inv)) - 1)
           /\ UNCHANGED <<printed, export, files>>
  <2>1. inv.cmd = "init"
    BY <1>1, AnyBody DEF BInv, StepsFit, Step
  <2>2. at \notin {1, 2, Len(Program(inv)), Len(Program(inv)) - 1}
    BY <1>1, <2>1, InitIs DEF Step
  <2>3. /\ Len(Program(inv)) - 1 \in 1..Len(Program(inv)) /\ at' = Len(Program(inv)) - 1
        /\ at' \in Nat /\ at' > at
    BY <1>4, <2>1, <2>2, InitIs, AnyBody DEF BInv, GoTo
  <2>4. TypeOK'
    BY <1>4, <2>3, Bounds DEF BInv, TypeOK, GoTo, Fresh, effects, files, verdict
  <2>5. PhaseInv'
    BY <1>4 DEF BInv, PhaseInv, GoTo
  <2>6. AppliedInv'
    BY <1>1, <1>4, <2>3, <2>4, AppliedMoves DEF BInv, GoTo, effects
  <2>7. Approved'
    BY <1>4 DEF GoTo, Approved, WizardEligible
  <2>8. \A i \in 1..Len(Program(inv)) : Program(inv)[i] \notin {"preview", "plan"}
    BY <2>1, AnyBody DEF BInv, StepsFit, Previews
  <2>9. ~Passed({"preview", "plan"})'
    BY <1>4, <2>3, <2>8 DEF Passed, GoTo
  <2>10. AskInv'
    BY <1>4, <2>1, <2>7, <2>9 DEF AskInv, GoTo
  <2> QED
    BY <2>4, <2>5, <2>6, <2>10 DEF BInv
<1> QED
  BY <1>2, <1>3, <1>4 DEF Tour

LEMMA SkillSteps ==
    ASSUME TypeOK, inv.cmd = "skill_install"
    PROVE  /\ Len(Program(inv)) = 5
           /\ Step = "look" => at = 2
           /\ Step = "install" => at = 4
<1>1. Len(Program(inv)) = 5 /\ at \in 1..Len(Program(inv))
  BY SkillInstallIs DEF TypeOK
<1>2. at = 1 \/ at = 2 \/ at = 3 \/ at = 4 \/ at = 5
  BY <1>1
<1> QED
  BY <1>1, <1>2, SkillInstallIs DEF Step

LEMMA LookKeeps ==
    ASSUME BInv, Look
    PROVE  BInv'
<1>1. pc = "body" /\ Step = "look" /\ Working /\ Step \notin Last
  BY DEF Look, Body, Working, Last
<1>2. (\E e \in {Plain, Usage} : Fail(e)) => BInv'
  BY <1>1, OnFail, CodesAre
<1>3. CASE inv.cmd = "model_test_init" /\ Advance
  BY <1>1, <1>3, OnAdvance
<1>4. CASE /\ inv.cmd = "skill_install" /\ seen' = disk
           /\ GoTo(CASE disk = "same" -> Len(Program(inv)) [] disk = "absent" -> at + 2 [] OTHER -> at + 1)
           /\ UNCHANGED <<confirmed, printed, export, disk, again>>
  <2>1. at = 2 /\ Len(Program(inv)) = 5
    BY <1>1, <1>4, SkillSteps DEF BInv
  <2>2. \/ disk = "same" /\ at' = 5
        \/ disk = "absent" /\ at' = 4
        \/ disk = "other" /\ at' = 3
    BY <1>4, <2>1 DEF BInv, TypeOK, GoTo
  <2>3. at' \in 1..Len(Program(inv)) /\ at' \in Nat /\ at' > at
    BY <2>1, <2>2
  <2>4. TypeOK'
    BY <1>4, <2>3, Bounds DEF BInv, TypeOK, GoTo, Fresh, effects, verdict
  <2>5. PhaseInv'
    BY <1>4 DEF BInv, PhaseInv, GoTo
  <2>6. AppliedInv'
    BY <1>1, <1>4, <2>3, <2>4, AppliedMoves DEF BInv, GoTo, effects
  <2>7. Program(inv)[1] # "preview" /\ \A i \in 1..Len(Program(inv)) : Program(inv)[i] \notin {"preview", "plan"}
    BY <1>4, AnyBody, SkillInstallIs DEF BInv, StepsFit, Previews
  <2>8. ~Passed({"preview", "plan"})'
    BY <1>4, <2>3, <2>7, AnyBody DEF BInv, Passed, GoTo
  <2>9. AskInv'
    <3>1. inv' = inv /\ inv'.cmd = "skill_install" /\ seen' = disk
      BY <1>4 DEF GoTo
    <3>2. at' = 3 => seen' = "other"
      BY <2>2, <3>1
    <3>3. at' = 4 => seen' = "absent"
      BY <2>2, <3>1
    <3> QED
      BY <2>8, <3>1, <3>2, <3>3 DEF AskInv
  <2> QED
    BY <2>4, <2>5, <2>6, <2>9 DEF BInv
<1> QED
  BY <1>2, <1>3, <1>4 DEF Look

LEMMA InstallKeeps ==
    ASSUME BInv, InstallFile
    PROVE  BInv'
<1>1. pc = "body" /\ Step = "install" /\ Working /\ Step \notin Last
  BY DEF InstallFile, Body, Working, Last
<1>2. Fail(Plain) => BInv'
  BY <1>1, OnFail, CodesAre
<1>3. inv.cmd = "skill_install" => at = 4 /\ Len(Program(inv)) = 5
  BY <1>1, SkillSteps DEF BInv
<1>4. CASE /\ Appeared /\ ~again /\ again' = TRUE /\ GoTo(at - 2)
           /\ UNCHANGED <<confirmed, printed, export, disk, seen>>
  <2>1. inv.cmd = "skill_install" /\ at = 4 /\ at' = 2 /\ Len(Program(inv)) = 5
    BY <1>3, <1>4 DEF Appeared, GoTo
  <2>2. TypeOK'
    BY <1>4, <2>1, Bounds DEF BInv, TypeOK, GoTo, Fresh, effects, verdict
  <2>3. PhaseInv'
    BY <1>4 DEF BInv, PhaseInv, GoTo
  <2>4. AppliedInv'
    <3>1. at'..Len(Program(inv)) \subseteq 1..Len(Program(inv))
      BY <2>1
    <3>2. \A i \in 1..Len(Program(inv)) : Program(inv)[i] \notin Changing
      BY <2>1, AnyBody DEF BInv, StepsFit, Installs
    <3>3. inv.cmd # "mappings_apply" /\ applied' = applied /\ lost' = lost /\ inv' = inv
      BY <1>4, <2>1 DEF GoTo, effects
    <3> QED
      BY <3>1, <3>2, <3>3 DEF BInv, AppliedInv
  <2>5. ~Passed({"preview", "plan"})'
    BY <1>4, <2>1, SkillInstallIs DEF Passed, GoTo
  <2>6. AskInv'
    BY <1>4, <2>1, <2>5 DEF AskInv, GoTo
  <2> QED
    BY <2>2, <2>3, <2>4, <2>6 DEF BInv
<1>5. CASE /\ ~Appeared /\ disk' = "same" /\ GoTo(at + 1)
           /\ UNCHANGED <<confirmed, printed, export, seen, again>>
  <2>1. at + 1 \in 1..Len(Program(inv)) /\ at' = at + 1 /\ at' \in Nat /\ at' > at
    BY <1>1, <1>5, NotLast, AnyBody DEF BInv, GoTo
  <2>2. TypeOK'
    BY <1>5, <2>1, Bounds DEF BInv, TypeOK, GoTo, Fresh, effects, verdict
  <2>3. PhaseInv'
    BY <1>5 DEF BInv, PhaseInv, GoTo
  <2>4. AppliedInv'
    BY <1>1, <1>5, <2>1, <2>2, AppliedMoves DEF BInv, GoTo, effects
  <2>5. inv.cmd \in Installs
    BY <1>1, AnyBody DEF BInv, StepsFit, Step
  <2>6. Passed({"preview", "plan"})' => Passed({"preview", "plan"})
    BY <1>1, <1>5, <2>1, PassedOn DEF BInv, GoTo
  <2>7. Passed({"confirm"})' => Passed({"confirm"})
    BY <1>1, <1>5, <2>1, PassedOn DEF BInv, GoTo
  <2>8. inv' = inv /\ confirmed' = confirmed /\ pc' = "body"
    BY <1>5 DEF GoTo
  <2>9. AskInv'
    <3>1. inv.dryRun /\ Passed({"preview", "plan"}) => FALSE
      BY <1>1, NotLast DEF BInv, AskInv
    <3>2. CASE inv.cmd = "skill_install"
      <4>1. at' = 5
        BY <1>3, <2>1, <3>2
      <4> QED
        BY <2>6, <2>8, <3>1, <3>2, <4>1 DEF AskInv
    <3>3. CASE inv.cmd # "skill_install"
      <4>1. Passed({"confirm"}) => Approved
        BY <1>1, <3>3, NotLast DEF BInv, AskInv
      <4> QED
        BY <2>6, <2>7, <2>8, <3>1, <3>3, <4>1 DEF AskInv, Approved
    <3> QED
      BY <3>2, <3>3
  <2> QED
    BY <2>2, <2>3, <2>4, <2>9 DEF BInv
<1> QED
  BY <1>2, <1>4, <1>5 DEF InstallFile

LEMMA SinkKeeps ==
    ASSUME BInv, Sink
    PROVE  BInv'
<1>1. pc = "body" /\ Step = "sink" /\ Working /\ Step \notin Last
  BY DEF Sink, Body, Working, Last
<1>2. Fail(Plain) => BInv'
  BY <1>1, OnFail, CodesAre
<1>3. CASE /\ staged' = inv.toFile /\ at' = at + 1
           /\ UNCHANGED <<inv, pc, ran, confirmed, interrupted, held, err, request, effects,
                          reader, printed, export, files, verdict>>
  <2>1. at + 1 \in 1..Len(Program(inv))
    BY <1>1, NotLast DEF BInv
  <2>2. staged' \in BOOLEAN
    BY <1>3 DEF BInv, TypeOK, Invocations
  <2>3. TypeOK'
    BY <1>3, <2>1, <2>2 DEF BInv, TypeOK, request, effects, files, verdict
  <2>4. PhaseInv'
    BY <1>1, <1>3 DEF BInv, PhaseInv
  <2> QED
    BY <1>1, <1>3, <2>3, <2>4, OnMove DEF effects, files, Approved
<1> QED
  BY <1>2, <1>3 DEF Sink

LEMMA EndErrorIs ==
    ASSUME BInv
    PROVE  EndError.code \in Codes
BY CodesAre DEF BInv, PhaseInv, EndError

LEMMA DeliverKeeps ==
    ASSUME BInv, pc = "body", Deliver
    PROVE  BInv'
<1>1. Working
  BY DEF Working
<1>2. (\E e \in {Pipe, Plain, TestFailed} : Fail(e)) => BInv'
  BY <1>1, OnFail, CodesAre
<1>3. CASE /\ Return(EndError) /\ printed' \in {printed, "all"}
           /\ UNCHANGED <<inv, at, ran, confirmed, interrupted, held, request, effects, reader,
                          export, files, verdict>>
  <2>1. printed' \in {"nothing", "error", "all"} /\ export' \in {"old", "new"} /\ gaveUp' \in BOOLEAN
    BY <1>3 DEF BInv, TypeOK, effects
  <2> QED
    BY <1>1, <1>3, <2>1, OnReturn, EndErrorIs DEF effects
<1> QED
  BY <1>2, <1>3 DEF Deliver, PreferAssertionFailure

LEMMA OutputKeeps ==
    ASSUME BInv, Emit \/ Finish
    PROVE  BInv'
<1>1. pc = "body" /\ Working
  BY DEF Emit, Finish, Body, Working
<1>2. Deliver => BInv'
  BY <1>1, DeliverKeeps
<1>3. (\E e \in {Usage, Plain} : Fail(e)) => BInv'
  BY <1>1, OnFail, CodesAre
<1>4. CASE /\ Return(NoErr) /\ export' = "new"
           /\ UNCHANGED <<inv, at, ran, confirmed, interrupted, held, request, effects, reader,
                          printed, files, verdict>>
  <2>1. printed' \in {"nothing", "error", "all"} /\ export' \in {"old", "new"} /\ gaveUp' \in BOOLEAN
    BY <1>4 DEF BInv, TypeOK, effects
  <2> QED
    BY <1>1, <1>4, <2>1, OnReturn, CodesAre DEF effects
<1> QED
  BY <1>2, <1>3, <1>4 DEF Emit, Finish

LEMMA ExitKeeps ==
    ASSUME BInv, Exit
    PROVE  BInv'
<1>1. exit' \in {0, 1, 2, 3, 4, 130}
  BY DEF BInv, PhaseInv, Exit, ExitCode, Code, Codes
<1>2. TypeOK'
  BY <1>1 DEF BInv, TypeOK, Exit, request, effects, outputs, files
<1>3. PhaseInv'
  BY DEF BInv, PhaseInv, Exit
<1> QED
  BY <1>2, <1>3, OnStay DEF Exit, request, effects, outputs, files, Working, Approved

LEMMA AroundKeeps ==
    ASSUME BInv, Interrupt \/ CloseReader \/ Appears \/ Kill \/ UNCHANGED vars
    PROVE  BInv'
<1>1. CASE Interrupt
  <2>1. TypeOK'
    BY <1>1 DEF BInv, TypeOK, Interrupt, request, effects, outputs, files, verdict
  <2>2. PhaseInv'
    BY <1>1 DEF BInv, PhaseInv, Interrupt, Step
  <2> QED
    BY <1>1, <2>1, <2>2, OnStay DEF Interrupt, request, effects, outputs, files, Working, Approved
<1>2. CASE CloseReader
  <2>1. TypeOK'
    BY <1>2 DEF BInv, TypeOK, CloseReader, request, effects, outputs, files, verdict
  <2>2. PhaseInv'
    BY <1>2 DEF BInv, PhaseInv, CloseReader, Step
  <2> QED
    BY <1>2, <2>1, <2>2, OnStay DEF CloseReader, request, effects, outputs, files, Working, Approved
<1>3. CASE Appears
  <2>1. TypeOK'
    BY <1>3 DEF BInv, TypeOK, Appears, request, effects, verdict
  <2>2. PhaseInv'
    BY <1>3 DEF BInv, PhaseInv, Appears, Step
  <2> QED
    BY <1>3, <2>1, <2>2, OnStay DEF Appears, request, effects, Working, Approved
<1>4. CASE Kill
  <2>1. TypeOK'
    BY <1>4 DEF BInv, TypeOK, Kill, request, effects, outputs, files, verdict
  <2>2. PhaseInv' /\ ~Working'
    BY <1>4 DEF BInv, PhaseInv, Kill, Working
  <2> QED
    BY <1>4, <2>1, <2>2, OnStay DEF Kill, request, effects, outputs, files, Approved
<1>5. CASE UNCHANGED vars
  <2>1. TypeOK'
    BY <1>5 DEF BInv, TypeOK, vars, request, effects, outputs, files, verdict
  <2>2. PhaseInv'
    BY <1>5 DEF BInv, PhaseInv, vars, Step
  <2> QED
    BY <1>5, <2>1, <2>2, OnStay DEF vars, request, effects, outputs, files, Working, Approved
<1> QED
  BY <1>1, <1>2, <1>3, <1>4, <1>5

LEMMA NextKeeps ==
    ASSUME BInv, [Next]_vars
    PROVE  BInv'
<1>1. CASE ParseFlags \/ Environment \/ Preview \/ Confirm \/ Answer
  BY <1>1, ParseFlagsKeeps, EnvironmentKeeps, PreviewKeeps, ConfirmKeeps, AnswerKeeps
<1>2. CASE Validate \/ ReadInput \/ Client \/ ClientWithStore \/ LookupProfile \/ Refuse
           \/ LoadMapping \/ Save
  BY <1>2, PlainlyKeeps
<1>3. CASE Send \/ SendCanceled \/ Exchange \/ Backoff
  BY <1>3, SendKeeps, SendCanceledKeeps, ExchangeKeeps, BackoffKeeps
<1>4. CASE NothingToAsk \/ AskDocs \/ Run \/ Show \/ PrintResult \/ Report \/ Gate \/ CommitRewrite
  BY <1>4, AskingKeeps, RunKeeps, ShowKeeps, PrintKeeps, ReportKeeps, GateKeeps, CommitKeeps
<1>5. CASE PlanChanges \/ SaveConfig \/ Tour \/ Look \/ InstallFile
  BY <1>5, PlanKeeps, SaveConfigKeeps, TourKeeps, LookKeeps, InstallKeeps
<1>6. CASE Sink \/ Emit \/ Finish \/ Exit
  BY <1>6, SinkKeeps, OutputKeeps, ExitKeeps
<1>7. CASE Interrupt \/ CloseReader \/ Appears \/ Kill \/ UNCHANGED vars
  BY <1>7, AroundKeeps
<1> QED
  BY <1>1, <1>2, <1>3, <1>4, <1>5, <1>6, <1>7 DEF Next, Ended

LEMMA AppliedFollows ==
    ASSUME BInv
    PROVE  AppliedOnce
<1>1. applied \in Nat /\ lost \in Nat /\ page \in Nat
  BY Counters DEF BInv
<1>2. CASE inv.cmd # "mappings_apply"
  <2>0. Step # "apply_events"
    BY <1>2, AnyBody DEF BInv, StepsFit, Step
  <2>1. applied <= lost + 1 /\ Due = 1
    BY <1>2, <2>0 DEF BInv, AppliedInv, Due
  <2> QED
    BY <1>1, <2>1 DEF AppliedOnce
<1>3. CASE inv.cmd = "mappings_apply"
  <2>1. CASE Step = "apply_events"
    <3>1. at = Len(Program(inv)) - 1
      BY <2>1, AnyBody DEF BInv, StepsFit, Step
    <3>2. at = 9
      <4>1. Len(Program(inv)) = 10
        BY <1>3, MappingsApplyIs
      <4> QED
        BY <3>1, <4>1
    <3>3. applied < page + lost /\ Due = page
      BY <1>3, <2>1, <3>2 DEF BInv, AppliedInv, Due
    <3> QED
      BY <1>1, <3>3 DEF AppliedOnce
  <2>2. CASE Step # "apply_events"
    BY <1>1, <1>3, <2>2, Bounds DEF BInv, AppliedInv, AppliedOnce, Due
  <2> QED
    BY <2>1, <2>2
<1> QED
  BY <1>2, <1>3

(* The server carries a change out once, and once more only for an exchange *)
(* whose answer was lost.                                                   *)
THEOREM ChangesAreAppliedOnce == Spec => []AppliedOnce
<1>1. Init => BInv
  BY InitHolds
<1>2. BInv /\ [Next]_vars => BInv'
  BY NextKeeps
<1>3. BInv => AppliedOnce
  BY AppliedFollows
<1> QED
  BY <1>1, <1>2, <1>3, PTL DEF Spec

-------------------------------------------------------------------------------
(* What only some steps do.                                                 *)

LEMMA WhoChangesWhat ==
    ASSUME Next
    PROVE  /\ pc # "sent" /\ pc' = "sent" => Send
           /\ export' # export => Report \/ CommitRewrite \/ SaveConfig \/ Finish
           /\ disk' # disk => InstallFile \/ Appears
<1> DEFINE Quiet == (pc # "sent" => pc' # "sent") /\ export' = export /\ disk' = disk
           Silent == (pc # "sent" => pc' # "sent") /\ disk' = disk
<1>1. \A e : Fail(e) => Quiet
  BY DEF Fail, Return, files
<1>2. Advance => Quiet
  BY DEF Advance, outputs, files
<1>3. \A e : GiveUp(e) => Quiet
  BY <1>2 DEF GiveUp, Return, files
<1>4. Retry \/ Resend => Quiet
  BY DEF Retry, Resend, Wait, outputs, files
<1>5. \A e : Lose(e) => Quiet
  BY DEF Lose, Return, files
<1>6. ParseFlags \/ Environment \/ Preview \/ Confirm \/ Answer => Quiet
  BY <1>1, <1>2 DEF ParseFlags, Environment, Preview, Confirm, Answer, Body, outputs, files
<1>7. Validate \/ ReadInput \/ Client \/ ClientWithStore \/ LookupProfile \/ Refuse \/ LoadMapping
      \/ Save => Quiet
  BY <1>1, <1>2 DEF Validate, ReadInput, Client, ClientWithStore, LookupProfile, Refuse,
                    LoadMapping, Save
<1>8. SendCanceled \/ Exchange \/ Backoff => Quiet
  <2>1. Succeed \/ StreamFails \/ Refused \/ Throttled => Quiet
    BY <1>1, <1>3, <1>4 DEF Succeed, StreamFails, Refused, Throttled, outputs, files
  <2>2. ServerFails \/ Unanswered \/ TokenRejected \/ Aborted => Quiet
    BY <1>3, <1>4 DEF ServerFails, Unanswered, TokenRejected, Aborted
  <2> QED
    BY <1>3, <2>1, <2>2 DEF SendCanceled, Exchange, Backoff, outputs, files
<1>9. NothingToAsk \/ AskDocs \/ Run \/ Show \/ PrintResult \/ Gate => Quiet
  BY <1>1, <1>2, <1>5 DEF NothingToAsk, AskDocs, Run, Show, PrintResult, Gate, GoTo, Body, outputs, files
<1>10. Send => export' = export /\ disk' = disk
  BY DEF Send, outputs, files
<1>11. Report \/ CommitRewrite \/ SaveConfig \/ Finish => Silent
  BY <1>1, <1>2 DEF Report, CommitRewrite, SaveConfig, Finish, Deliver, GoTo, Return, Body, files
<1>12. PlanChanges \/ Tour \/ Look => Quiet
  BY <1>1, <1>2 DEF PlanChanges, Tour, Look, GoTo, files
<1>13. InstallFile => pc' # "sent" /\ export' = export
  BY <1>1 DEF InstallFile, GoTo, Fail, Return
<1>14. Sink \/ Emit \/ Exit => Quiet
  BY <1>1 DEF Sink, Emit, Deliver, Return, Exit, Body, outputs, files
<1>15. Interrupt \/ CloseReader \/ Kill \/ Ended => Quiet
  BY DEF Interrupt, CloseReader, Kill, Ended, vars, outputs, files
<1>16. Appears => pc' = pc /\ export' = export
  BY DEF Appears
<1> HIDE DEF Quiet
<1>17. \/ Quiet \/ Send \/ InstallFile \/ Appears
       \/ (Report \/ CommitRewrite \/ SaveConfig \/ Finish) /\ Silent
  BY <1>6, <1>7, <1>8, <1>9, <1>11, <1>12, <1>14, <1>15 DEF Next
<1> QED
  BY <1>10, <1>13, <1>16, <1>17 DEF Quiet

LEMMA SendIsAsked ==
    ASSUME BInv, Send, Step \in Destructive
    PROVE  Approved /\ ~inv.dryRun /\ ~interrupted
<1>1. pc = "body" /\ Working /\ Step \in DOMAIN Calls /\ ~interrupted
  BY DEF Send, Working
<1>2. at < Len(Program(inv)) /\ at \in 1..Len(Program(inv))
  BY <1>1, CallingSteps, NotLast, AnyBody DEF BInv
<1>3. Step \in Changing
  BY DEF Destructive, Changing
<1>4. inv.cmd # "skill_install"
  BY <1>2, <1>3, AnyBody DEF BInv, StepsFit, Installs, Step
<1>5. Passed({"confirm"})
  BY <1>2, AnyBody DEF BInv, Ordered, Passed, Step
<1>6. inv.dryRun => Passed({"preview", "plan"})
  <2> SUFFICES ASSUME inv.dryRun
               PROVE  Passed({"preview", "plan"})
    OBVIOUS
  <2>1. Has(inv, "preview") \/ Has(inv, "plan")
    BY DEF BInv, TypeOK, Invocations
  <2>2. PICK i \in 1..Len(Program(inv)) : Program(inv)[i] \in {"preview", "plan"}
    BY <2>1 DEF Has
  <2>3. CASE Program(inv)[i] = "preview"
    <3>1. i < at
      BY <1>2, <1>3, <2>2, <2>3, AnyBody DEF BInv, Ordered, Step
    <3> QED
      BY <1>2, <2>2, <3>1, AnyBody DEF BInv, Passed
  <2>4. CASE Program(inv)[i] = "plan"
    <3>1. inv.cmd = "mappings_apply"
      BY <2>2, <2>4, AnyBody DEF BInv, StepsFit
    <3>2. Len(Program(inv)) = 10 /\ i # 9 /\ i # 10
      BY <2>4, <3>1, MappingsApplyIs
    <3>3. at \notin 1..8
      BY <1>3, <3>1, MappingsApplyIs DEF Step
    <3>4. at = 9 /\ i \in 1..(at - 1)
      BY <1>2, <2>2, <3>2, <3>3
    <3> QED
      BY <2>2, <3>4 DEF Passed
  <2> QED
    BY <2>2, <2>3, <2>4
<1> QED
  BY <1>1, <1>2, <1>4, <1>5, <1>6 DEF BInv, AskInv

LEMMA ExportIsAsked ==
    ASSUME BInv, Report \/ CommitRewrite \/ SaveConfig \/ Finish, Has(inv, "confirm")
    PROVE  Approved
<1>1. PICK j \in 1..Len(Program(inv)) : Program(inv)[j] = "confirm"
  BY DEF Has
<1>2. pc = "body" /\ Working /\ Step \in {"report", "commit", "save_config", "finish"}
  BY DEF Report, CommitRewrite, SaveConfig, Finish, Body, Working
<1>3. Step \notin {"report", "commit"}
  BY <1>1, AnyBody DEF BInv, StepsFit, RunSteps, Step
<1>4. Step # "finish"
  <2>1. SUFFICES ASSUME inv.cmd = "tuples_read"
                 PROVE  FALSE
    BY AnyBody DEF BInv, StepsFit, Step
  <2> QED
    BY <1>1, <2>1 DEF Program, TuplesRead
<1>5. j < at /\ inv.cmd \in Saves /\ at < Len(Program(inv))
  BY <1>1, <1>2, <1>3, <1>4, AnyBody, NotLast DEF BInv, Ordered, StepsFit, Step, Last
<1>6. Passed({"confirm"})
  BY <1>1, <1>5, AnyBody DEF BInv, Passed
<1> QED
  BY <1>2, <1>5, <1>6, AnyBody DEF BInv, AskInv, Saves

LEMMA InstallIsAsked ==
    ASSUME BInv, InstallFile \/ Appears, disk = "other", disk' = "same", inv.cmd = "skill_install"
    PROVE  Approved
<1>1. InstallFile
  BY DEF Appears
<1>2. Step = "install" /\ pc = "body" /\ Working
  BY <1>1 DEF InstallFile, Body, Working
<1>3. at = 4
  BY <1>2, SkillSteps DEF BInv
<1>4. ~Appeared
  BY <1>1 DEF InstallFile, Fail, files
<1>5. seen # "absent"
  BY <1>4 DEF Appeared
<1> QED
  BY <1>2, <1>3, <1>5 DEF BInv, AskInv

(* What destroys or replaces something happens only after the user approved *)
(* it: no request in a dry run or after an interrupt, no profile removed or *)
(* overwritten, and no skill file replaced.                                 *)
THEOREM NothingHappensUnasked == Spec => NothingUnasked
<1> DEFINE Asked ==
      /\ (pc # "sent" /\ pc' = "sent" /\ Step \in Destructive) =>
             Approved /\ ~inv.dryRun /\ ~interrupted
      /\ (export # export' /\ Has(inv, "confirm")) => Approved
      /\ (disk = "other" /\ disk' = "same" /\ inv.cmd = "skill_install") => Approved
<1>1. Init => BInv
  BY InitHolds
<1>2. BInv /\ [Next]_vars => BInv'
  BY NextKeeps
<1>3. BInv /\ [Next]_vars => [Asked]_vars
  <2> SUFFICES ASSUME BInv, Next
               PROVE  Asked
    OBVIOUS
  <2>1. (pc # "sent" /\ pc' = "sent" /\ Step \in Destructive) =>
            Approved /\ ~inv.dryRun /\ ~interrupted
    BY WhoChangesWhat, SendIsAsked
  <2>2. (export # export' /\ Has(inv, "confirm")) => Approved
    BY WhoChangesWhat, ExportIsAsked
  <2>3. (disk = "other" /\ disk' = "same" /\ inv.cmd = "skill_install") => Approved
    BY WhoChangesWhat, InstallIsAsked
  <2> QED
    BY <2>1, <2>2, <2>3
<1> QED
  BY <1>1, <1>2, <1>3, PTL DEF Spec, NothingUnasked

-------------------------------------------------------------------------------
(* What the exit code says. While the command works: what has been passed   *)
(* has had its effect, what has been sent and found; once it has returned:  *)
(* what its error says is so.                                               *)
Must ==
    Working =>
      /\ Passed({"print"}) /\ inv.machine => printed = "all"
      /\ Passed({"report"}) /\ inv.toFile => export = "new"
      /\ Passed({"save_config"}) => export = "new"
      /\ Passed({"install"}) => disk = "same"
      /\ Passed(Changing) /\ inv.cmd # "mappings_apply" /\ ~inv.dryRun => applied > 0
Flow ==
    Working =>
      /\ ran = (pc # "flags")
      /\ pc \in {"flags", "environment"} => wire = 0
      /\ wire > 0 => Step \in Changing \/ Passed(Changing)
      /\ export = "new" => Has(inv, "save_config") \/ Has(inv, "report")
      /\ inv.cmd = "init" /\ at <= 3 => ~confirmed
Unmet ==
    Working /\ unmet =>
      /\ inv.cmd \in Runs \cup {"batch_check", "assertions_test"}
      /\ ~Passed({"verdict"})
      /\ inv.cmd = "assertions_test" => Step \in {"run_assertion", "emit"}
Consistent(e) ==
    e.cause = "token" \/ (Code(e) = 2 /\ e.kind = "") \/ Code(e) \in ExitOf(Classify(e))
Held ==
    Working =>
      /\ ~gaveUp => held = NoErr
      /\ gaveUp =>
            /\ at = Len(Program(inv)) /\ inv.cmd \in {"batch_check", "mappings_apply"}
            /\ Code(held) \in {1, 4, 130} /\ held.cause # "pipe" /\ held # NoErr
            /\ Code(held) = 130 => interrupted
            /\ Consistent(held)
ZeroErr(e) == e = NoErr \/ IsIgnorableBrokenPipe(e)
Kindless(e) == e.kind = ""
Says(e) ==
    /\ Code(e) # 0
    /\ Code(e) = 2 => wire = 0
    /\ Code(e) = 3 => unmet /\ ~gaveUp
    /\ Code(e) = 4 => gaveUp
    /\ Code(e) = 130 => interrupted
    /\ Consistent(e)
    /\ ~ran => Kindless(e) /\ wire = 0
    /\ export = "new" => Has(inv, "save_config") \/ Has(inv, "report")
EndsWith(e) ==
    /\ IF ZeroErr(e) THEN Zero ELSE Says(e)
    /\ AssertionsFailed /\ ~gaveUp => e = TestFailed /\ ran
    /\ inv.cmd \in Diffs /\ unmet => ~ZeroErr(e)
VInv ==
    /\ Must /\ Flow /\ Unmet /\ Held
    /\ pc = "exiting" => EndsWith(err)
    /\ ExitTellsTheTruth

(* What the exit codes and kinds of the errors are.                         *)
LEMMA PlainIs == Code(Plain) = 1 /\ Classify(Plain) = "error" /\ ~ZeroErr(Plain)
<1>1. Code(Plain) = 1
  BY DEF Plain, Error, Code
<1>2. Classify(Plain) = "error"
  BY DEF Plain, Error, Classify, CodeKind, Statuses
<1>3. ~ZeroErr(Plain)
  BY DEF Plain, NoErr, Error, ZeroErr, IsIgnorableBrokenPipe
<1> QED
  BY <1>1, <1>2, <1>3

LEMMA NeedsForceIs == Code(NeedsForce) = 1 /\ Classify(NeedsForce) = "confirmation_required" /\ ~ZeroErr(NeedsForce)
<1>1. Code(NeedsForce) = 1
  BY DEF NeedsForce, Error, Code
<1>2. Classify(NeedsForce) = "confirmation_required"
  BY DEF NeedsForce, Error, Classify, CodeKind, Statuses
<1>3. ~ZeroErr(NeedsForce)
  BY DEF NeedsForce, NoErr, Error, ZeroErr, IsIgnorableBrokenPipe
<1> QED
  BY <1>1, <1>2, <1>3

LEMMA NotFoundIs == Code(NotFound) = 1 /\ Classify(NotFound) = "not_found" /\ ~ZeroErr(NotFound)
<1>1. Code(NotFound) = 1
  BY DEF NotFound, Error, Code
<1>2. Classify(NotFound) = "not_found"
  BY DEF NotFound, Error, Classify, CodeKind, Statuses
<1>3. ~ZeroErr(NotFound)
  BY DEF NotFound, NoErr, Error, ZeroErr, IsIgnorableBrokenPipe
<1> QED
  BY <1>1, <1>2, <1>3

LEMMA InvalidIs == Code(Invalid) = 1 /\ Classify(Invalid) = "validation" /\ ~ZeroErr(Invalid)
<1>1. Code(Invalid) = 1
  BY DEF Invalid, Error, Code
<1>2. Classify(Invalid) = "validation"
  BY DEF Invalid, Error, Classify, CodeKind, Statuses
<1>3. ~ZeroErr(Invalid)
  BY DEF Invalid, NoErr, Error, ZeroErr, IsIgnorableBrokenPipe
<1> QED
  BY <1>1, <1>2, <1>3

LEMMA UsageIs == Code(Usage) = 2 /\ Classify(Usage) = "usage" /\ ~ZeroErr(Usage) /\ Usage.kind = ""
<1>1. Code(Usage) = 2
  BY DEF Usage, Error, Code
<1>2. Classify(Usage) = "usage"
  BY DEF Usage, Error, Classify, CodeKind, Statuses
<1>3. ~ZeroErr(Usage) /\ Usage.kind = ""
  BY DEF Usage, NoErr, Error, ZeroErr, IsIgnorableBrokenPipe
<1> QED
  BY <1>1, <1>2, <1>3

LEMMA CobraIs == Code(Cobra) = 2 /\ Classify(Cobra) = "usage" /\ ~ZeroErr(Cobra) /\ Cobra.kind = ""
<1>1. Code(Cobra) = 2
  BY DEF Cobra, Error, Code
<1>2. Classify(Cobra) = "usage"
  BY DEF Cobra, Error, Classify, CodeKind, Statuses
<1>3. ~ZeroErr(Cobra) /\ Cobra.kind = ""
  BY DEF Cobra, NoErr, Error, ZeroErr, IsIgnorableBrokenPipe
<1> QED
  BY <1>1, <1>2, <1>3

LEMMA BadInputIs == Code(BadInput) = 2 /\ Classify(BadInput) = "validation" /\ ~ZeroErr(BadInput)
<1>1. Code(BadInput) = 2
  BY DEF BadInput, Error, Code
<1>2. Classify(BadInput) = "validation"
  BY DEF BadInput, Error, Classify, CodeKind, Statuses
<1>3. ~ZeroErr(BadInput)
  BY DEF BadInput, NoErr, Error, ZeroErr, IsIgnorableBrokenPipe
<1> QED
  BY <1>1, <1>2, <1>3

LEMMA TestFailedIs == Code(TestFailed) = 3 /\ Classify(TestFailed) = "test_failed" /\ ~ZeroErr(TestFailed)
<1>1. Code(TestFailed) = 3
  BY DEF TestFailed, Error, Code
<1>2. Classify(TestFailed) = "test_failed"
  BY DEF TestFailed, Error, Classify, CodeKind, Statuses
<1>3. ~ZeroErr(TestFailed)
  BY DEF TestFailed, NoErr, Error, ZeroErr, IsIgnorableBrokenPipe
<1> QED
  BY <1>1, <1>2, <1>3

LEMMA LostServerIs == Code(LostServer) = 4 /\ Classify(LostServer) = "network" /\ ~ZeroErr(LostServer)
<1>1. Code(LostServer) = 4
  BY DEF LostServer, Error, Code
<1>2. Classify(LostServer) = "network"
  BY DEF LostServer, Error, Classify, CodeKind, Statuses
<1>3. ~ZeroErr(LostServer)
  BY DEF LostServer, NoErr, Error, ZeroErr, IsIgnorableBrokenPipe
<1> QED
  BY <1>1, <1>2, <1>3

LEMMA NetIs == Code(Net) = 4 /\ Classify(Net) = "network" /\ ~ZeroErr(Net) /\ Net.cause # "pipe" /\ Net.code = 0 /\ Net.kind = ""
<1>1. Code(Net) = 4
  BY DEF Net, Error, Code
<1>2. Classify(Net) = "network"
  BY DEF Net, Error, Classify, CodeKind, Statuses
<1>3. ~ZeroErr(Net) /\ Net.cause # "pipe" /\ Net.code = 0 /\ Net.kind = ""
  BY DEF Net, NoErr, Error, ZeroErr, IsIgnorableBrokenPipe
<1> QED
  BY <1>1, <1>2, <1>3

LEMMA CanceledIs == Code(Canceled) = 130 /\ Classify(Canceled) = "canceled" /\ ~ZeroErr(Canceled) /\ Canceled.cause # "pipe" /\ Canceled.code = 0 /\ Canceled.kind = ""
<1>1. Code(Canceled) = 130
  BY DEF Canceled, Error, Code
<1>2. Classify(Canceled) = "canceled"
  BY DEF Canceled, Error, Classify, CodeKind, Statuses
<1>3. ~ZeroErr(Canceled) /\ Canceled.cause # "pipe" /\ Canceled.code = 0 /\ Canceled.kind = ""
  BY DEF Canceled, NoErr, Error, ZeroErr, IsIgnorableBrokenPipe
<1> QED
  BY <1>1, <1>2, <1>3

LEMMA TokenIs ==
    /\ Code(Token) = 4 /\ ~ZeroErr(Token) /\ Token.code = 0 /\ Token.kind = "" /\ Token.cause = "token"
BY DEF Token, NoErr, Error, Code, ZeroErr, IsIgnorableBrokenPipe

LEMMA QuietErrors == ZeroErr(NoErr) /\ ZeroErr(Pipe)
BY DEF Pipe, Error, ZeroErr, IsIgnorableBrokenPipe

LEMMA StatusIs ==
    ASSUME NEW s \in Statuses
    PROVE  /\ Code(Status(s)) = 1 /\ Classify(Status(s)) = StatusKind[s] /\ ~ZeroErr(Status(s))
           /\ Status(s).cause = s /\ Status(s).code = 0 /\ Status(s).kind = ""
           /\ StatusKind[s] \notin {"usage", "network", "test_failed", "canceled", ""}
<1>1. Code(Status(s)) = 1 /\ Classify(Status(s)) = StatusKind[s]
  BY DEF Status, Error, Code, Classify, Statuses
<1>2. ~ZeroErr(Status(s)) /\ Status(s).cause = s /\ Status(s).code = 0 /\ Status(s).kind = ""
  BY DEF Status, NoErr, Error, ZeroErr, IsIgnorableBrokenPipe, Statuses
<1>3. StatusKind[s] \notin {"usage", "network", "test_failed", "canceled", ""}
  BY DEF StatusKind, Statuses
<1> QED
  BY <1>1, <1>2, <1>3

LEMMA OrdinaryErrors ==
    \A e \in {Plain, NeedsForce, NotFound, Invalid} : ~ZeroErr(e) /\ Code(e) = 1 /\ Consistent(e)
BY PlainIs, NeedsForceIs, NotFoundIs, InvalidIs DEF Consistent, ExitOf

LEMMA UsageErrors ==
    /\ \A e \in {Usage, Cobra} : ~ZeroErr(e) /\ Code(e) = 2 /\ Kindless(e) /\ Consistent(e)
    /\ inv.cmd \in Queries => Consistent(BadInput)
BY UsageIs, CobraIs, BadInputIs DEF Consistent, ExitOf, Kindless

LEMMA FoundErrors == Consistent(TestFailed) /\ Consistent(LostServer)
BY TestFailedIs, LostServerIs DEF Consistent, ExitOf

(* The errors of a request.                                                 *)
RequestError(e) == e \in {Net, Canceled, Token} \/ \E s \in Statuses : e = Status(s)
Failing(e) ==
    /\ ~ZeroErr(e) /\ Code(e) \in {1, 4, 130} /\ Consistent(e) /\ e.cause # "pipe"
    /\ e.code = 0 /\ e.kind = ""
LEMMA RequestErrors ==
    ASSUME NEW e, RequestError(e)
    PROVE  Failing(e) /\ (Code(e) = 130 => e = Canceled)
<1>1. Failing(Net) /\ Code(Net) = 4
  BY NetIs DEF Failing, Consistent, ExitOf
<1>2. Failing(Canceled)
  BY CanceledIs DEF Failing, Consistent, ExitOf
<1>3. Failing(Token) /\ Code(Token) = 4
  BY TokenIs DEF Failing, Consistent
<1>4. \A s \in Statuses : Failing(Status(s)) /\ Code(Status(s)) = 1
  <2> SUFFICES ASSUME NEW s \in Statuses
               PROVE  Failing(Status(s)) /\ Code(Status(s)) = 1
    OBVIOUS
  <2>1. Code(Status(s)) = 1 /\ Status(s).cause # "pipe"
    BY StatusIs DEF Statuses
  <2>2. Consistent(Status(s))
    BY <2>1, StatusIs DEF Consistent, ExitOf
  <2> QED
    BY <2>1, <2>2, StatusIs DEF Failing
<1> QED
  BY <1>1, <1>2, <1>3, <1>4 DEF RequestError

LEMMA DocsErrorsAre ==
    ASSUME NEW e \in DocsErrors
    PROVE  ~ZeroErr(e) /\ Code(e) \in {1, 4} /\ Consistent(e)
<1> DEFINE N == Error(4, "network", "plain")
           S == Error(0, "server", "plain")
           P == Error(0, "error", "plain")
<1>1. Code(N) = 4 /\ Code(S) = 1 /\ Code(P) = 1
  BY DEF Error, Code
<1>2. Classify(N) = "network" /\ Classify(S) = "server" /\ Classify(P) = "error"
  BY DEF Error, Classify
<1>3. ~ZeroErr(N) /\ ~ZeroErr(S) /\ ~ZeroErr(P)
  BY DEF NoErr, Error, ZeroErr, IsIgnorableBrokenPipe
<1> HIDE DEF N, S, P
<1>4. Consistent(N) /\ Consistent(S) /\ Consistent(P)
  BY <1>1, <1>2 DEF Consistent, ExitOf
<1>5. e = N \/ e = S \/ e = P
  BY DEF DocsErrors, N, S, P
<1> QED
  BY <1>1, <1>3, <1>4, <1>5

-------------------------------------------------------------------------------
(* The ways the control goes on, once more.                                 *)

LEMMA OnExiting ==
    ASSUME pc' = "exiting", NEW e, err' = e, EndsWith(e)'
    PROVE  VInv'
<1>1. ~Working' /\ pc' # "done"
  BY DEF Working
<1>2. Must' /\ Flow' /\ Unmet' /\ Held'
  BY <1>1 DEF Must, Flow, Unmet, Held
<1>3. ExitTellsTheTruth'
  BY <1>1 DEF ExitTellsTheTruth
<1> QED
  BY <1>2, <1>3 DEF VInv

LEMMA NothingSent ==
    ASSUME BInv, VInv, Working, Step \notin Changing \cup {"save", "emit"}
    PROVE  wire = 0
<1>1. ~Passed(Changing)
  <2> SUFFICES ASSUME NEW i \in 1..(at - 1), Program(inv)[i] \in Changing
               PROVE  FALSE
    BY DEF Passed
  <2>1. i \in 1..Len(Program(inv)) /\ i < at /\ at \in 1..Len(Program(inv))
    BY AnyBody DEF BInv
  <2>2. Program(inv)[at] \in {"save", "emit"}
    BY <2>1, AnyBody DEF BInv, Ordered
  <2> QED
    BY <2>2 DEF Step
<1>2. wire \in Nat /\ ~(wire > 0)
  BY <1>1, Counters DEF BInv, VInv, Flow
<1> QED
  BY <1>2

(* A request gave up only where the command prints what it has.             *)
LEMMA NotGivenUp ==
    ASSUME BInv, VInv, Working, Step # "emit"
    PROVE  ~gaveUp /\ held = NoErr
<1>1. ~gaveUp
  <2> SUFFICES ASSUME gaveUp
               PROVE  FALSE
    OBVIOUS
  <2>1. at = Len(Program(inv)) /\ inv.cmd \in {"batch_check", "mappings_apply"}
    BY DEF VInv, Held
  <2>2. CASE inv.cmd = "batch_check"
    BY <2>1, <2>2 DEF Program, QueryBatchCheck, Step
  <2>3. CASE inv.cmd = "mappings_apply"
    BY <2>1, <2>3, MappingsApplyIs DEF Step
  <2> QED
    BY <2>1, <2>2, <2>3
<1> QED
  BY <1>1 DEF VInv, Held

LEMMA NothingFound ==
    ASSUME BInv, VInv, Working, pc \in {"flags", "environment"} \/ Step \notin {"run_assertion", "emit"}
    PROVE  ~AssertionsFailed
<1>1. AssertionsFailed => inv.cmd = "assertions_test" /\ Step \in {"run_assertion", "emit"}
  BY DEF AssertionsFailed, VInv, Unmet
<1>2. pc \in {"flags", "environment"} => at = 1
  BY DEF BInv, PhaseInv
<1>3. inv.cmd = "assertions_test" => Program(inv)[1] = "store"
  <2>1. inv.cmd = "assertions_test" => Program(inv) = AssertionsTest(inv)
    BY DEF Program
  <2>2. AssertionsTest(inv)[1] = "store"
    <3>1. CASE inv.given
      BY <3>1 DEF AssertionsTest, ResolveModelID
    <3>2. CASE ~inv.given
      BY <3>2 DEF AssertionsTest, ResolveModelID
    <3> QED
      BY <3>1, <3>2
  <2> QED
    BY <2>1, <2>2
<1> QED
  BY <1>1, <1>2, <1>3 DEF Step

LEMMA VFail ==
    ASSUME BInv, VInv, Working, NEW e, Fail(e), ~ZeroErr(e), Code(e) # 0, Consistent(e),
           Code(e) = 2 => wire = 0, Code(e) = 3 => unmet /\ ~gaveUp, Code(e) = 4 => gaveUp,
           Code(e) = 130 => interrupted, ran \/ Kindless(e),
           AssertionsFailed /\ ~gaveUp => e = TestFailed
    PROVE  VInv'
<1>1. /\ inv' = inv /\ ran' = ran /\ interrupted' = interrupted /\ wire' = wire /\ gaveUp' = gaveUp
      /\ unmet' = unmet /\ export' = export /\ pc' = "exiting" /\ err' = e
  BY DEF Fail, Return, effects
<1>2. ~ran => wire = 0
  BY DEF VInv, Flow
<1>3. export = "new" => Has(inv, "save_config") \/ Has(inv, "report")
  BY DEF VInv, Flow
<1>4. Says(e)'
  BY <1>1, <1>2, <1>3 DEF Says, Consistent, ExitOf
<1>5. AssertionsFailed /\ ~gaveUp => ran
  BY NothingFound DEF VInv, Flow
<1>6. EndsWith(e)'
  BY <1>1, <1>4, <1>5 DEF EndsWith, AssertionsFailed
<1> QED
  BY <1>1, <1>6, OnExiting

(* An error of the command itself, before anything is sent.                 *)
LEMMA VFailPlainly ==
    ASSUME BInv, VInv, Working, NEW e, Fail(e), ran \/ Kindless(e), ~AssertionsFailed,
           \/ e \in {Plain, NeedsForce, NotFound, Invalid}
           \/ e \in {Usage, Cobra} /\ wire = 0
           \/ e = BadInput /\ inv.cmd \in Queries /\ wire = 0
    PROVE  VInv'
<1>2. CASE e \in {Plain, NeedsForce, NotFound, Invalid}
  <2>1. ~ZeroErr(e) /\ Code(e) = 1 /\ Consistent(e)
    BY <1>2, OrdinaryErrors
  <2>2. Code(e) \notin {0, 3, 4, 130} /\ Code(e) # 2
    BY <2>1
  <2> QED
    BY <2>1, <2>2, VFail
<1>3. CASE e \in {Usage, Cobra} /\ wire = 0
  <2>1. ~ZeroErr(e) /\ Code(e) = 2 /\ Consistent(e)
    BY <1>3, UsageErrors
  <2>2. Code(e) \notin {0, 3, 4, 130}
    BY <2>1
  <2> QED
    BY <1>3, <2>1, <2>2, VFail
<1>4. CASE e = BadInput /\ inv.cmd \in Queries /\ wire = 0
  <2>1. ~ZeroErr(e) /\ Code(e) = 2 /\ Consistent(e)
    BY <1>4, UsageErrors, BadInputIs
  <2>2. Code(e) \notin {0, 3, 4, 130}
    BY <2>1
  <2> QED
    BY <1>4, <2>1, <2>2, VFail
<1> QED
  BY <1>2, <1>3, <1>4

(* An error of a step before the requests.                                  *)
LEMMA VFailEarly ==
    ASSUME BInv, VInv, pc = "body" \/ pc = "asking", NEW e, Fail(e),
           Step \notin Changing \cup {"save", "emit", "run_assertion"},
           e \in {Plain, NeedsForce, NotFound, Invalid, Usage, Cobra}
    PROVE  VInv'
<1>1. Working /\ ran
  BY DEF Working, VInv, Flow
<1>2. wire = 0 /\ ~AssertionsFailed
  BY <1>1, NothingSent, NothingFound
<1> QED
  BY <1>1, <1>2, VFailPlainly

(* stdout is closed, or all is well.                                        *)
LEMMA VQuiet ==
    ASSUME BInv, VInv, Working, NEW e, Fail(e), ZeroErr(e), Zero,
           AssertionsFailed => gaveUp, inv.cmd \in Diffs => ~unmet
    PROVE  VInv'
<1>1. /\ inv' = inv /\ confirmed' = confirmed /\ applied' = applied /\ gaveUp' = gaveUp
      /\ unmet' = unmet /\ export' = export /\ reader' = reader /\ printed' = printed
      /\ disk' = disk /\ pc' = "exiting" /\ err' = e
  BY DEF Fail, Return, effects, files
<1>2. Zero'
  BY <1>1 DEF Zero
<1>3. EndsWith(e)'
  BY <1>1, <1>2 DEF EndsWith, AssertionsFailed
<1> QED
  BY <1>1, <1>3, OnExiting

(* The commands that keep what a check found and tell it at their end.      *)
LEMMA NoVerdict ==
    ASSUME BInv, Step \in {"batch_check", "run_assertion"}
    PROVE  /\ inv.cmd \in {"batch_check", "assertions_test"} /\ ~Passed({"verdict"})
           /\ inv.cmd = "assertions_test" => Step = "run_assertion" /\ Program(inv)[at + 1] = "emit"
<1>1. inv.cmd \in {"batch_check", "assertions_test"}
  BY AnyBody DEF BInv, StepsFit, Step
<1>2. \A i \in 1..Len(Program(inv)) : Program(inv)[i] # "verdict"
  BY <1>1, AnyBody DEF BInv, StepsFit, RunSteps, Runs, Diffs
<1>3. ~Passed({"verdict"})
  BY <1>2, AnyBody DEF BInv, Passed
<1>4. inv.cmd = "assertions_test" => Step = "run_assertion" /\ Program(inv)[at + 1] = "emit"
  BY AnyBody DEF BInv, StepsFit, Step
<1> QED
  BY <1>1, <1>3, <1>4

(* The process waits, sends, or something happens around it.                *)
LEMMA VStay ==
    ASSUME BInv, BInv', VInv, Working, Working', inv' = inv, at' = at, confirmed' = confirmed, held' = held,
           gaveUp' = gaveUp, export' = export, printed' = printed,
           unmet' = unmet \/ (pc = "sent" /\ Step \in {"batch_check", "run_assertion"}),
           interrupted => interrupted', disk' = disk \/ (disk = "absent" /\ disk' = "other"),
           applied > 0 => applied' > 0, wire' = wire \/ (Step \in Changing /\ pc' = "sent"),
           ran' = (pc' # "flags"), pc' = "environment" => pc \in {"flags", "environment"},
           pc' = "flags" => pc = "flags"
    PROVE  VInv'
<1>1. \A s : Passed(s)' <=> Passed(s)
  BY DEF Passed
<1>2. Must'
  <2>1. /\ Passed({"print"})' <=> Passed({"print"})
        /\ Passed({"report"})' <=> Passed({"report"})
        /\ Passed({"save_config"})' <=> Passed({"save_config"})
        /\ Passed({"install"})' <=> Passed({"install"})
        /\ Passed(Changing)' <=> Passed(Changing)
    BY DEF Passed
  <2> QED
    BY <2>1 DEF VInv, Must
<1>3. Flow'
  <2>1. Passed(Changing)' <=> Passed(Changing)
    BY DEF Passed
  <2>2. Step' = Step
    BY DEF Step
  <2> QED
    BY <2>1, <2>2 DEF VInv, Flow
<1>4. Unmet'
  <2>1. Passed({"verdict"})' <=> Passed({"verdict"})
    BY DEF Passed
  <2>2. Step' = Step
    BY DEF Step
  <2>3. CASE unmet' = unmet
    BY <2>1, <2>2, <2>3 DEF VInv, Unmet
  <2>4. CASE Step \in {"batch_check", "run_assertion"}
    BY <2>1, <2>2, <2>4, NoVerdict DEF Unmet
  <2> QED
    BY <2>3, <2>4
<1>5. Held'
  BY DEF VInv, Held, Consistent, ExitOf
<1>6. ExitTellsTheTruth' /\ pc' # "exiting"
  BY DEF ExitTellsTheTruth, Working
<1> QED
  BY <1>2, <1>3, <1>4, <1>5, <1>6 DEF VInv

(* It goes on at the next step, having done what this one is for.           *)
LEMMA VMove ==
    ASSUME BInv, BInv', VInv, Working, pc' = "body", inv' = inv, at' = at + 1, held' = held, gaveUp' = gaveUp,
           interrupted' = interrupted, wire' = wire, ran' = ran, pc # "flags", Step # "emit",
           confirmed' = confirmed \/ Step = "confirm",
           unmet' = unmet \/ Step = "run" \/ (Step \in {"batch_check", "run_assertion"} /\ ~gaveUp),
           printed' = printed \/ printed' = "all", export' = export \/ export' = "new",
           export' = "new" /\ export = "old" => Has(inv, "save_config") \/ Has(inv, "report"),
           disk' = disk \/ disk' = "same", applied > 0 => applied' > 0,
           Step = "print" /\ inv.machine => printed' = "all",
           Step = "report" /\ inv.toFile => export' = "new",
           Step = "save_config" => export' = "new",
           Step = "install" => disk' = "same",
           Step \in Changing /\ inv.cmd # "mappings_apply" => applied' > 0,
           Step = "verdict" => ~unmet
    PROVE  VInv'
<1>1. ~gaveUp /\ held = NoErr
  BY NotGivenUp
<1>2. Must'
  <2>1. /\ Passed({"print"})' <=> Passed({"print"}) \/ Step \in {"print"}
        /\ Passed({"report"})' <=> Passed({"report"}) \/ Step \in {"report"}
        /\ Passed({"save_config"})' <=> Passed({"save_config"}) \/ Step \in {"save_config"}
        /\ Passed({"install"})' <=> Passed({"install"}) \/ Step \in {"install"}
        /\ Passed(Changing)' <=> Passed(Changing) \/ Step \in Changing
    BY PassedOn DEF BInv
  <2> QED
    BY <2>1 DEF VInv, Must
<1>3. Flow'
  <2>1. Passed(Changing)' <=> Passed(Changing) \/ Step \in Changing
    BY PassedOn DEF BInv
  <2>2. ran' = TRUE
    BY DEF VInv, Flow
  <2>3. inv.cmd = "init" /\ at + 1 <= 3 => Step # "confirm" /\ at <= 3
    <3>1. inv.cmd = "init" /\ at + 1 <= 3 => at = 1 \/ at = 2
      BY AnyBody DEF BInv
    <3> QED
      BY <3>1, InitIs DEF Step
  <2>4. export' = "new" => Has(inv, "save_config") \/ Has(inv, "report")
    BY DEF VInv, Flow, BInv, TypeOK
  <2> QED
    BY <2>1, <2>2, <2>3, <2>4 DEF VInv, Flow
<1>4. Unmet'
  <2>1. Passed({"verdict"})' <=> Passed({"verdict"}) \/ Step = "verdict"
    BY PassedOn DEF BInv
  <2>2. CASE unmet' = unmet
    <3>1. inv.cmd = "assertions_test" /\ unmet => Step = "run_assertion"
      BY DEF VInv, Unmet
    <3>2. inv.cmd = "assertions_test" /\ unmet => Step' = "emit"
      BY <3>1, AnyBody DEF BInv, StepsFit, Step
    <3> QED
      BY <2>1, <2>2, <3>2 DEF VInv, Unmet
  <2>3. CASE Step = "run"
    <3>1. inv.cmd \in Runs
      BY <2>3, AnyBody DEF BInv, StepsFit, RunSteps, Step
    <3>2. ~Passed({"verdict"})
      <4> SUFFICES ASSUME NEW i \in 1..(at - 1), Program(inv)[i] = "verdict"
                   PROVE  FALSE
        BY DEF Passed
      <4>1. i \in 1..Len(Program(inv)) /\ i < at /\ at \in 1..Len(Program(inv))
        BY AnyBody DEF BInv
      <4>2. at < i
        BY <2>3, <4>1, AnyBody DEF BInv, RunsFit, Step
      <4> QED
        BY <4>1, <4>2
    <3> QED
      BY <2>1, <2>3, <3>1, <3>2 DEF Unmet, Runs, Diffs
  <2>4. CASE Step \in {"batch_check", "run_assertion"}
    <3>1. inv.cmd = "assertions_test" => Step' = "emit"
      BY <2>4, NoVerdict DEF Step
    <3> QED
      BY <2>1, <2>4, <3>1, NoVerdict DEF Unmet
  <2> QED
    BY <2>2, <2>3, <2>4
<1>5. Held'
  BY <1>1 DEF VInv, Held
<1>6. ExitTellsTheTruth' /\ pc' # "exiting"
  BY DEF ExitTellsTheTruth
<1> QED
  BY <1>2, <1>3, <1>4, <1>5, <1>6 DEF VInv

-------------------------------------------------------------------------------
(* The steps before the requests.                                           *)

LEMMA VInit ==
    ASSUME Init
    PROVE  VInv
<1>1. pc = "flags" /\ at = 1 /\ ran = FALSE /\ wire = 0 /\ unmet = FALSE /\ gaveUp = FALSE
      /\ held = NoErr /\ export = "old" /\ confirmed = FALSE
  BY DEF Init
<1>2. \A s : ~Passed(s)
  BY <1>1 DEF Passed
<1>3. Must
  BY <1>2 DEF Must
<1>4. Flow
  <2>1. (pc # "flags") <=> FALSE
    BY <1>1
  <2>2. ran <=> (pc # "flags")
    BY <1>1, <2>1
  <2>3. ran = (pc # "flags")
    BY <1>1, <2>1, <2>2, Zenon
  <2> QED
    BY <1>1, <2>3 DEF Flow
<1>5. Unmet /\ Held
  BY <1>1 DEF Unmet, Held
<1> QED
  BY <1>1, <1>3, <1>4, <1>5 DEF VInv, ExitTellsTheTruth

LEMMA VParseFlags ==
    ASSUME BInv, BInv', VInv, ParseFlags
    PROVE  VInv'
<1>1. pc = "flags" /\ Working
  BY DEF ParseFlags, Working
<1>2. CASE \E e \in {Cobra, Plain, Usage} : Fail(e)
  <2>1. PICK e \in {Cobra, Plain, Usage} : Fail(e)
    BY <1>2
  <2>2. Kindless(e)
    <3>1. Kindless(Plain)
      BY DEF Kindless, Plain, Error
    <3> QED
      BY <3>1, UsageErrors
  <2>3. wire = 0 /\ ~AssertionsFailed
    BY <1>1, NothingFound DEF VInv, Flow
  <2> QED
    BY <1>1, <2>1, <2>2, <2>3, VFailPlainly
<1>3. CASE /\ pc' = "environment" /\ ran' = TRUE
           /\ UNCHANGED <<inv, at, confirmed, interrupted, held, err, request, effects, reader,
                          outputs, verdict>>
  BY <1>1, <1>3, VStay DEF request, effects, outputs, files, Working
<1> QED
  BY <1>2, <1>3 DEF ParseFlags

LEMMA VEnvironment ==
    ASSUME BInv, BInv', VInv, Environment
    PROVE  VInv'
<1>1. pc = "environment" /\ Working /\ ran
  BY DEF Environment, Working, VInv, Flow
<1>2. CASE \E e \in {Plain, Usage, Cobra} : Fail(e)
  <2>1. PICK e \in {Plain, Usage, Cobra} : Fail(e)
    BY <1>2
  <2>2. wire = 0 /\ ~AssertionsFailed
    BY <1>1, NothingFound DEF VInv, Flow
  <2> QED
    BY <1>1, <2>1, <2>2, VFailPlainly
<1>3. CASE /\ pc' = "body"
           /\ UNCHANGED <<inv, at, ran, confirmed, interrupted, held, err, request, effects,
                          reader, outputs, verdict>>
  BY <1>1, <1>3, VStay DEF request, effects, outputs, files, Working
<1> QED
  BY <1>2, <1>3 DEF Environment

(* A step without a mark of its own.                                        *)
LEMMA VAdvance ==
    ASSUME BInv, BInv', VInv, pc = "body", Advance,
           Step \notin Changing \cup {"emit", "print", "save_config", "install", "verdict"},
           Step = "report" => ~inv.toFile
    PROVE  VInv'
BY VMove DEF Advance, effects, outputs, files, Working

LEMMA VPlainly ==
    ASSUME BInv, BInv', VInv, Validate \/ ReadInput \/ LookupProfile \/ Refuse \/ LoadMapping \/ Client
                 \/ ClientWithStore \/ Save
    PROVE  VInv'
<1>1. pc = "body" /\ Step \in Plainly
  BY DEF Body, Validate, ReadInput, LookupProfile, Refuse, LoadMapping, Client, ClientWithStore, Save,
         Plainly
<1>2. Advance => VInv'
  BY <1>1, VAdvance DEF Plainly, Changing
<1>3. \A e \in {Plain, NeedsForce, NotFound, Invalid, Usage, Cobra} : Fail(e) /\ Step # "save" => VInv'
  BY <1>1, VFailEarly DEF Plainly, Changing
<1>4. Validate => VInv'
  BY <1>2, <1>3 DEF Validate, Body
<1>5. ReadInput => VInv'
  <2> SUFFICES ASSUME ReadInput
               PROVE  VInv'
    OBVIOUS
  <2>1. Step = "file" /\ Working /\ ran
    BY <1>1 DEF ReadInput, Body, Working, VInv, Flow
  <2>2. wire = 0 /\ ~AssertionsFailed
    BY <2>1, NothingSent, NothingFound DEF Changing
  <2>3. Fail(BadInput) /\ inv.cmd \in Queries => VInv'
    BY <2>1, <2>2, VFailPlainly
  <2>4. Fail(Canceled) /\ interrupted => VInv'
    <3>1. Code(Canceled) = 130 /\ ~ZeroErr(Canceled) /\ Consistent(Canceled)
      BY CanceledIs DEF Consistent, ExitOf
    <3>2. Code(Canceled) \notin {0, 2, 3, 4}
      BY <3>1
    <3> QED
      BY <2>1, <2>2, <3>1, <3>2, VFail
  <2> QED
    BY <1>2, <1>3, <2>1, <2>3, <2>4 DEF ReadInput, InputErrors
<1>6. LookupProfile => VInv'
  BY <1>2, <1>3 DEF LookupProfile, Body
<1>7. Refuse => VInv'
  BY <1>2, <1>3 DEF Refuse, Body
<1>8. LoadMapping => VInv'
  <2> SUFFICES ASSUME LoadMapping
               PROVE  VInv'
    OBVIOUS
  <2>1. Step = "load_mapping" /\ Working
    BY <1>1 DEF LoadMapping, Body, Working
  <2>2. CASE Fail(Pipe) /\ reader # "open" /\ ~inv.machine /\ inv.cmd # "mappings_validate"
    <3>1. inv.cmd \in {"mappings_test", "mappings_apply"}
      BY <2>1, <2>2, AnyBody DEF BInv, StepsFit, Step
    <3>2. \A i \in 1..Len(Program(inv)) : Program(inv)[i] \notin {"save_config", "install"}
      BY <3>1, AnyBody DEF BInv, StepsFit, Saves, Installs
    <3>3. inv.cmd = "mappings_test" => \A i \in 1..Len(Program(inv)) : Program(inv)[i] \notin Changing
      BY AnyBody DEF BInv, StepsFit, Runs
    <3>4. DOMAIN Program(inv) = 1..Len(Program(inv))
      BY AnyBody DEF BInv, Ordered
    <3>5. Zero
      BY <2>2, <3>1, <3>2, <3>3, <3>4 DEF Zero, Has, Masked, BInv, TypeOK
    <3> QED
      BY <2>1, <2>2, <3>1, <3>5, VQuiet, QuietErrors, NothingFound DEF Diffs
  <2> QED
    BY <1>2, <1>3, <2>1, <2>2 DEF LoadMapping, BInv, TypeOK
<1>9. Client \/ ClientWithStore => VInv'
  BY <1>2, <1>3 DEF Client, ClientWithStore, Body
<1>10. Save => VInv'
  <2> SUFFICES ASSUME Save, Fail(Plain)
               PROVE  VInv'
    BY <1>2 DEF Save
  <2>1. Step = "save" /\ Working /\ ran
    BY <1>1 DEF Save, Body, Working, VInv, Flow
  <2> QED
    BY <2>1, NothingFound, VFailPlainly
<1> QED
  BY <1>4, <1>5, <1>6, <1>7, <1>8, <1>9, <1>10

(* It goes on elsewhere in the body.                                        *)
LEMMA VJump ==
    ASSUME BInv, BInv', VInv, pc = "body", pc' = "body",
           UNCHANGED <<inv, ran, held, gaveUp, unmet, interrupted, wire, export>>,
           Step \notin Changing \cup {"save", "emit"}, Must',
           inv.cmd \in Previews \cup {"mappings_apply", "skill_install", "init"},
           inv.cmd = "init" => at' \in Nat /\ at' > 3
    PROVE  VInv'
<1>1. Working /\ wire = 0 /\ ~gaveUp /\ held = NoErr /\ ran
  BY NothingSent, NotGivenUp DEF Working, VInv, Flow
<1>2. ~unmet
  BY <1>1 DEF VInv, Unmet, Runs, Diffs, Previews
<1>3. Flow'
  <2>1. ran' = TRUE /\ wire' = 0 /\ Has(inv, "save_config")' = Has(inv, "save_config")
        /\ Has(inv, "report")' = Has(inv, "report")
    BY <1>1 DEF VInv, Flow
  <2>2. inv.cmd = "init" => ~(at' <= 3)
    OBVIOUS
  <2>3. export' = "new" => Has(inv, "save_config")' \/ Has(inv, "report")'
    BY <1>1, <2>1 DEF VInv, Flow
  <2>4. ran' = (pc' # "flags") /\ ~(pc' \in {"flags", "environment"})
    BY <2>1
  <2>5. ~(wire' > 0)
    BY <2>1
  <2> QED
    BY <2>1, <2>2, <2>3, <2>4, <2>5, Zenon DEF Flow
<1>4. Unmet' /\ Held' /\ ExitTellsTheTruth'
  BY <1>1, <1>2 DEF Unmet, Held, ExitTellsTheTruth
<1> QED
  BY <1>3, <1>4 DEF VInv

(* What goes by with a jump to the end: nothing these commands must do.     *)
LEMMA NothingSkipped ==
    ASSUME BInv, BInv', inv' = inv, inv.cmd = "mappings_apply" \/ (inv.cmd \in Previews /\ inv.dryRun)
    PROVE  Must'
<1>1. inv.cmd \notin Runs \cup Saves \cup Installs
  BY DEF Previews, Runs, Diffs, Saves, Installs
<1>2. \A i \in 1..Len(Program(inv)) : Program(inv)[i] \notin {"print", "report", "save_config", "install"}
  BY <1>1, AnyBody DEF BInv, StepsFit, RunSteps
<1>3. at' \in 1..Len(Program(inv)) /\ Len(Program(inv)) \in Nat
  BY AnyBody DEF BInv, TypeOK
<1>4. 1..(at' - 1) \subseteq 1..Len(Program(inv))
  <2>1. \A n \in 1..Len(Program(inv)) : 1..(n - 1) \subseteq 1..Len(Program(inv))
    BY <1>3
  <2> QED
    BY <1>3, <2>1, Zenon
<1>5. ~Passed({"print"})' /\ ~Passed({"report"})' /\ ~Passed({"save_config"})' /\ ~Passed({"install"})'
  BY <1>2, <1>4 DEF Passed
<1> QED
  BY <1>5 DEF Must

LEMMA VPreview ==
    ASSUME BInv, BInv', VInv, Preview
    PROVE  VInv'
<1>1. pc = "body" /\ Step = "preview"
  BY DEF Preview, Body
<1>2. CASE Advance
  BY <1>1, <1>2, VAdvance DEF Changing
<1>3. CASE /\ inv.dryRun /\ at' = Len(Program(inv))
           /\ UNCHANGED <<inv, pc, ran, confirmed, interrupted, held, err, request, effects,
                          reader, outputs, verdict>>
  <2>1. inv.cmd \in Previews
    BY <1>1, AnyBody DEF BInv, StepsFit, Step
  <2>2. Must'
    BY <1>3, <2>1, NothingSkipped
  <2> QED
    BY <1>1, <1>3, <2>1, <2>2, VJump DEF effects, outputs, Previews, Changing
<1> QED
  BY <1>2, <1>3 DEF Preview

LEMMA VConfirm ==
    ASSUME BInv, BInv', VInv, Confirm
    PROVE  VInv'
<1>1. pc = "body" /\ Step = "confirm" /\ Working
  BY DEF Confirm, Body, Working
<1>2. CASE Advance
  BY <1>1, <1>2, VAdvance DEF Changing
<1>3. CASE Fail(NeedsForce)
  BY <1>1, <1>3, VFailEarly DEF Changing
<1>4. CASE /\ pc' = "asking"
           /\ UNCHANGED <<inv, at, ran, confirmed, interrupted, held, err, request, effects,
                          reader, outputs, verdict>>
  <2>1. ran' = (pc' # "flags")
    BY <1>1, <1>4 DEF VInv, Flow
  <2> QED
    BY <1>1, <1>4, <2>1, VStay DEF effects, outputs, files, Working
<1> QED
  BY <1>2, <1>3, <1>4 DEF Confirm

LEMMA VAnswer ==
    ASSUME BInv, BInv', VInv, Answer
    PROVE  VInv'
<1>1. pc = "asking" /\ Step = "confirm" /\ Working
  BY DEF BInv, PhaseInv, Answer, Working
<1>2. CASE Fail(Plain)
  BY <1>1, <1>2, VFailEarly DEF Changing
<1>3. CASE /\ pc' = "body" /\ at' = at + 1 /\ confirmed' = TRUE
           /\ UNCHANGED <<inv, ran, interrupted, held, err, request, effects, reader, outputs,
                          verdict>>
  BY <1>1, <1>3, VMove DEF effects, outputs, files, Changing
<1> QED
  BY <1>2, <1>3 DEF Answer

-------------------------------------------------------------------------------
(* The requests.                                                            *)

LEMMA VSend ==
    ASSUME BInv, BInv', VInv, Send
    PROVE  VInv'
<1>1. pc = "body" /\ Working /\ pc' = "sent" /\ Working'
  BY DEF Send, Working
<1>2. wire' = wire \/ (Step \in Changing /\ pc' = "sent")
  BY Counters DEF Send, BInv
<1>3. ran' = (pc' # "flags")
  BY <1>1 DEF Send, VInv, Flow
<1> QED
  BY <1>1, <1>2, <1>3, VStay DEF Send, outputs, files

(* A request failed for good, and the command with it.                      *)
LEMMA VGaveUp ==
    ASSUME BInv, VInv, Working, ran, NEW e, Return(e), gaveUp' = TRUE,
           UNCHANGED <<inv, ran, interrupted, export>>,
           ~ZeroErr(e), Code(e) \in {1, 4, 130}, Consistent(e), Code(e) = 130 => interrupted
    PROVE  VInv'
<1>1. pc' = "exiting" /\ err' = e
  BY DEF Return
<1>2. export = "new" => Has(inv, "save_config") \/ Has(inv, "report")
  BY DEF VInv, Flow
<1>3. Code(e) # 0 /\ Code(e) # 2 /\ Code(e) # 3
  OBVIOUS
<1>4. Says(e)'
  BY <1>2, <1>3 DEF Says, Consistent, ExitOf
<1>5. EndsWith(e)'
  BY <1>4 DEF EndsWith, AssertionsFailed
<1> QED
  BY <1>1, <1>5, OnExiting

(* It goes on to print what it has.                                         *)
LEMMA VGoesOn ==
    ASSUME BInv, BInv', VInv, Working, ran, Step \in {"batch_check", "apply_events"}, pc' = "body", at' = at + 1,
           UNCHANGED <<inv, ran, confirmed, interrupted, wire, export, disk, printed>>, gaveUp' = TRUE,
           unmet' = unmet \/ Step = "batch_check", applied > 0 => applied' > 0,
           Code(held)' \in {1, 4, 130}, held'.cause # "pipe", held' # NoErr, Code(held)' = 130 => interrupted,
           Consistent(held)'
    PROVE  VInv'
<1>1. \/ inv.cmd = "batch_check" /\ Step = "batch_check"
      \/ inv.cmd = "mappings_apply" /\ Step = "apply_events"
  BY AnyBody DEF BInv, StepsFit, Step
<1>2. inv.cmd \in {"batch_check", "mappings_apply"} /\ at' = Len(Program(inv))
  <2>1. at = Len(Program(inv)) - 1 /\ Len(Program(inv)) \in Nat
    BY AnyBody DEF BInv, StepsFit, Step
  <2> QED
    BY <1>1, <2>1
<1>3. Must'
  <2>1. /\ Passed({"print"})' <=> Passed({"print"}) \/ Step \in {"print"}
        /\ Passed({"report"})' <=> Passed({"report"}) \/ Step \in {"report"}
        /\ Passed({"save_config"})' <=> Passed({"save_config"}) \/ Step \in {"save_config"}
        /\ Passed({"install"})' <=> Passed({"install"}) \/ Step \in {"install"}
        /\ Passed(Changing)' <=> Passed(Changing) \/ Step \in Changing
    BY PassedOn DEF BInv
  <2>2. Step \in Changing => inv.cmd = "mappings_apply"
    BY AnyBody DEF BInv, StepsFit, Step, Changing
  <2> QED
    BY <2>1, <2>2 DEF VInv, Must
<1>4. Flow'
  <2>1. Passed(Changing)' <=> Passed(Changing) \/ Step \in Changing
    BY PassedOn DEF BInv
  <2>2. inv.cmd # "init"
    BY <1>2
  <2> QED
    BY <2>1, <2>2 DEF VInv, Flow
<1>5. Unmet'
  <2>1. Passed({"verdict"})' <=> Passed({"verdict"}) \/ Step = "verdict"
    BY PassedOn DEF BInv
  <2>2. CASE unmet' = unmet
    BY <1>2, <2>1, <2>2 DEF VInv, Unmet
  <2>3. CASE Step = "batch_check"
    <3>1. inv.cmd = "batch_check"
      BY <1>1, <2>3
    <3> QED
      BY <2>1, <2>3, <3>1, NoVerdict DEF Unmet
  <2> QED
    BY <2>2, <2>3
<1>6. Held'
  BY <1>2 DEF Held
<1>7. ExitTellsTheTruth' /\ pc' # "exiting"
  BY DEF ExitTellsTheTruth
<1> QED
  BY <1>3, <1>4, <1>5, <1>6, <1>7 DEF VInv

LEMMA NetworkIsFour ==
    ASSUME NEW k, 4 \in ExitOf(k)
    PROVE  k = "network"
<1>1. k = "validation" => ExitOf(k) \in {{1}, {1, 2}}
  BY DEF ExitOf
<1>2. k \notin {"usage", "validation", "network", "test_failed", "canceled"} => ExitOf(k) = {1}
  BY DEF ExitOf
<1>3. ExitOf("usage") = {2} /\ ExitOf("test_failed") = {3} /\ ExitOf("canceled") = {130}
  BY DEF ExitOf
<1> QED
  BY <1>1, <1>2, <1>3

(* What apply reports of a failed request.                                  *)
LEMMA ApplyFailureIs ==
    ASSUME NEW e, RequestError(e), e = Canceled => interrupted, NEW h \in ApplyFailure(e)
    PROVE  /\ Code(h) \in {1, 4, 130} /\ h.cause # "pipe" /\ h # NoErr /\ Consistent(h)
           /\ Code(h) = 130 => interrupted
<1>1. CASE interrupted
  <2>1. h = Canceled
    BY <1>1 DEF ApplyFailure
  <2>2. Canceled # NoErr
    BY DEF Canceled, NoErr, Error
  <2>3. Consistent(Canceled)
    BY CanceledIs DEF Consistent, ExitOf
  <2> QED
    BY <1>1, <2>1, <2>2, <2>3, CanceledIs
<1>2. CASE ~interrupted
  <2>9. e # Canceled
    BY <1>2
  <2>0. h.code = Code(e) /\ h.cause = e.cause /\ h.kind \in {Classify(e), "partial_failure"}
        /\ (h.kind = "partial_failure" => h.kind = Classify(e) \/ Classify(e) # "network")
    BY <1>2 DEF ApplyFailure, Error
  <2>1. Code(e) \in {1, 4} /\ e.cause # "pipe" /\ Consistent(e)
    <3>1. Failing(e) /\ (Code(e) = 130 => e = Canceled)
      BY RequestErrors
    <3>2. Code(e) # 130
      BY <2>9, <3>1, Zenon
    <3>3. Code(e) \in {1, 4, 130} /\ e.cause # "pipe" /\ Consistent(e)
      BY <3>1, Zenon DEF Failing
    <3> QED
      BY <3>2, <3>3
  <2>2. Code(h) = Code(e)
    BY <2>0, <2>1 DEF Code
  <2>3. h # NoErr
    <3>1. NoErr.code = 0
      BY DEF NoErr, Error
    <3> QED
      BY <2>0, <2>1, <3>1
  <2>4. e.cause # "canceled" /\ Classify(e) # ""
    <3>1. CASE e = Net
      BY <3>1, NetIs DEF Net, Error
    <3>2. CASE e = Token
      BY <3>2 DEF Token, Error, Classify, Statuses
    <3>3. CASE \E s \in Statuses : e = Status(s)
      <4>1. PICK s \in Statuses : e = Status(s)
        BY <3>3
      <4>2. Status(s).cause = s /\ Classify(Status(s)) = StatusKind[s] /\ StatusKind[s] # ""
        BY StatusIs
      <4>3. e.cause = s /\ Classify(e) # ""
        BY <4>1, <4>2, Zenon
      <4>4. s # "canceled"
        BY DEF Statuses
      <4> QED
        BY <4>3, <4>4, Zenon
    <3> QED
      BY <2>9, <3>1, <3>2, <3>3 DEF RequestError
  <2>5. Classify(h) = h.kind
    BY <2>0, <2>4 DEF Classify
  <2>6. Consistent(h)
    <3>1. CASE e.cause = "token"
      BY <3>1, <2>0 DEF Consistent
    <3>2. CASE e.cause # "token"
      <4>0. Code(e) # 2
        BY <2>1
      <4>1. Code(e) \in ExitOf(Classify(e))
        BY <3>2, <2>1, <4>0, Zenon DEF Consistent
      <4>2. Code(e) = 4 => Classify(e) = "network"
        BY <4>1, NetworkIsFour
      <4>3. ExitOf("partial_failure") = {1}
        BY DEF ExitOf
      <4>4. Code(h) \in ExitOf(Classify(h))
        BY <2>0, <2>1, <2>2, <2>5, <4>1, <4>2, <4>3
      <4> QED
        BY <4>4 DEF Consistent
    <3> QED
      BY <3>1, <3>2
  <2> QED
    BY <2>0, <2>1, <2>2, <2>3, <2>6
<1> QED
  BY <1>1, <1>2

LEMMA VGiveUp ==
    ASSUME BInv, BInv', VInv, pc \in {"body", "sent", "waiting"}, Step \in DOMAIN Calls,
           NEW e, RequestError(e), e = Canceled => interrupted, GiveUp(e), applied > 0 => applied' > 0
    PROVE  VInv'
<1>1. Working /\ ran
  BY DEF Working, VInv, Flow
<1>2. ~ZeroErr(e) /\ Code(e) \in {1, 4, 130} /\ e.cause # "pipe" /\ Consistent(e)
      /\ (Code(e) = 130 => interrupted)
  BY RequestErrors DEF Failing
<1>3. CASE Tolerated(e) /\ Advance
  <2>1. Step = "name_store" /\ pc \in {"body", "sent", "waiting"}
    BY <1>3 DEF Tolerated
  <2> QED
    BY <1>1, <1>3, <2>1, VMove DEF Advance, effects, outputs, files, Changing
<1>4. CASE /\ gaveUp' = TRUE /\ Return(e)
           /\ UNCHANGED <<inv, ran, confirmed, interrupted, reader, wire, export, files, verdict>>
  BY <1>1, <1>2, <1>4, VGaveUp
<1>5. CASE /\ gaveUp' = TRUE /\ pc' = "body" /\ at' = at + 1 /\ UNCHANGED <<err, printed, staged>>
           /\ UNCHANGED <<inv, ran, confirmed, interrupted, reader, wire, export, files, verdict>>
           /\ \/ Step = "batch_check" /\ held' = e /\ unmet' = TRUE
              \/ Step = "apply_events" /\ held' \in ApplyFailure(e) /\ unmet' = unmet
  <2>1. held' = e \/ held' \in ApplyFailure(e)
    BY <1>5
  <2>2. e # NoErr
    BY <1>2, QuietErrors
  <2>3. /\ Code(held') \in {1, 4, 130} /\ held'.cause # "pipe" /\ held' # NoErr
        /\ (Code(held') = 130 => interrupted) /\ Consistent(held')
    <3>1. CASE held' = e
      BY <1>2, <2>2, <3>1
    <3>2. CASE held' \in ApplyFailure(e)
      BY <3>2, ApplyFailureIs
    <3> QED
      BY <2>1, <3>1, <3>2
  <2>4. Consistent(held)'
    BY <1>5, <2>3 DEF Consistent, ExitOf
  <2> QED
    BY <1>1, <1>5, <2>3, <2>4, VGoesOn DEF files
<1> QED
  BY <1>3, <1>4, <1>5 DEF GiveUp

LEMMA VSendCanceled ==
    ASSUME BInv, BInv', VInv, SendCanceled
    PROVE  VInv'
<1>1. PICK e \in {Net, Canceled} : GiveUp(e)
  BY DEF SendCanceled
<1>2. RequestError(e)
  BY DEF RequestError
<1> QED
  BY <1>1, <1>2, VGiveUp DEF SendCanceled

LEMMA VBackoff ==
    ASSUME BInv, BInv', VInv, Backoff
    PROVE  VInv'
<1>1. pc = "waiting" /\ Step \in DOMAIN Calls /\ Working /\ ran
  BY DEF Backoff, BInv, PhaseInv, Working, VInv, Flow
<1>2. CASE /\ pc' = "body"
           /\ UNCHANGED <<inv, at, ran, confirmed, interrupted, held, err, request, effects,
                          reader, outputs, verdict>>
  <2>1. ran' = (pc' # "flags")
    BY <1>1, <1>2 DEF VInv, Flow
  <2> QED
    BY <1>1, <1>2, <2>1, VStay DEF effects, outputs, files, Working
<1>3. CASE interrupted /\ GiveUp(Canceled) /\ UNCHANGED <<applied, lost>>
  <2>1. RequestError(Canceled)
    BY DEF RequestError
  <2> QED
    BY <1>1, <1>3, <2>1, VGiveUp
<1> QED
  BY <1>2, <1>3 DEF Backoff

LEMMA VWait ==
    ASSUME BInv, BInv', VInv, pc = "sent", Wait, applied > 0 => applied' > 0
    PROVE  VInv'
<1>1. Working /\ Working' /\ pc' = "waiting"
  BY DEF Wait, Working
<1>2. ran' = (pc' # "flags")
  BY <1>1 DEF Wait, VInv, Flow
<1> QED
  BY <1>1, <1>2, VStay DEF Wait, outputs, files

LEMMA VSucceed ==
    ASSUME BInv, BInv', VInv, pc = "sent", Succeed
    PROVE  VInv'
<1>1. Step \in DOMAIN Calls /\ Working
  BY DEF BInv, PhaseInv, Working
<1>2. Step \notin {"confirm", "preview", "plan", "look", "install", "save_config", "print", "report",
                   "verdict", "run", "emit"}
  BY <1>1, CallsAre
<1>3. /\ pc' = "body"
      /\ UNCHANGED <<inv, ran, confirmed, interrupted, held, wire, gaveUp, export, printed, disk>>
      /\ unmet' = unmet \/ Step \in {"batch_check", "run_assertion"}
  BY DEF Succeed, outputs, files
<1>4. (applied > 0 => applied' > 0) /\ (Step \in Changing => applied' > 0)
  <2>1. \A n \in Nat : n + 1 > 0
    OBVIOUS
  <2>2. applied \in Nat
    BY Counters DEF BInv
  <2>3. CASE Step \in Changing
    <3>1. applied' = applied + 1
      BY <2>3 DEF Succeed, Apply
    <3>2. applied' > 0
      BY <2>1, <2>2, <3>1
    <3> QED
      BY <3>2
  <2>4. CASE Step \notin Changing
    BY <2>4 DEF Succeed
  <2> QED
    BY <2>3, <2>4
<1>5. ~gaveUp
  BY <1>1, <1>2, NotGivenUp
<1>6. CASE at' = at
  <2>1. ran' = (pc' # "flags")
    BY <1>3 DEF VInv, Flow, Working
  <2>2. Working'
    BY <1>3 DEF Working
  <2> QED
    BY <1>1, <1>3, <1>4, <1>6, <2>1, <2>2, VStay
<1>7. CASE at' = at + 1
  BY <1>1, <1>2, <1>3, <1>4, <1>5, <1>7, VMove
<1> QED
  BY <1>6, <1>7 DEF Succeed

(* The commands that change nothing, or that keep going.                    *)
LEMMA NothingToDo ==
    ASSUME BInv, inv.cmd \in Runs \cup {"tuples_read", "mappings_apply"}
    PROVE  /\ ~Has(inv, "install") /\ ~Has(inv, "save_config")
           /\ inv.cmd # "mappings_apply" => \A i \in DOMAIN Program(inv) : Program(inv)[i] \notin Changing
<1>1. inv.cmd \notin Saves \cup Installs
  BY DEF Runs, Diffs, Saves, Installs
<1> QED
  BY <1>1, AnyBody DEF BInv, StepsFit, Has, Ordered

(* The reader of stdout has left.                                           *)
LEMMA VPiped ==
    ASSUME BInv, VInv, Working, Fail(Pipe), reader = "closed", ~gaveUp,
           inv.cmd \in Runs \cup {"tuples_read", "mappings_apply"},
           unmet => inv.cmd \in Masked,
           unmet /\ inv.cmd = "optimize" => export = "old"
    PROVE  VInv'
<1>1. Zero
  BY NothingToDo DEF Zero
<1>2. ~AssertionsFailed /\ (inv.cmd \in Diffs => ~unmet)
  BY DEF AssertionsFailed, Runs, Diffs, Masked
<1> QED
  BY <1>1, <1>2, VQuiet, QuietErrors

LEMMA VExchange ==
    ASSUME BInv, BInv', VInv, Exchange, BrokenConnections = FALSE
    PROVE  VInv'
<1>1. pc = "sent" /\ Step \in DOMAIN Calls /\ Working /\ ran
  BY DEF Exchange, BInv, PhaseInv, Working, VInv, Flow
<1>2. MayApply => (applied > 0 => applied' > 0)
  BY Counters DEF MayApply, Apply, CanApply, BInv
<1>3. \A e : RequestError(e) /\ e # Canceled /\ GiveUp(e) /\ (applied > 0 => applied' > 0) => VInv'
  BY <1>1, VGiveUp
<1>0. Code(Canceled) = 130
  BY CanceledIs
<1>4. \A s \in Statuses : RequestError(Status(s)) /\ Status(s) # Canceled
  <2>1. \A s \in Statuses : Code(Status(s)) = 1
    BY StatusIs
  <2>2. \A s \in Statuses : Status(s) # Canceled
    BY <1>0, <2>1
  <2>3. \A s \in Statuses : RequestError(Status(s))
    BY DEF RequestError
  <2> QED
    BY <2>2, <2>3
<1>5. RequestError(Net) /\ Net # Canceled /\ RequestError(Token) /\ Token # Canceled
  <2>1. Net # Canceled
    BY NetIs, CanceledIs
  <2>2. Token # Canceled
    <3>1. Code(Token) = 4
      BY TokenIs
    <3> QED
      BY <1>0, <3>1
  <2> QED
    BY <2>1, <2>2 DEF RequestError
<1>6. {"400", "exists", "401", "403", "404"} \subseteq Statuses /\ {"429", "500"} \subseteq Statuses
  BY DEF Statuses
<1>7. CASE Succeed
  BY <1>1, <1>7, VSucceed
<1>8. CASE StreamFails
  <2>1. Step = "read_tuples"
    BY <1>8 DEF StreamFails
  <2>2. inv.cmd = "tuples_read" /\ ~gaveUp /\ ~AssertionsFailed
    BY <1>1, <2>1, NotGivenUp, NothingFound, AnyBody DEF BInv, StepsFit, Step
  <2>3. ~unmet
    BY <1>1, <2>2 DEF VInv, Unmet, Runs, Diffs
  <2>4. Fail(Plain) => VInv'
    BY <1>1, <2>2, VFailPlainly
  <2>5. reader = "closed" /\ Fail(Pipe) => VInv'
    BY <1>1, <2>2, <2>3, VPiped
  <2> QED
    BY <1>8, <2>4, <2>5 DEF StreamFails
<1>9. CASE Refused
  BY <1>3, <1>4, <1>6, <1>9 DEF Refused
<1>10. CASE Throttled
  BY <1>1, <1>3, <1>4, <1>6, <1>10, VWait DEF Throttled, Resend
<1>11. CASE ServerFails
  BY <1>1, <1>2, <1>3, <1>4, <1>6, <1>11, VWait DEF ServerFails, Retry
<1>12. CASE Unanswered
  <2>1. Unreachable = {Net}
    BY DEF Unreachable
  <2> QED
    BY <1>1, <1>2, <1>3, <1>5, <1>12, <2>1, VWait DEF Unanswered, Resend
<1>13. CASE TokenRejected
  BY <1>3, <1>5, <1>13 DEF TokenRejected
<1>14. CASE Aborted
  BY <1>2, <1>3, <1>5, <1>14 DEF Aborted
<1> QED
  BY <1>7, <1>8, <1>9, <1>10, <1>11, <1>12, <1>13, <1>14 DEF Exchange

-------------------------------------------------------------------------------
(* The work done in the process.                                            *)

LEMMA VAsking ==
    ASSUME BInv, BInv', VInv, NothingToAsk \/ AskDocs
    PROVE  VInv'
<1>1. pc = "body" /\ Step \in {"run_assertion", "plan_reads", "ask_docs"} /\ Working /\ ran
  BY DEF NothingToAsk, AskDocs, Body, Working, VInv, Flow
<1>2. CASE Advance
  BY <1>1, <1>2, VAdvance DEF Changing
<1>3. CASE \E e \in DocsErrors : Lose(e)
  <2>1. PICK e \in DocsErrors : Lose(e)
    BY <1>3
  <2>2. ~ZeroErr(e) /\ Code(e) \in {1, 4} /\ Consistent(e)
    BY DocsErrorsAre
  <2>3. Code(e) \in {1, 4, 130} /\ Code(e) # 130
    BY <2>2
  <2> QED
    BY <1>1, <2>1, <2>2, <2>3, VGaveUp DEF Lose
<1> QED
  BY <1>2, <1>3 DEF NothingToAsk, AskDocs

LEMMA VRun ==
    ASSUME BInv, BInv', VInv, Run
    PROVE  VInv'
<1>1. pc = "body" /\ Step = "run" /\ Working /\ ran
  BY DEF Run, Body, Working, VInv, Flow
<1>2. CASE \E e \in RunErrors(inv) : Fail(e)
  <2>1. PICK e \in {Plain, Invalid, Usage} : Fail(e)
    BY <1>2 DEF RunErrors
  <2> QED
    BY <1>1, <2>1, VFailEarly DEF Changing
<1>3. CASE Lose(LostServer)
  <2>1. Code(LostServer) = 4 /\ ~ZeroErr(LostServer)
    BY LostServerIs
  <2>2. Code(LostServer) \in {1, 4, 130} /\ Code(LostServer) # 130
    BY <2>1
  <2> QED
    BY <1>1, <1>3, <2>1, <2>2, VGaveUp, FoundErrors DEF Lose
<1>4. CASE interrupted /\ Fail(Canceled)
  <2>1. Code(Canceled) = 130 /\ ~ZeroErr(Canceled) /\ Consistent(Canceled)
    BY CanceledIs DEF Consistent, ExitOf
  <2>2. Code(Canceled) \notin {0, 2, 3, 4}
    BY <2>1
  <2> QED
    BY <1>1, <1>4, <2>1, <2>2, NothingFound, VFail
<1>5. CASE /\ unmet' \in BOOLEAN /\ at' = at + 1
           /\ UNCHANGED <<inv, pc, ran, confirmed, interrupted, held, err, request, wire, applied,
                          lost, gaveUp, reader, outputs, verdict>>
  BY <1>1, <1>5, VMove DEF outputs, files, Changing
<1> QED
  BY <1>2, <1>3, <1>4, <1>5 DEF Run

(* `model optimize` writes its rewrite at the very end.                     *)
LEMMA NotYetWritten ==
    ASSUME BInv, VInv, Working, inv.cmd = "optimize"
    PROVE  export = "old"
<1>1. ~Has(inv, "report")
  BY AnyBody DEF BInv, RunsFit, Has
<1>2. ~Has(inv, "save_config")
  BY NothingToDo DEF Runs
<1> QED
  BY <1>1, <1>2 DEF VInv, Flow, BInv, TypeOK

LEMMA VShow ==
    ASSUME BInv, BInv', VInv, Show
    PROVE  VInv'
<1>1. pc = "body" /\ Step = "show" /\ Working
  BY DEF Show, Body, Working
<1>2. inv.cmd = "optimize" /\ inv.cmd \in Runs \cap Masked
  BY <1>1, AnyBody DEF BInv, StepsFit, Step, Runs, Masked
<1>3. Advance => VInv'
  BY <1>1, VAdvance DEF Changing
<1>4. reader = "closed" /\ Fail(Pipe) => VInv'
  BY <1>1, <1>2, VPiped, NotYetWritten, NotGivenUp
<1>5. printed' = "all" /\ GoTo(at + 1) /\ UNCHANGED <<confirmed, export, files>> => VInv'
  BY <1>1, VMove DEF GoTo, effects, files, Changing
<1> QED
  BY <1>3, <1>4, <1>5 DEF Show

(* The reader left, and `model diff` had decided.                           *)
LEMMA VPreferGate ==
    ASSUME BInv, VInv, pc = "body", Step \in {"print", "report"}, reader = "closed",
           Fail(PreferGateOnBrokenPipe(Pipe))
    PROVE  VInv'
<1>1. Working /\ ran /\ ~gaveUp /\ ~AssertionsFailed
  BY NotGivenUp, NothingFound DEF Working, VInv, Flow
<1>2. inv.cmd \in Runs
  BY AnyBody DEF BInv, StepsFit, Step, RunSteps
<1>3. CASE inv.cmd \in Diffs /\ unmet
  <2>1. Fail(TestFailed)
    BY <1>3 DEF PreferGateOnBrokenPipe
  <2>2. Code(TestFailed) = 3 /\ ~ZeroErr(TestFailed)
    BY TestFailedIs
  <2>3. Code(TestFailed) \notin {0, 2, 4, 130}
    BY <2>2
  <2> QED
    BY <1>1, <1>3, <2>1, <2>2, <2>3, VFail, FoundErrors
<1>4. CASE ~(inv.cmd \in Diffs /\ unmet)
  <2>1. Fail(Pipe)
    BY <1>4 DEF PreferGateOnBrokenPipe
  <2>2. unmet => inv.cmd \in Masked
    BY <1>2, <1>4 DEF Runs, Masked
  <2> QED
    BY <1>1, <1>2, <2>1, <2>2, VPiped, NotYetWritten
<1> QED
  BY <1>3, <1>4

LEMMA VPrint ==
    ASSUME BInv, BInv', VInv, PrintResult
    PROVE  VInv'
<1>1. pc = "body" /\ Step = "print" /\ Working
  BY DEF PrintResult, Body, Working
<1>2. CASE /\ GoTo(at + 1) /\ UNCHANGED <<confirmed, export, files>>
           /\ (reader = "open" /\ printed' = "all") \/ (Unheard /\ UNCHANGED printed)
  BY <1>1, <1>2, VMove DEF GoTo, effects, files, Unheard, Changing
<1>3. CASE reader = "closed" /\ Fail(PreferGateOnBrokenPipe(Pipe))
  BY <1>1, <1>3, VPreferGate
<1>4. CASE Fail(Plain)
  BY <1>1, <1>4, VFailEarly DEF Changing
<1> QED
  BY <1>2, <1>3, <1>4 DEF PrintResult

LEMMA VReport ==
    ASSUME BInv, BInv', VInv, Report
    PROVE  VInv'
<1>1. pc = "body" /\ Step = "report" /\ Working
  BY DEF Report, Body, Working
<1>2. CASE ~inv.toFile /\ Advance
  BY <1>1, <1>2, VAdvance DEF Changing
<1>3. CASE reader = "closed" /\ Fail(PreferGateOnBrokenPipe(Pipe))
  BY <1>1, <1>3, VPreferGate
<1>4. CASE Fail(Plain)
  BY <1>1, <1>4, VFailEarly DEF Changing
<1>5. CASE export' = "new" /\ GoTo(at + 1) /\ UNCHANGED <<confirmed, printed, files>>
  <2>1. Has(inv, "report")
    BY <1>1, AnyBody DEF BInv, Has, Step
  <2> QED
    BY <1>1, <1>5, <2>1, VMove DEF GoTo, effects, files, Changing
<1> QED
  BY <1>2, <1>3, <1>4, <1>5 DEF Report

(* All is well: nothing else is left to do.                                 *)
LEMMA VReturns ==
    ASSUME NEW e, Return(e), ZeroErr(e), Zero', ~AssertionsFailed', (inv.cmd \in Diffs => ~unmet)'
    PROVE  VInv'
BY OnExiting DEF Return, EndsWith

LEMMA WasPrinted ==
    ASSUME BInv, VInv, Working, inv.cmd \in Runs, at = Len(Program(inv))
    PROVE  inv.machine => printed = "all"
<1>1. Passed({"print"})
  BY AnyBody DEF BInv, RunsFit, Passed
<1> QED
  BY <1>1 DEF VInv, Must

LEMMA VGate ==
    ASSUME BInv, BInv', VInv, Gate
    PROVE  VInv'
<1>1. pc = "body" /\ Step = "verdict" /\ Working /\ ran
  BY DEF Gate, Body, Working, VInv, Flow
<1>2. inv.cmd \in Runs /\ ~gaveUp /\ ~AssertionsFailed
  BY <1>1, AnyBody, NotGivenUp, NothingFound DEF BInv, StepsFit, Step, RunSteps
<1>3. CASE unmet /\ Fail(VerdictError)
  <2>1. CASE Fail(Invalid)
    BY <1>1, <2>1, VFailEarly DEF Changing
  <2>2. CASE Fail(TestFailed)
    <3>1. Code(TestFailed) = 3 /\ ~ZeroErr(TestFailed)
      BY TestFailedIs
    <3>2. Code(TestFailed) \notin {0, 2, 4, 130}
      BY <3>1
    <3> QED
      BY <1>1, <1>2, <1>3, <2>2, <3>1, <3>2, VFail, FoundErrors
  <2> QED
    BY <1>3, <2>1, <2>2 DEF VerdictError
<1>4. CASE ~unmet /\ Advance
  BY <1>1, <1>4, VMove DEF Advance, effects, outputs, files, Changing
<1>5. CASE ~unmet /\ at = Len(Program(inv)) /\ Fail(NoErr)
  <2>1. inv.toFile => export = "new" \/ inv.cmd = "optimize"
    <3>1. inv.toFile => inv.cmd # "mappings_validate"
      BY DEF BInv, TypeOK, Invocations, ToFile, Diffs
    <3>2. inv.toFile /\ inv.cmd # "optimize" => Passed({"report"})
      BY <1>2, <1>5, <3>1, AnyBody DEF BInv, RunsFit, Passed
    <3> QED
      BY <1>1, <3>2 DEF VInv, Must
  <2>2. Zero
    BY <1>1, <1>2, <1>5, <2>1, NothingToDo, WasPrinted, AnyBody DEF Zero, BInv, Runs, Diffs
  <2> QED
    BY <1>1, <1>2, <1>5, <2>2, VQuiet, QuietErrors
<1>6. CASE \E e \in {Usage, Plain} : Fail(e)
  BY <1>1, <1>6, VFailEarly DEF Changing
<1> QED
  BY <1>3, <1>4, <1>5, <1>6 DEF Gate

LEMMA VCommit ==
    ASSUME BInv, BInv', VInv, CommitRewrite
    PROVE  VInv'
<1>1. pc = "body" /\ Step = "commit" /\ Working
  BY DEF CommitRewrite, Body, Working
<1>2. inv.cmd = "optimize" /\ inv.cmd \in Runs \cap Masked /\ ~gaveUp
  BY <1>1, AnyBody, NotGivenUp DEF BInv, StepsFit, Step, Runs, Masked
<1>3. at = Len(Program(inv))
  BY <1>1, AnyBody DEF BInv, Ordered, Step, Last
<1>4. ~unmet
  <2>1. Passed({"verdict"})
    BY <1>2, <1>3, AnyBody DEF BInv, RunsFit, Passed
  <2> QED
    BY <1>1, <2>1 DEF VInv, Unmet
<1>5. Zero
  BY <1>1, <1>2, <1>3, <1>4, NothingToDo, WasPrinted DEF Zero
<1>6. ~AssertionsFailed /\ inv.cmd \notin Diffs
  BY <1>2 DEF AssertionsFailed, Diffs
<1>7. Fail(NoErr) => VInv'
  BY <1>1, <1>4, <1>5, <1>6, VQuiet, QuietErrors
<1>8. Fail(Plain) => VInv'
  BY <1>1, VFailEarly DEF Changing
<1>9. reader = "closed" /\ Fail(Pipe) => VInv'
  BY <1>1, <1>2, <1>4, VPiped
<1>10. CASE /\ inv.toFile /\ Return(NoErr) /\ export' = "new"
            /\ UNCHANGED <<inv, at, ran, confirmed, interrupted, held, request, effects, reader,
                           printed, files, verdict>>
  <2>1. Zero'
    BY <1>2, <1>4, <1>5, <1>10 DEF Zero, effects, files
  <2>2. ~AssertionsFailed' /\ (inv.cmd \in Diffs => ~unmet)'
    BY <1>4, <1>10 DEF AssertionsFailed, effects
  <2> QED
    BY <1>10, <2>1, <2>2, VReturns, QuietErrors
<1> QED
  BY <1>7, <1>8, <1>9, <1>10 DEF CommitRewrite

-------------------------------------------------------------------------------
(* The configuration and installed files.                                   *)

LEMMA VPlan ==
    ASSUME BInv, BInv', VInv, PlanChanges
    PROVE  VInv'
<1>1. pc = "body" /\ Step = "plan" /\ Working
  BY DEF PlanChanges, Body, Working
<1>2. inv.cmd = "mappings_apply" /\ ~gaveUp
  BY <1>1, AnyBody, NotGivenUp DEF BInv, StepsFit, Step
<1>3. Fail(Plain) => VInv'
  BY <1>1, VFailEarly DEF Changing
<1>4. reader = "closed" /\ Fail(Pipe) => VInv'
  BY <1>1, <1>2, VPiped DEF Masked
<1>5. CASE \E n : GoTo(n) /\ UNCHANGED <<confirmed, export, files>>
  <2>1. inv' = inv
    BY <1>5 DEF GoTo
  <2>2. Must'
    BY <1>2, <2>1, NothingSkipped
  <2> QED
    BY <1>1, <1>2, <1>5, <2>2, VJump DEF GoTo, effects, Changing
<1> QED
  BY <1>3, <1>4, <1>5 DEF PlanChanges

LEMMA VSaveConfig ==
    ASSUME BInv, BInv', VInv, SaveConfig
    PROVE  VInv'
<1>1. pc = "body" /\ Step = "save_config" /\ Working /\ ran
  BY DEF SaveConfig, Body, Working, VInv, Flow
<1>2. Has(inv, "save_config") /\ ~AssertionsFailed
  BY <1>1, NothingFound, AnyBody DEF BInv, Has, Step
<1>3. CASE Fail(Plain)
  BY <1>1, <1>3, VFailEarly DEF Changing
<1>4. CASE /\ Return(Plain) /\ export' = "new"
           /\ UNCHANGED <<inv, at, ran, confirmed, interrupted, held, request, effects, reader,
                          printed, files, verdict>>
  <2>1. Code(Plain) = 1 /\ ~ZeroErr(Plain)
    BY PlainIs
  <2>2. Consistent(Plain)'
    BY OrdinaryErrors DEF Consistent, ExitOf
  <2>3. Code(Plain) \notin {0, 2, 3, 4, 130}
    BY <2>1
  <2>4. Says(Plain)'
    BY <1>1, <1>2, <1>4, <2>2, <2>3 DEF Says, Has
  <2>5. EndsWith(Plain)'
    BY <1>2, <1>4, <2>1, <2>4 DEF EndsWith, AssertionsFailed, effects
  <2> QED
    BY <1>4, <2>5, OnExiting DEF Return
<1>5. CASE export' = "new" /\ GoTo(at + 1) /\ UNCHANGED <<confirmed, printed, files>>
  BY <1>1, <1>2, <1>5, VMove DEF GoTo, effects, files, Changing
<1> QED
  BY <1>3, <1>4, <1>5 DEF SaveConfig

(* The steps of `init`, by their place.                                     *)
LEMMA InitSteps ==
    ASSUME TypeOK, inv.cmd = "init"
    PROVE  /\ Step = "tour" => at = 3
           /\ Len(Program(inv)) - 1 \in Nat /\ Len(Program(inv)) - 1 > 3
           /\ \A i \in 1..(Len(Program(inv)) - 2) :
                  Program(inv)[i] \notin {"print", "report", "save_config", "install"} \cup Changing
<1>1. CASE Len(Program(inv)) = 5
  <2>1. at = 1 \/ at = 2 \/ at = 3 \/ at = 4 \/ at = 5
    BY <1>1 DEF TypeOK
  <2>2. Program(inv)[4] = "save_config" /\ Program(inv)[5] = "emit"
    BY <1>1, InitIs
  <2>3. Step = "tour" => at = 3
    BY <2>1, <2>2, InitIs DEF Step
  <2>4. \A i \in 1..3 : Program(inv)[i] \in {"refuse", "file", "tour"}
    BY InitIs
  <2> QED
    BY <1>1, <2>3, <2>4 DEF Changing
<1>2. CASE Len(Program(inv)) = 6
  <2>1. at = 1 \/ at = 2 \/ at = 3 \/ at = 4 \/ at = 5 \/ at = 6
    BY <1>2 DEF TypeOK
  <2>2. Program(inv)[4] = "confirm" /\ Program(inv)[5] = "save_config" /\ Program(inv)[6] = "emit"
    BY <1>2, InitIs
  <2>3. Step = "tour" => at = 3
    BY <2>1, <2>2, InitIs DEF Step
  <2>4. \A i \in 1..4 : Program(inv)[i] \in {"refuse", "file", "tour", "confirm"}
    BY <2>2, InitIs
  <2> QED
    BY <1>2, <2>3, <2>4 DEF Changing
<1> QED
  BY <1>1, <1>2, InitIs

LEMMA VTour ==
    ASSUME BInv, BInv', VInv, Tour
    PROVE  VInv'
<1>1. pc = "body" /\ Step = "tour" /\ Working
  BY DEF Tour, Body, Working
<1>2. inv.cmd = "init"
  BY <1>1, AnyBody DEF BInv, StepsFit, Step
<1>3. at = 3 /\ ~gaveUp /\ ~unmet
  BY <1>1, <1>2, InitSteps, NotGivenUp DEF BInv, VInv, Unmet, Runs, Diffs
<1>4. Advance => VInv'
  BY <1>1, VAdvance DEF Changing
<1>5. Fail(Plain) => VInv'
  BY <1>1, VFailEarly DEF Changing
<1>6. CASE WizardEligible(inv) /\ Fail(NoErr)
  <2>1. ~confirmed
    BY <1>1, <1>2, <1>3 DEF VInv, Flow
  <2>2. ~Has(inv, "install") /\ \A i \in DOMAIN Program(inv) : Program(inv)[i] \notin Changing
    BY <1>2, AnyBody DEF BInv, StepsFit, Has, Ordered, Saves
  <2>3. ~inv.machine /\ ~inv.toFile
    BY <1>2, <1>6 DEF WizardEligible, BInv, TypeOK, Invocations, ToFile, Diffs
  <2>4. Zero
    BY <1>2, <1>3, <1>6, <2>1, <2>2, <2>3 DEF Zero
  <2> QED
    BY <1>1, <1>2, <1>3, <1>6, <2>4, VQuiet, QuietErrors DEF AssertionsFailed
<1>7. CASE /\ WizardEligible(inv) /\ confirmed' = TRUE /\ GoTo(Len(Program(inv)) - 1)
           /\ UNCHANGED <<printed, export, files>>
  <2>1. at' = Len(Program(inv)) - 1 /\ inv' = inv
    BY <1>7 DEF GoTo
  <2>2. at' \in Nat /\ at' > 3
    BY <1>2, <2>1, InitSteps DEF BInv
  <2>3. at' - 1 = Len(Program(inv)) - 2
    BY <2>1, AnyBody DEF BInv
  <2>4. /\ ~Passed({"print"})' /\ ~Passed({"report"})' /\ ~Passed({"save_config"})'
        /\ ~Passed({"install"})' /\ ~Passed(Changing)'
    BY <1>2, <2>1, <2>3, InitSteps DEF BInv, Passed
  <2>5. Must'
    BY <2>4 DEF Must
  <2> QED
    BY <1>1, <1>2, <1>7, <2>2, <2>5, VJump DEF GoTo, effects, Changing
<1> QED
  BY <1>4, <1>5, <1>6, <1>7 DEF Tour

LEMMA SkillMust ==
    ASSUME inv.cmd = "skill_install", inv' = inv, at' \in {2, 3, 4} \/ (at' = 5 /\ disk' = "same")
    PROVE  Must'
<1>1. Program(inv)[1] = "validate" /\ Program(inv)[2] = "look" /\ Program(inv)[3] = "confirm"
      /\ Program(inv)[4] = "install"
  BY SkillInstallIs
<1>2. \A i \in 1..4 : Program(inv)[i] \in {"validate", "look", "confirm", "install"}
  BY <1>1
<1>3. \A i \in 1..3 : Program(inv)[i] \in {"validate", "look", "confirm"}
  BY <1>1
<1>4. 1..(at' - 1) \subseteq 1..4 /\ (at' \in {2, 3, 4} => 1..(at' - 1) \subseteq 1..3)
  OBVIOUS
<1>5. ~Passed({"print"})' /\ ~Passed({"report"})' /\ ~Passed({"save_config"})' /\ ~Passed(Changing)'
  BY <1>2, <1>4 DEF Passed, Changing
<1>6. Passed({"install"})' => disk' = "same"
  BY <1>3, <1>4 DEF Passed
<1> QED
  BY <1>5, <1>6 DEF Must

LEMMA VLook ==
    ASSUME BInv, BInv', VInv, Look
    PROVE  VInv'
<1>1. pc = "body" /\ Step = "look" /\ Working
  BY DEF Look, Body, Working
<1>2. (\E e \in {Plain, Usage} : Fail(e)) => VInv'
  BY <1>1, VFailEarly DEF Changing
<1>3. Advance => VInv'
  BY <1>1, VAdvance DEF Changing
<1>4. CASE /\ inv.cmd = "skill_install" /\ seen' = disk
           /\ GoTo(CASE disk = "same" -> Len(Program(inv)) [] disk = "absent" -> at + 2 [] OTHER -> at + 1)
           /\ UNCHANGED <<confirmed, printed, export, disk, again>>
  <2>1. at = 2 /\ Len(Program(inv)) = 5
    BY <1>1, <1>4, SkillSteps DEF BInv
  <2>2. at' = 3 \/ at' = 4 \/ (at' = 5 /\ disk' = "same")
    BY <1>4, <2>1 DEF GoTo
  <2>3. at' \in {2, 3, 4} \/ (at' = 5 /\ disk' = "same")
    BY <2>2
  <2>4. inv' = inv
    BY <1>4 DEF GoTo
  <2>5. Must'
    BY <1>4, <2>3, <2>4, SkillMust
  <2>6. pc' = "body" /\ UNCHANGED <<inv, ran, held, gaveUp, unmet, interrupted, wire, export>>
    BY <1>4 DEF GoTo, effects
  <2> QED
    BY <1>1, <1>4, <2>5, <2>6, VJump DEF Changing
<1> QED
  BY <1>2, <1>3, <1>4 DEF Look

LEMMA VInstall ==
    ASSUME BInv, BInv', VInv, InstallFile
    PROVE  VInv'
<1>1. pc = "body" /\ Step = "install" /\ Working
  BY DEF InstallFile, Body, Working
<1>2. Fail(Plain) => VInv'
  BY <1>1, VFailEarly DEF Changing
<1>3. CASE /\ Appeared /\ GoTo(at - 2)
           /\ UNCHANGED <<confirmed, printed, export, disk, seen>>
  <2>1. inv.cmd = "skill_install"
    BY <1>3 DEF Appeared
  <2>2. at = 4 /\ at' = at - 2
    BY <1>1, <1>3, <2>1, SkillSteps DEF BInv, GoTo
  <2>3. at' \in {2, 3, 4} /\ inv' = inv
    BY <1>3, <2>2 DEF GoTo
  <2>4. Must'
    BY <2>1, <2>3, SkillMust
  <2>5. pc' = "body" /\ UNCHANGED <<inv, ran, held, gaveUp, unmet, interrupted, wire, export>>
    BY <1>3 DEF GoTo, effects
  <2> QED
    BY <1>1, <2>1, <2>4, <2>5, VJump DEF Changing
<1>4. CASE /\ disk' = "same" /\ GoTo(at + 1)
           /\ UNCHANGED <<confirmed, printed, export, seen, again>>
  BY <1>1, <1>4, VMove DEF GoTo, effects, Changing
<1> QED
  BY <1>2, <1>3, <1>4 DEF InstallFile

-------------------------------------------------------------------------------
(* Output.                                                                  *)

LEMMA VSink ==
    ASSUME BInv, BInv', VInv, Sink
    PROVE  VInv'
<1>1. pc = "body" /\ Step = "sink" /\ Working
  BY DEF Sink, Body, Working
<1>2. Fail(Plain) => VInv'
  BY <1>1, VFailEarly DEF Changing
<1>3. CASE /\ at' = at + 1
           /\ UNCHANGED <<inv, pc, ran, confirmed, interrupted, held, err, request, effects,
                          reader, printed, export, files, verdict>>
  BY <1>1, <1>3, VMove DEF effects, files, Changing
<1> QED
  BY <1>2, <1>3 DEF Sink

(* Where a command delivers its result: it has done what it is for.         *)
Delivering == pc = "body" /\ Step \in {"emit", "finish"}
LEMMA AtTheEnd ==
    ASSUME BInv, VInv, Delivering
    PROVE  /\ Working /\ ran /\ at = Len(Program(inv)) /\ inv.cmd \notin Runs
           /\ Step = "emit" => ~inv.toFile
           /\ Step = "finish" => inv.cmd = "tuples_read"
           /\ gaveUp => inv.cmd \in {"batch_check", "mappings_apply"}
           /\ unmet => inv.cmd \in {"batch_check", "assertions_test"}
           /\ Has(inv, "save_config") => export = "new"
           /\ Has(inv, "install") => disk = "same"
           /\ (\E i \in DOMAIN Program(inv) : Program(inv)[i] \in Changing) /\ ~inv.dryRun
              /\ inv.cmd # "mappings_apply" => applied > 0
<1>1. Working /\ ran
  BY DEF Delivering, Working, VInv, Flow
<1>2. at = Len(Program(inv)) /\ DOMAIN Program(inv) = 1..Len(Program(inv))
  BY AnyBody DEF BInv, Ordered, Delivering, Step, Last
<1>3. Step = "finish" => inv.cmd = "tuples_read"
  BY AnyBody DEF BInv, StepsFit, Step
<1>4. inv.cmd \notin Runs
  BY <1>2, AnyBody DEF BInv, RunsFit, Delivering, Step
<1>5. Step = "emit" => ~inv.toFile
  <2>1. inv.toFile => inv.cmd = "tuples_read"
    BY <1>4 DEF BInv, TypeOK, Invocations, ToFile, Diffs, Runs
  <2>2. inv.cmd = "tuples_read" => Program(inv)[Len(Program(inv))] = "finish"
    BY DEF Program, TuplesRead
  <2> QED
    BY <1>2, <2>1, <2>2 DEF Step
<1>6. \A s : (\E i \in 1..Len(Program(inv)) : Program(inv)[i] \in s) /\ Step \notin s => Passed(s)
  <2> SUFFICES ASSUME NEW s, NEW i \in 1..Len(Program(inv)), Program(inv)[i] \in s, Step \notin s
               PROVE  Passed(s)
    OBVIOUS
  <2>1. i # at
    BY DEF Step
  <2>2. i \in 1..(at - 1)
    BY <1>2, <2>1, AnyBody DEF BInv
  <2> QED
    BY <2>2 DEF Passed
<1>7. Has(inv, "save_config") => export = "new"
  <2>1. Has(inv, "save_config") => Passed({"save_config"})
    BY <1>6 DEF Has, Delivering
  <2> QED
    BY <1>1, <2>1 DEF VInv, Must
<1>8. Has(inv, "install") => disk = "same"
  <2>1. Has(inv, "install") => Passed({"install"})
    BY <1>6 DEF Has, Delivering
  <2> QED
    BY <1>1, <2>1 DEF VInv, Must
<1>9. (\E i \in DOMAIN Program(inv) : Program(inv)[i] \in Changing) /\ ~inv.dryRun
      /\ inv.cmd # "mappings_apply" => applied > 0
  <2>1. Step \notin Changing
    BY DEF Delivering, Changing
  <2>2. (\E i \in 1..Len(Program(inv)) : Program(inv)[i] \in Changing) => Passed(Changing)
    BY <1>6, <2>1
  <2> QED
    BY <1>1, <1>2, <2>2 DEF VInv, Must
<1>10. gaveUp => inv.cmd \in {"batch_check", "mappings_apply"}
  BY <1>1 DEF VInv, Held
<1>11. unmet => inv.cmd \in {"batch_check", "assertions_test"}
  BY <1>1, <1>4 DEF VInv, Unmet
<1> QED
  BY <1>1, <1>2, <1>3, <1>4, <1>5, <1>7, <1>8, <1>9, <1>10, <1>11

(* The error a command ends with tells whether it has what it promised.     *)
LEMMA VReturnEnd ==
    ASSUME BInv, VInv, Delivering, Return(EndError),
           UNCHANGED <<inv, ran, confirmed, interrupted, wire, applied, gaveUp, unmet, reader, export, disk>>,
           inv.machine => reader = "open" /\ printed' = "all",
           Step = "finish" => ~inv.toFile
    PROVE  VInv'
<1>1. Working /\ ran /\ inv.cmd \notin Runs
  BY AtTheEnd
<1>2. export = "new" => Has(inv, "save_config") \/ Has(inv, "report")
  BY <1>1 DEF VInv, Flow
<1>3. Has(inv, "save_config")' = Has(inv, "save_config") /\ Has(inv, "report")' = Has(inv, "report")
  OBVIOUS
<1>4. \A e : err' = e /\ EndsWith(e)' => VInv'
  BY OnExiting DEF Return
<1>5. err' = EndError
  BY DEF Return
<1>6. CASE AssertionsFailed
  <2>1. EndError = TestFailed
    BY <1>6 DEF EndError
  <2>2. Code(TestFailed) = 3 /\ ~ZeroErr(TestFailed)
    BY TestFailedIs
  <2>3. Code(TestFailed) \notin {0, 2, 4, 130}
    BY <2>2
  <2>4. ~gaveUp /\ unmet
    BY <1>6, AtTheEnd DEF AssertionsFailed
  <2>5. Consistent(TestFailed)'
    BY FoundErrors DEF Consistent, ExitOf
  <2>6. Says(TestFailed)'
    BY <1>1, <1>2, <1>3, <2>2, <2>3, <2>4, <2>5 DEF Says
  <2>7. EndsWith(TestFailed)'
    BY <1>1, <2>2, <2>6 DEF EndsWith
  <2> QED
    BY <1>4, <1>5, <2>1, <2>7
<1>7. CASE ~AssertionsFailed /\ held # NoErr
  <2>1. EndError = held
    BY <1>7 DEF EndError
  <2>2. gaveUp /\ Code(held) \in {1, 4, 130} /\ held.cause # "pipe" /\ (Code(held) = 130 => interrupted)
        /\ Consistent(held)
    BY <1>1, <1>7 DEF VInv, Held
  <2>3. ~ZeroErr(held)
    BY <1>7, <2>2 DEF ZeroErr, IsIgnorableBrokenPipe
  <2>4. Code(held) # 0 /\ Code(held) # 2 /\ Code(held) # 3
    BY <2>2
  <2> DEFINE h == held
  <2>5. Code(h) = Code(held) /\ Consistent(h)
    BY <2>2
  <2>6. CASE TRUE
    <3> SUFFICES ASSUME NEW e, e = held
                 PROVE  EndsWith(e)'
      BY <1>4, <1>5, <2>1
    <3>1. ~ZeroErr(e) /\ (Code(e) = 130 => interrupted) /\ Code(e) # 0 /\ Code(e) # 2 /\ Code(e) # 3
      BY <2>2, <2>3, <2>4
    <3>2. Consistent(e)'
      BY <2>2 DEF Consistent, ExitOf
    <3>3. Says(e)'
      BY <1>1, <1>2, <1>3, <2>2, <3>1, <3>2 DEF Says
    <3> QED
      BY <2>2, <3>1, <3>3 DEF EndsWith
  <2> QED
    BY <2>6
<1>8. CASE ~AssertionsFailed /\ held = NoErr /\ inv.cmd = "batch_check" /\ unmet
  <2>1. EndError = Plain
    BY <1>8 DEF EndError
  <2>2. Code(Plain) = 1 /\ ~ZeroErr(Plain)
    BY PlainIs
  <2>3. Code(Plain) \notin {0, 2, 3, 4, 130}
    BY <2>2
  <2>4. Consistent(Plain)'
    BY OrdinaryErrors DEF Consistent, ExitOf
  <2>5. Says(Plain)'
    BY <1>1, <1>2, <1>3, <2>3, <2>4 DEF Says
  <2>6. EndsWith(Plain)'
    BY <1>8, <2>2, <2>5 DEF EndsWith, AssertionsFailed
  <2> QED
    BY <1>4, <1>5, <2>1, <2>6
<1>9. CASE ~AssertionsFailed /\ held = NoErr /\ ~(inv.cmd = "batch_check" /\ unmet)
  <2>1. EndError = NoErr
    BY <1>9 DEF EndError
  <2>2. ~gaveUp
    BY <1>1, <1>9 DEF VInv, Held
  <2>3. ~unmet
    BY <1>9, AtTheEnd DEF AssertionsFailed
  <2>4. ~inv.toFile
    BY AtTheEnd DEF Delivering
  <2>5. Zero'
    BY <2>2, <2>3, <2>4, AtTheEnd DEF Zero, Has
  <2>6. EndsWith(NoErr)'
    BY <2>3, <2>5, QuietErrors DEF EndsWith, AssertionsFailed
  <2> QED
    BY <1>4, <1>5, <2>1, <2>6
<1> QED
  BY <1>6, <1>7, <1>8, <1>9

LEMMA VDeliver ==
    ASSUME BInv, VInv, Delivering, Deliver, Step = "finish" => ~inv.toFile
    PROVE  VInv'
<1>1. Working /\ ran /\ inv.cmd \notin Runs
  BY AtTheEnd
<1>2. AssertionsFailed => ~gaveUp /\ unmet
  BY AtTheEnd DEF AssertionsFailed
<1>3. AssertionsFailed /\ Fail(TestFailed) => VInv'
  <2>1. Code(TestFailed) = 3 /\ ~ZeroErr(TestFailed)
    BY TestFailedIs
  <2>2. Code(TestFailed) \notin {0, 2, 4, 130}
    BY <2>1
  <2> QED
    BY <1>1, <1>2, <2>1, <2>2, VFail, FoundErrors
<1>4. CASE /\ Return(EndError)
           /\ \/ MayBeQuiet /\ UNCHANGED printed
              \/ reader = "open" /\ printed' = "all"
           /\ UNCHANGED <<inv, at, ran, confirmed, interrupted, held, request, effects, reader,
                          export, files, verdict>>
  <2>1. inv.machine => reader = "open" /\ printed' = "all"
    BY <1>4 DEF MayBeQuiet
  <2> QED
    BY <1>4, <2>1, VReturnEnd DEF effects, files
<1>5. CASE reader = "closed" /\ Fail(PreferAssertionFailure(Pipe))
  <2>1. CASE AssertionsFailed
    BY <1>3, <1>5, <2>1 DEF PreferAssertionFailure
  <2>2. CASE ~AssertionsFailed
    <3>1. Fail(Pipe)
      BY <1>5, <2>2 DEF PreferAssertionFailure
    <3>2. gaveUp \/ unmet => inv.cmd \in Masked
      BY <2>2, AtTheEnd DEF Masked, AssertionsFailed
    <3>3. inv.cmd \notin Diffs /\ inv.cmd # "optimize"
      BY <1>1 DEF Runs
    <3>4. Zero
      BY <1>5, <3>2, <3>3, AtTheEnd DEF Zero
    <3> QED
      BY <1>1, <2>2, <3>1, <3>3, <3>4, VQuiet, QuietErrors
  <2> QED
    BY <2>1, <2>2
<1>6. CASE Fail(PreferAssertionFailure(Plain))
  <2>1. CASE AssertionsFailed
    BY <1>3, <1>6, <2>1 DEF PreferAssertionFailure
  <2>2. CASE ~AssertionsFailed
    BY <1>1, <1>6, <2>2, VFailPlainly DEF PreferAssertionFailure
  <2> QED
    BY <2>1, <2>2
<1> QED
  BY <1>4, <1>5, <1>6 DEF Deliver

LEMMA VOutput ==
    ASSUME BInv, VInv, Emit \/ Finish
    PROVE  VInv'
<1>1. Delivering
  BY DEF Emit, Finish, Body, Delivering
<1>2. Working /\ ran
  BY <1>1, AtTheEnd
<1>3. CASE Deliver /\ (Step = "finish" => ~inv.toFile)
  BY <1>1, <1>3, VDeliver
<1>4. CASE inv.cmd \in {"models_get", "models_latest"} /\ Fail(Usage)
  <2>1. \A i \in 1..Len(Program(inv)) : Program(inv)[i] \notin Changing
    BY <1>4, AnyBody DEF BInv, StepsFit
  <2>2. ~Passed(Changing) /\ Step \notin Changing
    BY <2>1, AnyBody DEF BInv, Passed, Step
  <2>3. ~(wire > 0) /\ wire \in Nat
    BY <1>2, <2>2, Counters DEF BInv, VInv, Flow
  <2>4. wire = 0 /\ ~AssertionsFailed
    BY <1>4, <2>3 DEF AssertionsFailed
  <2> QED
    BY <1>2, <1>4, <2>4, VFailPlainly
<1>5. CASE Step = "finish" /\ Fail(Plain)
  BY <1>1, <1>2, <1>5, AtTheEnd, VFailPlainly DEF AssertionsFailed
<1>6. CASE /\ Step = "finish" /\ inv.toFile /\ Return(NoErr) /\ export' = "new"
           /\ UNCHANGED <<inv, at, ran, confirmed, interrupted, held, request, effects, reader,
                          printed, files, verdict>>
  <2>1. inv.cmd = "tuples_read" /\ ~gaveUp /\ ~unmet
    BY <1>1, <1>6, AtTheEnd
  <2>2. Zero'
    BY <1>6, <2>1, NothingToDo DEF Zero, Has, effects, files
  <2>3. ~AssertionsFailed' /\ (inv.cmd \in Diffs => ~unmet)'
    BY <1>6, <2>1 DEF AssertionsFailed, effects
  <2> QED
    BY <1>6, <2>2, <2>3, VReturns, QuietErrors
<1> QED
  BY <1>3, <1>4, <1>5, <1>6 DEF Emit, Finish, Body

-------------------------------------------------------------------------------
(* The exit code, and what happens around the process.                      *)

LEMMA VExit ==
    ASSUME BInv, VInv, Exit
    PROVE  VInv'
<1>1. /\ EndsWith(err) /\ pc' = "done" /\ exit' = ExitCode
      /\ kind' = (IF inv.machine /\ ExitCode # 0 THEN EnvelopeKind ELSE "")
      /\ UNCHANGED <<inv, ran, confirmed, interrupted, err, wire, applied, gaveUp, unmet, reader, printed,
                     export, disk>>
  BY DEF Exit, VInv, effects, outputs, files
<1>2. ~Working' /\ pc' # "exiting"
  BY <1>1 DEF Working
<1>3. Must' /\ Flow' /\ Unmet' /\ Held'
  BY <1>2 DEF Must, Flow, Unmet, Held
<1>4. CASE ZeroErr(err)
  <2>1. exit' = 0 /\ kind' = ""
    BY <1>1, <1>4 DEF ExitCode, ZeroErr
  <2>2. Zero'
    BY <1>1, <1>4 DEF EndsWith, Zero
  <2>3. ~(AssertionsFailed /\ ~gaveUp) /\ ~(inv.cmd \in Diffs /\ unmet)
    BY <1>1, <1>4, TestFailedIs DEF EndsWith
  <2>4. ExitTellsTheTruth'
    BY <1>1, <2>1, <2>2, <2>3 DEF ExitTellsTheTruth, AssertionsFailed
  <2> QED
    BY <1>2, <1>3, <2>4 DEF VInv
<1>5. CASE ~ZeroErr(err)
  <2>1. Says(err)
    BY <1>1, <1>5 DEF EndsWith
  <2>2. exit' = IF interrupted THEN 130 ELSE IF ~ran THEN 2 ELSE Code(err)
    BY <1>1, <1>5 DEF ExitCode, ZeroErr
  <2>3. ExitCode = exit' /\ exit' # 0
    <3>1. Code(err) # 0
      BY <2>1, Zenon DEF Says
    <3>2. (IF interrupted THEN 130 ELSE IF ~ran THEN 2 ELSE Code(err)) # 0
      BY <3>1
    <3>3. exit' # 0
      BY <2>2, <3>2, Zenon
    <3> QED
      BY <1>1, <3>3
  <2>4. NotZero'
    <3>0. /\ export = "new" => Has(inv, "save_config") \/ Has(inv, "report")
          /\ Code(err) = 2 => wire = 0
          /\ Code(err) = 3 => unmet /\ ~gaveUp
          /\ Code(err) = 4 => gaveUp
          /\ Code(err) = 130 => interrupted
          /\ ~ran => wire = 0
      BY <2>1, Zenon DEF Says
    <3>1. export' = "new" => Has(inv, "save_config")' \/ Has(inv, "report")'
      BY <1>1, <3>0
    <3>2. /\ exit' = 2 => wire' = 0
          /\ exit' = 3 => unmet' /\ ~gaveUp'
          /\ exit' = 4 => gaveUp'
      <4>1. CASE interrupted
        <5>1. exit' = 130
          BY <2>2, <4>1
        <5> QED
          BY <5>1
      <4>2. CASE ~interrupted /\ ~ran
        <5>1. exit' = 2 /\ wire' = 0
          BY <1>1, <2>2, <3>0, <4>2
        <5> QED
          BY <5>1
      <4>3. CASE ~interrupted /\ ran
        <5>1. exit' = Code(err)
          BY <2>2, <4>3
        <5> QED
          BY <1>1, <3>0, <5>1
      <4> QED
        BY <4>1, <4>2, <4>3
    <3>3. (exit' = 130) = interrupted'
      <4>1. CASE interrupted
        BY <1>1, <2>2, <4>1
      <4>2. CASE ~interrupted
        <5>1. (exit' = 130) <=> FALSE
          BY <2>2, <3>0, <4>2
        <5>2. interrupted = FALSE
          BY <4>2 DEF BInv, TypeOK
        <5> QED
          BY <1>1, <5>1, <5>2, Zenon
      <4> QED
        BY <4>1, <4>2
    <3> QED
      BY <3>1, <3>2, <3>3 DEF NotZero
  <2>5. AssertionsFailed /\ ~gaveUp /\ ~interrupted => exit' = 3
    <3>1. AssertionsFailed /\ ~gaveUp => err = TestFailed /\ ran
      BY <1>1 DEF EndsWith
    <3>2. Code(TestFailed) = 3
      BY TestFailedIs
    <3> QED
      BY <2>2, <3>1, <3>2
  <2>6. kind' # "" /\ err.cause # "token" => exit' \in ExitOf(kind')
    <3> SUFFICES ASSUME kind' # "", err.cause # "token"
                 PROVE  exit' \in ExitOf(kind')
      OBVIOUS
    <3>1. kind' = EnvelopeKind
      BY <1>1
    <3>2. CASE interrupted
      BY <2>2, <3>1, <3>2 DEF EnvelopeKind, ExitOf
    <3>3. CASE ~interrupted /\ ~ran
      <4>1. kind' = "usage" /\ exit' = 2
        BY <2>1, <2>2, <2>3, <3>1, <3>3 DEF EnvelopeKind, Says, Kindless
      <4> QED
        BY <4>1 DEF ExitOf
    <3>4. CASE ~interrupted /\ ran
      <4>1. exit' = Code(err)
        BY <2>2, <3>4
      <4>2. (Code(err) = 2 /\ err.kind = "") \/ Code(err) \in ExitOf(Classify(err))
        BY <2>1, Zenon DEF Says, Consistent
      <4>3. CASE Code(err) = 2 /\ err.kind = ""
        <5>1. kind' = "usage" /\ exit' = 2
          BY <2>3, <3>1, <3>4, <4>1, <4>3 DEF EnvelopeKind
        <5> QED
          BY <5>1 DEF ExitOf
      <4>4. CASE ~(Code(err) = 2 /\ err.kind = "")
        <5>1. kind' = Classify(err)
          BY <2>3, <3>1, <3>4, <4>1, <4>4 DEF EnvelopeKind
        <5> QED
          BY <4>1, <4>2, <4>4, <5>1
      <4> QED
        BY <4>3, <4>4
    <3> QED
      BY <3>2, <3>3, <3>4
  <2>7. ExitOf(kind)' = ExitOf(kind')
    BY <1>1 DEF ExitOf
  <2>8. ExitTellsTheTruth'
    BY <1>1, <2>3, <2>4, <2>5, <2>6, <2>7 DEF ExitTellsTheTruth, AssertionsFailed
  <2> QED
    BY <1>2, <1>3, <2>8 DEF VInv
<1> QED
  BY <1>4, <1>5

LEMMA VStill ==
    ASSUME VInv, pc = "exiting", pc' = "exiting",
           UNCHANGED <<inv, ran, confirmed, err, wire, applied, gaveUp, unmet, printed, export>>,
           reader' \in {reader, "closed"}, interrupted => interrupted', disk' = disk \/ disk = "absent"
    PROVE  VInv'
<1>1. EndsWith(err)
  BY DEF VInv
<1>2. Zero => Zero'
  <2>1. reader' = "open" => reader = "open"
    OBVIOUS
  <2>2. reader = "closed" => reader' = "closed"
    OBVIOUS
  <2>3. Has(inv, "install") /\ disk = "same" => disk' = "same"
    OBVIOUS
  <2> QED
    BY <2>1, <2>2, <2>3 DEF Zero, Has
<1>3. \A e : Says(e) => Says(e)'
  <2>1. \A e : Consistent(e) => Consistent(e)'
    BY DEF Consistent, ExitOf
  <2> QED
    BY <2>1 DEF Says, Has
<1>4. EndsWith(err)'
  <2> SUFFICES ASSUME NEW e, e = err
               PROVE  EndsWith(e)'
    OBVIOUS
  <2> QED
    BY <1>1, <1>2, <1>3 DEF EndsWith, AssertionsFailed
<1>5. err' = err
  OBVIOUS
<1> QED
  BY <1>4, <1>5, OnExiting

LEMMA VAround ==
    ASSUME BInv, BInv', VInv, Interrupt \/ CloseReader \/ Appears \/ Kill \/ UNCHANGED vars
    PROVE  VInv'
<1>1. CASE Kill
  <2>1. ~Working' /\ pc' # "exiting" /\ pc' # "done"
    BY <1>1 DEF Kill, Working
  <2> QED
    BY <2>1 DEF VInv, Must, Flow, Unmet, Held, ExitTellsTheTruth
<1>2. CASE ~Alive
  <2>1. UNCHANGED vars /\ pc \in {"done", "killed"}
    BY <1>2 DEF Interrupt, CloseReader, Appears, Kill, Alive
  <2>2. ~Working' /\ pc' # "exiting"
    BY <2>1 DEF vars, Working
  <2>3. ExitTellsTheTruth'
    BY <2>1 DEF VInv, ExitTellsTheTruth, AssertionsFailed, Zero, NotZero, ExitOf, Has, vars, effects,
                outputs, files, verdict
  <2> QED
    BY <2>2, <2>3 DEF VInv, Must, Flow, Unmet, Held
<1>3. CASE Alive /\ ~Kill
  <2>1. /\ UNCHANGED <<inv, pc, at, ran, confirmed, held, err, request, effects, printed, export>>
        /\ reader' \in {reader, "closed"} /\ (interrupted => interrupted')
        /\ disk' = disk \/ (disk = "absent" /\ disk' = "other")
    BY <1>3 DEF Interrupt, CloseReader, Appears, vars, outputs, files
  <2>2. pc \in {"flags", "environment", "body", "asking", "sent", "waiting"} \/ pc = "exiting"
    BY <1>3 DEF Alive, BInv, TypeOK
  <2>3. CASE pc = "exiting"
    BY <2>1, <2>3, VStill DEF effects
  <2>4. CASE Working
    <3>1. Working'
      BY <2>1, <2>4 DEF Working
    <3>2. ran' = (pc' # "flags")
      BY <2>1, <2>4 DEF VInv, Flow
    <3> QED
      BY <2>1, <2>4, <3>1, <3>2, VStay DEF effects
  <2> QED
    BY <2>2, <2>3, <2>4 DEF Working
<1> QED
  BY <1>1, <1>2, <1>3

LEMMA VNext ==
    ASSUME BInv, BInv', VInv, [Next]_vars, BrokenConnections = FALSE
    PROVE  VInv'
<1>1. CASE ParseFlags \/ Environment \/ Preview \/ Confirm \/ Answer
  BY <1>1, VParseFlags, VEnvironment, VPreview, VConfirm, VAnswer
<1>2. CASE Validate \/ ReadInput \/ Client \/ ClientWithStore \/ LookupProfile \/ Refuse
           \/ LoadMapping \/ Save
  BY <1>2, VPlainly
<1>3. CASE Send \/ SendCanceled \/ Exchange \/ Backoff
  BY <1>3, VSend, VSendCanceled, VExchange, VBackoff
<1>4. CASE NothingToAsk \/ AskDocs \/ Run \/ Show \/ PrintResult \/ Report \/ Gate \/ CommitRewrite
  BY <1>4, VAsking, VRun, VShow, VPrint, VReport, VGate, VCommit
<1>5. CASE PlanChanges \/ SaveConfig \/ Tour \/ Look \/ InstallFile
  BY <1>5, VPlan, VSaveConfig, VTour, VLook, VInstall
<1>6. CASE Sink \/ Emit \/ Finish \/ Exit
  BY <1>6, VSink, VOutput, VExit
<1>7. CASE Interrupt \/ CloseReader \/ Appears \/ Kill \/ UNCHANGED vars
  BY <1>7, VAround
<1> QED
  BY <1>1, <1>2, <1>3, <1>4, <1>5, <1>6, <1>7 DEF Next, Ended

(* However an invocation ends, its exit code is true, on a machine where a  *)
(* connection that breaks under a request does not report EPIPE: on one     *)
(* where it does the failed request would pass for a reader that has left,  *)
(* and the statement is false (README section 6).                           *)
THEOREM ExitsTellTheTruth ==
    ASSUME BrokenConnections = FALSE
    PROVE  Spec => []ExitTellsTheTruth
<1>1. Init => BInv /\ VInv
  BY InitHolds, VInit
<1>2. BInv /\ VInv /\ [Next]_vars => BInv' /\ VInv'
  BY NextKeeps, VNext
<1>3. BInv /\ VInv => ExitTellsTheTruth
  BY DEF VInv
<1> QED
  BY <1>1, <1>2, <1>3, PTL DEF Spec

-------------------------------------------------------------------------------
(* The tour. What the wizard has typed, and what is on its way to it.       *)
Servers == [url : Urls \cup {Unset}, auth : Accounts \cup {NoAuth}]
StoreLists == [of : Servers, rows : SUBSET StoreIDs]
ModelLists == [of : StoreIDs, rows : SUBSET ModelIDs]
Screens == {"welcome", "connection", "auth", "details", "probe", "store", "model", "review"}
Tours ==
    [step : Screens,
     entered : BOOLEAN, url : Urls \cup {Unset}, auth : Accounts \cup {NoAuth},
     probed : BOOLEAN, connErr : BOOLEAN, stores : SUBSET StoreIDs,
     storePick : StoreLists \cup {Unset}, storeManual : BOOLEAN, storeID : StoreIDs \cup {Unset},
     typedStore : BOOLEAN, loading : BOOLEAN, modelPick : ModelLists \cup {Unset},
     modelManual : BOOLEAN, modelID : ModelIDs \cup {Unset}, typedModel : BOOLEAN,
     end : {Unset, "done", "cancelled"}]

(* The test is over; its result, when it has one, is the account's.         *)
Tested(t) == t.step \in {"store", "model", "review"} \/ (t.step = "probe" /\ t.probed)
StoresAre(t) ==
    /\ Tested(t) /\ ~t.connErr => t.stores = Sees[t.auth]
    /\ t.storePick # Unset => t.storePick.rows = Sees[t.storePick.of.auth]
    /\ t.step = "store" /\ ~t.storeManual => ListIsCurrent(t)
ModelsAre(t) ==
    /\ t.modelPick # Unset => t.modelPick.rows \subseteq ModelsOf[t.modelPick.of]
    /\ t.step = "model" =>
          /\ t.storeID # Unset
          /\ IF t.connErr THEN t.modelManual
             ELSE ~t.loading => t.modelPick # Unset /\ t.modelPick.of = t.storeID
Chosen(t) ==
    /\ t.step \in {"model", "review"} /\ t.storeID # Unset =>
          t.typedStore \/ t.storeID \in Sees[t.auth]
    /\ t.step = "review" /\ t.modelID # Unset =>
          t.storeID # Unset /\ (t.typedModel \/ t.modelID \in ModelsOf[t.storeID])
ProbesAre ==
    /\ \A p \in probes :
          /\ p.kind = "stores" => tour.step = "probe" /\ ~tour.probed /\ p.about = Connection(tour)
          /\ p.kind = "models" => p.about \in StoreIDs
    /\ \A p, q \in probes : p.kind = "stores" /\ q.kind = "stores" => p = q
TourInv == tour \in Tours /\ StoresAre(tour) /\ ModelsAre(tour) /\ Chosen(tour) /\ ProbesAre

(* Nothing of the test is on its way.                                       *)
Quiet == \A p \in probes : p.kind # "stores"
Touring == TourInv /\ tour.end = Unset

LEMMA TestIsOver ==
    ASSUME Touring, tour.step # "probe" \/ tour.probed
    PROVE  Quiet
BY DEF Touring, TourInv, ProbesAre, Quiet

LEMMA Fields ==
    ASSUME NEW t \in Tours
    PROVE  /\ t.auth \in Accounts \cup {NoAuth} /\ t.url \in Urls \cup {Unset} /\ t.stores \in SUBSET StoreIDs
           /\ Connection(t) \in Servers /\ Sees[t.auth] \in SUBSET StoreIDs
           /\ t.storeID \in StoreIDs \cup {Unset} /\ t.modelID \in ModelIDs \cup {Unset}
BY TourAssumption DEF Tours, Connection, Servers

(* One field at a time.                                                     *)
LEMMA Edits ==
    ASSUME NEW t \in Tours
    PROVE  /\ \A s \in Screens : [t EXCEPT !.step = s] \in Tours
           /\ \A b \in BOOLEAN :
                 /\ [t EXCEPT !.probed = b] \in Tours /\ [t EXCEPT !.connErr = b] \in Tours
                 /\ [t EXCEPT !.storeManual = b] \in Tours /\ [t EXCEPT !.modelManual = b] \in Tours
                 /\ [t EXCEPT !.typedStore = b] \in Tours /\ [t EXCEPT !.typedModel = b] \in Tours
                 /\ [t EXCEPT !.loading = b] \in Tours /\ [t EXCEPT !.entered = b] \in Tours
           /\ \A u \in Urls \cup {Unset} : [t EXCEPT !.url = u] \in Tours
           /\ \A ss \in SUBSET StoreIDs : [t EXCEPT !.stores = ss] \in Tours
           /\ \A a \in Accounts \cup {NoAuth} : [t EXCEPT !.auth = a] \in Tours
           /\ \A i \in StoreIDs \cup {Unset} : [t EXCEPT !.storeID = i] \in Tours
           /\ \A i \in ModelIDs \cup {Unset} : [t EXCEPT !.modelID = i] \in Tours
           /\ \A l \in ModelLists : [t EXCEPT !.modelPick = l] \in Tours
           /\ \A l \in StoreLists : [t EXCEPT !.storePick = l] \in Tours
<1>1. \A s \in Screens : [t EXCEPT !.step = s] \in Tours
  BY DEF Tours, Screens
<1>2. \A b \in BOOLEAN : [t EXCEPT !.probed = b] \in Tours
  BY DEF Tours, Screens
<1>3. \A b \in BOOLEAN : [t EXCEPT !.connErr = b] \in Tours
  BY DEF Tours, Screens
<1>4. \A b \in BOOLEAN : [t EXCEPT !.storeManual = b] \in Tours
  BY DEF Tours, Screens
<1>5. \A b \in BOOLEAN : [t EXCEPT !.modelManual = b] \in Tours
  BY DEF Tours, Screens
<1>6. \A b \in BOOLEAN : [t EXCEPT !.typedStore = b] \in Tours
  BY DEF Tours, Screens
<1>7. \A b \in BOOLEAN : [t EXCEPT !.typedModel = b] \in Tours
  BY DEF Tours, Screens
<1>8. \A b \in BOOLEAN : [t EXCEPT !.loading = b] \in Tours
  BY DEF Tours, Screens
<1>9. \A ss \in SUBSET StoreIDs : [t EXCEPT !.stores = ss] \in Tours
  BY DEF Tours, Screens
<1>10. \A a \in Accounts \cup {NoAuth} : [t EXCEPT !.auth = a] \in Tours
  BY DEF Tours, Screens
<1>11. \A i \in StoreIDs \cup {Unset} : [t EXCEPT !.storeID = i] \in Tours
  BY DEF Tours, Screens
<1>12. \A i \in ModelIDs \cup {Unset} : [t EXCEPT !.modelID = i] \in Tours
  BY DEF Tours, Screens
<1>13. \A l \in ModelLists : [t EXCEPT !.modelPick = l] \in Tours
  BY DEF Tours, Screens
<1>14. \A b \in BOOLEAN : [t EXCEPT !.entered = b] \in Tours
  BY DEF Tours, Screens
<1>15. \A u \in Urls \cup {Unset} : [t EXCEPT !.url = u] \in Tours
  BY DEF Tours, Screens
<1>16. \A l \in StoreLists : [t EXCEPT !.storePick = l] \in Tours
  BY DEF Tours, Screens
<1> QED
  BY <1>1, <1>2, <1>3, <1>4, <1>5, <1>6, <1>7, <1>8, <1>9, <1>10, <1>11, <1>12, <1>13, <1>14, <1>15,
     <1>16

(* The screens before the test.                                             *)
LEMMA BeforeTheTest ==
    ASSUME Touring, Quiet, tour' \in Tours, NoProbe, tour'.end = Unset,
           tour'.step \in {"welcome", "connection", "auth", "details"},
           tour'.storePick = tour.storePick, tour'.modelPick = tour.modelPick
    PROVE  TourInv'
<1>1. StoresAre(tour)'
  BY DEF Touring, TourInv, StoresAre, Tested
<1>2. ModelsAre(tour)' /\ Chosen(tour)'
  BY DEF Touring, TourInv, ModelsAre, Chosen
<1>3. ProbesAre'
  BY DEF Touring, TourInv, ProbesAre, Quiet, NoProbe
<1> QED
  BY <1>1, <1>2, <1>3 DEF TourInv

LEMMA TestEntered ==
    ASSUME Touring, Quiet, NEW t \in Tours, t.end = Unset, t.storePick = tour.storePick,
           t.modelPick = tour.modelPick, EnterTest(t)
    PROVE  TourInv'
<1>1. tour' \in Tours
  <2> DEFINE a == [t EXCEPT !.step = "probe"]
             b == [a EXCEPT !.probed = FALSE]
             c == [b EXCEPT !.connErr = FALSE]
             d == [c EXCEPT !.stores = {}]
  <2>1. a \in Tours
    BY Edits DEF Screens
  <2>2. b \in Tours
    BY <2>1, Edits
  <2>3. c \in Tours
    BY <2>2, Edits
  <2>4. d \in Tours
    BY <2>3, Edits
  <2>5. tour' = d
    BY DEF EnterTest, Tours
  <2> QED
    BY <2>4, <2>5
<1>2. /\ tour'.step = "probe" /\ ~tour'.probed /\ tour'.end = Unset
      /\ tour'.storePick = tour.storePick /\ tour'.modelPick = tour.modelPick
      /\ Connection(tour') = Connection(t)
  BY DEF EnterTest, Tours, Connection
<1>3. StoresAre(tour)'
  BY <1>2 DEF Touring, TourInv, StoresAre, Tested
<1>4. ModelsAre(tour)' /\ Chosen(tour)'
  BY <1>2 DEF Touring, TourInv, ModelsAre, Chosen
<1>5. ProbesAre'
  <2> DEFINE n == Probe("stores", Connection(t))
  <2>1. probes' = probes \cup {n} /\ n.kind = "stores" /\ n.about = Connection(t)
    BY DEF EnterTest, Launch, Probe
  <2>2. \A p \in probes : p.kind # "stores" /\ (p.kind = "models" => p.about \in StoreIDs)
    BY DEF Touring, TourInv, ProbesAre, Quiet
  <2> HIDE DEF n
  <2> QED
    BY <1>2, <2>1, <2>2 DEF ProbesAre
<1> QED
  BY <1>1, <1>3, <1>4, <1>5 DEF TourInv

LEMMA StoreEntered ==
    ASSUME Touring, Tested(tour), EnterStore(tour)
    PROVE  TourInv'
<1>1. tour \in Tours /\ (~tour.connErr => tour.stores = Sees[tour.auth]) /\ probes' = probes /\ Quiet
  BY TestIsOver DEF Touring, TourInv, StoresAre, Tested, EnterStore, NoProbe
<1>2. Connection(tour) \in Servers /\ tour.stores \in SUBSET StoreIDs
  BY <1>1, Fields
<1>3. [of |-> Connection(tour), rows |-> tour.stores] \in StoreLists
  BY <1>2 DEF StoreLists
<1>4. tour' \in Tours
  <2> DEFINE a == [tour EXCEPT !.step = "store"]
             b == [a EXCEPT !.storeManual = TRUE]
             c == [a EXCEPT !.storeManual = FALSE]
             l == [of |-> Connection(tour), rows |-> tour.stores]
             d == [c EXCEPT !.storePick = l]
  <2>1. a \in Tours
    BY <1>1, Edits DEF Screens
  <2>2. b \in Tours /\ c \in Tours
    BY <2>1, Edits
  <2>3. d \in Tours
    <3> HIDE DEF l, c
    <3>1. l \in StoreLists
      BY <1>3 DEF l
    <3> QED
      BY <2>2, <3>1, Edits
  <2>4. CASE tour.connErr \/ tour.stores = {}
    <3>1. tour' = b
      BY <1>1, <2>4 DEF EnterStore, Tours
    <3> QED
      BY <2>2, <3>1
  <2>5. CASE ~(tour.connErr \/ tour.stores = {})
    <3>1. tour' = d
      BY <1>1, <2>5 DEF EnterStore, Tours
    <3> QED
      BY <2>3, <3>1
  <2> QED
    BY <2>4, <2>5
<1>5. /\ tour'.step = "store" /\ tour'.end = Unset /\ tour'.modelPick = tour.modelPick
      /\ tour'.stores = tour.stores /\ tour'.connErr = tour.connErr /\ tour'.auth = tour.auth
      /\ Connection(tour') = Connection(tour)
      /\ \/ tour'.storeManual /\ tour'.storePick = tour.storePick
         \/ /\ ~tour.connErr /\ ~tour'.storeManual
            /\ tour'.storePick = [of |-> Connection(tour), rows |-> tour.stores]
  BY <1>1 DEF EnterStore, Tours, Screens, Connection, Touring
<1>6. StoresAre(tour')
  <2>1. CASE tour'.storeManual /\ tour'.storePick = tour.storePick
    BY <1>1, <1>5, <2>1 DEF Touring, TourInv, StoresAre
  <2>2. CASE /\ ~tour.connErr /\ ~tour'.storeManual
             /\ tour'.storePick = [of |-> Connection(tour), rows |-> tour.stores]
    <3>1. tour'.storePick # Unset /\ tour'.storePick.of = Connection(tour')
          /\ tour'.storePick.rows = Sees[tour'.storePick.of.auth]
      BY <1>1, <1>3, <1>5, <2>2, TourAssumption DEF StoreLists, Servers, Connection
    <3> QED
      BY <1>1, <1>5, <3>1 DEF StoresAre, ListIsCurrent
  <2> QED
    BY <1>5, <2>1, <2>2
<1>7. ModelsAre(tour)' /\ Chosen(tour)'
  BY <1>5 DEF Touring, TourInv, ModelsAre, Chosen
<1>8. ProbesAre'
  BY <1>1 DEF Touring, TourInv, ProbesAre, Quiet
<1> QED
  BY <1>4, <1>6, <1>7, <1>8 DEF TourInv

LEMMA ModelEntered ==
    ASSUME Touring, tour.step \in {"store", "model", "review"}, NEW t \in Tours, t.end = Unset,
           t.stores = tour.stores, t.connErr = tour.connErr, t.auth = tour.auth,
           t.storePick = tour.storePick, t.modelPick = tour.modelPick, t.storeID # Unset,
           t.typedStore \/ t.storeID \in Sees[t.auth], EnterModel(t)
    PROVE  TourInv'
<1>1. tour \in Tours /\ (~tour.connErr => tour.stores = Sees[tour.auth]) /\ Quiet
  BY TestIsOver DEF Touring, TourInv, StoresAre, Tested
<1>2. tour' \in Tours
  <2> DEFINE a == [t EXCEPT !.step = "model"]
             b == [a EXCEPT !.modelManual = TRUE]
             c == [a EXCEPT !.modelManual = FALSE]
             d == [c EXCEPT !.loading = TRUE]
  <2>1. a \in Tours
    BY Edits DEF Screens
  <2>2. b \in Tours /\ c \in Tours
    BY <2>1, Edits
  <2>3. d \in Tours
    BY <2>2, Edits
  <2>4. tour' = b \/ tour' = d
    BY DEF EnterModel, Tours
  <2> QED
    BY <2>2, <2>3, <2>4
<1>3. /\ tour'.step = "model" /\ tour'.end = Unset /\ tour'.stores = tour.stores
      /\ tour'.connErr = tour.connErr /\ tour'.auth = tour.auth /\ tour'.storePick = tour.storePick
      /\ tour'.modelPick = tour.modelPick /\ tour'.storeID = t.storeID /\ tour'.typedStore = t.typedStore
      /\ IF tour.connErr THEN tour'.modelManual ELSE tour'.loading
  <2>1. CASE t.connErr
    <3>1. tour' = [t EXCEPT !.step = "model", !.modelManual = TRUE]
      BY <2>1 DEF EnterModel
    <3> QED
      BY <2>1, <3>1 DEF Tours
  <2>2. CASE ~t.connErr
    <3>1. tour' = [t EXCEPT !.step = "model", !.modelManual = FALSE, !.loading = TRUE]
      BY <2>2 DEF EnterModel
    <3> QED
      BY <2>2, <3>1 DEF Tours
  <2> QED
    BY <2>1, <2>2
<1>4. StoresAre(tour')
  BY <1>1, <1>3 DEF Touring, TourInv, StoresAre
<1>5. ModelsAre(tour') /\ Chosen(tour')
  BY <1>3 DEF Touring, TourInv, ModelsAre, Chosen
<1>6. ProbesAre'
  <2> DEFINE n == Probe("models", t.storeID)
  <2>1. (probes' = probes \/ probes' = probes \cup {n}) /\ n.kind = "models" /\ n.about = t.storeID
    BY DEF EnterModel, Launch, NoProbe, Probe
  <2>2. t.storeID \in StoreIDs
    BY Fields
  <2>3. \A p \in probes : p.kind # "stores" /\ (p.kind = "models" => p.about \in StoreIDs)
    BY <1>1 DEF Touring, TourInv, ProbesAre, Quiet
  <2> HIDE DEF n
  <2> QED
    BY <2>1, <2>2, <2>3 DEF ProbesAre
<1> QED
  BY <1>2, <1>3, <1>4, <1>5, <1>6 DEF TourInv

LEMMA ReviewEntered ==
    ASSUME Touring, Tested(tour), tour' \in Tours, tour'.step = "review", tour'.end = Unset, NoProbe,
           tour'.stores = tour.stores, tour'.connErr = tour.connErr, tour'.auth = tour.auth,
           tour'.storePick = tour.storePick, tour'.modelPick = tour.modelPick, Chosen(tour')
    PROVE  TourInv'
<1>1. Quiet
  BY TestIsOver DEF Tested, Touring
<1>2. StoresAre(tour')
  BY DEF Touring, TourInv, StoresAre
<1>3. ModelsAre(tour')
  BY DEF Touring, TourInv, ModelsAre
<1>4. ProbesAre'
  BY <1>1 DEF Touring, TourInv, ProbesAre, Quiet, NoProbe
<1> QED
  BY <1>2, <1>3, <1>4 DEF TourInv

LEMMA StoreChosen ==
    ASSUME Touring, ~Strays, tour.step = "store", NEW s \in StoreIDs \cup {Unset}, NEW typed \in BOOLEAN,
           s # Unset => typed \/ s \in Sees[tour.auth], ChosenStore(s, typed)
    PROVE  TourInv'
<1> DEFINE a == [tour EXCEPT !.storeID = s]
           t == [a EXCEPT !.typedStore = typed]
           r == [t EXCEPT !.step = "review"]
<1>1. tour \in Tours
  BY DEF Touring, TourInv
<1>2. t \in Tours
  BY <1>1, Edits
<1>3. [tour EXCEPT !.storeID = s, !.typedStore = typed] = t
  BY <1>1 DEF Tours
<1>4. /\ t.end = Unset /\ t.stores = tour.stores /\ t.connErr = tour.connErr /\ t.auth = tour.auth
      /\ t.storePick = tour.storePick /\ t.modelPick = tour.modelPick /\ t.storeID = s
      /\ t.typedStore = typed /\ t.modelID = tour.modelID
  BY <1>1 DEF Tours, Touring
<1>5. CASE s # Unset
  <2>1. EnterModel(t)
    BY <1>3, <1>5, Zenon DEF ChosenStore
  <2> HIDE DEF t
  <2> QED
    BY <1>2, <1>4, <1>5, <2>1, ModelEntered
<1>6. CASE s = Unset
  <2>1. tour' = r /\ NoProbe
    BY <1>3, <1>6 DEF ChosenStore, Touring
  <2>2. r \in Tours
    BY <1>2, Edits DEF Screens
  <2>3. /\ r.end = t.end /\ r.stores = t.stores /\ r.connErr = t.connErr /\ r.auth = t.auth
        /\ r.storePick = t.storePick /\ r.modelPick = t.modelPick /\ r.step = "review"
        /\ r.storeID = t.storeID /\ r.modelID = t.modelID
    BY <1>2 DEF Tours
  <2>4. Chosen(r)
    <3>1. tour.modelID = Unset
      BY <2>1, <2>3 DEF Strays
    <3> QED
      BY <1>4, <1>6, <2>3, <3>1 DEF Chosen
  <2>5. Tested(tour)
    BY DEF Tested
  <2> HIDE DEF r, t
  <2> QED
    BY <1>4, <2>1, <2>2, <2>3, <2>4, <2>5, ReviewEntered
<1> QED
  BY <1>5, <1>6

(* The stores offered are of the account, however the list came about.      *)
LEMMA ListIsTheAccounts ==
    ASSUME Touring, tour.step = "store", ~tour.storeManual
    PROVE  tour.storePick # Unset /\ tour.storePick.rows = Sees[tour.auth]
BY DEF Touring, TourInv, StoresAre, ListIsCurrent, Connection

LEMMA StoreSteps ==
    ASSUME Touring, ~Strays, TypeStore \/ PickStore
    PROVE  TourInv'
<1>0. tour \in Tours /\ tour.step = "store" /\ Sees[tour.auth] \in SUBSET StoreIDs
  BY Fields DEF Touring, TourInv, TypeStore, PickStore, At
<1>1. CASE TypeStore
  <2>1. PICK s \in StoreIDs \cup {Unset} : ChosenStore(s, TRUE)
    BY <1>1 DEF TypeStore
  <2> QED
    BY <1>0, <2>1, StoreChosen
<1>2. CASE \E s \in tour.storePick.rows \cup {Unset} : ChosenStore(s, FALSE) /\ PickStore
  <2>1. PICK s \in tour.storePick.rows \cup {Unset} : ChosenStore(s, FALSE) /\ PickStore
    BY <1>2
  <2>2. tour.storePick.rows = Sees[tour.auth]
    BY <1>0, <2>1, ListIsTheAccounts DEF PickStore
  <2>3. s \in StoreIDs \cup {Unset} /\ (s # Unset => FALSE \/ s \in Sees[tour.auth])
    BY <1>0, <2>1, <2>2
  <2>4. FALSE \in BOOLEAN
    OBVIOUS
  <2> QED
    BY <1>0, <2>1, <2>3, <2>4, StoreChosen
<1>3. CASE tour' = [tour EXCEPT !.storeManual = TRUE] /\ NoProbe
  <2>1. tour' \in Tours
    BY <1>0, <1>3, Edits
  <2>2. /\ tour'.step = "store" /\ tour'.storeManual /\ tour'.end = tour.end /\ tour'.stores = tour.stores
        /\ tour'.connErr = tour.connErr /\ tour'.auth = tour.auth
        /\ tour'.storePick = tour.storePick /\ tour'.modelPick = tour.modelPick
    BY <1>0, <1>3 DEF Tours
  <2>3. StoresAre(tour')
    BY <1>0, <2>2 DEF Touring, TourInv, StoresAre, Tested
  <2>4. ModelsAre(tour') /\ Chosen(tour')
    BY <1>0, <2>2 DEF Touring, TourInv, ModelsAre, Chosen
  <2>5. Quiet
    BY <1>0, TestIsOver
  <2>6. ProbesAre'
    BY <1>3, <2>5 DEF Touring, TourInv, ProbesAre, Quiet, NoProbe
  <2> QED
    BY <2>1, <2>3, <2>4, <2>6 DEF TourInv
<1> QED
  BY <1>1, <1>2, <1>3 DEF PickStore

LEMMA ModelChosen ==
    ASSUME Touring, tour.step = "model", NEW i \in ModelIDs \cup {Unset}, NEW typed \in BOOLEAN,
           i # Unset => typed \/ i \in ModelsOf[tour.storeID], ChosenModel(i, typed)
    PROVE  TourInv'
<1> DEFINE a == [tour EXCEPT !.step = "review"]
           b == [a EXCEPT !.modelID = i]
           r == [b EXCEPT !.typedModel = typed]
<1>1. tour \in Tours
  BY DEF Touring, TourInv
<1>2. a \in Tours
  BY <1>1, Edits DEF Screens
<1>3. b \in Tours
  BY <1>2, Edits
<1>4. r \in Tours
  BY <1>3, Edits
<1>5. tour' = r /\ NoProbe
  BY <1>1 DEF ChosenModel, Tours
<1>6. /\ r.end = tour.end /\ r.stores = tour.stores /\ r.connErr = tour.connErr /\ r.auth = tour.auth
      /\ r.storePick = tour.storePick /\ r.modelPick = tour.modelPick /\ r.step = "review"
      /\ r.storeID = tour.storeID /\ r.typedStore = tour.typedStore /\ r.modelID = i
      /\ r.typedModel = typed
  BY <1>1 DEF Tours
<1> HIDE DEF r
<1>7. tour.storeID # Unset /\ (tour.typedStore \/ tour.storeID \in Sees[tour.auth])
  BY DEF Touring, TourInv, ModelsAre, Chosen
<1>8. Chosen(r)
  BY <1>6, <1>7 DEF Chosen
<1>9. Tested(tour) /\ tour.end = Unset
  BY DEF Tested, Touring
<1> QED
  BY <1>4, <1>5, <1>6, <1>8, <1>9, ReviewEntered

LEMMA ModelToggled ==
    ASSUME Touring, tour.step = "model", NEW b \in BOOLEAN, b \/ ~tour.connErr,
           tour' = [tour EXCEPT !.modelManual = b], NoProbe
    PROVE  TourInv'
<1>0. tour \in Tours
  BY DEF Touring, TourInv
<1>1. tour' \in Tours
  BY <1>0, Edits
<1>2. /\ tour'.step = "model" /\ tour'.modelManual = b /\ tour'.end = tour.end /\ tour'.stores = tour.stores
      /\ tour'.connErr = tour.connErr /\ tour'.auth = tour.auth /\ tour'.loading = tour.loading
      /\ tour'.storePick = tour.storePick /\ tour'.modelPick = tour.modelPick
      /\ tour'.storeID = tour.storeID /\ tour'.typedStore = tour.typedStore
  BY <1>0 DEF Tours
<1>3. StoresAre(tour')
  BY <1>2 DEF Touring, TourInv, StoresAre, Tested
<1>4. ModelsAre(tour')
  BY <1>2 DEF Touring, TourInv, ModelsAre
<1>5. Chosen(tour')
  BY <1>2 DEF Touring, TourInv, Chosen
<1>6. Quiet
  BY TestIsOver
<1>7. ProbesAre'
  BY <1>6 DEF Touring, TourInv, ProbesAre, Quiet, NoProbe
<1> QED
  BY <1>1, <1>3, <1>4, <1>5, <1>7 DEF TourInv

LEMMA ModelSteps ==
    ASSUME Touring, TypeModel \/ PickModel
    PROVE  TourInv'
<1>0. tour \in Tours /\ tour.step = "model"
  BY DEF Touring, TourInv, TypeModel, PickModel, At
<1>1. CASE TypeModel
  <2>1. PICK i \in ModelIDs \cup {Unset} : ChosenModel(i, TRUE)
    BY <1>1 DEF TypeModel
  <2> QED
    BY <1>0, <2>1, ModelChosen
<1>2. CASE \E i \in tour.modelPick.rows \cup {Unset} : ChosenModel(i, FALSE) /\ PickModel
  <2>1. PICK i \in tour.modelPick.rows \cup {Unset} : ChosenModel(i, FALSE) /\ PickModel
    BY <1>2
  <2>2. tour.modelPick # Unset /\ ~tour.loading /\ ~tour.modelManual
    BY <2>1 DEF PickModel
  <2>3. tour.modelPick.of = tour.storeID /\ tour.modelPick.rows \subseteq ModelsOf[tour.modelPick.of]
    BY <1>0, <2>2 DEF Touring, TourInv, ModelsAre
  <2>4. tour.modelPick.rows \subseteq ModelIDs
    BY <1>0, <2>2 DEF Tours, ModelLists
  <2>5. i \in ModelIDs \cup {Unset} /\ (i # Unset => FALSE \/ i \in ModelsOf[tour.storeID])
    BY <2>1, <2>3, <2>4
  <2>6. FALSE \in BOOLEAN
    OBVIOUS
  <2> QED
    BY <1>0, <2>1, <2>5, <2>6, ModelChosen
<1>3. CASE tour' = [tour EXCEPT !.modelManual = TRUE] /\ NoProbe
  BY <1>0, <1>3, ModelToggled
<1> QED
  BY <1>1, <1>2, <1>3 DEF PickModel

LEMMA TourEnds ==
    ASSUME Touring, NEW how \in {"done", "cancelled"}, Ends(how)
    PROVE  TourInv'
<1>1. tour \in Tours
  BY DEF Touring, TourInv
<1>2. tour' \in Tours
  BY <1>1 DEF Ends, Tours, Screens
<1>3. /\ tour'.step = tour.step /\ tour'.stores = tour.stores /\ tour'.probed = tour.probed
      /\ tour'.connErr = tour.connErr /\ tour'.auth = tour.auth /\ tour'.storePick = tour.storePick
      /\ tour'.storeManual = tour.storeManual /\ tour'.modelPick = tour.modelPick
      /\ tour'.modelManual = tour.modelManual /\ tour'.loading = tour.loading
      /\ tour'.storeID = tour.storeID /\ tour'.modelID = tour.modelID
      /\ tour'.typedStore = tour.typedStore /\ tour'.typedModel = tour.typedModel
      /\ Connection(tour') = Connection(tour)
  BY <1>1 DEF Ends, Tours, Connection
<1>4. StoresAre(tour')
  BY <1>3 DEF Touring, TourInv, StoresAre, Tested, ListIsCurrent
<1>5. ModelsAre(tour')
  BY <1>3 DEF Touring, TourInv, ModelsAre
<1>6. Chosen(tour')
  BY <1>3 DEF Touring, TourInv, Chosen
<1>7. ProbesAre'
  BY DEF Ends, ProbesAre
<1> QED
  BY <1>2, <1>4, <1>5, <1>6, <1>7 DEF TourInv

(* A screen before the test, forward or back.                               *)
LEMMA Turns ==
    ASSUME Touring, Quiet, NEW s \in {"welcome", "connection", "auth", "details"}, Turn(s)
    PROVE  TourInv'
<1>1. tour \in Tours
  BY DEF Touring, TourInv
<1>2. tour' \in Tours
  BY <1>1, Edits DEF Turn, Screens
<1>3. tour'.step = s /\ tour'.end = Unset /\ tour'.storePick = tour.storePick
      /\ tour'.modelPick = tour.modelPick /\ NoProbe
  BY <1>1 DEF Turn, Tours, Touring
<1> QED
  BY <1>2, <1>3, BeforeTheTest

LEMMA FirstSteps ==
    ASSUME Touring, Begin \/ EnterUrl \/ ChooseMethod \/ EnterDetails
    PROVE  TourInv'
<1>0. tour \in Tours /\ tour.end = Unset
  BY DEF Touring, TourInv
<1>1. Quiet
  BY TestIsOver DEF Begin, EnterUrl, ChooseMethod, EnterDetails, At
<1>2. CASE Begin
  BY <1>1, <1>2, Turns DEF Begin
<1>3. CASE EnterUrl
  <2>1. PICK u \in Urls \cup {Unset} :
             tour' = [tour EXCEPT !.step = "auth", !.url = u, !.entered = TRUE]
    BY <1>0, <1>3, Fields DEF EnterUrl
  <2>2. tour' \in Tours
    <3> DEFINE a == [tour EXCEPT !.step = "auth"]
               b == [a EXCEPT !.url = u]
               c == [b EXCEPT !.entered = TRUE]
    <3>1. a \in Tours
      BY <1>0, Edits DEF Screens
    <3>2. b \in Tours
      BY <3>1, Edits
    <3>3. c \in Tours
      BY <3>2, Edits
    <3>4. tour' = c
      BY <1>0, <2>1 DEF Tours
    <3> QED
      BY <3>3, <3>4
  <2>3. tour'.step = "auth" /\ tour'.end = Unset /\ tour'.storePick = tour.storePick
        /\ tour'.modelPick = tour.modelPick /\ NoProbe
    BY <1>0, <1>3, <2>1 DEF EnterUrl, Tours
  <2> QED
    BY <1>1, <2>2, <2>3, BeforeTheTest
<1>4. \A a \in Accounts \cup {NoAuth} :
          LET t == [tour EXCEPT !.auth = a]
          IN  t \in Tours /\ t.end = Unset /\ t.storePick = tour.storePick /\ t.modelPick = tour.modelPick
  <2> SUFFICES ASSUME NEW a \in Accounts \cup {NoAuth}
               PROVE  LET t == [tour EXCEPT !.auth = a]
                      IN  t \in Tours /\ t.end = Unset /\ t.storePick = tour.storePick
                          /\ t.modelPick = tour.modelPick
    OBVIOUS
  <2>1. [tour EXCEPT !.auth = a] \in Tours
    BY <1>0, Edits
  <2>2. /\ [tour EXCEPT !.auth = a].end = Unset
        /\ [tour EXCEPT !.auth = a].storePick = tour.storePick
        /\ [tour EXCEPT !.auth = a].modelPick = tour.modelPick
    BY <1>0 DEF Tours
  <2> QED
    BY <2>1, <2>2
<1>5. \A a \in Accounts \cup {NoAuth} : EnterTest([tour EXCEPT !.auth = a]) => TourInv'
  BY <1>1, <1>4, TestEntered
<1>6. CASE ChooseMethod
  <2>1. CASE Turn("details")
    BY <1>1, <2>1, Turns
  <2> QED
    BY <1>5, <1>6, <2>1 DEF ChooseMethod
<1>7. CASE EnterDetails
  BY <1>5, <1>7 DEF EnterDetails
<1> QED
  BY <1>2, <1>3, <1>6, <1>7

LEMMA TurnsBack ==
    ASSUME Touring, ~Strays, Back
    PROVE  TourInv'
<1>0. tour \in Tours /\ tour.end = Unset
  BY DEF Touring, TourInv
<1>1. CASE At("welcome") /\ Ends("cancelled")
  BY <1>0, <1>1, TourEnds
<1>2. CASE At("connection") /\ Turn("welcome")
  <2>1. Quiet
    BY <1>2, TestIsOver DEF At
  <2> QED
    BY <1>2, <2>1, Turns
<1>3. CASE At("auth") /\ Turn("connection")
  <2>1. Quiet
    BY <1>3, TestIsOver DEF At
  <2> QED
    BY <1>3, <2>1, Turns
<1>4. CASE At("details") /\ Turn("auth")
  <2>1. Quiet
    BY <1>4, TestIsOver DEF At
  <2> QED
    BY <1>4, <2>1, Turns
<1>5. CASE At("probe") /\ Turn(IF tour.auth = NoAuth THEN "auth" ELSE "details")
  <2>1. tour.step = "probe" /\ tour'.step # "probe"
    BY <1>0, <1>5 DEF At, Turn, Tours
  <2>2. Quiet
    BY <2>1, TestIsOver DEF Strays
  <2> QED
    BY <1>5, <2>2, Turns
<1>6. CASE /\ At("store") /\ tour.storeManual
           /\ ToList(tour.storePick # Unset, [tour EXCEPT !.storeManual = FALSE])
  <2>0. ListIsCurrent(tour) /\ tour' = [tour EXCEPT !.storeManual = FALSE] /\ NoProbe
    <3>1. CASE tour.storePick # Unset
      <4>1. tour' = [tour EXCEPT !.storeManual = FALSE] /\ NoProbe
        BY <1>6, <3>1 DEF ToList
      <4>2. ~tour'.storeManual
        BY <1>0, <4>1 DEF Tours
      <4> QED
        BY <1>6, <4>1, <4>2 DEF At, Strays
    <3>2. CASE tour.storePick = Unset
      <4>1. tour'.end = "failed"
        BY <1>0, <1>6, <3>2 DEF ToList, Ends, Tours
      <4> QED
        BY <1>6, <3>2, <4>1 DEF At, Strays, ListIsCurrent
    <3> QED
      BY <3>1, <3>2
  <2>1. tour' \in Tours
    BY <1>0, <2>0, Edits
  <2>2. /\ tour.step = "store" /\ tour'.step = "store" /\ tour'.end = tour.end /\ tour'.stores = tour.stores
        /\ tour'.connErr = tour.connErr /\ tour'.auth = tour.auth
        /\ tour'.storePick = tour.storePick /\ tour'.modelPick = tour.modelPick
        /\ Connection(tour') = Connection(tour)
    BY <1>0, <1>6, <2>0 DEF Tours, At, Connection
  <2>3. StoresAre(tour')
    BY <2>0, <2>2 DEF Touring, TourInv, StoresAre, Tested, ListIsCurrent
  <2>4. ModelsAre(tour') /\ Chosen(tour')
    BY <2>2 DEF Touring, TourInv, ModelsAre, Chosen
  <2>5. Quiet
    BY <2>2, TestIsOver
  <2>6. ProbesAre'
    BY <2>0, <2>5 DEF Touring, TourInv, ProbesAre, Quiet, NoProbe
  <2> QED
    BY <2>1, <2>3, <2>4, <2>6 DEF TourInv
<1>7. CASE At("store") /\ EnterTest(tour)
  <2>1. Quiet
    BY <1>7, TestIsOver DEF At
  <2> QED
    BY <1>0, <1>7, <2>1, TestEntered
<1>8. CASE /\ At("model") /\ tour.modelManual /\ ~tour.connErr
           /\ ToList(tour.loading \/ tour.modelPick # Unset, [tour EXCEPT !.modelManual = FALSE])
  <2>1. tour.step = "model" /\ (tour.loading \/ tour.modelPick # Unset)
    BY <1>8 DEF At, Touring, TourInv, ModelsAre
  <2>2. tour' = [tour EXCEPT !.modelManual = FALSE] /\ NoProbe
    BY <1>8, <2>1 DEF ToList
  <2> QED
    BY <1>8, <2>1, <2>2, ModelToggled
<1>9. CASE (At("model") \/ At("review")) /\ EnterStore(tour)
  BY <1>9, StoreEntered DEF At, Tested
<1>10. CASE At("review") /\ tour.storeID # Unset /\ EnterModel(tour)
  <2>1. tour.step = "review" /\ (tour.typedStore \/ tour.storeID \in Sees[tour.auth])
    BY <1>10 DEF At, Touring, TourInv, Chosen
  <2> QED
    BY <1>0, <1>10, <2>1, ModelEntered
<1> QED
  BY <1>0, <1>1, <1>2, <1>3, <1>4, <1>5, <1>6, <1>7, <1>8, <1>9, <1>10 DEF Back

(* An answer of the test finds the connection on screen: nothing else could *)
(* have been opened while it was on its way.                                *)
LEMMA TestAnswered ==
    ASSUME Touring, NEW p \in probes, StoresArrive(p)
    PROVE  TourInv'
<1>0. tour \in Tours
  BY DEF Touring, TourInv
<1>1. p.kind = "stores" /\ probes' = probes \ {p} /\ tour.step = "probe" /\ p.about = Connection(tour)
  BY DEF StoresArrive, Arrives, Touring, TourInv, ProbesAre
<1>2. p.about.auth = tour.auth /\ Sees[tour.auth] \in SUBSET StoreIDs
  BY <1>0, <1>1, Fields DEF Connection
<1>3. PICK failed \in BOOLEAN, listed \in SUBSET Sees[tour.auth] :
          /\ failed \/ listed = Sees[tour.auth]
          /\ tour' = [tour EXCEPT !.probed = TRUE, !.connErr = failed, !.stores = listed]
  BY <1>2 DEF StoresArrive
<1>4. tour' \in Tours
  <2> DEFINE a == [tour EXCEPT !.probed = TRUE]
             b == [a EXCEPT !.connErr = failed]
             c == [b EXCEPT !.stores = listed]
  <2>1. listed \in SUBSET StoreIDs
    BY <1>2, <1>3
  <2>2. a \in Tours
    BY <1>0, Edits
  <2>3. b \in Tours
    BY <2>2, Edits
  <2>4. c \in Tours
    <3> HIDE DEF b
    <3> QED
      BY <2>1, <2>3, Edits
  <2>5. tour' = c
    BY <1>0, <1>3 DEF Tours
  <2> QED
    BY <2>4, <2>5
<1>5. /\ tour'.step = "probe" /\ (~tour'.connErr => tour'.stores = Sees[tour'.auth])
      /\ tour'.storePick = tour.storePick /\ tour'.modelPick = tour.modelPick /\ tour'.end = Unset
  BY <1>0, <1>1, <1>3 DEF Tours, Touring
<1>6. StoresAre(tour')
  BY <1>5 DEF Touring, TourInv, StoresAre
<1>7. ModelsAre(tour') /\ Chosen(tour')
  BY <1>5 DEF Touring, TourInv, ModelsAre, Chosen
<1>8. ProbesAre'
  BY <1>1 DEF Touring, TourInv, ProbesAre
<1> QED
  BY <1>4, <1>6, <1>7, <1>8 DEF TourInv

LEMMA ModelsAnswered ==
    ASSUME Touring, NEW p \in probes, ModelsArrive(p)
    PROVE  TourInv'
<1>0. tour \in Tours /\ probes' = probes \ {p} /\ p.about \in StoreIDs
  BY DEF Touring, TourInv, ModelsArrive, Arrives, ProbesAre
<1>1. CASE MovedOff(p)
  <2>1. tour' = tour
    BY <1>1 DEF ModelsArrive
  <2>2. ProbesAre'
    BY <1>0, <2>1 DEF Touring, TourInv, ProbesAre
  <2> QED
    BY <1>0, <2>1, <2>2 DEF Touring, TourInv
<1>2. CASE ~MovedOff(p)
  <2>1. p.about = tour.storeID
    BY <1>2 DEF MovedOff
  <2>2. PICK rows \in SUBSET ModelsOf[p.about] :
             tour' = [tour EXCEPT !.loading = FALSE, !.modelPick = [of |-> p.about, rows |-> rows]]
    BY <1>2 DEF ModelsArrive
  <2> DEFINE l == [of |-> p.about, rows |-> rows]
             a == [tour EXCEPT !.loading = FALSE]
             b == [a EXCEPT !.modelPick = l]
  <2>3. l \in ModelLists /\ l.of = tour.storeID /\ l.rows \subseteq ModelsOf[l.of] /\ l # Unset
    BY <1>0, <2>1, TourAssumption DEF ModelLists
  <2>4. b \in Tours
    <3> HIDE DEF l
    <3>1. a \in Tours
      BY <1>0, Edits
    <3> HIDE DEF a
    <3> QED
      BY <2>3, <3>1, Edits
  <2>5. tour' = b
    BY <1>0, <2>2 DEF Tours
  <2> HIDE DEF l
  <2>6. /\ tour'.modelPick = l /\ tour'.step = tour.step /\ tour'.end = Unset /\ tour'.stores = tour.stores
        /\ tour'.connErr = tour.connErr /\ tour'.auth = tour.auth /\ tour'.storePick = tour.storePick
        /\ tour'.storeManual = tour.storeManual /\ tour'.probed = tour.probed
        /\ tour'.storeID = tour.storeID /\ tour'.modelID = tour.modelID
        /\ tour'.typedStore = tour.typedStore /\ tour'.typedModel = tour.typedModel
        /\ tour'.modelManual = tour.modelManual /\ Connection(tour') = Connection(tour)
    BY <1>0, <2>5 DEF Tours, Touring, Connection
  <2>7. StoresAre(tour')
    BY <2>6 DEF Touring, TourInv, StoresAre, Tested, ListIsCurrent
  <2>8. ModelsAre(tour')
    BY <2>3, <2>6 DEF Touring, TourInv, ModelsAre
  <2>9. Chosen(tour')
    BY <2>6 DEF Touring, TourInv, Chosen
  <2>10. ProbesAre'
    BY <1>0, <2>6 DEF Touring, TourInv, ProbesAre
  <2> QED
    BY <2>4, <2>5, <2>7, <2>8, <2>9, <2>10 DEF TourInv
<1> QED
  BY <1>1, <1>2

LEMMA TourStarts == TourInit => TourInv
<1> SUFFICES ASSUME TourInit
             PROVE  TourInv
  OBVIOUS
<1>1. tour \in Tours
  BY DEF TourInit, NewTour, Tours, Screens
<1>2. StoresAre(tour) /\ ModelsAre(tour) /\ Chosen(tour) /\ ProbesAre
  BY DEF TourInit, NewTour, StoresAre, Tested, ModelsAre, Chosen, ProbesAre
<1> QED
  BY <1>1, <1>2 DEF TourInv

LEMMA TourGoesOn ==
    ASSUME TourInv, ~Strays, TourStep
    PROVE  TourInv'
<1>1. tour.end = Unset
  BY DEF TourStep, Begin, EnterUrl, ChooseMethod, EnterDetails, LeaveTest, TypeStore, PickStore,
         TypeModel, PickModel, Confirmed, CancelTour, Back, StoresArrive, ModelsArrive, Arrives,
         At, TourKey
<1>2. Touring /\ tour \in Tours
  BY <1>1 DEF Touring, TourInv
<1>3. CASE LeaveTest
  BY <1>2, <1>3, StoreEntered DEF LeaveTest, At, Tested
<1>4. CASE Confirmed \/ CancelTour
  BY <1>2, <1>4, TourEnds DEF Confirmed, CancelTour
<1>5. CASE \E p \in probes : StoresArrive(p) \/ ModelsArrive(p)
  BY <1>2, <1>5, TestAnswered, ModelsAnswered
<1> QED
  BY <1>2, <1>3, <1>4, <1>5, FirstSteps, StoreSteps, ModelSteps, TurnsBack DEF TourStep

LEMMA ItFits == TourInv => tour.end # "failed" /\ ListsAreCurrent /\ ProfileFits
<1> SUFFICES ASSUME TourInv
             PROVE  tour.end # "failed" /\ ListsAreCurrent /\ ProfileFits
  OBVIOUS
<1>1. tour \in Tours /\ StoresAre(tour) /\ ModelsAre(tour) /\ Chosen(tour)
  BY DEF TourInv
<1>2. tour.end # "failed"
  BY <1>1, TourAssumption DEF Tours
<1>3. ListsAreCurrent
  BY <1>1 DEF ListsAreCurrent, StoresAre, Tested, ModelsAre
<1>4. ProfileFits
  BY <1>1 DEF ProfileFits, Chosen
<1> QED
  BY <1>2, <1>3, <1>4

(* What the guided tour shows and confirms is true of the connection on     *)
(* screen, and it does not break off, for any servers, accounts, stores and *)
(* models, however often the user goes back and whatever is on its way      *)
(* meanwhile, until the user takes one of the ways of Strays.               *)
THEOREM TheTourIsTrue == InvocationSpec => []TourIsTrue
<1> DEFINE Sound == ~strayed => TourInv
<1>1. InvocationInit => Sound
  BY TourStarts DEF InvocationInit
<1>2. Sound /\ [InvocationNext]_<<vars, tourVars>> => Sound'
  <2> SUFFICES ASSUME Sound, ~strayed', [InvocationNext]_<<vars, tourVars>>
               PROVE  TourInv'
    OBVIOUS
  <2>1. CASE TourNext
    <3>1. ~strayed /\ ~Strays /\ TourStep
      BY <2>1 DEF TourNext
    <3> QED
      BY <3>1, TourGoesOn
  <2>2. CASE UNCHANGED tourVars
    BY <2>2 DEF tourVars, TourInv, ProbesAre
  <2> QED
    BY <2>1, <2>2 DEF InvocationNext
<1>3. Sound => TourIsTrue
  BY ItFits DEF TourIsTrue
<1> QED
  BY <1>1, <1>2, <1>3, PTL DEF InvocationSpec

(* An invocation with its tour is, the tour aside, a run of the command:    *)
(* what is proved of every command holds of `ofga init` with its tour.      *)
THEOREM InvocationsAreCommands == InvocationSpec => Spec
<1>1. InvocationInit => Init
  BY DEF InvocationInit
<1>2. [InvocationNext]_<<vars, tourVars>> => [Next]_vars
  BY DEF InvocationNext
<1> QED
  BY <1>1, <1>2, PTL DEF InvocationSpec, Spec
====
