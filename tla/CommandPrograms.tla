--------------------------- MODULE CommandPrograms ---------------------------
(* What Commands runs: the requests of the commands, the body of each as a  *)
(* sequence of steps, the command lines, and the errors with the exit code  *)
(* and kind clierr derives from each.                                       *)
EXTENDS Naturals, Sequences, FiniteSets

-------------------------------------------------------------------------------
(* Requests.                                                                *)

Rpc(method, inStore, verb) == [method |-> method, inStore |-> inStore, verb |-> verb]

Calls ==
  [ create_store     |-> Rpc("POST",   FALSE, ""),
    list_stores      |-> Rpc("GET",    FALSE, ""),
    get_store        |-> Rpc("GET",    TRUE,  ""),
    delete_store     |-> Rpc("DELETE", TRUE,  ""),
    write_model      |-> Rpc("POST",   TRUE,  "authorization-models"),
    list_models      |-> Rpc("GET",    TRUE,  "authorization-models"),
    get_model        |-> Rpc("GET",    TRUE,  ""),
    latest_model     |-> Rpc("GET",    TRUE,  "authorization-models"),
    write_tuple      |-> Rpc("POST",   TRUE,  "write"),
    delete_tuple     |-> Rpc("POST",   TRUE,  "write"),
    read_tuples      |-> Rpc("POST",   TRUE,  "read"),
    check            |-> Rpc("POST",   TRUE,  "check"),
    batch_check      |-> Rpc("POST",   TRUE,  "batch-check"),
    list_relations   |-> Rpc("POST",   TRUE,  "batch-check"),
    expand           |-> Rpc("POST",   TRUE,  "expand"),
    list_objects     |-> Rpc("POST",   TRUE,  "list-objects"),
    list_users       |-> Rpc("POST",   TRUE,  "list-users"),
    read_assertions  |-> Rpc("GET",    TRUE,  "assertions"),
    write_assertions |-> Rpc("PUT",    TRUE,  "assertions"),
    run_assertion    |-> Rpc("POST",   TRUE,  "check"),
    raw_get          |-> Rpc("GET",    TRUE,  ""),
    raw_write        |-> Rpc("POST",   TRUE,  "write"),
    raw_store        |-> Rpc("POST",   FALSE, "read"),
    name_store       |-> Rpc("GET",    TRUE,  ""),
    plan_reads       |-> Rpc("POST",   TRUE,  "read"),
    apply_events     |-> Rpc("POST",   TRUE,  "write") ]

(* isIdempotentRPC                                                          *)
MutantIsIdempotentRPC(r) == r.method # "DELETE"
IsIdempotentRPC(r) ==
    \/ r.method \in {"GET", "HEAD"}
    \/ /\ r.method = "POST" /\ r.inStore
       /\ r.verb \in {"check", "expand", "list-objects", "list-users", "batch-check", "read"}

(* The requests that change the server, those whose second copy it accepts, *)
(* and those that destroy what was there.                                   *)
Changing  == {"create_store", "delete_store", "write_model", "write_tuple", "delete_tuple",
              "write_assertions", "raw_write", "raw_store", "apply_events"}
Repeatable == {"create_store", "write_model", "write_assertions", "raw_store", "apply_events"}
Destructive == {"delete_store", "delete_tuple", "write_assertions", "apply_events"}

(* The requests of which a command sends one after another.                 *)
Paged == {"list_stores", "list_models", "read_tuples", "batch_check", "list_relations",
          "run_assertion", "plan_reads", "apply_events"}

-------------------------------------------------------------------------------
(* The body of each command: its steps, in the order of its RunE.           *)

ResolveModelID(v) == IF v.given THEN <<>> ELSE <<"latest_model">>

StoresCreate      == <<"preview", "client", "create_store", "save", "emit">>
StoresList        == <<"validate", "client", "list_stores", "emit">>
StoresGet(v)      == <<IF v.given THEN "client" ELSE "store", "get_store", "emit">>
StoresDelete      == <<"preview", "confirm", "client", "delete_store", "emit">>
ModelsWrite       == <<"file", "preview", "store", "write_model", "emit">>
ModelsList        == <<"validate", "store", "list_models", "emit">>
ModelsGet         == <<"store", "get_model", "emit">>
ModelsLatest      == <<"store", "latest_model", "emit">>
ModelsGraph(v)    == <<"store", IF v.given THEN "get_model" ELSE "latest_model", "emit">>
TuplesWrite       == <<"validate", "preview", "store", "write_tuple", "emit">>
TuplesDelete      == <<"validate", "preview", "confirm", "store", "delete_tuple", "emit">>
TuplesRead        == <<"validate", "store", "sink", "read_tuples", "finish">>
QueryCheck        == <<"validate", "file", "store", "check", "emit">>
QueryBatchCheck   == <<"validate", "file", "store", "batch_check", "emit">>
QueryExpand       == <<"validate", "store", "expand", "emit">>
QueryListRelations(v) ==
    <<"validate", "file", "store">>
        \o (IF v.given THEN <<>> ELSE <<"latest_model", "validate">>)
        \o <<"list_relations", "emit">>
QueryListObjects  == <<"validate", "file", "store", "list_objects", "emit">>
QueryListUsers    == <<"validate", "file", "validate", "store", "list_users", "emit">>
AssertionsRead(v)  == <<"store">> \o ResolveModelID(v) \o <<"read_assertions", "emit">>
AssertionsWrite(v) == <<"file", "preview", "store">> \o ResolveModelID(v)
                          \o <<"confirm", "write_assertions", "emit">>
AssertionsTest(v)  == <<"store">> \o ResolveModelID(v)
                          \o <<"read_assertions", "run_assertion", "emit">>
Api(call)         == <<"validate", "file", "client", call, "emit">>
Version           == <<"emit">>
ModelsDiffFiles   == <<"validate", "file", "run", "print", "report", "verdict">>
ModelsDiffStore   == <<"validate", "file", "store", "latest_model", "run", "print", "report", "verdict">>
ModelsDiffModels  == <<"validate", "store", "get_model", "store", "latest_model", "run", "print",
                       "report", "verdict">>
ModelsOptimize(v) == <<"validate", "file", "show">> \o (IF v.given THEN <<"run">> ELSE <<>>)
                         \o <<"print", "verdict", "commit">>
ModelsTest        == <<"validate", "file", "run", "print", "report", "verdict">>
ModelsTestInit    == <<"look", "install", "emit">>
ModelsTestSchema  == <<"emit">>
MappingsTest      == <<"validate", "load_mapping", "run", "print", "report", "verdict">>
MappingsValidate(v) ==
    <<"file">> \o (IF v.given THEN <<"store", "latest_model">> ELSE <<>>)
        \o <<"load_mapping", "run", "print", "verdict">>
MappingsApply     == <<"refuse", "load_mapping", "file", "store", "name_store", "plan_reads",
                       "plan", "confirm", "apply_events", "emit">>
ProfilesList      == <<"emit">>
ProfilesCurrent   == <<"profile", "emit">>
ProfilesShow      == <<"profile", "emit">>
ProfilesUse       == <<"profile", "save_config", "emit">>
ProfilesSet       == <<"profile", "file", "save_config", "emit">>
ProfilesAdd       == <<"profile", "file", "save_config", "emit">>
ProfilesUnset(v)  == <<"profile">> \o (IF v.given THEN <<"confirm">> ELSE <<>>)
                         \o <<"save_config", "emit">>
ProfilesRemove    == <<"profile", "confirm", "save_config", "emit">>
ProfilesCleanup(v) == (IF v.given THEN <<"confirm">> ELSE <<>>) \o <<"save_config", "emit">>
InitProfile(v)    == <<"refuse", "file", "tour">> \o (IF v.given THEN <<"confirm">> ELSE <<>>)
                         \o <<"save_config", "emit">>
Theme(v)          == (IF v.given THEN <<"validate", "save_config">> ELSE <<>>) \o <<"emit">>
ConfigPath        == <<"emit">>
SkillShow         == <<"emit">>
SkillInstall      == <<"validate", "look", "confirm", "install", "emit">>
DocsSearch        == <<"validate", "ask_docs", "emit">>
DocsShow          == <<"validate", "ask_docs", "emit">>

Names == {"stores_create", "stores_list", "stores_get", "stores_delete", "models_write",
          "models_list", "models_get", "models_latest", "models_graph", "tuples_write",
          "tuples_delete", "tuples_read", "check", "batch_check", "expand",
          "list_relations", "list_objects", "list_users", "assertions_read",
          "assertions_write", "assertions_test", "api_get", "api_write", "api_store",
          "version", "diff_files", "diff_store", "diff_models", "optimize", "model_test",
          "model_test_init", "model_test_schema", "mappings_test", "mappings_validate",
          "mappings_apply", "profiles_list", "profiles_current", "profiles_show",
          "profiles_use", "profiles_set", "profiles_add", "profiles_unset", "profiles_remove",
          "profiles_cleanup", "init", "theme", "config_path", "skill_show", "skill_install",
          "docs_search", "docs_show"}

Program(v) ==
    CASE v.cmd = "stores_create"    -> StoresCreate
      [] v.cmd = "stores_list"      -> StoresList
      [] v.cmd = "stores_get"       -> StoresGet(v)
      [] v.cmd = "stores_delete"    -> StoresDelete
      [] v.cmd = "models_write"     -> ModelsWrite
      [] v.cmd = "models_list"      -> ModelsList
      [] v.cmd = "models_get"       -> ModelsGet
      [] v.cmd = "models_latest"    -> ModelsLatest
      [] v.cmd = "models_graph"     -> ModelsGraph(v)
      [] v.cmd = "tuples_write"     -> TuplesWrite
      [] v.cmd = "tuples_delete"    -> TuplesDelete
      [] v.cmd = "tuples_read"      -> TuplesRead
      [] v.cmd = "check"            -> QueryCheck
      [] v.cmd = "batch_check"      -> QueryBatchCheck
      [] v.cmd = "expand"           -> QueryExpand
      [] v.cmd = "list_relations"   -> QueryListRelations(v)
      [] v.cmd = "list_objects"     -> QueryListObjects
      [] v.cmd = "list_users"       -> QueryListUsers
      [] v.cmd = "assertions_read"  -> AssertionsRead(v)
      [] v.cmd = "assertions_write" -> AssertionsWrite(v)
      [] v.cmd = "assertions_test"  -> AssertionsTest(v)
      [] v.cmd = "api_get"          -> Api("raw_get")
      [] v.cmd = "api_write"        -> Api("raw_write")
      [] v.cmd = "api_store"        -> Api("raw_store")
      [] v.cmd = "version"          -> Version
      [] v.cmd = "diff_files"       -> ModelsDiffFiles
      [] v.cmd = "diff_store"       -> ModelsDiffStore
      [] v.cmd = "diff_models"      -> ModelsDiffModels
      [] v.cmd = "optimize"         -> ModelsOptimize(v)
      [] v.cmd = "model_test"       -> ModelsTest
      [] v.cmd = "model_test_init"  -> ModelsTestInit
      [] v.cmd = "model_test_schema" -> ModelsTestSchema
      [] v.cmd = "mappings_test"    -> MappingsTest
      [] v.cmd = "mappings_validate" -> MappingsValidate(v)
      [] v.cmd = "mappings_apply"   -> MappingsApply
      [] v.cmd = "profiles_list"    -> ProfilesList
      [] v.cmd = "profiles_current" -> ProfilesCurrent
      [] v.cmd = "profiles_show"    -> ProfilesShow
      [] v.cmd = "profiles_use"     -> ProfilesUse
      [] v.cmd = "profiles_set"     -> ProfilesSet
      [] v.cmd = "profiles_add"     -> ProfilesAdd
      [] v.cmd = "profiles_unset"   -> ProfilesUnset(v)
      [] v.cmd = "profiles_remove"  -> ProfilesRemove
      [] v.cmd = "profiles_cleanup" -> ProfilesCleanup(v)
      [] v.cmd = "init"             -> InitProfile(v)
      [] v.cmd = "theme"            -> Theme(v)
      [] v.cmd = "config_path"      -> ConfigPath
      [] v.cmd = "skill_show"       -> SkillShow
      [] v.cmd = "skill_install"    -> SkillInstall
      [] v.cmd = "docs_search"      -> DocsSearch
      [] v.cmd = "docs_show"        -> DocsShow

Has(v, step) == \E i \in 1..Len(Program(v)) : Program(v)[i] = step

(* The command lines: a flag is there only on the commands that have it.    *)
Diffs == {"diff_files", "diff_store", "diff_models"}
ToFile == {"tuples_read", "optimize", "model_test", "mappings_test"} \cup Diffs
Invocations ==
    {v \in [cmd : Names, machine : BOOLEAN, given : BOOLEAN, dryRun : BOOLEAN,
            force : BOOLEAN, tty : BOOLEAN, noInput : BOOLEAN, agent : BOOLEAN,
            use : BOOLEAN, toFile : BOOLEAN] :
        /\ v.dryRun => Has(v, "preview") \/ Has(v, "plan")
        /\ v.force => Has(v, "confirm") \/ v.cmd = "model_test_init"
        /\ v.tty \/ v.noInput \/ v.agent => Has(v, "confirm") \/ Has(v, "tour")
        /\ v.given => Program(v) # Program([v EXCEPT !.given = FALSE])
        /\ v.use => v.cmd = "stores_create"
        /\ v.toFile => v.cmd \in ToFile}

-------------------------------------------------------------------------------
(* Errors: an explicit exit code and kind, 0 and "" without, and what is at *)
(* the bottom of the chain.                                                 *)

Statuses == {"400", "exists", "401", "403", "404", "429", "500"}
Error(code, k, cause) == [code |-> code, kind |-> k, cause |-> cause]
NoErr      == Error(0, "", "none")
Plain      == Error(0, "", "plain")
Cobra      == Error(0, "", "usage")
Usage      == Error(2, "", "plain")
NeedsForce == Error(0, "confirmation_required", "plain")
BadInput   == Error(2, "validation", "plain")
TestFailed == Error(3, "", "plain")
NotFound   == Error(0, "not_found", "plain")
Invalid    == Error(1, "validation", "plain")
LostServer == Error(4, "", "net")
Pipe       == Error(0, "", "pipe")
Net        == Error(0, "", "net")
Canceled   == Error(0, "", "canceled")
Token      == Error(0, "", "token")
Status(s)  == Error(0, "", s)

(* clierr.Code                                                              *)
Code(e) ==
    IF e.code # 0 THEN e.code
    ELSE CASE e.cause = "none"              -> 0
           [] e.cause = "canceled"          -> 130
           [] e.cause = "usage"             -> 2
           [] e.cause \in {"net", "token"} -> 4
           [] OTHER                         -> 1

(* clierr.Classify                                                          *)
StatusKind ==
    [s \in Statuses |->
        CASE s = "400" -> "validation"      [] s = "exists" -> "already_exists"
          [] s = "401" -> "unauthenticated" [] s = "403" -> "forbidden"
          [] s = "404" -> "not_found"       [] s = "429" -> "rate_limited"
          [] s = "500" -> "server"]
CodeKind == [c \in 2..4 |-> CASE c = 2 -> "usage" [] c = 3 -> "test_failed" [] c = 4 -> "network"]
Classify(e) ==
    IF e.cause = "canceled" THEN "canceled"
    ELSE IF e.kind # "" THEN e.kind
    ELSE IF e.code # 0 THEN CodeKind[e.code]
    ELSE CASE e.cause = "usage"     -> "usage"
           [] e.cause = "token"     -> "unauthenticated"
           [] e.cause = "net"       -> "network"
           [] e.cause \in Statuses -> StatusKind[e.cause]
           [] OTHER                 -> "error"

IsIgnorableBrokenPipe(e) == e.cause = "pipe" /\ e.code = 0
==============================================================================
