------------------------------ MODULE Commands ------------------------------
(* One invocation of `ofga` that ends: its flags, its confirmation, its     *)
(* requests with the two layers that retry them, what it prints, exports or *)
(* saves, and the exit code main derives from its error. The bodies of the  *)
(* commands are in CommandPrograms. Long-running commands have modules of   *)
(* their own: bulk files (BulkApply), the changelog (ChangesPoll), mapping  *)
(* plans (ApplyPlan), model tests (ModelTests), the workspace, the          *)
(* playground; what is saved where is ConfigStore's.                        *)
EXTENDS CommandPrograms

CONSTANTS
    MaxTries,   \* how often the client sends a request that is answered 5xx
    MaxSends,   \* how often the SDK sends one throttled or not answered
    MaxPages,   \* requests of one paged step
    BrokenConnections \* a connection that breaks under a request reports EPIPE

ASSUME CommandsAssumption ==
    /\ {MaxTries, MaxSends, MaxPages} \subseteq Nat \ {0}
    /\ BrokenConnections \in BOOLEAN

VARIABLES
    inv,        \* the command line
    pc, at,     \* the phase of the process, the step of the command's body
    ran,        \* RanCommand: flags and arguments were accepted
    confirmed,  \* the user approved at the prompt
    interrupted,\* Ctrl-C or SIGTERM has cancelled the context
    held,       \* the error the command keeps until it has printed
    err,        \* the error it returns
    tries, sends, page, \* the request in progress: on the wire, by the SDK, its page
    wire, applied, lost,\* changing requests sent, applied, left without an answer
    gaveUp,     \* a request failed for good
    unmet,      \* an assertion or an item of a batch failed
    reader,     \* whoever reads stdout
    printed, export, staged, \* stdout; the file the command leaves, its staged copy
    disk, seen, again, \* a file to install: on disk, as it was looked at, looked at twice
    exit, kind  \* the exit code and the "code" of the envelope

request  == <<tries, sends, page>>
effects  == <<wire, applied, lost, gaveUp, unmet>>
files    == <<disk, seen, again>>
outputs  == <<printed, export, staged, files>>
verdict  == <<exit, kind>>
vars == <<inv, pc, at, ran, confirmed, interrupted, held, err, request, effects, reader,
          outputs, verdict>>

Step == Program(inv)[at]
Body(step) == pc = "body" /\ Step = step

-------------------------------------------------------------------------------
(* Control.                                                                 *)

Fresh == tries' = 1 /\ sends' = 1 /\ page' = 1
Advance ==
    /\ pc' = "body" /\ at' = at + 1 /\ Fresh
    /\ UNCHANGED <<inv, ran, confirmed, interrupted, held, err, effects, reader, outputs, verdict>>

(* The command returns e: what it staged is discarded.                      *)
Return(e) == pc' = "exiting" /\ err' = e /\ staged' = FALSE
Fail(e) ==
    /\ Return(e)
    /\ UNCHANGED <<inv, at, ran, confirmed, interrupted, held, request, effects, reader,
                   printed, export, files, verdict>>

(* The body goes on at another step.                                        *)
GoTo(n) ==
    /\ pc' = "body" /\ at' = n /\ Fresh
    /\ UNCHANGED <<inv, ran, interrupted, held, err, effects, reader, staged, verdict>>

Installs == {"model_test_init", "skill_install"}
Init ==
    /\ inv \in Invocations
    /\ pc = "flags" /\ at = 1
    /\ ran = FALSE /\ confirmed = FALSE /\ interrupted = FALSE
    /\ held = NoErr /\ err = NoErr
    /\ tries = 1 /\ sends = 1 /\ page = 1
    /\ wire = 0 /\ applied = 0 /\ lost = 0 /\ gaveUp = FALSE /\ unmet = FALSE
    /\ reader = "open" /\ printed = "nothing" /\ export = "old" /\ staged = FALSE
    /\ disk \in IF inv.cmd \in Installs THEN {"absent", "other", "same"} ELSE {"absent"}
    /\ seen = "absent" /\ again = FALSE
    /\ exit = 0 /\ kind = ""

(* Cobra's parsing, --timeout, the output flags and --header; then the      *)
(* command counts as run.                                                   *)
ParseFlags ==
    /\ pc = "flags"
    /\ \/ \E e \in {Cobra, Plain, Usage} : Fail(e)
       \/ /\ pc' = "environment" /\ ran' = TRUE
          /\ UNCHANGED <<inv, at, confirmed, interrupted, held, err, request, effects, reader,
                         outputs, verdict>>

(* Secret files, the theme, and the required flags cobra checks after them. *)
Environment ==
    /\ pc = "environment"
    /\ \/ \E e \in {Plain, Usage, Cobra} : Fail(e)
       \/ /\ pc' = "body"
          /\ UNCHANGED <<inv, at, ran, confirmed, interrupted, held, err, request, effects,
                         reader, outputs, verdict>>

Validate == Body("validate") /\ (Fail(Usage) \/ Advance)

Queries == {"check", "batch_check", "list_relations", "list_objects", "list_users"}
InputErrors(v) == {Plain, Usage} \cup (IF v.cmd \in Queries THEN {BadInput} ELSE {})
ReadInput ==
    /\ Body("file")
    /\ \/ Advance \/ \E e \in InputErrors(inv) : Fail(e)
       \/ inv.cmd = "mappings_apply" /\ (Fail(NotFound) \/ (interrupted /\ Fail(Canceled)))

(* The profile a command is about.                                          *)
LookupProfile == Body("profile") /\ (Advance \/ \E e \in {Plain, Usage} : Fail(e))

(* What cannot be answered later is refused now: `mappings apply` under     *)
(* machine output or with the events on stdin, the tour of an agent.        *)
Refuse ==
    /\ Body("refuse")
    /\ CASE inv.cmd = "init" -> Advance \/ (inv.agent /\ Fail(Usage))
         [] inv.dryRun \/ inv.force -> Advance
         [] inv.machine -> Fail(Usage)
         [] OTHER -> Advance \/ (~inv.tty /\ Fail(NeedsForce))

(* A mapping file; `validate` reports its problems as a result.             *)
LoadMapping ==
    /\ Body("load_mapping")
    /\ \/ Advance \/ Fail(Plain) \/ Fail(NotFound)
       \/ /\ inv.cmd # "mappings_validate"
          /\ Fail(IF inv.machine \/ reader = "open" THEN Invalid ELSE Pipe)

(* --dry-run prints what would be done and returns.                         *)
Preview ==
    /\ Body("preview")
    /\ \/ ~inv.dryRun /\ Advance
       \/ /\ inv.dryRun /\ at' = Len(Program(inv))
          /\ UNCHANGED <<inv, pc, ran, confirmed, interrupted, held, err, request, effects,
                         reader, outputs, verdict>>

-------------------------------------------------------------------------------
(* Confirmation.                                                            *)

(* prompt.interactive: agent mode sets --no-input.                          *)
Interactive(v) == v.tty /\ ~v.noInput /\ ~v.agent

MutantApproves(v) == v.force \/ v.noInput
Approves(v) == v.force

Confirm ==
    /\ Body("confirm")
    /\ \/ Approves(inv) /\ Advance
       \/ ~Approves(inv) /\ ~Interactive(inv) /\ Fail(NeedsForce)
       \/ /\ ~Approves(inv) /\ Interactive(inv)
          /\ pc' = "asking"
          /\ UNCHANGED <<inv, at, ran, confirmed, interrupted, held, err, request, effects,
                         reader, outputs, verdict>>

(* The read at the prompt does not see the context: it ends with a line.    *)
Answer ==
    /\ pc = "asking"
    /\ \/ Fail(Plain)
       \/ /\ pc' = "body" /\ at' = at + 1 /\ confirmed' = TRUE
          /\ UNCHANGED <<inv, ran, interrupted, held, err, request, effects, reader, outputs,
                         verdict>>

-------------------------------------------------------------------------------
(* The client and its requests.                                             *)

Client == Body("client") /\ (Fail(Plain) \/ Advance)
ClientWithStore == Body("store") /\ (Advance \/ \E e \in {Plain, Usage} : Fail(e))

Raw == {"raw_get", "raw_write", "raw_store"}

(* A failed apply names its cause, or says that some events were applied.   *)
ApplyFailure(e) ==
    IF interrupted THEN {Canceled}
    ELSE {Error(Code(e), Classify(e), e.cause)}
         \cup IF page > 1 /\ Classify(e) # "network"
               THEN {Error(Code(e), "partial_failure", e.cause)} ELSE {}

(* The name of the store is a courtesy: only what would fail every later    *)
(* request ends `mappings apply`.                                           *)
Tolerated(e) == Step = "name_store" /\ e.cause \in Statuses \ {"401"}

(* A request that failed for good ends the command; batch-check keeps the   *)
(* error of a chunk and prints the others, apply prints what it has sent;   *)
(* api shows what the server said.                                          *)
GiveUp(e) ==
    \/ Tolerated(e) /\ Advance
    \/ /\ ~Tolerated(e) /\ gaveUp' = TRUE
       /\ UNCHANGED <<inv, ran, confirmed, interrupted, reader, wire, export, files, verdict>>
       /\ \/ /\ Step # "apply_events" /\ Return(e) /\ UNCHANGED <<at, held, request, unmet>>
             /\ printed' = IF /\ Step \in Raw /\ inv.machine /\ reader = "open"
                              /\ e.cause \in Statuses
                           THEN "error" ELSE printed
          \/ /\ Step = "batch_check" /\ held' = e /\ unmet' = TRUE
             /\ pc' = "body" /\ at' = at + 1 /\ Fresh /\ UNCHANGED <<err, printed, staged>>
          \/ /\ Step = "apply_events" /\ held' \in ApplyFailure(e)
             /\ pc' = "body" /\ at' = at + 1 /\ Fresh /\ UNCHANGED <<unmet, err, printed, staged>>

Wait ==
    /\ pc' = "waiting"
    /\ UNCHANGED <<inv, at, ran, confirmed, interrupted, held, err, page, wire, gaveUp, unmet,
                   reader, outputs, verdict>>
Retry  == tries < MaxTries /\ tries' = tries + 1 /\ sends' = sends /\ Wait
Resend == sends < MaxSends /\ sends' = sends + 1 /\ tries' = 1 /\ Wait

Send ==
    /\ pc = "body" /\ Step \in DOMAIN Calls /\ ~interrupted
    /\ pc' = "sent"
    /\ wire' = wire + (IF Step \in Changing THEN 1 ELSE 0)
    /\ UNCHANGED <<inv, at, ran, confirmed, interrupted, held, err, request, applied, lost,
                   gaveUp, unmet, reader, outputs, verdict>>

(* On a cancelled context no request leaves.                                *)
SendCanceled ==
    /\ pc = "body" /\ Step \in DOMAIN Calls /\ interrupted
    /\ \E e \in {Net, Canceled} : GiveUp(e)
    /\ UNCHANGED <<applied, lost>>

(* The server carries a changing request out; a second copy of most it      *)
(* refuses.                                                                 *)
CanApply == Step \in Changing /\ (Step \in Repeatable \/ applied = 0)
Apply    == CanApply /\ applied' = applied + 1
MayApply == Apply \/ UNCHANGED applied

(* What the answers of a paged step and of the checks lead to.              *)
Succeed ==
    /\ IF Step \in Changing THEN Apply ELSE UNCHANGED applied
    /\ unmet' \in IF Step \in {"batch_check", "run_assertion"} THEN {unmet, TRUE} ELSE {unmet}
    /\ tries' = 1 /\ sends' = 1
    /\ \/ /\ Step \in Paged /\ page < MaxPages
          /\ page' = page + 1 /\ pc' = "body" /\ at' = at
       \/ page' = 1 /\ pc' = "body" /\ at' = at + 1
    /\ UNCHANGED <<inv, ran, confirmed, interrupted, held, err, wire, lost, gaveUp, reader,
                   outputs, verdict>>

(* `tuples read` writes each tuple as it arrives.                           *)
StreamFails ==
    /\ Step = "read_tuples"
    /\ \/ inv.toFile /\ Fail(Plain)
       \/ ~inv.toFile /\ reader = "closed" /\ Fail(Pipe)

Refused ==
    /\ \E s \in {"400", "exists", "401", "403", "404"} :
          /\ s = "exists" => Step \in {"write_tuple", "raw_write"}
          /\ GiveUp(Status(s))
    /\ UNCHANGED <<applied, lost>>

Throttled == (Resend \/ (sends = MaxSends /\ GiveUp(Status("429")))) /\ UNCHANGED <<applied, lost>>

ServerFails ==
    /\ MayApply /\ UNCHANGED lost
    /\ \/ IsIdempotentRPC(Calls[Step]) /\ Retry
       \/ ~(IsIdempotentRPC(Calls[Step]) /\ tries < MaxTries) /\ GiveUp(Status("500"))

Unreachable == {Net} \cup (IF BrokenConnections THEN {Pipe} ELSE {})
Unanswered ==
    /\ MayApply /\ lost' = lost + 1
    /\ Resend \/ (sends = MaxSends /\ \E e \in Unreachable : GiveUp(e))

TokenRejected == GiveUp(Token) /\ UNCHANGED <<applied, lost>>

(* A cancelled context ends the request, answered or not.                   *)
Aborted == interrupted /\ MayApply /\ lost' = lost + 1 /\ GiveUp(Net)

Exchange ==
    /\ pc = "sent"
    /\ \/ Succeed \/ StreamFails \/ Refused \/ Throttled \/ ServerFails \/ Unanswered
       \/ TokenRejected \/ Aborted

Backoff ==
    /\ pc = "waiting"
    /\ \/ /\ pc' = "body"
          /\ UNCHANGED <<inv, at, ran, confirmed, interrupted, held, err, request, effects,
                         reader, outputs, verdict>>
       \/ interrupted /\ GiveUp(Canceled) /\ UNCHANGED <<applied, lost>>

(* A model without assertions, a mapping without tuple filters.             *)
NothingToAsk == Body(Step) /\ Step \in {"run_assertion", "plan_reads"} /\ request = <<1, 1, 1>> /\ Advance

(* stores create --use: the store exists whether or not its id is saved.    *)
Save == Body("save") /\ (Advance \/ (inv.use /\ Fail(Plain)))

(* openfga.dev: `docs search` posts three times, `docs show` gets a page.   *)
Lose(e) ==
    /\ Return(e) /\ gaveUp' = TRUE
    /\ UNCHANGED <<inv, at, ran, confirmed, interrupted, held, request, wire, applied, lost,
                   unmet, reader, printed, export, files, verdict>>
DocsErrors == {Error(4, "network", "plain"), Error(0, "server", "plain"), Error(0, "error", "plain")}
AskDocs == Body("ask_docs") /\ (Advance \/ \E e \in DocsErrors : Lose(e))

-------------------------------------------------------------------------------
(* Work done in the process: tests, checks, comparisons, benchmarks.        *)

RunErrors(v) ==
    CASE v.cmd = "mappings_test"     -> {Plain, Invalid}
      [] v.cmd = "mappings_validate" -> {}
      [] OTHER                       -> {Plain, Usage}
Run ==
    /\ Body("run")
    /\ \/ \E e \in RunErrors(inv) : Fail(e)
       \/ inv.cmd = "model_test" /\ Lose(LostServer)
       \/ interrupted /\ inv.cmd \in {"model_test", "mappings_test", "optimize"} /\ Fail(Canceled)
       \/ /\ unmet' \in BOOLEAN /\ at' = at + 1
          /\ UNCHANGED <<inv, pc, ran, confirmed, interrupted, held, err, request, wire, applied,
                         lost, gaveUp, reader, outputs, verdict>>

(* `model diff` decides before it writes; the other commands do not.        *)
PreferGateOnBrokenPipe(e) == IF inv.cmd \in Diffs /\ unmet THEN TestFailed ELSE e

(* The findings of `model optimize`, for a human, ahead of its benchmark.   *)
Show ==
    /\ Body("show")
    /\ \/ Advance
       \/ ~inv.machine /\ reader = "closed" /\ Fail(Pipe)
       \/ ~inv.machine /\ reader = "open" /\ printed' = "all" /\ GoTo(at + 1)
          /\ UNCHANGED <<confirmed, export, files>>

(* A human may be told on stderr alone, or by lines whose loss is ignored.  *)
Unheard ==
    ~inv.machine /\ inv.cmd \in {"optimize", "model_test", "mappings_test", "mappings_validate"}

PrintResult ==
    /\ Body("print")
    /\ \/ /\ GoTo(at + 1) /\ UNCHANGED <<confirmed, export, files>>
          /\ (reader = "open" /\ printed' = "all") \/ (Unheard /\ UNCHANGED printed)
       \/ /\ reader = "closed" /\ (inv.cmd = "mappings_test" => inv.machine)
          /\ Fail(PreferGateOnBrokenPipe(Pipe))
       \/ inv.machine /\ Fail(Plain)

(* --report, to a file that is staged and renamed or to stdout.             *)
Report ==
    /\ Body("report")
    /\ \/ ~inv.toFile /\ Advance
       \/ ~inv.toFile /\ ~inv.machine /\ reader = "closed" /\ Fail(PreferGateOnBrokenPipe(Pipe))
       \/ inv.toFile /\ Fail(Plain)
       \/ inv.toFile /\ export' = "new" /\ GoTo(at + 1) /\ UNCHANGED <<confirmed, printed, files>>

(* The exit code of a test, a gate or a check; a rewrite whose benchmark    *)
(* saw another answer is not written.                                       *)
VerdictError == IF inv.cmd = "mappings_validate" THEN Invalid ELSE TestFailed
Gate ==
    /\ Body("verdict")
    /\ \/ unmet /\ Fail(VerdictError)
       \/ ~unmet /\ at < Len(Program(inv)) /\ Advance
       \/ ~unmet /\ at = Len(Program(inv)) /\ Fail(NoErr)
       \/ ~unmet /\ inv.cmd = "model_test" /\ \E e \in {Usage, Plain} : Fail(e)

(* `model optimize` writes last; --write has nothing to write sometimes.    *)
CommitRewrite ==
    /\ Body("commit")
    /\ \/ Fail(NoErr)
       \/ inv.toFile /\ Fail(Plain)
       \/ ~inv.toFile /\ reader = "closed" /\ Fail(Pipe)
       \/ /\ inv.toFile /\ Return(NoErr) /\ export' = "new"
          /\ UNCHANGED <<inv, at, ran, confirmed, interrupted, held, request, effects, reader,
                         printed, files, verdict>>

(* The plan of `mappings apply`; without changes, or in a dry run, it ends. *)
PlanChanges ==
    /\ Body("plan")
    /\ \/ Fail(Plain)
       \/ ~inv.machine /\ reader = "closed" /\ Fail(Pipe)
       \/ /\ \E n \in {at + 1, Len(Program(inv))} : (inv.dryRun => n # at + 1) /\ GoTo(n)
          /\ UNCHANGED <<confirmed, export, files>>
          /\ IF ~inv.machine /\ reader = "open" THEN printed' \in {printed, "all"} ELSE UNCHANGED printed

-------------------------------------------------------------------------------
(* The configuration and installed files.                                   *)

(* The save may succeed and the cleanup of old secrets stay pending.        *)
Cleans == {"profiles_set", "profiles_unset", "profiles_remove", "profiles_cleanup", "init"}
SaveConfig ==
    /\ Body("save_config")
    /\ \/ Fail(Plain)
       \/ /\ inv.cmd \in Cleans /\ Return(Plain) /\ export' = "new"
          /\ UNCHANGED <<inv, at, ran, confirmed, interrupted, held, request, effects, reader,
                         printed, files, verdict>>
       \/ export' = "new" /\ GoTo(at + 1) /\ UNCHANGED <<confirmed, printed, files>>

(* init: the guided tour replaces flags and confirmation on a terminal;     *)
(* cancelled, it leaves the configuration as it was.                        *)
WizardEligible(v) == v.tty /\ ~v.noInput /\ ~v.agent /\ ~v.machine
Tour ==
    /\ Body("tour")
    /\ \/ ~WizardEligible(inv) /\ Advance
       \/ WizardEligible(inv) /\ \E e \in {Plain, NoErr} : Fail(e)
       \/ /\ WizardEligible(inv) /\ confirmed' = TRUE /\ GoTo(Len(Program(inv)) - 1)
          /\ UNCHANGED <<printed, export, files>>

Look ==
    /\ Body("look")
    /\ \/ Fail(Plain)
       \/ inv.cmd = "model_test_init" /\ (IF disk = "absent" \/ inv.force THEN Advance ELSE Fail(Usage))
       \/ /\ inv.cmd = "skill_install" /\ seen' = disk
          /\ GoTo(CASE disk = "same" -> Len(Program(inv)) [] disk = "absent" -> at + 2 [] OTHER -> at + 1)
          /\ UNCHANGED <<confirmed, printed, export, disk, again>>

(* CommitNew never replaces a file that was not there at the look; then the *)
(* command looks once more. `model test init` renames over whatever is there. *)
Appeared == inv.cmd = "skill_install" /\ seen = "absent" /\ disk # "absent"
InstallFile ==
    /\ Body("install")
    /\ \/ Fail(Plain)
       \/ /\ Appeared /\ ~again /\ again' = TRUE /\ GoTo(at - 2)
          /\ UNCHANGED <<confirmed, printed, export, disk, seen>>
       \/ /\ ~Appeared /\ disk' = "same" /\ GoTo(at + 1)
          /\ UNCHANGED <<confirmed, printed, export, seen, again>>

-------------------------------------------------------------------------------
(* Output.                                                                  *)

Sink ==
    /\ Body("sink")
    /\ \/ inv.toFile /\ Fail(Plain)
       \/ /\ staged' = inv.toFile /\ at' = at + 1
          /\ UNCHANGED <<inv, pc, ran, confirmed, interrupted, held, err, request, effects,
                         reader, printed, export, files, verdict>>

(* The commands that, for a human, may have nothing to put on stdout.       *)
MayBeQuiet ==
    /\ ~inv.machine
    /\ \/ inv.dryRun
       \/ inv.cmd \in {"stores_list", "models_list", "stores_delete", "tuples_write",
                        "tuples_delete", "tuples_read", "list_relations", "list_objects",
                        "list_users", "assertions_read", "assertions_write", "api_get",
                        "api_write", "api_store", "mappings_apply", "model_test_init",
                        "profiles_use", "profiles_set", "profiles_add", "profiles_unset",
                        "profiles_remove", "profiles_cleanup", "init", "docs_search"}
       \/ inv.cmd = "theme" /\ inv.given
       \/ inv.cmd = "assertions_test" /\ ~unmet

AssertionsFailed == inv.cmd = "assertions_test" /\ unmet
MutantPreferAssertionFailure(e) == e
PreferAssertionFailure(e) == IF AssertionsFailed THEN TestFailed ELSE e

(* What the command returns once everything is printed.                     *)
EndError ==
    IF AssertionsFailed THEN TestFailed
    ELSE IF held # NoErr THEN held
    ELSE IF inv.cmd = "batch_check" /\ unmet THEN Plain
    ELSE NoErr

Deliver ==
    \/ /\ Return(EndError)
       /\ \/ MayBeQuiet /\ UNCHANGED printed
          \/ reader = "open" /\ printed' = "all"
       /\ UNCHANGED <<inv, at, ran, confirmed, interrupted, held, request, effects, reader,
                      export, files, verdict>>
    \/ reader = "closed" /\ Fail(PreferAssertionFailure(Pipe))
    \/ inv.machine /\ Fail(PreferAssertionFailure(Plain))

Emit ==
    /\ Body("emit")
    /\ \/ Deliver
       \/ ~inv.machine /\ inv.cmd \in {"models_get", "models_latest"} /\ Fail(Usage)

Finish ==
    /\ Body("finish")
    /\ \/ ~inv.toFile /\ Deliver
       \/ inv.toFile /\ Fail(Plain)
       \/ /\ inv.toFile
          /\ Return(NoErr) /\ export' = "new"
          /\ UNCHANGED <<inv, at, ran, confirmed, interrupted, held, request, effects, reader,
                         printed, files, verdict>>

-------------------------------------------------------------------------------
(* main: the exit code and, under machine output, the envelope.             *)

ExitCode ==
    IF err = NoErr \/ IsIgnorableBrokenPipe(err) THEN 0
    ELSE IF interrupted THEN 130
    ELSE IF ~ran THEN 2
    ELSE Code(err)

EnvelopeKind ==
    IF interrupted THEN "canceled"
    ELSE IF ExitCode = 2 /\ err.kind = "" THEN "usage"
    ELSE Classify(err)

Exit ==
    /\ pc = "exiting"
    /\ pc' = "done"
    /\ exit' = ExitCode
    /\ kind' = IF inv.machine /\ ExitCode # 0 THEN EnvelopeKind ELSE ""
    /\ UNCHANGED <<inv, at, ran, confirmed, interrupted, held, err, request, effects, reader,
                   outputs>>

-------------------------------------------------------------------------------
(* The environment.                                                         *)

Alive == pc \notin {"done", "killed"}

Interrupt ==
    /\ Alive /\ ~interrupted /\ interrupted' = TRUE
    /\ UNCHANGED <<inv, pc, at, ran, confirmed, held, err, request, effects, reader, outputs,
                   verdict>>

CloseReader ==
    /\ Alive /\ reader = "open" /\ reader' = "closed"
    /\ UNCHANGED <<inv, pc, at, ran, confirmed, interrupted, held, err, request, effects,
                   outputs, verdict>>

(* Another program puts a file where this one is about to install its own.  *)
Appears ==
    /\ Alive /\ inv.cmd \in Installs /\ disk = "absent" /\ disk' = "other"
    /\ UNCHANGED <<inv, pc, at, ran, confirmed, interrupted, held, err, request, effects,
                   reader, printed, export, staged, seen, again, verdict>>

Kill ==
    /\ Alive /\ pc' = "killed"
    /\ UNCHANGED <<inv, at, ran, confirmed, interrupted, held, err, request, effects, reader,
                   outputs, verdict>>

Ended == ~Alive /\ UNCHANGED vars

Next ==
    \/ ParseFlags \/ Environment \/ Validate \/ ReadInput \/ Preview \/ Confirm \/ Answer
    \/ Client \/ ClientWithStore \/ Send \/ SendCanceled \/ Exchange \/ Backoff
    \/ LookupProfile \/ Refuse \/ LoadMapping \/ NothingToAsk \/ AskDocs \/ Run \/ Show
    \/ PrintResult \/ Report \/ Gate \/ CommitRewrite \/ PlanChanges \/ SaveConfig \/ Tour
    \/ Look \/ InstallFile \/ Save \/ Sink \/ Emit \/ Finish \/ Exit
    \/ Interrupt \/ CloseReader \/ Appears \/ Kill \/ Ended

Spec == Init /\ [][Next]_vars

-------------------------------------------------------------------------------
(* Properties.                                                              *)

TypeOK ==
    /\ inv \in Invocations
    /\ pc \in {"flags", "environment", "body", "asking", "sent", "waiting", "exiting",
               "done", "killed"}
    /\ at \in 1..Len(Program(inv))
    /\ {ran, confirmed, interrupted, gaveUp, unmet, staged, again} \subseteq BOOLEAN
    /\ tries \in 1..MaxTries /\ sends \in 1..MaxSends /\ page \in 1..MaxPages
    /\ wire \in Nat /\ applied \in Nat /\ lost \in Nat
    /\ reader \in {"open", "closed"} /\ printed \in {"nothing", "error", "all"}
    /\ export \in {"old", "new"} /\ {disk, seen} \subseteq {"absent", "other", "same"}
    /\ exit \in {0, 1, 2, 3, 4, 130}

(* What destroys or replaces something happens only after the user approved *)
(* it, at the prompt, in the tour or with --force: no request in a dry run, *)
(* for a script that could not be asked, or after an interrupt, although    *)
(* the prompt may be answered after Ctrl-C and requests are resent in two   *)
(* layers; no profile is removed or overwritten; and no skill file replaced *)
(* that another program put there meanwhile (`model test init` may: README  *)
(* section 6).                                                              *)
Approved == inv.force \/ (confirmed /\ inv.tty /\ ~inv.noInput /\ ~inv.agent)
NothingUnasked ==
    [][ /\ (pc # "sent" /\ pc' = "sent" /\ Step \in Destructive) =>
               Approved /\ ~inv.dryRun /\ ~interrupted
        /\ (export # export' /\ Has(inv, "confirm")) => Approved
        /\ (disk = "other" /\ disk' = "same" /\ inv.cmd = "skill_install") => Approved ]_vars

(* The server carries a change out once, and once more only for an exchange *)
(* whose answer was lost: a 5xx answer to a write, after which the write    *)
(* may have happened, is never followed by a second copy. `mappings apply`  *)
(* sends one change after another and never a later one before an earlier   *)
(* one is through.                                                          *)
Due ==
    CASE inv.cmd # "mappings_apply" -> 1
      [] Step = "apply_events"      -> page
      [] OTHER                      -> MaxPages
AppliedOnce == applied <= Due + lost

(* What the exit code promises a script. A closed stdout ends a command     *)
(* quietly, and some of them before they tell their verdict (README         *)
(* section 6).                                                              *)
Masked == {"batch_check", "mappings_apply", "model_test", "mappings_test", "mappings_validate",
           "optimize"}
Zero ==
    /\ gaveUp \/ unmet => inv.cmd \in Masked /\ reader = "closed"
    /\ unmet /\ inv.cmd = "optimize" => export = "old"
    /\ inv.machine /\ reader = "open" => printed = "all" \/ inv.cmd = "tuples_read"
    /\ inv.toFile /\ reader = "open" /\ inv.cmd # "optimize" => export = "new"
    /\ Has(inv, "save_config") /\ reader = "open" =>
          export = "new" \/ (inv.cmd = "init" /\ WizardEligible(inv) /\ ~confirmed)
    /\ Has(inv, "install") => disk = "same"
    /\ /\ \E i \in DOMAIN Program(inv) : Program(inv)[i] \in Changing
       /\ ~inv.dryRun /\ inv.cmd # "mappings_apply"
       => applied > 0
NotZero ==
    /\ export = "new" => Has(inv, "save_config") \/ Has(inv, "report")
    /\ exit = 2 => wire = 0
    /\ exit = 3 => unmet /\ ~gaveUp
    /\ exit = 4 => gaveUp
    /\ (exit = 130) = interrupted

(* The table of codes and exit codes scripts branch on; a token endpoint    *)
(* that refuses the credentials is left out (README section 6).             *)
ExitOf(k) ==
    CASE k = "usage"       -> {2}
      [] k = "validation"  -> IF inv.cmd \in Queries THEN {1, 2} ELSE {1}
      [] k = "network"     -> {4}
      [] k = "test_failed" -> {3}
      [] k = "canceled"    -> {130}
      [] OTHER             -> {1}

(* However an invocation ends, its exit code is true: 0 means that every    *)
(* request succeeded and the output is whole, unless the reader has left;   *)
(* failed assertions, and a difference that matters, are 3 even then; 2     *)
(* means that nothing was sent to change the server; an export is replaced  *)
(* by a whole one or not at all, and a rewrite that changes an answer never *)
(* written; and the envelope's code agrees with the exit code.              *)
ExitTellsTheTruth ==
    pc = "done" =>
        /\ exit = 0 => Zero
        /\ exit # 0 => NotZero
        /\ AssertionsFailed /\ ~gaveUp /\ ~interrupted => exit = 3
        /\ inv.cmd \in Diffs /\ unmet => exit # 0
        /\ kind # "" /\ err.cause # "token" => exit \in ExitOf(kind)
==============================================================================
