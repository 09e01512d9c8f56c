----------------------------- MODULE ConfigStore -----------------------------
(***************************************************************************)
(* The configuration file, its lock and the OS keyring, as several ofga    *)
(* processes use them: internal/config (config.go, secrets.go), the lock   *)
(* of internal/filelock, and the commands of internal/command/profiles and *)
(* internal/command/configcmd/init.go that change a profile's credentials. *)
(*                                                                         *)
(* A process loads the file, edits its copy in memory, and saves it: takes *)
(* the lock, compares the file with the version it loaded, moves plaintext *)
(* secrets into the keyring, replaces the file by a rename, and deletes    *)
(* the credentials the edit made obsolete.  A save may fail at every call  *)
(* it makes, and a process may die between any two.                        *)
(*                                                                         *)
(* Abstractions.  A file's content stands for its own SHA-256 digest.  A   *)
(* profile is its secret fields; `use' stands for the edits of fields      *)
(* that hold no secret.  Slots are the (profile, field) pairs that name a  *)
(* keyring account.  Profile.Method is left out: it selects which fields a *)
(* connection reads, never which ones are stored or deleted.               *)
(***************************************************************************)
EXTENDS Naturals, Sequences, FiniteSets

CONSTANTS
    Procs,        \* ofga processes that share one configuration file
    Profiles,     \* profile names
    Fields,       \* the secret field names (secretFieldNames)
    Token,        \* the field of the bearer token
    Secrets,      \* values a user may supply for a secret
    DefaultName,  \* the profile of a fresh configuration, "default"
    None,         \* the empty string: no value
    Sentinel,     \* keyringSentinel, written in the file for a managed secret
    NoFile,       \* the configuration file does not exist
    Broken,       \* the file cannot be parsed
    NoProc,       \* the lock is free
    Legacy,       \* what an old release left in the unscoped accounts
    EmptyInputs,  \* TRUE if users may supply an empty value for a secret
    MaxOps, MaxFaults, MaxCrashes, \* bounds of an instance
    MaxOutside,   \* bound: edits by hand and copies of legacy secrets
    MaxTroubles   \* bound: failures, deaths and those together

Slots == Profiles \X Fields

ASSUME ConfigAssumption ==
    /\ Token \in Fields /\ None \notin Fields /\ DefaultName \in Profiles
    /\ {None, Sentinel} \cap Secrets = {} /\ None # Sentinel
    /\ NoProc \notin Procs
    /\ Legacy \in [Slots -> Secrets \cup {None}]
    /\ EmptyInputs \in BOOLEAN
    /\ {MaxOps, MaxFaults, MaxCrashes, MaxOutside, MaxTroubles} \subseteq Nat

(* What a field of Auth may hold, and the document of type Config. *)
Values == {None, Sentinel} \cup Secrets

Config == [active   : Profiles,
           profiles : SUBSET Profiles,
           auth     : [Slots -> Values],
           pending  : SUBSET Slots]

(* A model value outside Config, so that the two kinds never compare equal. *)
Contents == Config \cup {NoFile, Broken}

ASSUME ContentAssumption == NoFile \notin Config /\ Broken \notin Config /\ NoFile # Broken

VARIABLES
    file,      \* the configuration file on disk
    keyring,   \* the scoped accounts of the OS keyring
    lock,      \* the process that holds <path>.lock
    pc,        \* where each process is
    cfg,       \* its Config value
    fp,        \* fingerprint and existed: the version it last read or wrote
    loadErr,   \* Config.loadErr is set
    task,      \* the save in progress: its kind and the copy to restore
    staged,    \* stagedSecret values, the newest first
    todo,      \* pending cleanups the retry loop has still to visit
    kept,      \* pending cleanups the loop could not finish (remaining)
    legacyVal, \* a legacy value readSecret has read and not yet copied
    committed, \* history: the secret the file's sentinel was saved with
    tainted,   \* history: slots spoilt by a crash, a failed rollback, an editor
               \* or a copy from a legacy account that a save overtook
    touched,   \* history: the file was edited by hand since the check
    spent      \* how much of each bound is used

vars == <<file, keyring, lock, pc, cfg, fp, loadErr, task, staged, todo, kept,
          legacyVal, committed, tainted, touched, spent>>

disk    == <<file, committed, tainted, touched>>
locals  == <<cfg, fp, loadErr>>
saving  == <<task, staged, todo, kept>>

States == {"exited", "ready", "lock", "verify", "stage", "rollback", "sync",
           "clean", "copy"}
Critical == {"verify", "stage", "rollback", "sync", "clean"}

Bounds == {"ops", "faults", "crashes", "outside"}
Limit == [b \in Bounds |-> CASE b = "ops" -> MaxOps [] b = "faults" -> MaxFaults
                            [] b = "crashes" -> MaxCrashes [] b = "outside" -> MaxOutside]

NoAuth == [s \in Slots |-> None]
NewConfig == [active |-> DefaultName, profiles |-> {DefaultName},
              auth |-> NoAuth, pending |-> {}]
NoTask == [kind |-> "none", fields |-> {}, prev |-> NewConfig]
Tasks == [kind   : {"none", "save", "retry", "record"},
          fields : SUBSET Slots,
          prev   : Config]

Stagings == [slot : Slots, original : Secrets, old : Secrets \cup {None}]

(* The file an old release leaves: its managed secrets are in the unscoped *)
(* accounts, which profile.field names for every configuration.            *)
HasLegacy == \E s \in Slots : Legacy[s] # None
UpgradedConfig ==
    [NewConfig EXCEPT
        !.profiles = {DefaultName} \cup {s[1] : s \in {t \in Slots : Legacy[t] # None}},
        !.auth = [s \in Slots |-> IF Legacy[s] = None THEN None ELSE Sentinel]]

Init ==
    /\ file = IF HasLegacy THEN UpgradedConfig ELSE NoFile
    /\ keyring = NoAuth
    /\ lock = NoProc
    /\ pc = [p \in Procs |-> "exited"]
    /\ cfg = [p \in Procs |-> NewConfig]
    /\ fp = [p \in Procs |-> NoFile]
    /\ loadErr = [p \in Procs |-> FALSE]
    /\ task = [p \in Procs |-> NoTask]
    /\ staged = [p \in Procs |-> <<>>]
    /\ todo = [p \in Procs |-> {}]
    /\ kept = [p \in Procs |-> {}]
    /\ legacyVal = [p \in Procs |-> <<>>]
    /\ committed = Legacy
    /\ tainted = {}
    /\ touched = [p \in Procs |-> FALSE]
    /\ spent = [b \in Bounds |-> 0]

(* What an instance bounds is counted: an action that spends waits for room. *)
Troubles == spent["faults"] + spent["crashes"] + spent["outside"]
Spend(b) ==
    /\ spent[b] < Limit[b]
    /\ b = "ops" \/ Troubles < MaxTroubles
    /\ spent' = [spent EXCEPT ![b] = @ + 1]
Fault == Spend("faults")
Goto(p, label) == pc' = [pc EXCEPT ![p] = label]
SetCfg(p, c) == cfg' = [cfg EXCEPT ![p] = c]

-------------------------------------------------------------------------------
(* Starting, ending and dying.                                             *)

(* LoadFrom: a missing file gives the default document; one that cannot be *)
(* parsed gives it too, with the error every later save reports.           *)
Load(p) ==
    /\ pc[p] = "exited"
    /\ Goto(p, "ready")
    /\ SetCfg(p, IF file \in {NoFile, Broken} THEN NewConfig ELSE file)
    /\ fp' = [fp EXCEPT ![p] = file]
    /\ loadErr' = [loadErr EXCEPT ![p] = file = Broken]
    /\ UNCHANGED <<disk, keyring, lock, saving, legacyVal, spent>>

(* A process that is gone has no memory; its place is free for a new one.  *)
Forget(p) ==
    /\ Goto(p, "exited")
    /\ SetCfg(p, NewConfig)
    /\ fp' = [fp EXCEPT ![p] = NoFile]
    /\ loadErr' = [loadErr EXCEPT ![p] = FALSE]
    /\ task' = [task EXCEPT ![p] = NoTask]
    /\ staged' = [staged EXCEPT ![p] = <<>>]
    /\ todo' = [todo EXCEPT ![p] = {}]
    /\ kept' = [kept EXCEPT ![p] = {}]
    /\ legacyVal' = [legacyVal EXCEPT ![p] = <<>>]

Exit(p) ==
    /\ pc[p] = "ready"
    /\ Forget(p)
    /\ UNCHANGED <<disk, keyring, lock, spent>>

(* The kernel drops a dead process's lock; nothing undoes its keyring      *)
(* writes.                                                                 *)
StagedSlots(p) == {staged[p][i].slot : i \in 1..Len(staged[p])}
Crash(p) ==
    /\ pc[p] \notin {"exited", "ready"}
    /\ Spend("crashes")
    /\ Forget(p)
    /\ lock' = IF lock = p THEN NoProc ELSE lock
    /\ tainted' = tainted \cup StagedSlots(p)
    /\ UNCHANGED <<file, keyring, committed, touched>>

(* The user edits the file with a text editor, which takes no lock: deletes *)
(* it, breaks it, or pastes a secret into a profile.                        *)
HandEdits ==
    {NoFile, Broken} \cup
    (IF file \in {NoFile, Broken} THEN {}
     ELSE {[file EXCEPT !.auth[s] = v] :
              s \in {t \in Slots : t[1] \in file.profiles}, v \in Secrets})

HandEdit ==
    /\ Spend("outside")
    /\ file' \in HandEdits
    /\ tainted' = tainted \cup
           {s \in Slots : file' \in {NoFile, Broken} \/ file'.auth[s] \in Secrets}
    /\ touched' = [p \in Procs |-> TRUE]
    /\ UNCHANGED <<keyring, committed, lock, pc, locals, saving, legacyVal>>

-------------------------------------------------------------------------------
(* The commands: an edit in memory, then a call that saves it.             *)

ConfiguredFields(c, n) == {s \in Slots : s[1] = n /\ c.auth[s] # None}

(* authForMethod keeps the secret the method uses and drops the others; no  *)
(* field is kept for the method "none".                                     *)
AuthForMethod(c, n, kept_) ==
    [c EXCEPT !.auth = [s \in Slots |->
        IF s[1] = n /\ s[2] # kept_ THEN None ELSE c.auth[s]]]
ClearAuth(c, n) == AuthForMethod(c, n, None)
SetField(c, n, f, v) == [c EXCEPT !.auth[<<n, f>>] = v]

Inputs == Secrets \cup (IF EmptyInputs THEN {None} ELSE {})

(* The command has changed the copy to c and saves it: with Save, or with   *)
(* SaveWithSecretCleanup for the given fields if there are any.             *)
Command(p, c, kind, fields) ==
    /\ pc[p] = "ready"
    /\ Spend("ops")
    /\ Goto(p, "lock")
    /\ SetCfg(p, c)
    /\ task' = [task EXCEPT ![p] = [kind |-> kind, fields |-> fields, prev |-> cfg[p]]]
    /\ UNCHANGED <<disk, keyring, lock, fp, staged, todo, kept, legacyVal>>

Edit(p, c, fields) == Command(p, c, "save", fields) /\ UNCHANGED loadErr

(* ofga profiles use                                                        *)
UseProfile(p, n) ==
    /\ n \in cfg[p].profiles
    /\ Edit(p, [cfg[p] EXCEPT !.active = n], {})

(* ofga profiles set token, set auth_method: fields of the old method go.   *)
SetToken(p, n, v) ==
    /\ n \in cfg[p].profiles
    /\ Edit(p, SetField(AuthForMethod(cfg[p], n, Token), n, Token, v),
            ConfiguredFields(cfg[p], n))

SetAuthMethod(p, n, f) ==
    /\ n \in cfg[p].profiles
    /\ Edit(p, AuthForMethod(cfg[p], n, f), ConfiguredFields(cfg[p], n))

(* ofga profiles set client_secret, set private_key: a plain Save.          *)
SetSecretField(p, n, f, v) ==
    /\ n \in cfg[p].profiles
    /\ f # Token
    /\ Edit(p, SetField(cfg[p], n, f, v), {})

(* ofga profiles unset <secret>, unset auth                                 *)
UnsetField(p, n, f) ==
    /\ n \in cfg[p].profiles
    /\ Edit(p, SetField(cfg[p], n, f, None),
            ConfiguredFields(cfg[p], n) \cap {<<n, f>>})

UnsetAuth(p, n) ==
    /\ n \in cfg[p].profiles
    /\ Edit(p, ClearAuth(cfg[p], n), ConfiguredFields(cfg[p], n))

(* ofga profiles add, with --use if it is to become the active one          *)
AddProfile(p, n, f, v, activate) ==
    /\ n \notin cfg[p].profiles
    /\ Edit(p, [SetField(cfg[p], n, f, v) EXCEPT
                    !.profiles = @ \cup {n},
                    !.active = IF activate THEN n ELSE @], {})

(* ofga profiles remove: never the active one; every field is cleaned up.   *)
RemoveProfile(p, n) ==
    /\ n \in cfg[p].profiles
    /\ n # cfg[p].active
    /\ Edit(p, [ClearAuth(cfg[p], n) EXCEPT !.profiles = @ \ {n}],
            {s \in Slots : s[1] = n})

(* ofga init: configures a profile from nothing and makes it active; it is  *)
(* the one command that may replace a file that did not load.               *)
InitProfile(p, n, v) ==
    /\ Command(p, [SetField(ClearAuth(cfg[p], n), n, Token, v) EXCEPT
                       !.profiles = @ \cup {n}, !.active = n], "save",
               IF n \in cfg[p].profiles THEN ConfiguredFields(cfg[p], n) ELSE {})
    /\ loadErr' = [loadErr EXCEPT ![p] = FALSE]

(* ofga profiles cleanup-credentials                                        *)
RetryCleanup(p) == Command(p, cfg[p], "retry", {}) /\ UNCHANGED loadErr

-------------------------------------------------------------------------------
(* A save.                                                                  *)

Finish(p, c) ==
    /\ Goto(p, "ready")
    /\ SetCfg(p, c)
    /\ task' = [task EXCEPT ![p] = NoTask]

(* lockForSave refuses before it takes the lock; the caller restores.       *)
Refuse(p) ==
    /\ pc[p] = "lock"
    /\ loadErr[p]
    /\ Finish(p, task[p].prev)
    /\ UNCHANGED <<disk, keyring, lock, fp, loadErr, staged, todo, kept, legacyVal, spent>>

MutantQueue(c, fields) == c
QueueCleanup(c, fields) == [c EXCEPT !.pending = @ \cup fields]

(* The exclusive flock of <path>.lock.                                      *)
MutantNoLock == TRUE
LockFree == lock = NoProc

Acquire(p) ==
    /\ pc[p] = "lock"
    /\ ~loadErr[p]
    /\ LockFree
    /\ lock' = p
    /\ Goto(p, "verify")
    /\ SetCfg(p, QueueCleanup(cfg[p], task[p].fields))
    /\ UNCHANGED <<disk, keyring, fp, loadErr, saving, legacyVal, spent>>

(* RetryCredentialCleanup with nothing pending returns under the lock.      *)
NothingPending(p) == task[p].kind = "retry" /\ cfg[p].pending = {}

SkipRetry(p) ==
    /\ pc[p] = "verify"
    /\ NothingPending(p)
    /\ lock' = NoProc
    /\ Finish(p, cfg[p])
    /\ UNCHANGED <<disk, keyring, fp, loadErr, staged, todo, kept, legacyVal, spent>>

(* saveLocked goes on only if the file is still the version this process    *)
(* read or wrote last, "no file" being a version too.                       *)
MutantNoCheck(p) == TRUE
Unchanged(p) == file = fp[p]

Verify(p) ==
    /\ pc[p] = "verify"
    /\ ~NothingPending(p)
    /\ Goto(p, IF Unchanged(p) THEN "stage" ELSE "rollback")
    /\ touched' = [touched EXCEPT ![p] = FALSE]
    /\ UNCHANGED <<file, committed, tainted, keyring, lock, locals, saving, legacyVal, spent>>

(* The plaintext secrets still to be moved into the keyring.                *)
Unstaged(c) == {s \in Slots : s[1] \in c.profiles /\ c.auth[s] \in Secrets}

Stage(p, s) ==
    /\ pc[p] = "stage"
    /\ s \in Unstaged(cfg[p])
    /\ keyring' = [keyring EXCEPT ![s] = cfg[p].auth[s]]
    /\ staged' = [staged EXCEPT ![p] =
           <<[slot |-> s, original |-> cfg[p].auth[s], old |-> keyring[s]]>> \o @]
    /\ SetCfg(p, [cfg[p] EXCEPT !.auth[s] = Sentinel])
    /\ UNCHANGED <<disk, lock, pc, fp, loadErr, task, todo, kept, legacyVal, spent>>

(* Reading the file, probing, reading or writing the keyring, or writing,   *)
(* syncing or renaming the temporary file failed.                           *)
SaveFault(p) ==
    /\ pc[p] \in {"verify", "stage"}
    /\ ~(pc[p] = "verify" /\ NothingPending(p))
    /\ Fault
    /\ Goto(p, "rollback")
    /\ UNCHANGED <<disk, keyring, lock, locals, saving, legacyVal>>

(* rollbackStagedSecrets, one entry: what the account held is put back, and *)
(* the document gets its plaintext again whether or not that worked.        *)
MutantRestored(e) == keyring
Restored(e) == [keyring EXCEPT ![e.slot] = e.old]

Unstage(p) ==
    /\ staged' = [staged EXCEPT ![p] = Tail(@)]
    /\ SetCfg(p, [cfg[p] EXCEPT !.auth[Head(staged[p]).slot] = Head(staged[p]).original])
    /\ UNCHANGED <<file, committed, touched, lock, pc, fp, loadErr, task, todo, kept, legacyVal>>

Rollback(p) ==
    /\ pc[p] = "rollback"
    /\ staged[p] # <<>>
    /\ keyring' = Restored(Head(staged[p]))
    /\ Unstage(p)
    /\ UNCHANGED <<tainted, spent>>

RollbackFault(p) ==
    /\ pc[p] = "rollback"
    /\ staged[p] # <<>>
    /\ Fault
    /\ tainted' = tainted \cup {Head(staged[p]).slot}
    /\ Unstage(p)
    /\ UNCHANGED keyring

(* The save failed before the rename: the command restores its copy.        *)
RestoredCopy(p) == task[p].prev

MutantRejected(p) ==
    /\ pc[p] = "rollback"
    /\ staged[p] = <<>>
    /\ Finish(p, RestoredCopy(p))
    /\ UNCHANGED <<disk, keyring, lock, fp, loadErr, staged, todo, kept, legacyVal, spent>>

Rejected(p) ==
    /\ pc[p] = "rollback"
    /\ staged[p] = <<>>
    /\ lock' = NoProc
    /\ Finish(p, RestoredCopy(p))
    /\ UNCHANGED <<disk, keyring, fp, loadErr, staged, todo, kept, legacyVal, spent>>

(* The temporary file is complete and the rename replaces the old one.      *)
StagedAt(p, s) == {i \in 1..Len(staged[p]) : staged[p][i].slot = s}
SavedSecrets(p) == [s \in Slots |->
    IF StagedAt(p, s) # {} THEN staged[p][CHOOSE i \in StagedAt(p, s) : TRUE].original
    ELSE IF cfg[p].auth[s] = Sentinel THEN committed[s] ELSE None]

Commit(p) ==
    /\ pc[p] = "stage"
    /\ Unstaged(cfg[p]) = {}
    /\ file' = cfg[p]
    /\ fp' = [fp EXCEPT ![p] = cfg[p]]
    /\ committed' = SavedSecrets(p)
    /\ tainted' = tainted \ {s \in StagedSlots(p) : keyring[s] = SavedSecrets(p)[s]}
    /\ staged' = [staged EXCEPT ![p] = <<>>]
    /\ Goto(p, "sync")
    /\ UNCHANGED <<touched, keyring, lock, cfg, loadErr, task, todo, kept, legacyVal, spent>>

(* The directory is synced.  A save with fields to clean up, or a retry,    *)
(* goes on to delete them; every other one is done.                         *)
CleansUp(p) == task[p].kind = "retry" \/ task[p].fields # {}

SyncDir(p) ==
    /\ pc[p] = "sync"
    /\ IF CleansUp(p)
         THEN /\ Goto(p, "clean")
              /\ todo' = [todo EXCEPT ![p] = cfg[p].pending]
              /\ UNCHANGED <<lock, cfg, task>>
         ELSE /\ lock' = NoProc
              /\ Finish(p, cfg[p])
              /\ UNCHANGED todo
    /\ UNCHANGED <<disk, keyring, fp, loadErr, staged, kept, legacyVal, spent>>

(* committedSaveError: the file is replaced but may not survive a system    *)
(* crash, so no credential is deleted.                                      *)
SyncFault(p) ==
    /\ pc[p] = "sync"
    /\ Fault
    /\ lock' = NoProc
    /\ Finish(p, cfg[p])
    /\ UNCHANGED <<disk, keyring, fp, loadErr, staged, todo, kept, legacyVal>>

(* retryCredentialCleanupLocked: the loop over the pending cleanups.        *)
MutantUnused(c, s) == FALSE
ProfileUsesSecret(c, s) == s[1] \in c.profiles /\ c.auth[s] # None

DeleteSecret(p, s) ==
    /\ pc[p] = "clean"
    /\ s \in todo[p]
    /\ todo' = [todo EXCEPT ![p] = @ \ {s}]
    /\ keyring' = IF ProfileUsesSecret(cfg[p], s) THEN keyring
                  ELSE [keyring EXCEPT ![s] = None]
    /\ UNCHANGED <<disk, lock, pc, locals, task, staged, kept, legacyVal, spent>>

DeleteFault(p, s) ==
    /\ pc[p] = "clean"
    /\ s \in todo[p]
    /\ ~ProfileUsesSecret(cfg[p], s)
    /\ Fault
    /\ todo' = [todo EXCEPT ![p] = @ \ {s}]
    /\ kept' = [kept EXCEPT ![p] = @ \cup {s}]
    /\ UNCHANGED <<disk, keyring, lock, pc, locals, task, staged, legacyVal>>

(* The loop is done: what is left is recorded by a second save under the    *)
(* same lock, which restores the old list if it fails.                      *)
CleanupDone(p) ==
    /\ pc[p] = "clean"
    /\ todo[p] = {}
    /\ IF kept[p] = cfg[p].pending
         THEN /\ lock' = NoProc
              /\ Finish(p, cfg[p])
         ELSE /\ Goto(p, "verify")
              /\ SetCfg(p, [cfg[p] EXCEPT !.pending = kept[p]])
              /\ task' = [task EXCEPT ![p] = [kind |-> "record", fields |-> {}, prev |-> cfg[p]]]
              /\ UNCHANGED lock
    /\ kept' = [kept EXCEPT ![p] = {}]
    /\ UNCHANGED <<disk, keyring, fp, loadErr, staged, todo, legacyVal, spent>>

-------------------------------------------------------------------------------
(* Resolve reads a managed secret without the lock.                         *)

(* What a reader finds for a slot: the scoped account, else the legacy one. *)
Lookup(s) == IF keyring[s] # None THEN keyring[s] ELSE Legacy[s]

ReadLegacy(p, s) ==
    /\ pc[p] = "ready"
    /\ s[1] \in cfg[p].profiles /\ cfg[p].auth[s] = Sentinel
    /\ keyring[s] = None /\ Legacy[s] # None
    /\ Spend("outside")
    /\ legacyVal' = [legacyVal EXCEPT ![p] = <<s, Legacy[s]>>]
    /\ Goto(p, "copy")
    /\ UNCHANGED <<disk, keyring, lock, locals, saving>>

(* The copy into the scoped account ignores whether it worked.  Without the *)
(* lock, a save may have replaced or removed the secret since it was read.  *)
Overtaken(s) == keyring[s] # None \/ file \notin Config \/ file.auth[s] # Sentinel
CopyLegacy(p) ==
    /\ pc[p] = "copy"
    /\ keyring' = [keyring EXCEPT ![legacyVal[p][1]] = legacyVal[p][2]]
    /\ legacyVal' = [legacyVal EXCEPT ![p] = <<>>]
    /\ tainted' = IF Overtaken(legacyVal[p][1]) THEN tainted \cup {legacyVal[p][1]} ELSE tainted
    /\ Goto(p, "ready")
    /\ UNCHANGED <<file, committed, touched, lock, locals, saving, spent>>

CopyFault(p) ==
    /\ pc[p] = "copy"
    /\ Fault
    /\ legacyVal' = [legacyVal EXCEPT ![p] = <<>>]
    /\ Goto(p, "ready")
    /\ UNCHANGED <<disk, keyring, lock, locals, saving>>

-------------------------------------------------------------------------------
Edits(p) ==
    \/ \E n \in Profiles :
          \/ UseProfile(p, n)
          \/ UnsetAuth(p, n)
          \/ RemoveProfile(p, n)
          \/ \E v \in Secrets \cup {None} : SetToken(p, n, v) \/ InitProfile(p, n, v)
          \/ \E f \in Fields : SetAuthMethod(p, n, f) \/ UnsetField(p, n, f)
          \/ \E f \in Fields, v \in Inputs : SetSecretField(p, n, f, v)
          \/ \E f \in Fields, v \in Secrets \cup {None}, activate \in BOOLEAN :
                AddProfile(p, n, f, v, activate)
    \/ RetryCleanup(p)

(* The steps of a save that are a process's own, without the failures.      *)
SaveStep(p) ==
    \/ SkipRetry(p) \/ Verify(p) \/ Commit(p) \/ SyncDir(p) \/ CleanupDone(p)
    \/ Rollback(p) \/ Rejected(p)
    \/ \E s \in Slots : Stage(p, s) \/ DeleteSecret(p, s)

SaveFailure(p) ==
    \/ SaveFault(p) \/ RollbackFault(p) \/ SyncFault(p)
    \/ \E s \in Slots : DeleteFault(p, s)

Resolve(p) == CopyLegacy(p) \/ CopyFault(p) \/ \E s \in Slots : ReadLegacy(p, s)

Next ==
    \/ \E p \in Procs :
          \/ Load(p) \/ Exit(p) \/ Crash(p)
          \/ Edits(p) \/ Refuse(p) \/ Acquire(p)
          \/ SaveStep(p) \/ SaveFailure(p) \/ Resolve(p)
    \/ HandEdit

Spec == Init /\ [][Next]_vars

-------------------------------------------------------------------------------
(* Properties.                                                              *)

TypeOK ==
    /\ file \in Contents
    /\ keyring \in [Slots -> Secrets \cup {None}]
    /\ lock \in Procs \cup {NoProc}
    /\ pc \in [Procs -> States]
    /\ cfg \in [Procs -> Config]
    /\ fp \in [Procs -> Contents]
    /\ loadErr \in [Procs -> BOOLEAN]
    /\ task \in [Procs -> Tasks]
    /\ staged \in [Procs -> Seq(Stagings)]
    /\ todo \in [Procs -> SUBSET Slots]
    /\ kept \in [Procs -> SUBSET Slots]
    /\ legacyVal \in [Procs -> {<<>>} \cup (Slots \X Secrets)]
    /\ committed \in [Slots -> Secrets \cup {None}]
    /\ tainted \in SUBSET Slots
    /\ touched \in [Procs -> BOOLEAN]
    /\ spent \in [Bounds -> Nat]

(* A save replaces exactly the version its process loaded: no other        *)
(* process's save is ever overwritten unseen.  The one window is a text    *)
(* editor, which takes no lock, writing between the check and the rename.  *)
Commits(p) == pc[p] = "stage" /\ pc'[p] = "sync"
NoLostUpdate ==
    [][\A p \in Procs : Commits(p) => file = fp[p] \/ touched[p]]_vars

(* Every managed secret the file names can be read, at every moment of     *)
(* every save, cleanup, rollback and crash: secrets are stored before the  *)
(* file names them and deleted only after it has stopped.                  *)
ManagedSecretsBacked ==
    file \in Config => \A s \in Slots : file.auth[s] = Sentinel => Lookup(s) # None

(* Between saves, a managed secret is the one its file was saved with: a   *)
(* rejected save leaves no trace in the keyring.                           *)
CommittedSecretIntact ==
    lock = NoProc /\ file \in Config =>
        \A s \in Slots : file.auth[s] = Sentinel => Lookup(s) = committed[s] \/ s \in tainted

(* Between saves, a credential no profile uses is on the file's list of    *)
(* pending cleanups: whatever failed, cleanup-credentials can remove it.   *)
OrphansTracked ==
    lock = NoProc /\ file \in Config =>
        \A s \in Slots : keyring[s] # None /\ file.auth[s] # Sentinel =>
            s \in file.pending \/ s \in tainted

(* The credentials are accounted for, through failures, deaths and retries: *)
(* the ones in use exist and are the ones saved, the others are queued.     *)
SecretsAccountedFor == ManagedSecretsBacked /\ CommittedSecretIntact /\ OrphansTracked

(* The file is a versioned register: see ConfigRegister.  A save is in     *)
(* progress there from the check that succeeded to the rename.             *)
Saver == IF lock # NoProc /\ pc[lock] = "stage" THEN lock ELSE NoProc
Register == INSTANCE ConfigRegister WITH content <- file, view <- fp, saver <- Saver
ImplementsRegister == Register!Spec

(* The lock belongs to the one process that is inside a save: each way out *)
(* of a save gives it back, and nobody saves without it.                   *)
LockHolder == \A p \in Procs : pc[p] \in Critical <=> lock = p
==============================================================================
