-------------------------- MODULE ConfigStoreProofs --------------------------
(***************************************************************************)
(* Theorems about ConfigStore, for every set of processes, profiles,       *)
(* fields and secrets, whatever old releases left and however many         *)
(* commands, failures, crashes and hand edits happen.  The last part       *)
(* follows the credentials between the file, the keyring and the copies    *)
(* that processes hold.                                                    *)
(***************************************************************************)
EXTENDS ConfigStore, TLAPS

(* What the check established still holds when the rename happens, unless  *)
(* the user edited the file meanwhile.                                     *)
CheckHolds == \A p \in Procs : pc[p] = "stage" => file = fp[p] \/ touched[p]

(* A process about to copy a legacy value holds one.                       *)
CopyPending == \A p \in Procs : pc[p] = "copy" => legacyVal[p] # <<>>

TypeInv == TypeOK /\ CopyPending
IInv == TypeInv /\ LockHolder /\ CheckHolds

-------------------------------------------------------------------------------
(* The documents the commands build are documents.                         *)

LEMMA NewConfigType == NewConfig \in Config
BY ConfigAssumption DEF NewConfig, NoAuth, Config, Values

LEMMA NoTaskType == NoTask \in Tasks
BY NewConfigType DEF NoTask, Tasks

LEMMA AuthForMethodType ==
    ASSUME NEW c \in Config, NEW n \in Profiles, NEW k
    PROVE  AuthForMethod(c, n, k) \in Config
BY DEF AuthForMethod, Config, Slots, Values

LEMMA ClearAuthType ==
    ASSUME NEW c \in Config, NEW n \in Profiles
    PROVE  ClearAuth(c, n) \in Config
BY AuthForMethodType DEF ClearAuth

LEMMA SetFieldType ==
    ASSUME NEW c \in Config, NEW n \in Profiles, NEW f \in Fields, NEW v \in Values
    PROVE  SetField(c, n, f, v) \in Config
BY DEF SetField, Config, Slots

LEMMA ConfiguredFieldsType ==
    ASSUME NEW c, NEW n
    PROVE  ConfiguredFields(c, n) \in SUBSET Slots
BY DEF ConfiguredFields

LEMMA QueueCleanupType ==
    ASSUME NEW c \in Config, NEW S \in SUBSET Slots
    PROVE  QueueCleanup(c, S) \in Config
BY DEF QueueCleanup, Config

LEMMA UpgradedType == UpgradedConfig \in Config
<1>1. {s[1] : s \in {t \in Slots : Legacy[t] # None}} \subseteq Profiles
  BY DEF Slots
<1>2. {DefaultName} \cup {s[1] : s \in {t \in Slots : Legacy[t] # None}} \in SUBSET Profiles
  BY <1>1, ConfigAssumption
<1>3. [s \in Slots |-> IF Legacy[s] = None THEN None ELSE Sentinel] \in [Slots -> Values]
  BY DEF Values
<1> QED
  BY <1>2, <1>3, NewConfigType DEF UpgradedConfig, Config

LEMMA InitType == Init => TypeInv
BY UpgradedType, NewConfigType, NoTaskType, ConfigAssumption
   DEF Init, TypeInv, Bounds, TypeOK, CopyPending, NoAuth, Contents, States

-------------------------------------------------------------------------------
(* Each action preserves the types.                                        *)

LEMMA CommandType ==
    ASSUME TypeInv, NEW p \in Procs, NEW c \in Config, NEW kind \in {"save", "retry"},
           NEW fields \in SUBSET Slots, Command(p, c, kind, fields),
           loadErr' \in [Procs -> BOOLEAN]
    PROVE  TypeInv'
<1> USE DEF Command
<1>1. pc' \in [Procs -> States] /\ \A q \in Procs : pc'[q] = "copy" => pc[q] = "copy"
  BY DEF TypeInv, TypeOK, Goto, States
<1>2. cfg' \in [Procs -> Config]
  BY DEF TypeInv, TypeOK, SetCfg
<1>3. task' \in [Procs -> Tasks]
  <2>1. [kind |-> kind, fields |-> fields, prev |-> cfg[p]] \in Tasks
    BY DEF TypeInv, TypeOK, Tasks
  <2> QED
    BY <2>1 DEF TypeInv, TypeOK
<1>4. spent' \in [Bounds -> Nat]
  BY DEF TypeInv, TypeOK, Spend, Bounds
<1> QED
  BY <1>1, <1>2, <1>3, <1>4 DEF TypeInv, TypeOK, CopyPending, disk

LEMMA EditType ==
    ASSUME TypeInv, NEW p \in Procs, NEW c \in Config, NEW fields \in SUBSET Slots,
           Edit(p, c, fields)
    PROVE  TypeInv'
BY CommandType DEF Edit, TypeInv, TypeOK

LEMMA EditsType ==
    ASSUME TypeInv, NEW p \in Procs, Edits(p)
    PROVE  TypeInv'
<1>0. cfg[p] \in Config /\ Token \in Fields /\ Inputs \subseteq Values
      /\ Secrets \cup {None} \subseteq Values
  BY ConfigAssumption DEF TypeInv, TypeOK, Inputs, Values
<1>1. ASSUME NEW n \in Profiles, UseProfile(p, n) PROVE TypeInv'
  <2>1. [cfg[p] EXCEPT !.active = n] \in Config
    BY <1>0 DEF Config
  <2> QED
    BY <2>1, <1>1, EditType DEF UseProfile
<1>2. ASSUME NEW n \in Profiles, UnsetAuth(p, n) PROVE TypeInv'
  BY <1>0, <1>2, EditType, ClearAuthType, ConfiguredFieldsType DEF UnsetAuth
<1>3. ASSUME NEW n \in Profiles, RemoveProfile(p, n) PROVE TypeInv'
  <2>1. ClearAuth(cfg[p], n) \in Config
    BY <1>0, ClearAuthType
  <2>2. [ClearAuth(cfg[p], n) EXCEPT !.profiles = @ \ {n}] \in Config
    BY <2>1 DEF Config
  <2> QED
    BY <2>2, <1>3, EditType DEF RemoveProfile
<1>4. ASSUME NEW n \in Profiles, NEW v \in Secrets \cup {None}, SetToken(p, n, v) PROVE TypeInv'
  <2>1. AuthForMethod(cfg[p], n, Token) \in Config
    BY <1>0, AuthForMethodType
  <2>2. SetField(AuthForMethod(cfg[p], n, Token), n, Token, v) \in Config
    BY <1>0, <2>1, SetFieldType
  <2> QED
    BY <2>2, <1>4, EditType, ConfiguredFieldsType DEF SetToken
<1>5. ASSUME NEW n \in Profiles, NEW v \in Secrets \cup {None}, InitProfile(p, n, v) PROVE TypeInv'
  <2>1. SetField(ClearAuth(cfg[p], n), n, Token, v) \in Config
    BY <1>0, ClearAuthType, SetFieldType
  <2>2. [SetField(ClearAuth(cfg[p], n), n, Token, v) EXCEPT
            !.profiles = @ \cup {n}, !.active = n] \in Config
    BY <2>1 DEF Config
  <2>3. (IF n \in cfg[p].profiles THEN ConfiguredFields(cfg[p], n) ELSE {}) \in SUBSET Slots
    BY ConfiguredFieldsType
  <2> QED
    BY <2>2, <2>3, <1>5, CommandType DEF InitProfile, TypeInv, TypeOK
<1>6. ASSUME NEW n \in Profiles, NEW f \in Fields, SetAuthMethod(p, n, f) PROVE TypeInv'
  BY <1>0, <1>6, EditType, AuthForMethodType, ConfiguredFieldsType DEF SetAuthMethod
<1>7. ASSUME NEW n \in Profiles, NEW f \in Fields, UnsetField(p, n, f) PROVE TypeInv'
  <2>1. ConfiguredFields(cfg[p], n) \cap {<<n, f>>} \in SUBSET Slots
    BY ConfiguredFieldsType
  <2> QED
    BY <2>1, <1>0, <1>7, EditType, SetFieldType DEF UnsetField, Values
<1>8. ASSUME NEW n \in Profiles, NEW f \in Fields, NEW v \in Inputs, SetSecretField(p, n, f, v)
      PROVE TypeInv'
  BY <1>0, <1>8, EditType, SetFieldType DEF SetSecretField
<1>9. ASSUME NEW n \in Profiles, NEW f \in Fields, NEW v \in Secrets \cup {None},
             NEW activate \in BOOLEAN, AddProfile(p, n, f, v, activate)
      PROVE TypeInv'
  <2>1. SetField(cfg[p], n, f, v) \in Config
    BY <1>0, SetFieldType
  <2>2. [SetField(cfg[p], n, f, v) EXCEPT !.profiles = @ \cup {n},
            !.active = IF activate THEN n ELSE @] \in Config
    BY <2>1 DEF Config
  <2> QED
    BY <2>2, <1>9, EditType DEF AddProfile
<1>10. ASSUME RetryCleanup(p) PROVE TypeInv'
  <2>1. Command(p, cfg[p], "retry", {}) /\ loadErr' \in [Procs -> BOOLEAN] /\ {} \in SUBSET Slots
    BY <1>10 DEF RetryCleanup, TypeInv, TypeOK
  <2> QED
    BY <2>1, <1>0, CommandType
<1> QED
  BY <1>1, <1>2, <1>3, <1>4, <1>5, <1>6, <1>7, <1>8, <1>9, <1>10 DEF Edits

LEMMA LifeType ==
    ASSUME TypeInv, NEW p \in Procs, Load(p) \/ Exit(p) \/ Crash(p)
    PROVE  TypeInv'
<1>1. CASE Load(p)
  <2>1. (IF file \in {NoFile, Broken} THEN NewConfig ELSE file) \in Config
    BY NewConfigType DEF TypeInv, TypeOK, Contents
  <2> QED
    BY <1>1, <2>1 DEF Load, Goto, SetCfg, TypeInv, TypeOK, CopyPending, States, disk, saving
<1>2. ASSUME Forget(p)
      PROVE  /\ pc' \in [Procs -> States] /\ cfg' \in [Procs -> Config]
             /\ fp' \in [Procs -> Contents] /\ loadErr' \in [Procs -> BOOLEAN]
             /\ task' \in [Procs -> Tasks] /\ staged' \in [Procs -> Seq(Stagings)]
             /\ todo' \in [Procs -> SUBSET Slots] /\ kept' \in [Procs -> SUBSET Slots]
             /\ legacyVal' \in [Procs -> {<<>>} \cup (Slots \X Secrets)]
             /\ CopyPending'
  BY <1>2, NewConfigType, NoTaskType
     DEF Forget, Goto, SetCfg, TypeInv, TypeOK, CopyPending, States, Contents
<1>3. CASE Exit(p)
  BY <1>2, <1>3 DEF Exit, TypeInv, TypeOK, disk
<1>4. CASE Crash(p)
  <2>1. StagedSlots(p) \subseteq Slots
    <3>1. ASSUME NEW i \in 1..Len(staged[p]) PROVE staged[p][i].slot \in Slots
      <4>1. staged[p][i] \in Stagings
        BY DEF TypeInv, TypeOK
      <4> QED
        BY <4>1 DEF Stagings
    <3> QED
      BY <3>1 DEF StagedSlots
  <2>2. spent' \in [Bounds -> Nat]
    BY <1>4 DEF Crash, Spend, TypeInv, TypeOK, Bounds
  <2> QED
    BY <1>2, <1>4, <2>1, <2>2 DEF Crash, TypeInv, TypeOK
<1> QED
  BY <1>1, <1>3, <1>4

LEMMA FinishType ==
    ASSUME TypeInv, NEW p \in Procs, NEW c \in Config, Finish(p, c)
    PROVE  /\ pc' \in [Procs -> States] /\ cfg' \in [Procs -> Config]
           /\ task' \in [Procs -> Tasks]
           /\ (legacyVal' = legacyVal => CopyPending')
BY NoTaskType DEF Finish, Goto, SetCfg, TypeInv, TypeOK, States, CopyPending

LEMMA FaultType == TypeInv /\ Fault => spent' \in [Bounds -> Nat]
BY DEF Fault, Spend, TypeInv, TypeOK, Bounds

LEMMA LockType ==
    ASSUME TypeInv, NEW p \in Procs, Refuse(p) \/ Acquire(p)
    PROVE  TypeInv'
<1>1. task[p].prev \in Config /\ task[p].fields \in SUBSET Slots /\ cfg[p] \in Config
  BY DEF TypeInv, TypeOK, Tasks
<1>2. CASE Refuse(p)
  BY <1>1, <1>2, FinishType DEF Refuse, TypeInv, TypeOK, disk
<1>3. CASE Acquire(p)
  BY <1>1, <1>3, QueueCleanupType
     DEF Acquire, LockFree, Goto, SetCfg, TypeInv, TypeOK, CopyPending, States, disk, saving
<1> QED
  BY <1>2, <1>3

LEMMA CommitType ==
    ASSUME TypeInv, NEW p \in Procs, Commit(p)
    PROVE  TypeInv'
<1>1. SavedSecrets(p) \in [Slots -> Secrets \cup {None}]
  <2>1. ASSUME NEW s \in Slots, StagedAt(p, s) # {}
        PROVE  staged[p][CHOOSE i \in StagedAt(p, s) : TRUE].original \in Secrets
    <3>1. PICK i \in StagedAt(p, s) : i = CHOOSE j \in StagedAt(p, s) : TRUE
      BY <2>1
    <3>2. staged[p][i] \in Stagings
      BY DEF StagedAt, TypeInv, TypeOK
    <3> QED
      BY <3>1, <3>2 DEF Stagings
  <2> QED
    BY <2>1 DEF SavedSecrets, TypeInv, TypeOK
<1>2. cfg[p] \in Contents
  BY DEF TypeInv, TypeOK, Contents
<1> QED
  BY <1>1, <1>2
     DEF Commit, Goto, TypeInv, TypeOK, CopyPending, States

LEMMA SaveStepType ==
    ASSUME TypeInv, NEW p \in Procs, SaveStep(p)
    PROVE  TypeInv'
<1>0. cfg[p] \in Config /\ task[p].prev \in Config
  BY DEF TypeInv, TypeOK, Tasks
<1>1. CASE SkipRetry(p)
  BY <1>0, <1>1, FinishType DEF SkipRetry, TypeInv, TypeOK, disk
<1>2. CASE Verify(p)
  BY <1>2 DEF Verify, Goto, TypeInv, TypeOK, CopyPending, States, locals, saving
<1>3. CASE Commit(p)
  BY <1>3, CommitType
<1>4. CASE SyncDir(p)
  <2>1. CASE CleansUp(p)
    BY <1>0, <1>4, <2>1
       DEF SyncDir, Goto, TypeInv, TypeOK, CopyPending, States, disk, Config
  <2>2. CASE ~CleansUp(p)
    BY <1>0, <1>4, <2>2, FinishType DEF SyncDir, TypeInv, TypeOK, disk
  <2> QED
    BY <2>1, <2>2
<1>5. CASE CleanupDone(p)
  <2>0. kept' \in [Procs -> SUBSET Slots]
    BY <1>5 DEF CleanupDone, TypeInv, TypeOK
  <2>1. CASE kept[p] = cfg[p].pending
    BY <1>0, <1>5, <2>0, <2>1, FinishType DEF CleanupDone, TypeInv, TypeOK, disk
  <2>2. CASE kept[p] # cfg[p].pending
    <3>1. [cfg[p] EXCEPT !.pending = kept[p]] \in Config
      BY <1>0 DEF Config, TypeInv, TypeOK
    <3>2. [kind |-> "record", fields |-> {}, prev |-> cfg[p]] \in Tasks
      BY <1>0 DEF Tasks
    <3>3. cfg' \in [Procs -> Config]
      BY <1>5, <2>2, <3>1 DEF CleanupDone, SetCfg, TypeInv, TypeOK
    <3>4. task' \in [Procs -> Tasks]
      BY <1>5, <2>2, <3>2 DEF CleanupDone, TypeInv, TypeOK
    <3>5. pc' \in [Procs -> States] /\ lock' = lock /\ CopyPending'
      BY <1>5, <2>2 DEF CleanupDone, Goto, TypeInv, TypeOK, CopyPending, States
    <3> QED
      BY <1>5, <2>0, <3>3, <3>4, <3>5 DEF CleanupDone, TypeInv, TypeOK, disk
  <2> QED
    BY <2>1, <2>2
<1>6. CASE Rollback(p)
  <2>1. Head(staged[p]) \in Stagings /\ Tail(staged[p]) \in Seq(Stagings)
    BY <1>6 DEF Rollback, TypeInv, TypeOK
  <2>2. [cfg[p] EXCEPT !.auth[Head(staged[p]).slot] = Head(staged[p]).original] \in Config
    BY <1>0, <2>1 DEF Config, Stagings, Values
  <2>3. keyring' \in [Slots -> Secrets \cup {None}]
    BY <1>6, <2>1 DEF Rollback, Restored, TypeInv, TypeOK, Stagings
  <2> QED
    BY <1>6, <2>1, <2>2, <2>3
       DEF Rollback, Unstage, SetCfg, TypeInv, TypeOK, CopyPending
<1>7. CASE Rejected(p)
  BY <1>0, <1>7, FinishType DEF Rejected, RestoredCopy, TypeInv, TypeOK, disk
<1>8. ASSUME NEW s \in Slots, Stage(p, s) PROVE TypeInv'
  <2>1. cfg[p].auth[s] \in Secrets
    BY <1>8 DEF Stage, Unstaged
  <2>2. [slot |-> s, original |-> cfg[p].auth[s], old |-> keyring[s]] \in Stagings
    BY <2>1 DEF Stagings, TypeInv, TypeOK
  <2>3. <<[slot |-> s, original |-> cfg[p].auth[s], old |-> keyring[s]]>> \o staged[p] \in Seq(Stagings)
    BY <2>2 DEF TypeInv, TypeOK
  <2>4. [cfg[p] EXCEPT !.auth[s] = Sentinel] \in Config
    BY <1>0 DEF Config, Values
  <2> QED
    BY <1>8, <2>1, <2>3, <2>4
       DEF Stage, SetCfg, TypeInv, TypeOK, CopyPending, disk
<1>9. ASSUME NEW s \in Slots, DeleteSecret(p, s) PROVE TypeInv'
  BY <1>9 DEF DeleteSecret, TypeInv, TypeOK, CopyPending, disk, locals
<1> QED
  BY <1>1, <1>2, <1>3, <1>4, <1>5, <1>6, <1>7, <1>8, <1>9 DEF SaveStep

LEMMA SaveFailureType ==
    ASSUME TypeInv, NEW p \in Procs, SaveFailure(p)
    PROVE  TypeInv'
<1>0. cfg[p] \in Config
  BY DEF TypeInv, TypeOK
<1>1. CASE SaveFault(p)
  BY <1>1, FaultType
     DEF SaveFault, Goto, TypeInv, TypeOK, CopyPending, States, disk, locals, saving
<1>2. CASE RollbackFault(p)
  <2>1. Head(staged[p]) \in Stagings /\ Tail(staged[p]) \in Seq(Stagings)
    BY <1>2 DEF RollbackFault, TypeInv, TypeOK
  <2>2. [cfg[p] EXCEPT !.auth[Head(staged[p]).slot] = Head(staged[p]).original] \in Config
    BY <1>0, <2>1 DEF Config, Stagings, Values
  <2>3. tainted' \in SUBSET Slots /\ spent' \in [Bounds -> Nat]
    BY <1>2, <2>1, FaultType DEF RollbackFault, TypeInv, TypeOK, Stagings
  <2> QED
    BY <1>2, <2>1, <2>2, <2>3
       DEF RollbackFault, Unstage, SetCfg, TypeInv, TypeOK, CopyPending
<1>3. CASE SyncFault(p)
  BY <1>0, <1>3, FinishType, FaultType DEF SyncFault, TypeInv, TypeOK, disk
<1>4. ASSUME NEW s \in Slots, DeleteFault(p, s) PROVE TypeInv'
  BY <1>4, FaultType
     DEF DeleteFault, TypeInv, TypeOK, CopyPending, disk, locals
<1> QED
  BY <1>1, <1>2, <1>3, <1>4 DEF SaveFailure

LEMMA ResolveType ==
    ASSUME TypeInv, NEW p \in Procs, Resolve(p)
    PROVE  TypeInv'
<1>1. ASSUME NEW s \in Slots, ReadLegacy(p, s) PROVE TypeInv'
  <2>1. <<s, Legacy[s]>> \in Slots \X Secrets /\ <<s, Legacy[s]>> # <<>>
    BY <1>1, ConfigAssumption DEF ReadLegacy
  <2>2. spent' \in [Bounds -> Nat]
    BY <1>1 DEF ReadLegacy, TypeInv, TypeOK, Spend, Bounds
  <2> QED
    BY <1>1, <2>1, <2>2
       DEF ReadLegacy, Goto, TypeInv, TypeOK, CopyPending, States, disk, locals, saving
<1>2. CASE CopyLegacy(p)
  <2>1. legacyVal[p] \in Slots \X Secrets
    BY <1>2 DEF CopyLegacy, TypeInv, TypeOK, CopyPending
  <2>2. legacyVal[p][1] \in Slots /\ legacyVal[p][2] \in Secrets
    BY <2>1
  <2>3. keyring' \in [Slots -> Secrets \cup {None}]
    BY <1>2, <2>2 DEF CopyLegacy, TypeInv, TypeOK
  <2>4. tainted' \in SUBSET Slots
    BY <1>2, <2>2 DEF CopyLegacy, TypeInv, TypeOK
  <2> QED
    BY <1>2, <2>3, <2>4
       DEF CopyLegacy, Goto, TypeInv, TypeOK, CopyPending, States, disk, locals, saving
<1>3. CASE CopyFault(p)
  BY <1>3, FaultType
     DEF CopyFault, Goto, TypeInv, TypeOK, CopyPending, States, disk, locals, saving
<1> QED
  BY <1>1, <1>2, <1>3 DEF Resolve

LEMMA HandEditType ==
    ASSUME TypeInv, HandEdit
    PROVE  TypeInv'
<1>1. file' \in Contents
  <2>1. CASE file \in {NoFile, Broken}
    BY <2>1 DEF HandEdit, HandEdits, Contents
  <2>2. CASE file \notin {NoFile, Broken}
    <3>1. ASSUME NEW s \in Slots, NEW v \in Secrets PROVE [file EXCEPT !.auth[s] = v] \in Config
      BY <2>2 DEF TypeInv, TypeOK, Contents, Config, Values
    <3> QED
      BY <2>2, <3>1 DEF HandEdit, HandEdits, Contents
  <2> QED
    BY <2>1, <2>2
<1>2. spent' \in [Bounds -> Nat]
  BY DEF HandEdit, Spend, TypeInv, TypeOK, Bounds
<1> QED
  BY <1>1, <1>2 DEF HandEdit, TypeInv, TypeOK, CopyPending, locals, saving

LEMMA StepType == TypeInv /\ [Next]_vars => TypeInv'
<1> SUFFICES ASSUME TypeInv, [Next]_vars PROVE TypeInv'
  OBVIOUS
<1>1. CASE UNCHANGED vars
  BY <1>1 DEF vars, TypeInv, TypeOK, CopyPending
<1>2. CASE Next
  BY <1>2, LifeType, EditsType, LockType, SaveStepType, SaveFailureType, ResolveType,
     HandEditType DEF Next
<1> QED
  BY <1>1, <1>2

-------------------------------------------------------------------------------
(* The lock, and what the check establishes.                               *)

LEMMA LockHolderStep == TypeInv /\ LockHolder /\ [Next]_vars => LockHolder'
<1> SUFFICES ASSUME TypeInv, LockHolder, [Next]_vars PROVE LockHolder'
  OBVIOUS
<1> USE DEF TypeInv, TypeOK, LockHolder, Critical, Goto, Finish
<1>0. NoProc \notin Procs
  BY ConfigAssumption
<1>1. CASE UNCHANGED vars
  BY <1>1 DEF vars
<1>2. CASE HandEdit
  BY <1>2 DEF HandEdit
<1>3. ASSUME NEW p \in Procs, Load(p) \/ Exit(p) \/ Crash(p) PROVE LockHolder'
  BY <1>0, <1>3 DEF Load, Exit, Crash, Forget
<1>4. ASSUME NEW p \in Procs, Edits(p) PROVE LockHolder'
  <2>1. ASSUME NEW c, NEW kind, NEW fields, Command(p, c, kind, fields) PROVE LockHolder'
    BY <2>1 DEF Command
  <2> QED
    BY <1>4, <2>1 DEF Edits, Edit, UseProfile, UnsetAuth, RemoveProfile, SetToken, InitProfile,
       SetAuthMethod, UnsetField, SetSecretField, AddProfile, RetryCleanup
<1>5. ASSUME NEW p \in Procs, Refuse(p) \/ Acquire(p) PROVE LockHolder'
  BY <1>0, <1>5 DEF Refuse, Acquire, LockFree
<1>6. ASSUME NEW p \in Procs, SaveStep(p) PROVE LockHolder'
  <2>1. CASE SkipRetry(p) \/ Verify(p) \/ Commit(p) \/ Rejected(p)
    BY <1>0, <2>1 DEF SkipRetry, Verify, Commit, Rejected
  <2>2. CASE SyncDir(p) \/ CleanupDone(p)
    BY <1>0, <2>2 DEF SyncDir, CleanupDone
  <2>3. CASE Rollback(p)
    BY <2>3 DEF Rollback, Unstage
  <2>4. ASSUME NEW s \in Slots, Stage(p, s) \/ DeleteSecret(p, s) PROVE LockHolder'
    BY <2>4 DEF Stage, DeleteSecret
  <2> QED
    BY <1>6, <2>1, <2>2, <2>3, <2>4 DEF SaveStep
<1>7. ASSUME NEW p \in Procs, SaveFailure(p) PROVE LockHolder'
  BY <1>0, <1>7 DEF SaveFailure, SaveFault, RollbackFault, Unstage, SyncFault, DeleteFault
<1>8. ASSUME NEW p \in Procs, Resolve(p) PROVE LockHolder'
  BY <1>8 DEF Resolve, ReadLegacy, CopyLegacy, CopyFault
<1> QED
  BY <1>1, <1>2, <1>3, <1>4, <1>5, <1>6, <1>7, <1>8 DEF Next

(* Who may change the file, and who may enter, stay in or leave a save     *)
(* between its check and its rename.                                       *)
Quiet == /\ file' = file /\ fp' = fp /\ touched' = touched
         /\ \A q \in Procs : pc'[q] = "stage" <=> pc[q] = "stage"

LEMMA QuietSteps ==
    ASSUME TypeInv, NEW p \in Procs,
           \/ Edits(p) \/ Refuse(p) \/ Acquire(p) \/ Resolve(p)
           \/ SkipRetry(p) \/ SyncDir(p) \/ CleanupDone(p) \/ Rollback(p) \/ Rejected(p)
           \/ RollbackFault(p) \/ SyncFault(p)
           \/ \E s \in Slots : Stage(p, s) \/ DeleteSecret(p, s) \/ DeleteFault(p, s)
    PROVE  Quiet
<1> USE DEF TypeInv, TypeOK, Quiet, Goto, Finish, disk, locals
<1>1. CASE Edits(p)
  <2>1. ASSUME NEW c, NEW kind, NEW fields, Command(p, c, kind, fields) PROVE Quiet
    BY <2>1 DEF Command
  <2> QED
    BY <1>1, <2>1 DEF Edits, Edit, UseProfile, UnsetAuth, RemoveProfile, SetToken, InitProfile,
       SetAuthMethod, UnsetField, SetSecretField, AddProfile, RetryCleanup
<1>2. CASE Refuse(p) \/ Acquire(p)
  BY <1>2 DEF Refuse, Acquire, LockFree
<1>3. CASE Resolve(p)
  BY <1>3 DEF Resolve, ReadLegacy, CopyLegacy, CopyFault
<1>4. CASE SkipRetry(p) \/ SyncDir(p) \/ CleanupDone(p) \/ SyncFault(p)
  BY <1>4 DEF SkipRetry, SyncDir, CleanupDone, SyncFault
<1>5. CASE Rollback(p) \/ RollbackFault(p) \/ Rejected(p)
  BY <1>5 DEF Rollback, RollbackFault, Unstage, Rejected
<1>6. CASE \E s \in Slots : Stage(p, s) \/ DeleteSecret(p, s) \/ DeleteFault(p, s)
  BY <1>6 DEF Stage, DeleteSecret, DeleteFault
<1> QED
  BY <1>1, <1>2, <1>3, <1>4, <1>5, <1>6

LEMMA CheckHoldsStep == IInv /\ [Next]_vars => CheckHolds'
<1> SUFFICES ASSUME IInv, [Next]_vars PROVE CheckHolds'
  OBVIOUS
<1> USE DEF IInv, TypeInv, TypeOK, LockHolder, CheckHolds, Critical, Goto
<1>1. CASE UNCHANGED vars
  BY <1>1 DEF vars
<1>2. CASE HandEdit
  BY <1>2 DEF HandEdit
<1>3. ASSUME NEW p \in Procs, Load(p) PROVE CheckHolds'
  BY <1>3 DEF Load, disk
<1>4. ASSUME NEW p \in Procs, Exit(p) \/ Crash(p) PROVE CheckHolds'
  BY <1>4 DEF Exit, Crash, Forget, disk
<1>5. ASSUME NEW p \in Procs, Verify(p) PROVE CheckHolds'
  BY <1>5 DEF Verify, Unchanged, locals
<1>6. ASSUME NEW p \in Procs, Commit(p) PROVE CheckHolds'
  BY <1>6 DEF Commit
<1>7. ASSUME NEW p \in Procs, SaveFault(p) PROVE CheckHolds'
  BY <1>7 DEF SaveFault, disk, locals
<1>8. CASE Quiet
  BY <1>8 DEF Quiet
<1> QED
  BY <1>1, <1>2, <1>3, <1>4, <1>5, <1>6, <1>7, <1>8, QuietSteps
     DEF Next, SaveStep, SaveFailure

LEMMA Invariance == Spec => []IInv
<1>1. Init => IInv
  <2> SUFFICES ASSUME Init PROVE IInv
    OBVIOUS
  <2>1. TypeInv
    BY InitType
  <2>2. LockHolder /\ CheckHolds
    BY ConfigAssumption DEF Init, LockHolder, CheckHolds, Critical
  <2> QED
    BY <2>1, <2>2 DEF IInv
<1>2. IInv /\ [Next]_vars => IInv'
  BY StepType, LockHolderStep, CheckHoldsStep DEF IInv
<1> QED
  BY <1>1, <1>2, PTL DEF Spec

(* Every reachable state is well typed: in particular the file is always   *)
(* absent, unreadable by a user's own doing, or a complete document.       *)
THEOREM TypeCorrect == Spec => []TypeOK
<1>1. IInv => TypeOK
  BY DEF IInv, TypeInv
<1> QED
  BY <1>1, Invariance, PTL

(* saveLocked never replaces a version its process has not loaded.         *)
THEOREM SavesLoseNothing == Spec => NoLostUpdate
<1>1. IInv /\ [Next]_vars => [\A p \in Procs : Commits(p) => file = fp[p] \/ touched[p]]_vars
  BY DEF IInv, CheckHolds, Commits
<1> QED
  BY <1>1, Invariance, PTL DEF Spec, NoLostUpdate

(* One process at a time is inside a save, and none leaves it with the lock. *)
THEOREM LockIsGivenBack == Spec => []LockHolder
<1>1. IInv => LockHolder
  BY DEF IInv
<1> QED
  BY <1>1, Invariance, PTL

-------------------------------------------------------------------------------
(* The file, the lock and the fingerprints implement the register.         *)

LEMMA SaverIs ==
    ASSUME TypeInv, LockHolder
    PROVE  /\ Saver \in Procs \cup {NoProc}
           /\ \A p \in Procs : Saver = p <=> pc[p] = "stage"
BY ConfigAssumption DEF TypeInv, TypeOK, LockHolder, Critical, Saver

LEMMA SaverPrimed ==
    ASSUME TypeInv', LockHolder'
    PROVE  /\ Saver' \in Procs \cup {NoProc}
           /\ \A p \in Procs : Saver' = p <=> pc'[p] = "stage"
BY ConfigAssumption DEF TypeInv, TypeOK, LockHolder, Critical, Saver

LEMMA RegisterStep == IInv /\ IInv' /\ [Next]_vars => [Register!Next]_(Register!vars)
<1> SUFFICES ASSUME IInv, IInv', [Next]_vars PROVE [Register!Next]_(Register!vars)
  OBVIOUS
<1>0. /\ Saver \in Procs \cup {NoProc} /\ Saver' \in Procs \cup {NoProc}
      /\ \A p \in Procs : Saver = p <=> pc[p] = "stage"
      /\ \A p \in Procs : Saver' = p <=> pc'[p] = "stage"
      /\ NoProc \notin Procs
  BY SaverIs, SaverPrimed, ConfigAssumption DEF IInv
<1> USE DEF IInv, TypeInv, TypeOK, Goto
<1>1. CASE UNCHANGED vars
  BY <1>1 DEF vars, Register!vars, Saver
<1>2. CASE HandEdit
  BY <1>2 DEF HandEdit, locals, Saver, Register!HandEdit, Register!Next
<1>3. ASSUME NEW p \in Procs, Load(p) PROVE Register!Load(p)
  <2>1. Saver' = Saver
    BY <1>0, <1>3 DEF Load
  <2> QED
    BY <1>3, <2>1 DEF Load, disk, Register!Load
<1>4. ASSUME NEW p \in Procs, Exit(p) \/ Crash(p) PROVE Register!Leave(p)
  <2>1. Saver' = IF Saver = p THEN NoProc ELSE Saver
    BY <1>0, <1>4 DEF Exit, Crash, Forget
  <2> QED
    BY <1>4, <2>1 DEF Exit, Crash, Forget, disk, Register!Leave
<1>5. ASSUME NEW p \in Procs, Verify(p) PROVE Register!Begin(p) \/ UNCHANGED Register!vars
  <2>1. CASE Unchanged(p)
    <3>1. Saver = NoProc
      BY <1>0, <1>5 DEF Verify, LockHolder, Critical
    <3>2. Saver' = p
      BY <1>0, <1>5, <2>1 DEF Verify
    <3> QED
      BY <1>5, <2>1, <3>1, <3>2 DEF Verify, Unchanged, locals, Register!Begin
  <2>2. CASE ~Unchanged(p)
    <3>1. Saver' = Saver
      BY <1>0, <1>5, <2>2 DEF Verify
    <3> QED
      BY <1>5, <3>1 DEF Verify, locals, Register!vars
  <2> QED
    BY <2>1, <2>2
<1>6. ASSUME NEW p \in Procs, Commit(p) PROVE Register!Commit(p)
  <2>1. Saver = p
    BY <1>0, <1>6 DEF Commit
  <2>2. Saver' = NoProc
    BY <1>0, <1>6 DEF Commit, LockHolder, Critical
  <2> QED
    BY <1>6, <2>1, <2>2 DEF Commit, Contents, Register!Commit
<1>7. ASSUME NEW p \in Procs, SaveFault(p) PROVE Register!Abort(p) \/ UNCHANGED Register!vars
  <2>1. CASE pc[p] = "stage"
    <3>1. Saver = p
      BY <1>0, <2>1
    <3>2. Saver' = NoProc
      BY <1>0, <1>7, <2>1 DEF SaveFault, LockHolder, Critical
    <3> QED
      BY <1>7, <3>1, <3>2 DEF SaveFault, disk, locals, Register!Abort
  <2>2. CASE pc[p] # "stage"
    <3>1. Saver' = Saver
      BY <1>0, <1>7, <2>2 DEF SaveFault
    <3> QED
      BY <1>7, <3>1 DEF SaveFault, disk, locals, Register!vars
  <2> QED
    BY <2>1, <2>2
<1>8. CASE Quiet
  <2>1. Saver' = Saver
    BY <1>0, <1>8 DEF Quiet
  <2> QED
    BY <1>8, <2>1 DEF Quiet, Register!vars
<1> QED
  BY <1>1, <1>2, <1>3, <1>4, <1>5, <1>6, <1>7, <1>8, QuietSteps
     DEF Next, SaveStep, SaveFailure, Register!Next

(* The configuration file is the versioned register of ConfigRegister.     *)
THEOREM ImplementsTheRegister == Spec => ImplementsRegister
<1>1. Init => Register!Init
  <2> SUFFICES ASSUME Init PROVE Register!Init
    OBVIOUS
  <2>1. file \in Contents
    BY InitType DEF TypeInv, TypeOK
  <2> QED
    BY <2>1 DEF Init, Saver, Register!Init
<1>2. IInv /\ IInv' /\ [Next]_vars => [Register!Next]_(Register!vars)
  BY RegisterStep
<1> QED
  BY <1>1, <1>2, Invariance, PTL DEF Spec, ImplementsRegister, Register!Spec
-------------------------------------------------------------------------------
(* The credentials.                                                        *)

Names(doc, s) == doc \in Config /\ doc.auth[s] = Sentinel
Pends(doc, s) == doc \in Config /\ s \in doc.pending
WellFormed(doc) == doc \in Config => \A s \in Slots : doc.auth[s] # None => s[1] \in doc.profiles

(* The document a process took from the file it read last.                 *)
View(p) == IF fp[p] \in {NoFile, Broken} THEN NewConfig ELSE fp[p]

Recording(p) == pc[p] \in {"verify", "stage"} /\ task[p].kind = "record"
Saved(p) == pc[p] \in {"sync", "clean"}

(* What a process holds is what it read, but for the edit it is saving and *)
(* the secrets it has staged; a refused save gives the copy back.          *)
DocsOk(p) == WellFormed(cfg[p]) /\ WellFormed(fp[p])
CopyOk(p) ==
    /\ pc[p] \in {"ready", "copy"} => cfg[p] = View(p)
    /\ pc[p] \in {"lock", "verify", "stage", "rollback"} => task[p].prev = View(p)
    /\ pc[p] \in {"lock", "verify"} /\ task[p].kind = "retry" => cfg[p] = View(p) /\ task[p].fields = {}
    /\ pc[p] = "lock" => task[p].kind # "record"
    /\ Saved(p) => fp[p] = cfg[p]
    /\ Recording(p) => fp[p] \in Config /\ cfg[p].auth = fp[p].auth
    /\ Saved(p) \/ Recording(p) => \A s \in Slots : cfg[p].auth[s] \notin Secrets
    /\ pc[p] = "copy" => legacyVal[p][2] = Legacy[legacyVal[p][1]]

StagedOk(p) ==
    /\ pc[p] \notin {"stage", "rollback"} => staged[p] = <<>>
    /\ \A i \in 1..Len(staged[p]) : cfg[p].auth[staged[p][i].slot] = Sentinel
    /\ \A i, j \in 1..Len(staged[p]) : staged[p][i].slot = staged[p][j].slot => i = j

(* An edit takes a managed secret out of a profile only by naming it among *)
(* the fields to clean up, and puts none in.                               *)
Queued(p) == cfg[p].pending \cup (IF pc[p] = "lock" THEN task[p].fields ELSE {})
EditOk(p) == pc[p] \in {"lock", "verify", "stage"} => \A s \in Slots :
    /\ cfg[p].auth[s] = Sentinel => Names(fp[p], s) \/ s \in StagedSlots(p)
    /\ cfg[p].auth[s] = None /\ Names(fp[p], s) => s \in Queued(p)
    /\ ~Recording(p) /\ Pends(fp[p], s) => s \in Queued(p)

LocalOk(p) == DocsOk(p) /\ CopyOk(p) /\ StagedOk(p) /\ EditOk(p)
LocalInv == \A p \in Procs : LocalOk(p)

(* After the check, the file is what was compared or the user's own edit.  *)
Compared(p) == pc[p] = "stage" \/ Saved(p) \/ Recording(p)
WithinOk(p) == Compared(p) => \A s \in Slots : Names(file, s) => Names(fp[p], s)
FileInv == WellFormed(file) /\ \A p \in Procs : WithinOk(p)

(* An account that would be found to hold v is accounted for by doc.       *)
Accounted(doc, s, v) ==
    /\ Names(doc, s) =>
          LET found == IF v # None THEN v ELSE Legacy[s]
          IN  found # None /\ (found = committed[s] \/ s \in tainted)
    /\ v # None => Names(doc, s) \/ Pends(doc, s) \/ s \in tainted

(* Gone from the list because it was deleted, or because it is in use.     *)
Dealt(p, s) == keyring[s] = None \/ cfg[p].auth[s] = Sentinel \/ s \in tainted

(* A staged secret is in its account, and what it displaced is the one     *)
(* that the file accounts for; of the others it is the account itself.     *)
EntryOk(e) ==
    /\ Accounted(file, e.slot, e.old)
    /\ keyring[e.slot] # None
    /\ keyring[e.slot] = e.original \/ e.slot \in tainted
AccountsOk(p) ==
    /\ \A i \in 1..Len(staged[p]) : EntryOk(staged[p][i])
    /\ pc[p] = "stage" => \A s \in Slots : s \notin StagedSlots(p) => Accounted(fp[p], s, keyring[s])
    /\ Recording(p) => \A s \in Slots : Pends(fp[p], s) => s \in cfg[p].pending \/ Dealt(p, s)
    /\ pc[p] = "clean" => \A s \in Slots : s \in cfg[p].pending => s \in todo[p] \cup kept[p] \/ Dealt(p, s)
KeyringInv ==
    /\ \A s \in Slots : (\A p \in Procs : s \notin StagedSlots(p)) => Accounted(file, s, keyring[s])
    /\ \A p \in Procs : AccountsOk(p)

SecretInv == LocalInv /\ FileInv /\ KeyringInv

(* Documents, and what the commands make of them.                          *)
LEMMA DocIs ==
    ASSUME NEW c \in Config
    PROVE  /\ c.auth \in [Slots -> Values] /\ c.pending \in SUBSET Slots
           /\ c.profiles \in SUBSET Profiles /\ c.active \in Profiles
           /\ \A s \in Slots : c.auth[s] \in Secrets \/ c.auth[s] = None \/ c.auth[s] = Sentinel
           /\ None \notin Secrets /\ Sentinel \notin Secrets /\ None # Sentinel
BY ConfigAssumption DEF Config, Values

LEMMA ViewIs ==
    ASSUME TypeInv, NEW p \in Procs
    PROVE  /\ View(p) \in Config
           /\ \A s \in Slots : /\ View(p).auth[s] = Sentinel <=> Names(fp[p], s)
                               /\ s \in View(p).pending <=> Pends(fp[p], s)
           /\ WellFormed(fp[p]) => WellFormed(View(p))
           /\ fp[p] \in Config => View(p) = fp[p]
<1>1. fp[p] \in Contents
  BY DEF TypeInv, TypeOK
<1>2. NewConfig.auth = NoAuth /\ NewConfig.pending = {} /\ NewConfig \in Config
  BY NewConfigType DEF NewConfig
<1>3. \A s \in Slots : NoAuth[s] = None
  BY DEF NoAuth
<1>4. CASE fp[p] \in {NoFile, Broken}
  <2>1. View(p) = NewConfig /\ fp[p] \notin Config
    BY <1>4, ContentAssumption DEF View
  <2> QED
    BY <2>1, <1>2, <1>3, ConfigAssumption DEF Names, Pends, WellFormed
<1>5. CASE fp[p] \notin {NoFile, Broken}
  <2>1. View(p) = fp[p] /\ fp[p] \in Config
    BY <1>1, <1>5 DEF View, Contents
  <2> QED
    BY <2>1 DEF Names, Pends
<1> QED
  BY <1>4, <1>5

LEMMA AuthForMethodIs ==
    ASSUME NEW c \in Config, NEW n \in Profiles, NEW k
    PROVE  LET d == AuthForMethod(c, n, k)
           IN  /\ d \in Config /\ d.profiles = c.profiles /\ d.pending = c.pending
               /\ \A s \in Slots : d.auth[s] = IF s[1] = n /\ s[2] # k THEN None ELSE c.auth[s]
<1> DEFINE auth == [s \in Slots |-> IF s[1] = n /\ s[2] # k THEN None ELSE c.auth[s]]
           d == [c EXCEPT !.auth = auth]
<1>1. d.profiles = c.profiles /\ d.pending = c.pending /\ d.auth = auth
  BY DEF Config
<1>2. \A s \in Slots : auth[s] = IF s[1] = n /\ s[2] # k THEN None ELSE c.auth[s]
  OBVIOUS
<1>3. AuthForMethod(c, n, k) = d
  BY DEF AuthForMethod
<1>4. AuthForMethod(c, n, k) \in Config
  BY AuthForMethodType
<1> HIDE DEF auth, d
<1> QED
  BY <1>1, <1>2, <1>3, <1>4

LEMMA SetFieldIs ==
    ASSUME NEW c \in Config, NEW n \in Profiles, NEW f \in Fields, NEW v \in Values
    PROVE  LET d == SetField(c, n, f, v)
           IN  /\ d \in Config /\ d.profiles = c.profiles /\ d.pending = c.pending
               /\ \A s \in Slots : d.auth[s] = IF s = <<n, f>> THEN v ELSE c.auth[s]
BY SetFieldType DEF SetField, Config, Slots

(* d is a profile command's edit of c, which cleans the fields up.         *)
EditOf(c, d, fields) ==
    /\ WellFormed(d)
    /\ c.pending \subseteq d.pending
    /\ \A s \in Slots : /\ d.auth[s] = Sentinel => c.auth[s] = Sentinel
                        /\ d.auth[s] = None /\ c.auth[s] = Sentinel => s \in fields

LEMMA EditsEdit ==
    ASSUME TypeInv, NEW p \in Procs, WellFormed(cfg[p]), EmptyInputs = FALSE, Edits(p)
    PROVE  \E c \in Config, kind \in {"save", "retry"}, fields \in SUBSET Slots :
              /\ Command(p, c, kind, fields) /\ EditOf(cfg[p], c, fields)
              /\ kind = "retry" => c = cfg[p] /\ fields = {}
<1> DEFINE Goal == \E c \in Config, kind \in {"save", "retry"}, fields \in SUBSET Slots :
              /\ Command(p, c, kind, fields) /\ EditOf(cfg[p], c, fields)
              /\ kind = "retry" => c = cfg[p] /\ fields = {}
<1>0. /\ cfg[p] \in Config /\ Token \in Fields /\ Inputs = Secrets
      /\ None \in Values /\ Secrets \subseteq Values /\ Sentinel \notin Secrets \cup {None}
      /\ None \notin Secrets
      /\ \A s \in Slots : cfg[p].auth[s] # None => s[1] \in cfg[p].profiles
      /\ \A n \in Profiles : ConfiguredFields(cfg[p], n) \in SUBSET Slots
  BY ConfigAssumption DEF TypeInv, TypeOK, Inputs, Values, WellFormed, ConfiguredFields
<1>a. ASSUME NEW c \in Config, NEW fields \in SUBSET Slots, EditOf(cfg[p], c, fields),
             Edit(p, c, fields)
      PROVE  Goal
  BY <1>a DEF Edit
<1> HIDE DEF Goal
<1>1. ASSUME NEW n \in Profiles, UseProfile(p, n) PROVE Goal
  <2> DEFINE d == [cfg[p] EXCEPT !.active = n]
  <2>1. d \in Config /\ d.profiles = cfg[p].profiles /\ d.pending = cfg[p].pending /\ d.auth = cfg[p].auth
    BY <1>0 DEF Config
  <2>2. Edit(p, d, {}) /\ {} \in SUBSET Slots
    BY <1>1 DEF UseProfile
  <2> HIDE DEF d
  <2>3. EditOf(cfg[p], d, {})
    BY <1>0, <2>1, ConfigAssumption DEF EditOf, WellFormed
  <2> QED
    BY <2>1, <2>2, <2>3, <1>a
<1>2. ASSUME NEW n \in Profiles, UnsetAuth(p, n) PROVE Goal
  <2> DEFINE d == AuthForMethod(cfg[p], n, None)
  <2>1. Edit(p, d, ConfiguredFields(cfg[p], n))
    BY <1>2 DEF UnsetAuth, ClearAuth
  <2>2. /\ d \in Config /\ d.profiles = cfg[p].profiles /\ d.pending = cfg[p].pending
        /\ \A s \in Slots : d.auth[s] = IF s[1] = n /\ s[2] # None THEN None ELSE cfg[p].auth[s]
    BY <1>0, AuthForMethodIs
  <2> HIDE DEF d
  <2>3. EditOf(cfg[p], d, ConfiguredFields(cfg[p], n))
    BY <1>0, <2>2, ConfigAssumption DEF EditOf, WellFormed, ConfiguredFields
  <2> QED
    BY <1>0, <2>1, <2>2, <2>3, <1>a
<1>3. ASSUME NEW n \in Profiles, RemoveProfile(p, n) PROVE Goal
  <2> DEFINE d == AuthForMethod(cfg[p], n, None)
             e == [d EXCEPT !.profiles = @ \ {n}]
             fields == {s \in Slots : s[1] = n}
  <2>1. Edit(p, e, fields)
    BY <1>3 DEF RemoveProfile, ClearAuth
  <2>2. /\ d \in Config /\ d.profiles = cfg[p].profiles /\ d.pending = cfg[p].pending
        /\ \A s \in Slots : d.auth[s] = IF s[1] = n /\ s[2] # None THEN None ELSE cfg[p].auth[s]
    BY <1>0, AuthForMethodIs
  <2> HIDE DEF d
  <2>3. e \in Config /\ e.profiles = d.profiles \ {n} /\ e.pending = d.pending /\ e.auth = d.auth
    BY <2>2 DEF Config
  <2> HIDE DEF e
  <2>4. EditOf(cfg[p], e, fields)
    <3>1. \A s \in Slots : s[2] # None
      BY ConfigAssumption DEF Slots
    <3> QED
      BY <1>0, <2>2, <2>3, <3>1, ConfigAssumption DEF EditOf, WellFormed
  <2> QED
    BY <2>1, <2>3, <2>4, <1>a
<1>4. ASSUME NEW n \in Profiles, NEW v \in Secrets \cup {None}, SetToken(p, n, v) PROVE Goal
  <2> DEFINE d == AuthForMethod(cfg[p], n, Token)
             e == SetField(d, n, Token, v)
  <2>1. Edit(p, e, ConfiguredFields(cfg[p], n)) /\ n \in cfg[p].profiles
    BY <1>4 DEF SetToken
  <2>2. /\ d \in Config /\ d.profiles = cfg[p].profiles /\ d.pending = cfg[p].pending
        /\ \A s \in Slots : d.auth[s] = IF s[1] = n /\ s[2] # Token THEN None ELSE cfg[p].auth[s]
    BY <1>0, AuthForMethodIs
  <2>3. v \in Values
    BY <1>0
  <2> HIDE DEF d
  <2>4. /\ e \in Config /\ e.profiles = d.profiles /\ e.pending = d.pending
        /\ \A s \in Slots : e.auth[s] = IF s = <<n, Token>> THEN v ELSE d.auth[s]
    BY <1>0, <2>2, <2>3, SetFieldIs
  <2> HIDE DEF e
  <2>5. EditOf(cfg[p], e, ConfiguredFields(cfg[p], n))
    BY <1>0, <2>1, <2>2, <2>4, ConfigAssumption DEF EditOf, WellFormed, ConfiguredFields
  <2> QED
    BY <1>0, <2>1, <2>4, <2>5, <1>a
<1>5. ASSUME NEW n \in Profiles, NEW v \in Secrets \cup {None}, InitProfile(p, n, v) PROVE Goal
  <2> DEFINE d == AuthForMethod(cfg[p], n, None)
             e == SetField(d, n, Token, v)
             g == [e EXCEPT !.profiles = @ \cup {n}, !.active = n]
             fields == IF n \in cfg[p].profiles THEN ConfiguredFields(cfg[p], n) ELSE {}
  <2>1. Command(p, g, "save", fields)
    BY <1>5 DEF InitProfile, ClearAuth
  <2>2. /\ d \in Config /\ d.profiles = cfg[p].profiles /\ d.pending = cfg[p].pending
        /\ \A s \in Slots : d.auth[s] = IF s[1] = n /\ s[2] # None THEN None ELSE cfg[p].auth[s]
    BY <1>0, AuthForMethodIs
  <2>3. v \in Values
    BY <1>0
  <2> HIDE DEF d
  <2>4. /\ e \in Config /\ e.profiles = d.profiles /\ e.pending = d.pending
        /\ \A s \in Slots : e.auth[s] = IF s = <<n, Token>> THEN v ELSE d.auth[s]
    BY <1>0, <2>2, <2>3, SetFieldIs
  <2> HIDE DEF e
  <2>5. g \in Config /\ g.profiles = e.profiles \cup {n} /\ g.pending = e.pending /\ g.auth = e.auth
    BY <2>4 DEF Config
  <2> HIDE DEF g
  <2>6. fields \in SUBSET Slots
    BY <1>0
  <2>7. EditOf(cfg[p], g, fields)
    BY <1>0, <2>2, <2>4, <2>5, ConfigAssumption DEF EditOf, WellFormed, ConfiguredFields
  <2> HIDE DEF fields
  <2> QED
    BY <2>1, <2>5, <2>6, <2>7 DEF Goal
<1>6. ASSUME NEW n \in Profiles, NEW f \in Fields, SetAuthMethod(p, n, f) PROVE Goal
  <2> DEFINE d == AuthForMethod(cfg[p], n, f)
  <2>1. Edit(p, d, ConfiguredFields(cfg[p], n))
    BY <1>6 DEF SetAuthMethod
  <2>2. /\ d \in Config /\ d.profiles = cfg[p].profiles /\ d.pending = cfg[p].pending
        /\ \A s \in Slots : d.auth[s] = IF s[1] = n /\ s[2] # f THEN None ELSE cfg[p].auth[s]
    BY <1>0, AuthForMethodIs
  <2> HIDE DEF d
  <2>3. EditOf(cfg[p], d, ConfiguredFields(cfg[p], n))
    BY <1>0, <2>2, ConfigAssumption DEF EditOf, WellFormed, ConfiguredFields
  <2> QED
    BY <1>0, <2>1, <2>2, <2>3, <1>a
<1>7. ASSUME NEW n \in Profiles, NEW f \in Fields, UnsetField(p, n, f) PROVE Goal
  <2> DEFINE d == SetField(cfg[p], n, f, None)
             fields == ConfiguredFields(cfg[p], n) \cap {<<n, f>>}
  <2>1. Edit(p, d, fields) /\ fields \in SUBSET Slots
    BY <1>0, <1>7 DEF UnsetField
  <2>2. /\ d \in Config /\ d.profiles = cfg[p].profiles /\ d.pending = cfg[p].pending
        /\ \A s \in Slots : d.auth[s] = IF s = <<n, f>> THEN None ELSE cfg[p].auth[s]
    BY <1>0, SetFieldIs
  <2> HIDE DEF d
  <2>3. EditOf(cfg[p], d, fields)
    BY <1>0, <2>2, ConfigAssumption DEF EditOf, WellFormed, ConfiguredFields
  <2> QED
    BY <2>1, <2>2, <2>3, <1>a
<1>8. ASSUME NEW n \in Profiles, NEW f \in Fields, NEW v \in Inputs, SetSecretField(p, n, f, v)
      PROVE Goal
  <2> DEFINE d == SetField(cfg[p], n, f, v)
  <2>1. Edit(p, d, {}) /\ {} \in SUBSET Slots /\ n \in cfg[p].profiles
    BY <1>8 DEF SetSecretField
  <2>2. v \in Secrets /\ v \in Values
    BY <1>0
  <2>3. /\ d \in Config /\ d.profiles = cfg[p].profiles /\ d.pending = cfg[p].pending
        /\ \A s \in Slots : d.auth[s] = IF s = <<n, f>> THEN v ELSE cfg[p].auth[s]
    BY <1>0, <2>2, SetFieldIs
  <2> HIDE DEF d
  <2>4. EditOf(cfg[p], d, {})
    BY <1>0, <2>1, <2>2, <2>3, ConfigAssumption DEF EditOf, WellFormed
  <2> QED
    BY <2>1, <2>3, <2>4, <1>a
<1>9. ASSUME NEW n \in Profiles, NEW f \in Fields, NEW v \in Secrets \cup {None},
             NEW activate \in BOOLEAN, AddProfile(p, n, f, v, activate)
      PROVE Goal
  <2> DEFINE d == SetField(cfg[p], n, f, v)
             e == [d EXCEPT !.profiles = @ \cup {n}, !.active = IF activate THEN n ELSE @]
  <2>1. Edit(p, e, {}) /\ {} \in SUBSET Slots /\ n \notin cfg[p].profiles
    BY <1>9 DEF AddProfile
  <2>2. v \in Values
    BY <1>0
  <2>3. /\ d \in Config /\ d.profiles = cfg[p].profiles /\ d.pending = cfg[p].pending
        /\ \A s \in Slots : d.auth[s] = IF s = <<n, f>> THEN v ELSE cfg[p].auth[s]
    BY <1>0, <2>2, SetFieldIs
  <2> HIDE DEF d
  <2>4. e \in Config /\ e.profiles = d.profiles \cup {n} /\ e.pending = d.pending /\ e.auth = d.auth
    BY <2>3 DEF Config
  <2> HIDE DEF e
  <2>5. EditOf(cfg[p], e, {})
    BY <1>0, <2>1, <2>3, <2>4, ConfigAssumption DEF EditOf, WellFormed
  <2> QED
    BY <2>1, <2>4, <2>5, <1>a
<1>10. ASSUME RetryCleanup(p) PROVE Goal
  <2>1. Command(p, cfg[p], "retry", {}) /\ {} \in SUBSET Slots
    BY <1>10 DEF RetryCleanup
  <2>2. EditOf(cfg[p], cfg[p], {})
    BY <1>0, ConfigAssumption DEF EditOf, WellFormed
  <2> QED
    BY <1>0, <2>1, <2>2 DEF Goal
<1>11. Goal
  BY <1>1, <1>2, <1>3, <1>4, <1>5, <1>6, <1>7, <1>8, <1>9, <1>10 DEF Edits
<1> QED
  BY <1>11 DEF Goal

-------------------------------------------------------------------------------
(* What a process holds.  A step leaves the others alone.                  *)

Same(q) ==
    /\ pc'[q] = pc[q] /\ cfg'[q] = cfg[q] /\ fp'[q] = fp[q] /\ task'[q] = task[q]
    /\ staged'[q] = staged[q] /\ todo'[q] = todo[q] /\ kept'[q] = kept[q]
    /\ legacyVal'[q] = legacyVal[q]
Others(p) == \A q \in Procs : q # p => Same(q)

LEMMA LocalStays ==
    ASSUME NEW q \in Procs, Same(q), LocalOk(q)
    PROVE  LocalOk(q)'
<1>1. StagedSlots(q)' = StagedSlots(q) /\ View(q)' = View(q) /\ Recording(q)' = Recording(q)
      /\ Saved(q)' = Saved(q) /\ Queued(q)' = Queued(q)
  BY DEF Same, StagedSlots, View, Recording, Saved, Queued
<1>2. DocsOk(q)' /\ CopyOk(q)'
  BY <1>1 DEF Same, LocalOk, DocsOk, CopyOk
<1>3. StagedOk(q)' /\ EditOk(q)'
  BY <1>1 DEF Same, LocalOk, StagedOk, EditOk
<1> QED
  BY <1>2, <1>3 DEF LocalOk

LEMMA LocalFrame ==
    ASSUME NEW p \in Procs, LocalInv, Others(p), LocalOk(p)'
    PROVE  LocalInv'
<1>1. ASSUME NEW q \in Procs PROVE LocalOk(q)'
  <2>1. CASE q = p
    BY <2>1
  <2>2. CASE q # p
    BY <2>2, LocalStays DEF Others, LocalInv
  <2> QED
    BY <2>1, <2>2
<1> QED
  BY <1>1 DEF LocalInv

LEMMA CommandOthers ==
    ASSUME TypeInv, NEW p \in Procs, NEW c, NEW kind, NEW fields, Command(p, c, kind, fields)
    PROVE  /\ Others(p) /\ UNCHANGED <<disk, keyring, lock>>
           /\ pc[p] = "ready" /\ pc'[p] = "lock" /\ cfg'[p] = c /\ fp'[p] = fp[p]
           /\ task'[p] = [kind |-> kind, fields |-> fields, prev |-> cfg[p]]
           /\ staged'[p] = staged[p] /\ todo'[p] = todo[p] /\ kept'[p] = kept[p]
BY DEF Command, Goto, SetCfg, TypeInv, TypeOK, Others, Same, disk

(* Each of the other steps of a process, one field at a time.              *)
LEMMA LoadIs ==
    ASSUME TypeInv, NEW p \in Procs, Load(p)
    PROVE  /\ Others(p) /\ UNCHANGED <<disk, keyring, lock>>
           /\ pc[p] = "exited" /\ pc'[p] = "ready" /\ fp'[p] = file
           /\ cfg'[p] = IF file \in {NoFile, Broken} THEN NewConfig ELSE file
           /\ staged'[p] = staged[p]
BY DEF Load, Goto, SetCfg, TypeInv, TypeOK, Others, Same, disk, saving

LEMMA ForgetIs ==
    ASSUME TypeInv, NEW p \in Procs, Forget(p)
    PROVE  /\ Others(p) /\ pc'[p] = "exited" /\ fp'[p] = NoFile /\ cfg'[p] = NewConfig
           /\ staged'[p] = <<>>
BY DEF Forget, Goto, SetCfg, TypeInv, TypeOK, Others, Same

LEMMA FinishIs ==
    ASSUME TypeInv, NEW p \in Procs, NEW c, Finish(p, c),
           UNCHANGED <<fp, staged, todo, legacyVal>>, \A q \in Procs : q # p => kept'[q] = kept[q]
    PROVE  /\ Others(p) /\ pc'[p] = "ready" /\ cfg'[p] = c /\ fp'[p] = fp[p]
           /\ staged'[p] = staged[p]
BY DEF Finish, Goto, SetCfg, TypeInv, TypeOK, Others, Same

LEMMA AcquireIs ==
    ASSUME TypeInv, NEW p \in Procs, Acquire(p)
    PROVE  /\ Others(p) /\ UNCHANGED <<disk, keyring>> /\ lock = NoProc /\ lock' = p
           /\ pc[p] = "lock" /\ pc'[p] = "verify" /\ fp'[p] = fp[p] /\ task'[p] = task[p]
           /\ cfg'[p] = QueueCleanup(cfg[p], task[p].fields) /\ staged'[p] = staged[p]
BY DEF Acquire, LockFree, Goto, SetCfg, TypeInv, TypeOK, Others, Same, disk, saving

LEMMA StageIs ==
    ASSUME TypeInv, NEW p \in Procs, NEW s, Stage(p, s)
    PROVE  /\ Others(p) /\ UNCHANGED <<disk, lock>> /\ pc[p] = "stage" /\ pc'[p] = "stage"
           /\ fp'[p] = fp[p] /\ task'[p] = task[p] /\ s \in Unstaged(cfg[p])
           /\ cfg'[p] = [cfg[p] EXCEPT !.auth[s] = Sentinel]
           /\ staged'[p] = <<[slot |-> s, original |-> cfg[p].auth[s], old |-> keyring[s]]>> \o staged[p]
           /\ keyring' = [keyring EXCEPT ![s] = cfg[p].auth[s]]
BY DEF Stage, SetCfg, TypeInv, TypeOK, Others, Same, disk

LEMMA UnstageIs ==
    ASSUME TypeInv, NEW p \in Procs, pc[p] = "rollback", Unstage(p)
    PROVE  /\ Others(p) /\ UNCHANGED <<file, committed, lock>> /\ pc'[p] = "rollback"
           /\ fp'[p] = fp[p] /\ task'[p] = task[p] /\ staged'[p] = Tail(staged[p])
           /\ cfg'[p] = [cfg[p] EXCEPT !.auth[Head(staged[p]).slot] = Head(staged[p]).original]
BY DEF Unstage, SetCfg, TypeInv, TypeOK, Others, Same

LEMMA CommitIs ==
    ASSUME TypeInv, NEW p \in Procs, Commit(p)
    PROVE  /\ Others(p) /\ UNCHANGED <<keyring, lock>> /\ pc[p] = "stage" /\ pc'[p] = "sync"
           /\ Unstaged(cfg[p]) = {} /\ file' = cfg[p] /\ fp'[p] = cfg[p] /\ cfg'[p] = cfg[p]
           /\ staged'[p] = <<>> /\ committed' = SavedSecrets(p)
           /\ tainted' = tainted \ {s \in StagedSlots(p) : keyring[s] = SavedSecrets(p)[s]}
BY DEF Commit, Goto, TypeInv, TypeOK, Others, Same

LEMMA DeleteIs ==
    ASSUME TypeInv, NEW p \in Procs, NEW s
    PROVE  /\ DeleteSecret(p, s) \/ DeleteFault(p, s) =>
                 /\ Others(p) /\ UNCHANGED <<disk, lock>> /\ pc[p] = "clean" /\ pc'[p] = "clean"
                 /\ cfg'[p] = cfg[p] /\ fp'[p] = fp[p] /\ task'[p] = task[p]
                 /\ staged'[p] = staged[p] /\ s \in todo[p] /\ todo'[p] = todo[p] \ {s}
           /\ DeleteSecret(p, s) => kept'[p] = kept[p]
           /\ DeleteFault(p, s) => kept'[p] = kept[p] \cup {s} /\ keyring' = keyring
BY DEF DeleteSecret, DeleteFault, TypeInv, TypeOK, Others, Same, disk, locals

LEMMA RecordIs ==
    ASSUME TypeInv, NEW p \in Procs, CleanupDone(p), kept[p] # cfg[p].pending
    PROVE  /\ Others(p) /\ UNCHANGED <<disk, keyring, lock>> /\ pc[p] = "clean" /\ pc'[p] = "verify"
           /\ todo[p] = {} /\ fp'[p] = fp[p] /\ staged'[p] = staged[p]
           /\ cfg'[p] = [cfg[p] EXCEPT !.pending = kept[p]]
           /\ task'[p] = [kind |-> "record", fields |-> {}, prev |-> cfg[p]]
BY DEF CleanupDone, Goto, SetCfg, TypeInv, TypeOK, Others, Same, disk

(* The steps that only move a process on.                                  *)
Moved(p) ==
    /\ Others(p) /\ cfg'[p] = cfg[p] /\ fp'[p] = fp[p] /\ task'[p] = task[p]
    /\ staged'[p] = staged[p] /\ kept'[p] = kept[p]

LEMMA MovedIs ==
    ASSUME TypeInv, NEW p \in Procs
    PROVE  /\ Verify(p) => /\ Moved(p) /\ UNCHANGED <<file, committed, tainted, keyring, lock>>
                           /\ pc[p] = "verify" /\ ~NothingPending(p)
                           /\ pc'[p] = IF Unchanged(p) THEN "stage" ELSE "rollback"
           /\ SaveFault(p) => /\ Moved(p) /\ UNCHANGED <<disk, keyring, lock>>
                              /\ pc[p] \in {"verify", "stage"} /\ pc'[p] = "rollback"
           /\ SyncDir(p) /\ CleansUp(p) =>
                 /\ Moved(p) /\ UNCHANGED <<disk, keyring, lock>>
                 /\ pc[p] = "sync" /\ pc'[p] = "clean" /\ todo'[p] = cfg[p].pending
<1> USE DEF Goto, TypeInv, TypeOK, Moved, Others, Same, disk, locals, saving
<1>1. Verify(p) => /\ Moved(p) /\ UNCHANGED <<file, committed, tainted, keyring, lock>>
                   /\ pc[p] = "verify" /\ ~NothingPending(p)
                   /\ pc'[p] = IF Unchanged(p) THEN "stage" ELSE "rollback"
  BY DEF Verify
<1>2. SaveFault(p) => /\ Moved(p) /\ UNCHANGED <<disk, keyring, lock>>
                      /\ pc[p] \in {"verify", "stage"} /\ pc'[p] = "rollback"
  BY DEF SaveFault
<1>3. SyncDir(p) /\ CleansUp(p) =>
         /\ Moved(p) /\ UNCHANGED <<disk, keyring, lock>>
         /\ pc[p] = "sync" /\ pc'[p] = "clean" /\ todo'[p] = cfg[p].pending
  BY DEF SyncDir
<1> QED
  BY <1>1, <1>2, <1>3

LEMMA ResolveIs ==
    ASSUME TypeInv, NEW p \in Procs, Resolve(p)
    PROVE  /\ Others(p) /\ UNCHANGED <<file, committed, lock>>
           /\ cfg'[p] = cfg[p] /\ fp'[p] = fp[p] /\ task'[p] = task[p] /\ staged'[p] = staged[p]
           /\ \/ pc[p] = "ready" /\ pc'[p] = "copy" /\ legacyVal'[p][2] = Legacy[legacyVal'[p][1]]
              \/ pc[p] = "copy" /\ pc'[p] = "ready"
           /\ CopyLegacy(p) \/ (keyring' = keyring /\ tainted' = tainted)
<1> USE DEF Goto, TypeInv, TypeOK, Others, Same, disk, locals, saving
<1>1. CASE CopyLegacy(p)
  BY <1>1 DEF CopyLegacy
<1>2. CASE CopyFault(p)
  BY <1>2 DEF CopyFault
<1>3. ASSUME NEW s \in Slots, ReadLegacy(p, s)
      PROVE  /\ Others(p) /\ UNCHANGED <<disk, keyring, lock>>
             /\ cfg'[p] = cfg[p] /\ fp'[p] = fp[p] /\ task'[p] = task[p] /\ staged'[p] = staged[p]
             /\ pc[p] = "ready" /\ pc'[p] = "copy" /\ legacyVal'[p] = <<s, Legacy[s]>>
  BY <1>3 DEF ReadLegacy
<1> QED
  BY <1>1, <1>2, <1>3 DEF Resolve

(* What a process holds stays right, whatever it does.                     *)
LEMMA LoadLocal ==
    ASSUME TypeInv, LocalInv, WellFormed(file), NEW p \in Procs, Load(p)
    PROVE  LocalOk(p)'
<1>1. /\ pc[p] = "exited" /\ pc'[p] = "ready" /\ fp'[p] = file /\ staged'[p] = staged[p]
      /\ cfg'[p] = IF file \in {NoFile, Broken} THEN NewConfig ELSE file
  BY LoadIs
<1>2. staged[p] = <<>> /\ file \in Contents
  BY <1>1 DEF LocalInv, LocalOk, StagedOk, TypeInv, TypeOK
<1>3. WellFormed(NewConfig)
  BY DEF WellFormed, NewConfig, NoAuth
<1>4. DocsOk(p)'
  BY <1>1, <1>3 DEF DocsOk, WellFormed
<1>5. CopyOk(p)'
  BY <1>1 DEF CopyOk, View, Saved, Recording
<1>6. StagedOk(p)' /\ EditOk(p)'
  BY <1>1, <1>2 DEF StagedOk, EditOk
<1> QED
  BY <1>4, <1>5, <1>6 DEF LocalOk

LEMMA ForgetLocal ==
    ASSUME TypeInv, NEW p \in Procs, Forget(p)
    PROVE  LocalOk(p)'
<1>1. pc'[p] = "exited" /\ fp'[p] = NoFile /\ cfg'[p] = NewConfig /\ staged'[p] = <<>>
  BY ForgetIs
<1>2. WellFormed(NewConfig)
  BY DEF WellFormed, NewConfig, NoAuth
<1>3. DocsOk(p)'
  BY <1>1, <1>2, ContentAssumption DEF DocsOk, WellFormed
<1>4. CopyOk(p)' /\ StagedOk(p)' /\ EditOk(p)'
  BY <1>1 DEF CopyOk, StagedOk, EditOk, Saved, Recording
<1> QED
  BY <1>3, <1>4 DEF LocalOk

(* A process that is done holds its view again.                            *)
LEMMA FinishLocal ==
    ASSUME TypeInv, LocalInv, NEW p \in Procs,
           pc'[p] = "ready", cfg'[p] = View(p), fp'[p] = fp[p], staged'[p] = <<>>
    PROVE  LocalOk(p)'
<1>1. View(p)' = View(p) /\ WellFormed(fp[p]) /\ WellFormed(View(p))
  BY ViewIs DEF View, LocalInv, LocalOk, DocsOk
<1>2. DocsOk(p)' /\ CopyOk(p)'
  BY <1>1 DEF DocsOk, CopyOk, Saved, Recording, WellFormed
<1>3. StagedOk(p)' /\ EditOk(p)'
  BY DEF StagedOk, EditOk
<1> QED
  BY <1>2, <1>3 DEF LocalOk

LEMMA CommandLocal ==
    ASSUME TypeInv, LocalInv, EmptyInputs = FALSE, NEW p \in Procs, Edits(p)
    PROVE  LocalOk(p)'
<1>0. pc[p] = "ready"
  BY ZenonT(30) DEF Edits, Edit, Command, UseProfile, UnsetAuth, RemoveProfile, SetToken,
     InitProfile, SetAuthMethod, UnsetField, SetSecretField, AddProfile, RetryCleanup
<1>1. WellFormed(cfg[p]) /\ WellFormed(fp[p]) /\ cfg[p] = View(p) /\ staged[p] = <<>>
  BY <1>0 DEF LocalInv, LocalOk, DocsOk, CopyOk, StagedOk
<1>2. PICK c \in Config, kind \in {"save", "retry"}, fields \in SUBSET Slots :
         /\ Command(p, c, kind, fields) /\ EditOf(cfg[p], c, fields)
         /\ kind = "retry" => c = cfg[p] /\ fields = {}
  BY <1>1, EditsEdit
<1>3. /\ pc'[p] = "lock" /\ cfg'[p] = c /\ fp'[p] = fp[p] /\ staged'[p] = <<>>
      /\ task'[p] = [kind |-> kind, fields |-> fields, prev |-> cfg[p]]
  BY <1>1, <1>2, CommandOthers
<1>4. View(p)' = View(p)
  BY <1>3 DEF View
<1>5. DocsOk(p)' /\ CopyOk(p)' /\ StagedOk(p)'
  BY <1>1, <1>2, <1>3, <1>4 DEF DocsOk, CopyOk, StagedOk, EditOf, WellFormed, Saved, Recording
<1>6. EditOk(p)'
  <2>1. \A s \in Slots : /\ View(p).auth[s] = Sentinel <=> Names(fp[p], s)
                         /\ s \in View(p).pending <=> Pends(fp[p], s)
    BY ViewIs
  <2>2. \A s \in Slots : Names(fp[p], s)' = Names(fp[p], s) /\ Pends(fp[p], s)' = Pends(fp[p], s)
    BY <1>3 DEF Names, Pends
  <2>3. Queued(p)' = c.pending \cup fields
    BY <1>3 DEF Queued
  <2> QED
    BY <1>1, <1>2, <1>3, <2>1, <2>2, <2>3 DEF EditOk, EditOf
<1> QED
  BY <1>5, <1>6 DEF LocalOk

LEMMA AcquireLocal ==
    ASSUME TypeInv, LocalInv, NEW p \in Procs, Acquire(p)
    PROVE  LocalOk(p)'
<1>1. /\ pc[p] = "lock" /\ pc'[p] = "verify" /\ fp'[p] = fp[p] /\ task'[p] = task[p]
      /\ cfg'[p] = QueueCleanup(cfg[p], task[p].fields) /\ staged'[p] = staged[p]
  BY AcquireIs
<1>2. /\ DocsOk(p) /\ CopyOk(p) /\ StagedOk(p) /\ EditOk(p) /\ cfg[p] \in Config
      /\ task[p].fields \in SUBSET Slots
  BY DEF LocalInv, LocalOk, TypeInv, TypeOK, Tasks
<1>3. /\ cfg'[p] \in Config /\ cfg'[p].auth = cfg[p].auth /\ cfg'[p].profiles = cfg[p].profiles
      /\ cfg'[p].pending = cfg[p].pending \cup task[p].fields
      /\ task[p].fields = {} => cfg'[p] = cfg[p]
  BY <1>1, <1>2 DEF QueueCleanup, Config
<1>4. staged'[p] = <<>> /\ task[p].kind # "record" /\ View(p)' = View(p) /\ task[p].prev = View(p)
  BY <1>1, <1>2 DEF StagedOk, CopyOk, View
<1>5. DocsOk(p)' /\ StagedOk(p)'
  BY <1>1, <1>2, <1>3, <1>4 DEF DocsOk, StagedOk, WellFormed
<1>6. CopyOk(p)'
  BY <1>1, <1>2, <1>3, <1>4 DEF CopyOk, Saved, Recording
<1>7. EditOk(p)'
  <2>1. \A s \in Slots : Names(fp[p], s)' = Names(fp[p], s) /\ Pends(fp[p], s)' = Pends(fp[p], s)
    BY <1>1 DEF Names, Pends
  <2>2. /\ Queued(p)' = Queued(p) /\ ~Recording(p) /\ ~Recording(p)' /\ StagedSlots(p)' = StagedSlots(p)
    BY <1>1, <1>3, <1>4 DEF Queued, Recording, StagedSlots
  <2> QED
    BY <1>1, <1>2, <1>3, <2>1, <2>2 DEF EditOk
<1> QED
  BY <1>5, <1>6, <1>7 DEF LocalOk

(* The fields that a step which only moves the process on can disturb.     *)
LEMMA MovedLocal ==
    ASSUME TypeInv, LocalInv, NEW p \in Procs,
           Verify(p) \/ SaveFault(p) \/ (SyncDir(p) /\ CleansUp(p))
    PROVE  LocalOk(p)'
<1>1. /\ cfg'[p] = cfg[p] /\ fp'[p] = fp[p] /\ task'[p] = task[p] /\ staged'[p] = staged[p]
      /\ \/ pc[p] = "verify" /\ pc'[p] \in {"stage", "rollback"}
         \/ pc[p] = "stage" /\ pc'[p] = "rollback"
         \/ pc[p] = "sync" /\ pc'[p] = "clean"
  BY MovedIs DEF Moved
<1>2. DocsOk(p) /\ CopyOk(p) /\ StagedOk(p) /\ EditOk(p)
  BY DEF LocalInv, LocalOk
<1>3. View(p)' = View(p) /\ StagedSlots(p)' = StagedSlots(p)
      /\ \A s \in Slots : Names(fp[p], s)' = Names(fp[p], s) /\ Pends(fp[p], s)' = Pends(fp[p], s)
  BY <1>1 DEF View, StagedSlots, Names, Pends
<1>4. DocsOk(p)' /\ StagedOk(p)'
  BY <1>1, <1>2 DEF DocsOk, StagedOk
<1>5. CopyOk(p)'
  BY <1>1, <1>2, <1>3 DEF CopyOk, Saved, Recording
<1>6. EditOk(p)'
  BY <1>1, <1>2, <1>3 DEF EditOk, Queued, Recording
<1> QED
  BY <1>4, <1>5, <1>6 DEF LocalOk

LEMMA QuietLocal ==
    ASSUME TypeInv, LocalInv, NEW p \in Procs,
           \/ Resolve(p)
           \/ \E s \in Slots : DeleteSecret(p, s) \/ DeleteFault(p, s)
    PROVE  LocalOk(p)'
<1>1. /\ cfg'[p] = cfg[p] /\ fp'[p] = fp[p] /\ staged'[p] = staged[p]
      /\ \/ pc[p] = "ready" /\ pc'[p] = "copy" /\ legacyVal'[p][2] = Legacy[legacyVal'[p][1]]
         \/ pc[p] = "copy" /\ pc'[p] = "ready"
         \/ pc[p] = "clean" /\ pc'[p] = "clean"
  BY ResolveIs, DeleteIs
<1>2. DocsOk(p) /\ CopyOk(p) /\ StagedOk(p) /\ View(p)' = View(p)
  BY <1>1 DEF LocalInv, LocalOk, View
<1>3. DocsOk(p)' /\ StagedOk(p)' /\ EditOk(p)'
  BY <1>1, <1>2 DEF DocsOk, StagedOk, EditOk
<1>4. CopyOk(p)'
  BY <1>1, <1>2 DEF CopyOk, Saved, Recording
<1> QED
  BY <1>3, <1>4 DEF LocalOk

LEMMA RecordLocal ==
    ASSUME TypeInv, LocalInv, NEW p \in Procs, CleanupDone(p), kept[p] # cfg[p].pending
    PROVE  LocalOk(p)'
<1>1. /\ pc[p] = "clean" /\ pc'[p] = "verify" /\ fp'[p] = fp[p] /\ staged'[p] = staged[p]
      /\ cfg'[p] = [cfg[p] EXCEPT !.pending = kept[p]]
      /\ task'[p] = [kind |-> "record", fields |-> {}, prev |-> cfg[p]]
  BY RecordIs
<1>2. /\ DocsOk(p) /\ CopyOk(p) /\ StagedOk(p) /\ cfg[p] \in Config /\ kept[p] \in SUBSET Slots
      /\ staged[p] = <<>> /\ fp[p] = cfg[p] /\ View(p)' = View(p)
      /\ \A s \in Slots : cfg[p].auth[s] \notin Secrets
  BY <1>1 DEF LocalInv, LocalOk, CopyOk, StagedOk, Saved, View, TypeInv, TypeOK
<1>3. cfg'[p] \in Config /\ cfg'[p].auth = cfg[p].auth /\ cfg'[p].profiles = cfg[p].profiles
  BY <1>1, <1>2 DEF Config
<1>4. View(p) = fp[p]
  BY <1>2, ViewIs
<1>5. DocsOk(p)' /\ StagedOk(p)'
  BY <1>1, <1>2, <1>3 DEF DocsOk, StagedOk, WellFormed
<1>6. CopyOk(p)'
  BY <1>1, <1>2, <1>3, <1>4 DEF CopyOk, Saved, Recording
<1>7. EditOk(p)'
  <2>1. Recording(p)' /\ \A s \in Slots : Names(fp[p], s)' <=> cfg'[p].auth[s] = Sentinel
    BY <1>1, <1>2, <1>3 DEF Recording, Names
  <2> QED
    BY <2>1, ConfigAssumption DEF EditOk
<1> QED
  BY <1>5, <1>6, <1>7 DEF LocalOk

(* Staging a secret puts an entry before the others, and its slot with     *)
(* theirs.                                                                 *)
Staging(p, s) == [slot |-> s, original |-> cfg[p].auth[s], old |-> keyring[s]]

LEMMA StageSeq ==
    ASSUME TypeInv, NEW p \in Procs, NEW s, staged'[p] = <<Staging(p, s)>> \o staged[p]
    PROVE  /\ Len(staged'[p]) = Len(staged[p]) + 1 /\ Len(staged[p]) \in Nat
           /\ staged'[p][1] = Staging(p, s)
           /\ \A i \in 1..Len(staged[p]) : staged'[p][i + 1] = staged[p][i]
           /\ \A i \in 1..Len(staged'[p]) : i = 1 \/ (i - 1 \in 1..Len(staged[p]) /\ staged'[p][i] = staged[p][i - 1])
           /\ StagedSlots(p)' = StagedSlots(p) \cup {s}
<1>1. staged[p] \in Seq(Stagings)
  BY DEF TypeInv, TypeOK
<1>2. /\ Len(staged'[p]) = Len(staged[p]) + 1 /\ Len(staged[p]) \in Nat
      /\ staged'[p][1] = Staging(p, s)
      /\ \A i \in 1..Len(staged[p]) : staged'[p][i + 1] = staged[p][i]
  BY <1>1
<1>3. \A i \in 1..Len(staged'[p]) : i = 1 \/ (i - 1 \in 1..Len(staged[p]) /\ staged'[p][i] = staged[p][i - 1])
  BY <1>1
<1>4. Staging(p, s).slot = s
  BY DEF Staging
<1>5. StagedSlots(p)' = StagedSlots(p) \cup {s}
  <2>1. ASSUME NEW x \in StagedSlots(p)' PROVE x \in StagedSlots(p) \cup {s}
    <3>1. PICK i \in 1..Len(staged'[p]) : x = staged'[p][i].slot
      BY <2>1 DEF StagedSlots
    <3> QED
      BY <3>1, <1>2, <1>3, <1>4 DEF StagedSlots
  <2>2. ASSUME NEW x \in StagedSlots(p) PROVE x \in StagedSlots(p)'
    <3>1. PICK i \in 1..Len(staged[p]) : x = staged[p][i].slot
      BY <2>2 DEF StagedSlots
    <3>2. i + 1 \in 1..Len(staged'[p]) /\ x = staged'[p][i + 1].slot
      BY <3>1, <1>2
    <3> QED
      BY <3>2 DEF StagedSlots
  <2>3. s \in StagedSlots(p)'
    <3>1. 1 \in 1..Len(staged'[p]) /\ s = staged'[p][1].slot
      BY <1>2, <1>4
    <3> QED
      BY <3>1 DEF StagedSlots
  <2> QED
    BY <2>1, <2>2, <2>3
<1> QED
  BY <1>2, <1>3, <1>5

LEMMA UnstageSeq ==
    ASSUME TypeInv, NEW p \in Procs, StagedOk(p), staged[p] # <<>>, staged'[p] = Tail(staged[p])
    PROVE  LET e == Head(staged[p])
           IN  /\ e \in Stagings /\ e = staged[p][1] /\ 1 \in 1..Len(staged[p])
               /\ e.slot \in StagedSlots(p) /\ StagedSlots(p)' = StagedSlots(p) \ {e.slot}
               /\ \A i \in 1..Len(staged'[p]) : i + 1 \in 1..Len(staged[p]) /\ staged'[p][i] = staged[p][i + 1]
<1> DEFINE e == Head(staged[p])
<1>1. staged[p] \in Seq(Stagings)
  BY DEF TypeInv, TypeOK
<1>2. e \in Stagings /\ e = staged[p][1] /\ 1 \in 1..Len(staged[p])
  BY <1>1
<1>3. Len(staged'[p]) = Len(staged[p]) - 1 /\ Len(staged[p]) \in Nat
      /\ \A i \in 1..Len(staged'[p]) : i + 1 \in 1..Len(staged[p]) /\ staged'[p][i] = staged[p][i + 1]
  BY <1>1
<1> HIDE DEF e
<1>4. ASSUME NEW x \in StagedSlots(p)' PROVE x \in StagedSlots(p) \ {e.slot}
  <2>1. PICK i \in 1..Len(staged'[p]) : x = staged'[p][i].slot
    BY <1>4 DEF StagedSlots
  <2>2. i + 1 \in 1..Len(staged[p]) /\ x = staged[p][i + 1].slot /\ i + 1 # 1
    BY <1>3, <2>1
  <2>3. x # e.slot
    BY <1>2, <2>2 DEF StagedOk
  <2> QED
    BY <2>2, <2>3 DEF StagedSlots
<1>5. ASSUME NEW x \in StagedSlots(p) \ {e.slot} PROVE x \in StagedSlots(p)'
  <2>1. PICK i \in 1..Len(staged[p]) : x = staged[p][i].slot
    BY <1>5 DEF StagedSlots
  <2>2. i # 1
    BY <1>2, <2>1
  <2>3. i - 1 \in 1..Len(staged'[p]) /\ (i - 1) + 1 = i
    BY <1>3, <2>1, <2>2
  <2>4. x = staged'[p][i - 1].slot
    BY <1>3, <2>1, <2>3
  <2> QED
    BY <2>3, <2>4 DEF StagedSlots
<1>6. e.slot \in StagedSlots(p)
  BY <1>2 DEF StagedSlots
<1>7. StagedSlots(p)' = StagedSlots(p) \ {e.slot}
  BY <1>4, <1>5
<1> QED
  BY <1>2, <1>3, <1>6, <1>7 DEF e

LEMMA StageLocal ==
    ASSUME TypeInv, LocalInv, NEW p \in Procs, NEW s \in Slots, Stage(p, s)
    PROVE  LocalOk(p)'
<1>1. /\ pc[p] = "stage" /\ pc'[p] = "stage" /\ fp'[p] = fp[p] /\ task'[p] = task[p]
      /\ s \in Unstaged(cfg[p]) /\ cfg'[p] = [cfg[p] EXCEPT !.auth[s] = Sentinel]
      /\ staged'[p] = <<Staging(p, s)>> \o staged[p]
  BY StageIs DEF Staging
<1>2. /\ DocsOk(p) /\ CopyOk(p) /\ StagedOk(p) /\ EditOk(p) /\ cfg[p] \in Config
      /\ s[1] \in cfg[p].profiles /\ cfg[p].auth[s] \in Secrets
  BY <1>1 DEF LocalInv, LocalOk, TypeInv, TypeOK, Unstaged
<1>3. /\ cfg'[p] \in Config /\ cfg'[p].profiles = cfg[p].profiles /\ cfg'[p].pending = cfg[p].pending
      /\ \A x \in Slots : cfg'[p].auth[x] = IF x = s THEN Sentinel ELSE cfg[p].auth[x]
  BY <1>1, <1>2, SMTT(30) DEF Config, Values
<1>4. /\ Staging(p, s).slot = s /\ View(p)' = View(p) /\ ~Recording(p)
      /\ \A x \in Slots : Names(fp[p], x)' = Names(fp[p], x) /\ Pends(fp[p], x)' = Pends(fp[p], x)
  BY <1>1, <1>2 DEF Staging, View, Recording, CopyOk, Names, Pends
<1>5. DocsOk(p)'
  BY <1>1, <1>2, <1>3 DEF DocsOk, WellFormed
<1>6. CopyOk(p)'
  BY <1>1, <1>2, <1>4 DEF CopyOk, Saved, Recording
<1>7. /\ StagedSlots(p)' = StagedSlots(p) \cup {s}
      /\ staged'[p][1] = Staging(p, s)
      /\ \A i \in 1..Len(staged'[p]) : i = 1 \/ (i - 1 \in 1..Len(staged[p]) /\ staged'[p][i] = staged[p][i - 1])
  BY <1>1, StageSeq
<1>8. StagedOk(p)'
  <2>1. \A i \in 1..Len(staged[p]) : staged[p][i].slot \in Slots /\ staged[p][i].slot # s
    <3> SUFFICES ASSUME NEW i \in 1..Len(staged[p]) PROVE staged[p][i].slot \in Slots /\ staged[p][i].slot # s
      OBVIOUS
    <3>1. staged[p][i] \in Stagings
      BY DEF TypeInv, TypeOK
    <3> QED
      BY <1>2, <3>1, ConfigAssumption DEF Stagings, StagedOk
  <2>2. \A i \in 1..Len(staged'[p]) : cfg'[p].auth[staged'[p][i].slot] = Sentinel
    <3> SUFFICES ASSUME NEW i \in 1..Len(staged'[p]) PROVE cfg'[p].auth[staged'[p][i].slot] = Sentinel
      OBVIOUS
    <3>1. CASE i = 1
      BY <1>3, <1>4, <1>7, <3>1
    <3>2. CASE i # 1
      <4>1. PICK k \in 1..Len(staged[p]) : staged'[p][i] = staged[p][k]
        BY <1>7, <3>2
      <4>2. cfg[p].auth[staged[p][k].slot] = Sentinel
        BY <1>2 DEF StagedOk
      <4> QED
        BY <1>3, <2>1, <4>1, <4>2
    <3> QED
      BY <3>1, <3>2
  <2>3. ASSUME NEW i \in 1..Len(staged'[p]), NEW j \in 1..Len(staged'[p]), staged'[p][i].slot = staged'[p][j].slot
        PROVE  i = j
    <3>1. CASE i = 1 /\ j = 1
      BY <3>1
    <3>2. CASE i # 1 /\ j = 1
      BY <1>4, <1>7, <2>1, <2>3, <3>2
    <3>3. CASE i = 1 /\ j # 1
      BY <1>4, <1>7, <2>1, <2>3, <3>3
    <3>4. CASE i # 1 /\ j # 1
      <4> DEFINE k == i - 1
                 l == j - 1
      <4>2. /\ k \in 1..Len(staged[p]) /\ staged'[p][i] = staged[p][k]
            /\ l \in 1..Len(staged[p]) /\ staged'[p][j] = staged[p][l]
        BY <1>7, <3>4
      <4>3. k = l => i = j
        OBVIOUS
      <4> HIDE DEF k, l
      <4>1. k = l
        BY <1>2, <2>3, <4>2 DEF StagedOk
      <4> QED
        BY <4>1, <4>3
    <3> QED
      BY <3>1, <3>2, <3>3, <3>4
  <2> QED
    BY <1>1, <2>2, <2>3 DEF StagedOk
<1>9. EditOk(p)'
  BY <1>1, <1>2, <1>3, <1>4, <1>7, ConfigAssumption DEF EditOk, Queued, Recording
<1> QED
  BY <1>5, <1>6, <1>8, <1>9 DEF LocalOk

LEMMA UnstageLocal ==
    ASSUME TypeInv, LocalInv, NEW p \in Procs, pc[p] = "rollback", staged[p] # <<>>, Unstage(p)
    PROVE  LocalOk(p)'
<1> DEFINE e == Head(staged[p])
<1>1. /\ pc'[p] = "rollback" /\ fp'[p] = fp[p] /\ task'[p] = task[p]
      /\ staged'[p] = Tail(staged[p]) /\ cfg'[p] = [cfg[p] EXCEPT !.auth[e.slot] = e.original]
  BY UnstageIs
<1>2. DocsOk(p) /\ CopyOk(p) /\ StagedOk(p) /\ cfg[p] \in Config
  BY DEF LocalInv, LocalOk, TypeInv, TypeOK
<1>3. /\ e \in Stagings /\ e = staged[p][1] /\ 1 \in 1..Len(staged[p])
      /\ \A i \in 1..Len(staged'[p]) : i + 1 \in 1..Len(staged[p]) /\ staged'[p][i] = staged[p][i + 1]
  BY <1>1, <1>2, UnstageSeq
<1> HIDE DEF e
<1>4. e.slot \in Slots /\ e.original \in Secrets /\ cfg[p].auth[e.slot] = Sentinel
  BY <1>2, <1>3 DEF Stagings, StagedOk
<1>5. /\ cfg'[p] \in Config /\ cfg'[p].profiles = cfg[p].profiles
      /\ \A x \in Slots : cfg'[p].auth[x] = IF x = e.slot THEN e.original ELSE cfg[p].auth[x]
  BY <1>1, <1>2, <1>4 DEF Config, Values
<1>6. DocsOk(p)'
  BY <1>1, <1>2, <1>4, <1>5, ConfigAssumption DEF DocsOk, WellFormed
<1>7. CopyOk(p)'
  BY <1>1, <1>2 DEF CopyOk, Saved, Recording, View
<1>8. StagedOk(p)'
  <2>1. \A i \in 1..Len(staged'[p]) : staged'[p][i].slot \in Slots /\ staged'[p][i].slot # e.slot
    <3> SUFFICES ASSUME NEW i \in 1..Len(staged'[p])
                 PROVE staged'[p][i].slot \in Slots /\ staged'[p][i].slot # e.slot
      OBVIOUS
    <3>1. i + 1 \in 1..Len(staged[p]) /\ staged'[p][i] = staged[p][i + 1] /\ i + 1 # 1
      BY <1>3
    <3>2. staged[p][i + 1] \in Stagings
      BY <3>1 DEF TypeInv, TypeOK
    <3> QED
      BY <1>2, <1>3, <3>1, <3>2 DEF Stagings, StagedOk
  <2>2. \A i \in 1..Len(staged'[p]) : cfg'[p].auth[staged'[p][i].slot] = Sentinel
    <3> SUFFICES ASSUME NEW i \in 1..Len(staged'[p]) PROVE cfg'[p].auth[staged'[p][i].slot] = Sentinel
      OBVIOUS
    <3>1. PICK k \in 1..Len(staged[p]) : staged'[p][i] = staged[p][k]
      BY <1>3
    <3>2. cfg[p].auth[staged[p][k].slot] = Sentinel
      BY <1>2 DEF StagedOk
    <3> QED
      BY <1>5, <2>1, <3>1, <3>2
  <2>3. ASSUME NEW i \in 1..Len(staged'[p]), NEW j \in 1..Len(staged'[p]), staged'[p][i].slot = staged'[p][j].slot
        PROVE  i = j
    <3> DEFINE k == i + 1
               l == j + 1
    <3>1. /\ k \in 1..Len(staged[p]) /\ staged'[p][i] = staged[p][k]
          /\ l \in 1..Len(staged[p]) /\ staged'[p][j] = staged[p][l]
      BY <1>3
    <3>2. k = l => i = j
      OBVIOUS
    <3> HIDE DEF k, l
    <3>3. k = l
      BY <1>2, <2>3, <3>1 DEF StagedOk
    <3> QED
      BY <3>2, <3>3
  <2> QED
    BY <1>1, <2>2, <2>3 DEF StagedOk
<1>9. EditOk(p)'
  BY <1>1 DEF EditOk
<1> QED
  BY <1>6, <1>7, <1>8, <1>9 DEF LocalOk

LEMMA CommitLocal ==
    ASSUME TypeInv, LocalInv, NEW p \in Procs, Commit(p)
    PROVE  LocalOk(p)'
<1>1. /\ pc[p] = "stage" /\ pc'[p] = "sync" /\ Unstaged(cfg[p]) = {}
      /\ fp'[p] = cfg[p] /\ cfg'[p] = cfg[p] /\ staged'[p] = <<>>
  BY CommitIs
<1>2. WellFormed(cfg[p]) /\ cfg[p] \in Config
  BY DEF LocalInv, LocalOk, DocsOk, TypeInv, TypeOK
<1>3. \A s \in Slots : cfg[p].auth[s] \notin Secrets
  BY <1>1, <1>2, ConfigAssumption DEF Unstaged, WellFormed
<1>4. DocsOk(p)' /\ StagedOk(p)' /\ EditOk(p)'
  BY <1>1, <1>2 DEF DocsOk, StagedOk, EditOk, WellFormed
<1>5. CopyOk(p)'
  BY <1>1, <1>3 DEF CopyOk, Saved, Recording
<1> QED
  BY <1>4, <1>5 DEF LocalOk

(* The steps after which a process has its view.                           *)
LEMMA DoneIs ==
    ASSUME TypeInv, LocalInv, NEW p \in Procs,
           \/ Refuse(p) \/ SkipRetry(p) \/ Rejected(p) \/ (SyncDir(p) /\ ~CleansUp(p)) \/ SyncFault(p)
           \/ (CleanupDone(p) /\ kept[p] = cfg[p].pending)
    PROVE  /\ Others(p) /\ UNCHANGED <<disk, keyring>> /\ pc'[p] = "ready" /\ cfg'[p] = View(p)
           /\ fp'[p] = fp[p] /\ staged[p] = <<>> /\ staged'[p] = <<>>
<1>0. CopyOk(p) /\ StagedOk(p) /\ cfg[p] \in Config
  BY DEF LocalInv, LocalOk, TypeInv, TypeOK
<1> USE DEF disk
<1>1. CASE Refuse(p)
  <2>1. Others(p) /\ pc'[p] = "ready" /\ cfg'[p] = task[p].prev /\ fp'[p] = fp[p] /\ staged'[p] = staged[p]
    BY <1>1, FinishIs DEF Refuse
  <2> QED
    BY <1>0, <1>1, <2>1 DEF Refuse, CopyOk, StagedOk
<1>2. CASE SkipRetry(p)
  <2>1. Others(p) /\ pc'[p] = "ready" /\ cfg'[p] = cfg[p] /\ fp'[p] = fp[p] /\ staged'[p] = staged[p]
    BY <1>2, FinishIs DEF SkipRetry
  <2> QED
    BY <1>0, <1>2, <2>1 DEF SkipRetry, NothingPending, CopyOk, StagedOk
<1>3. CASE Rejected(p)
  <2>1. Others(p) /\ pc'[p] = "ready" /\ cfg'[p] = task[p].prev /\ fp'[p] = fp[p] /\ staged'[p] = staged[p]
    BY <1>3, FinishIs DEF Rejected, RestoredCopy
  <2> QED
    BY <1>0, <1>3, <2>1 DEF Rejected, CopyOk
<1>4. ASSUME Saved(p), UNCHANGED <<disk, keyring>>, Finish(p, cfg[p]), UNCHANGED <<fp, staged, todo, legacyVal>>,
             \A q \in Procs : q # p => kept'[q] = kept[q]
      PROVE  /\ Others(p) /\ pc'[p] = "ready" /\ cfg'[p] = View(p) /\ fp'[p] = fp[p]
             /\ staged[p] = <<>> /\ staged'[p] = <<>>
  <2>1. Others(p) /\ pc'[p] = "ready" /\ cfg'[p] = cfg[p] /\ fp'[p] = fp[p] /\ staged'[p] = staged[p]
    BY <1>4, FinishIs
  <2>2. staged[p] = <<>> /\ fp[p] = cfg[p]
    BY <1>0, <1>4 DEF Saved, CopyOk, StagedOk
  <2>3. View(p) = cfg[p]
    BY <1>0, <2>2, ViewIs
  <2> QED
    BY <2>1, <2>2, <2>3
<1>5. CASE (SyncDir(p) /\ ~CleansUp(p)) \/ SyncFault(p)
  BY <1>4, <1>5 DEF SyncDir, SyncFault, Saved
<1>6. CASE CleanupDone(p) /\ kept[p] = cfg[p].pending
  <2>1. \A q \in Procs : q # p => kept'[q] = kept[q]
    BY <1>6 DEF CleanupDone, TypeInv, TypeOK
  <2> QED
    BY <1>4, <1>6, <2>1 DEF CleanupDone, Saved
<1> QED
  BY <1>1, <1>2, <1>3, <1>5, <1>6

LEMMA LocalStep ==
    ASSUME TypeInv, LocalInv, WellFormed(file), EmptyInputs = FALSE, [Next]_vars
    PROVE  LocalInv'
<1>1. ASSUME NEW p \in Procs, Others(p), LocalOk(p)' PROVE LocalInv'
  BY <1>1, LocalFrame
<1>2. CASE UNCHANGED vars
  BY <1>2, LocalStays DEF vars, Same, LocalInv
<1>3. CASE HandEdit
  BY <1>3, LocalStays DEF HandEdit, locals, saving, Same, LocalInv
<1>4. ASSUME NEW p \in Procs, Load(p) PROVE LocalInv'
  BY <1>1, <1>4, LoadIs, LoadLocal
<1>5. ASSUME NEW p \in Procs, Exit(p) \/ Crash(p) PROVE LocalInv'
  BY <1>1, <1>5, ForgetIs, ForgetLocal DEF Exit, Crash
<1>6. ASSUME NEW p \in Procs, Edits(p) PROVE LocalInv'
  <2>1. ASSUME NEW c, NEW kind, NEW fields, Command(p, c, kind, fields) PROVE Others(p)
    BY <2>1, CommandOthers
  <2>2. Others(p)
    BY <1>6, <2>1 DEF Edits, Edit, UseProfile, UnsetAuth, RemoveProfile, SetToken, InitProfile,
       SetAuthMethod, UnsetField, SetSecretField, AddProfile, RetryCleanup
  <2> QED
    BY <1>1, <1>6, <2>2, CommandLocal
<1>7. ASSUME NEW p \in Procs, Acquire(p) PROVE LocalInv'
  BY <1>1, <1>7, AcquireIs, AcquireLocal
<1>8. ASSUME NEW p \in Procs, Verify(p) \/ SaveFault(p) \/ (SyncDir(p) /\ CleansUp(p)) PROVE LocalInv'
  BY <1>1, <1>8, MovedIs, MovedLocal DEF Moved
<1>9. ASSUME NEW p \in Procs, Resolve(p) \/ \E s \in Slots : DeleteSecret(p, s) \/ DeleteFault(p, s)
      PROVE LocalInv'
  <2>1. Others(p)
    BY <1>9, ResolveIs, DeleteIs
  <2> QED
    BY <1>1, <1>9, <2>1, QuietLocal
<1>10. ASSUME NEW p \in Procs, CleanupDone(p), kept[p] # cfg[p].pending PROVE LocalInv'
  BY <1>1, <1>10, RecordIs, RecordLocal
<1>11. ASSUME NEW p \in Procs, NEW s \in Slots, Stage(p, s) PROVE LocalInv'
  BY <1>1, <1>11, StageIs, StageLocal
<1>12. ASSUME NEW p \in Procs, Rollback(p) \/ RollbackFault(p) PROVE LocalInv'
  BY <1>1, <1>12, UnstageIs, UnstageLocal DEF Rollback, RollbackFault
<1>13. ASSUME NEW p \in Procs, Commit(p) PROVE LocalInv'
  BY <1>1, <1>13, CommitIs, CommitLocal
<1>14. ASSUME NEW p \in Procs,
           \/ Refuse(p) \/ SkipRetry(p) \/ Rejected(p) \/ (SyncDir(p) /\ ~CleansUp(p)) \/ SyncFault(p)
           \/ (CleanupDone(p) /\ kept[p] = cfg[p].pending)
       PROVE LocalInv'
  BY <1>1, <1>14, DoneIs, FinishLocal
<1> QED
  BY <1>2, <1>3, <1>4, <1>5, <1>6, <1>7, <1>8, <1>9, <1>10, <1>11, <1>12, <1>13, <1>14
     DEF Next, SaveStep, SaveFailure

-------------------------------------------------------------------------------
(* The file.                                                               *)

LEMMA Alone ==
    ASSUME TypeInv, LockHolder, LocalInv, NEW p \in Procs, pc[p] \in Critical, NEW q \in Procs, q # p
    PROVE  pc[q] \notin Critical /\ staged[q] = <<>>
<1>1. pc[q] \notin Critical
  BY DEF LockHolder
<1> QED
  BY <1>1 DEF Critical, LocalInv, LocalOk, StagedOk

(* A hand edit names no managed secret, and spoils those that it hides.    *)
LEMMA HandEditIs ==
    ASSUME TypeInv, HandEdit
    PROVE  /\ UNCHANGED <<keyring, committed, lock, pc, cfg, fp, task, staged, todo, kept>>
           /\ tainted \subseteq tainted'
           /\ \A s \in Slots : /\ Names(file', s) => Names(file, s)
                               /\ Names(file, s) => Names(file', s) \/ s \in tainted'
                               /\ Pends(file, s) => Pends(file', s) \/ s \in tainted'
           /\ WellFormed(file) => WellFormed(file')
<1>1. UNCHANGED <<keyring, committed, lock, pc, cfg, fp, task, staged, todo, kept>>
  BY DEF HandEdit, locals, saving
<1>2. tainted' = tainted \cup {s \in Slots : file' \in {NoFile, Broken} \/ file'.auth[s] \in Secrets}
  BY DEF HandEdit
<1>3. CASE file' \in {NoFile, Broken}
  <2>1. file' \notin Config
    BY <1>3, ContentAssumption
  <2> QED
    BY <1>1, <1>2, <1>3, <2>1 DEF Names, Pends, WellFormed
<1>4. CASE file' \notin {NoFile, Broken}
  <2>1. PICK s \in {t \in Slots : t[1] \in file.profiles}, v \in Secrets : file' = [file EXCEPT !.auth[s] = v]
    BY <1>4 DEF HandEdit, HandEdits
  <2>2. file \in Config
    BY <1>4 DEF HandEdit, HandEdits, TypeInv, TypeOK, Contents
  <2>3. /\ file' \in Config /\ file'.profiles = file.profiles /\ file'.pending = file.pending
        /\ \A x \in Slots : file'.auth[x] = IF x = s THEN v ELSE file.auth[x]
    BY <2>1, <2>2 DEF Config, Values
  <2> QED
    BY <1>1, <1>2, <2>1, <2>2, <2>3, ConfigAssumption DEF Names, Pends, WellFormed
<1> QED
  BY <1>3, <1>4

LEMMA FileKept ==
    ASSUME FileInv, file' = file,
           \A q \in Procs : fp'[q] = fp[q] /\ (Compared(q)' => Compared(q) \/ file = fp[q])
    PROVE  FileInv'
<1>1. ASSUME NEW q \in Procs PROVE WithinOk(q)'
  BY DEF FileInv, WithinOk, Names
<1> QED
  BY <1>1 DEF FileInv, WellFormed

LEMMA SameCompared ==
    ASSUME NEW q \in Procs, Same(q)
    PROVE  fp'[q] = fp[q] /\ Compared(q)' = Compared(q)
BY DEF Same, Compared, Saved, Recording

(* A step of p that leaves the file alone.                                 *)
LEMMA FileFrame ==
    ASSUME FileInv, NEW p \in Procs, Others(p), file' = file,
           ~Compared(p)' \/ (fp'[p] = fp[p] /\ (Compared(p) \/ file = fp[p]))
    PROVE  FileInv'
<1>1. ASSUME NEW q \in Procs PROVE WithinOk(q)'
  <2>1. CASE q = p
    BY <2>1 DEF FileInv, WithinOk, Names
  <2>2. CASE q # p
    BY <2>2, SameCompared DEF Others, FileInv, WithinOk, Names
  <2> QED
    BY <2>1, <2>2
<1> QED
  BY <1>1 DEF FileInv, WellFormed

LEMMA FileStep ==
    ASSUME TypeInv, LockHolder, LocalInv, FileInv, EmptyInputs = FALSE, [Next]_vars
    PROVE  FileInv'
<1> USE DEF Compared, Saved, Recording
<1>1. ASSUME NEW p \in Procs PROVE CopyOk(p)
  BY DEF LocalInv, LocalOk
<1>2. CASE UNCHANGED vars
  BY <1>2, FileKept DEF vars
<1>3. CASE HandEdit
  <2>1. ASSUME NEW q \in Procs PROVE WithinOk(q)'
    BY <1>3, HandEditIs DEF FileInv, WithinOk, Names
  <2> QED
    BY <1>3, <2>1, HandEditIs DEF FileInv, WellFormed
<1>4. ASSUME NEW p \in Procs, Load(p) PROVE FileInv'
  BY <1>4, LoadIs, FileFrame DEF disk
<1>5. ASSUME NEW p \in Procs, Exit(p) \/ Crash(p) PROVE FileInv'
  BY <1>5, ForgetIs, FileFrame DEF Exit, Crash, disk
<1>6. ASSUME NEW p \in Procs, Edits(p) PROVE FileInv'
  <2>1. ASSUME NEW c, NEW kind, NEW fields, Command(p, c, kind, fields) PROVE FileInv'
    BY <2>1, CommandOthers, FileFrame DEF disk
  <2> QED
    BY <1>6, <2>1 DEF Edits, Edit, UseProfile, UnsetAuth, RemoveProfile, SetToken, InitProfile,
       SetAuthMethod, UnsetField, SetSecretField, AddProfile, RetryCleanup
<1>7. ASSUME NEW p \in Procs, Acquire(p) PROVE FileInv'
  BY <1>1, <1>7, AcquireIs, FileFrame DEF CopyOk, disk
<1>8. ASSUME NEW p \in Procs, Verify(p) PROVE FileInv'
  <2>1. /\ Moved(p) /\ file' = file /\ pc[p] = "verify"
        /\ pc'[p] = IF Unchanged(p) THEN "stage" ELSE "rollback"
    BY <1>8, MovedIs
  <2> QED
    BY <2>1, FileFrame DEF Unchanged, Moved
<1>9. ASSUME NEW p \in Procs, SaveFault(p) PROVE FileInv'
  BY <1>9, MovedIs, FileFrame DEF Moved, disk
<1>10. ASSUME NEW p \in Procs, SyncDir(p), CleansUp(p) PROVE FileInv'
  BY <1>10, MovedIs, FileFrame DEF Moved, disk
<1>11. ASSUME NEW p \in Procs, Resolve(p) PROVE FileInv'
  BY <1>11, ResolveIs, FileFrame
<1>12. ASSUME NEW p \in Procs, NEW s \in Slots, DeleteSecret(p, s) \/ DeleteFault(p, s) PROVE FileInv'
  BY <1>12, DeleteIs, FileFrame DEF disk
<1>13. ASSUME NEW p \in Procs, CleanupDone(p), kept[p] # cfg[p].pending PROVE FileInv'
  BY <1>13, RecordIs, FileFrame DEF disk
<1>14. ASSUME NEW p \in Procs, NEW s \in Slots, Stage(p, s) PROVE FileInv'
  BY <1>14, StageIs, FileFrame DEF disk
<1>15. ASSUME NEW p \in Procs, Rollback(p) \/ RollbackFault(p) PROVE FileInv'
  BY <1>15, UnstageIs, FileFrame DEF Rollback, RollbackFault
<1>16. ASSUME NEW p \in Procs, Commit(p) PROVE FileInv'
  <2>1. /\ Others(p) /\ pc[p] = "stage" /\ file' = cfg[p] /\ fp'[p] = cfg[p] /\ WellFormed(cfg[p])
    BY <1>16, CommitIs DEF LocalInv, LocalOk, DocsOk
  <2>2. ASSUME NEW q \in Procs PROVE WithinOk(q)'
    <3>1. CASE q = p
      BY <2>1, <3>1 DEF WithinOk, Names
    <3>2. CASE q # p
      <4>1. pc[q] \notin Critical /\ Same(q)
        BY <2>1, <3>2, Alone DEF Critical, Others
      <4> QED
        BY <4>1 DEF WithinOk, Same, Critical
    <3> QED
      BY <3>1, <3>2
  <2> QED
    BY <2>1, <2>2 DEF FileInv, WellFormed
<1>17. ASSUME NEW p \in Procs,
           \/ Refuse(p) \/ SkipRetry(p) \/ Rejected(p) \/ (SyncDir(p) /\ ~CleansUp(p)) \/ SyncFault(p)
           \/ (CleanupDone(p) /\ kept[p] = cfg[p].pending)
       PROVE FileInv'
  <2>1. Others(p) /\ file' = file /\ pc'[p] = "ready"
    BY <1>17, DoneIs DEF disk
  <2> QED
    BY <2>1, FileFrame
<1> QED
  BY <1>2, <1>3, <1>4, <1>5, <1>6, <1>7, <1>8, <1>9, <1>10, <1>11, <1>12, <1>13, <1>14, <1>15,
     <1>16, <1>17 DEF Next, SaveStep, SaveFailure

-------------------------------------------------------------------------------
(* The keyring.                                                            *)

(* A process outside a save has nothing to account for.                    *)
LEMMA IdleAccounts ==
    ASSUME NEW q \in Procs, pc[q] \notin Critical, staged[q] = <<>>
    PROVE  AccountsOk(q) /\ StagedSlots(q) = {}
BY DEF AccountsOk, StagedSlots, Recording, Critical

LEMMA IdleAccountsNext ==
    ASSUME NEW q \in Procs, pc'[q] \notin Critical, staged'[q] = <<>>
    PROVE  AccountsOk(q)' /\ StagedSlots(q)' = {}
BY DEF AccountsOk, StagedSlots, Recording, Critical

(* Of the processes, only the one inside a save matters.                   *)
LEMMA HolderAccounts ==
    ASSUME TypeInv, LockHolder, LocalInv, KeyringInv, NEW p \in Procs, pc[p] \in Critical,
           NEW s \in Slots, s \notin StagedSlots(p)
    PROVE  Accounted(file, s, keyring[s])
<1>1. ASSUME NEW q \in Procs PROVE s \notin StagedSlots(q)
  <2>1. CASE q = p
    BY <2>1
  <2>2. CASE q # p
    BY <2>2, Alone, IdleAccounts
  <2> QED
    BY <2>1, <2>2
<1> QED
  BY <1>1 DEF KeyringInv

LEMMA HolderFrame ==
    ASSUME TypeInv, LockHolder, LocalInv, NEW p \in Procs, pc[p] \in Critical, Others(p),
           AccountsOk(p)', \A s \in Slots : s \notin StagedSlots(p)' => Accounted(file, s, keyring[s])'
    PROVE  KeyringInv'
<1>1. ASSUME NEW q \in Procs, q # p PROVE AccountsOk(q)'
  <2>1. pc'[q] \notin Critical /\ staged'[q] = <<>>
    BY <1>1, Alone DEF Others, Same
  <2> QED
    BY <2>1, IdleAccountsNext
<1>2. \A q \in Procs : AccountsOk(q)'
  BY <1>1
<1> QED
  BY <1>2 DEF KeyringInv

(* The accounts and the file are as they were.                             *)
Still == UNCHANGED <<file, keyring, committed, tainted>>

LEMMA StillAccounted ==
    ASSUME Still
    PROVE  /\ \A doc, s, v : Accounted(doc, s, v)' = Accounted(doc, s, v)
           /\ \A e : EntryOk(e)' = EntryOk(e)
BY DEF Still, Accounted, EntryOk, Names, Pends

LEMMA StillFrame ==
    ASSUME KeyringInv, Still, NEW p \in Procs, Others(p), staged'[p] = staged[p], AccountsOk(p)'
    PROVE  KeyringInv'
<1>1. \A q \in Procs : staged'[q] = staged[q] /\ StagedSlots(q)' = StagedSlots(q)
  BY DEF Others, Same, StagedSlots
<1>2. ASSUME NEW s \in Slots, \A q \in Procs : s \notin StagedSlots(q)' PROVE Accounted(file, s, keyring[s])'
  <2>1. Accounted(file, s, keyring[s])
    BY <1>1, <1>2 DEF KeyringInv
  <2> QED
    BY <2>1 DEF Still, Accounted, Names, Pends
<1>3. ASSUME NEW q \in Procs PROVE AccountsOk(q)'
  <2>1. CASE q = p
    BY <2>1
  <2>2. CASE q # p
    <3>1. Same(q) /\ AccountsOk(q)
      BY <2>2 DEF Others, KeyringInv
    <3>2. /\ \A i \in 1..Len(staged[q]) : EntryOk(staged[q][i])'
          /\ pc[q] = "stage" =>
                \A s \in Slots : s \notin StagedSlots(q) => Accounted(fp[q], s, keyring[s])'
      BY <3>1 DEF AccountsOk, EntryOk, Accounted, Names, Pends, Still, Same
    <3>3. /\ pc'[q] = pc[q] /\ cfg'[q] = cfg[q] /\ fp'[q] = fp[q] /\ todo'[q] = todo[q] /\ kept'[q] = kept[q]
          /\ Recording(q)' = Recording(q) /\ staged'[q] = staged[q] /\ StagedSlots(q)' = StagedSlots(q)
          /\ \A s \in Slots : Pends(fp[q], s)' = Pends(fp[q], s) /\ Dealt(q, s)' = Dealt(q, s)
      BY <1>1, <3>1 DEF Same, Recording, Pends, Dealt, Still
    <3> QED
      BY <3>1, <3>2, <3>3 DEF AccountsOk
  <2> QED
    BY <2>1, <2>2
<1> QED
  BY <1>2, <1>3 DEF KeyringInv

(* A step of p after which it is not between its check and its end.        *)
LEMMA OutFrame ==
    ASSUME KeyringInv, Still, NEW p \in Procs, Others(p), staged'[p] = staged[p],
           pc'[p] \notin {"stage", "clean"}, ~Recording(p)'
    PROVE  KeyringInv'
<1>1. AccountsOk(p)'
  BY DEF KeyringInv, AccountsOk, EntryOk, Accounted, Names, Pends, Still
<1> QED
  BY <1>1, StillFrame

LEMMA VerifyKeyring ==
    ASSUME TypeInv, LockHolder, LocalInv, KeyringInv, NEW p \in Procs, Verify(p)
    PROVE  KeyringInv'
<1>1. /\ Moved(p) /\ Still /\ pc[p] = "verify"
      /\ pc'[p] = IF Unchanged(p) THEN "stage" ELSE "rollback"
  BY MovedIs DEF Still
<1>2. CASE ~Unchanged(p)
  BY <1>1, <1>2, OutFrame DEF Moved, Recording
<1>3. CASE Unchanged(p)
  <2>1. staged[p] = <<>> /\ StagedSlots(p) = {} /\ StagedSlots(p)' = {} /\ pc[p] \in Critical
    BY <1>1 DEF LocalInv, LocalOk, StagedOk, StagedSlots, Moved, Critical
  <2>2. \A s \in Slots : Accounted(file, s, keyring[s])
    BY <2>1, HolderAccounts
  <2>3. \A s \in Slots : Accounted(fp[p], s, keyring[s])'
    BY <1>1, <1>3, <2>2 DEF Unchanged, Accounted, Names, Pends, Still, Moved
  <2>4. Recording(p)' => \A s \in Slots : Pends(fp[p], s)' => s \in cfg'[p].pending \/ Dealt(p, s)'
    BY <1>1 DEF KeyringInv, AccountsOk, Recording, Moved, Pends, Dealt, Still
  <2>5. AccountsOk(p)'
    BY <1>1, <1>3, <2>1, <2>3, <2>4 DEF AccountsOk, Moved
  <2> QED
    BY <1>1, <2>5, StillFrame DEF Moved
<1> QED
  BY <1>2, <1>3

LEMMA SyncKeyring ==
    ASSUME TypeInv, LocalInv, KeyringInv, NEW p \in Procs, SyncDir(p), CleansUp(p)
    PROVE  KeyringInv'
<1>1. /\ Moved(p) /\ Still /\ pc[p] = "sync" /\ pc'[p] = "clean" /\ todo'[p] = cfg[p].pending
  BY MovedIs DEF Still, disk
<1>2. staged[p] = <<>>
  BY <1>1 DEF LocalInv, LocalOk, StagedOk
<1>3. AccountsOk(p)'
  BY <1>1, <1>2 DEF AccountsOk, Moved, Recording
<1> QED
  BY <1>1, <1>3, StillFrame DEF Moved

LEMMA RecordKeyring ==
    ASSUME TypeInv, LocalInv, KeyringInv, NEW p \in Procs, CleanupDone(p), kept[p] # cfg[p].pending
    PROVE  KeyringInv'
<1>1. /\ Others(p) /\ Still /\ pc[p] = "clean" /\ pc'[p] = "verify"
      /\ todo[p] = {} /\ fp'[p] = fp[p] /\ staged'[p] = staged[p]
      /\ cfg'[p] = [cfg[p] EXCEPT !.pending = kept[p]]
  BY RecordIs DEF Still, disk
<1>2. /\ staged[p] = <<>> /\ fp[p] = cfg[p] /\ cfg[p] \in Config /\ kept[p] \in SUBSET Slots
  BY <1>1 DEF LocalInv, LocalOk, StagedOk, CopyOk, Saved, TypeInv, TypeOK
<1>3. cfg'[p].pending = kept[p] /\ cfg'[p].auth = cfg[p].auth
  BY <1>1, <1>2 DEF Config
<1>4. \A s \in Slots : s \in cfg[p].pending => s \in kept[p] \/ Dealt(p, s)
  BY <1>1 DEF KeyringInv, AccountsOk
<1>5. \A s \in Slots : Pends(fp[p], s)' => s \in cfg'[p].pending \/ Dealt(p, s)'
  BY <1>1, <1>2, <1>3, <1>4 DEF Pends, Dealt, Still
<1>6. AccountsOk(p)'
  BY <1>1, <1>2, <1>5 DEF AccountsOk
<1> QED
  BY <1>1, <1>6, StillFrame

LEMMA DeleteFaultKeyring ==
    ASSUME TypeInv, LocalInv, KeyringInv, NEW p \in Procs, NEW s \in Slots, DeleteFault(p, s)
    PROVE  KeyringInv'
<1>1. /\ Others(p) /\ Still /\ pc[p] = "clean" /\ pc'[p] = "clean"
      /\ cfg'[p] = cfg[p] /\ fp'[p] = fp[p] /\ staged'[p] = staged[p]
      /\ todo'[p] = todo[p] \ {s} /\ kept'[p] = kept[p] \cup {s}
  BY DeleteIs DEF Still, disk
<1>2. staged[p] = <<>>
  BY <1>1 DEF LocalInv, LocalOk, StagedOk
<1>3. \A x \in Slots : x \in cfg[p].pending => x \in todo[p] \cup kept[p] \/ Dealt(p, x)
  BY <1>1 DEF KeyringInv, AccountsOk
<1>4. \A x \in Slots : x \in cfg'[p].pending => x \in todo'[p] \cup kept'[p] \/ Dealt(p, x)'
  BY <1>1, <1>3 DEF Dealt, Still
<1>5. AccountsOk(p)'
  BY <1>1, <1>2, <1>4 DEF AccountsOk, Recording
<1> QED
  BY <1>1, <1>5, StillFrame

(* A slot that is tainted and holds something is accounted for.            *)
LEMMA TaintedAccounted ==
    ASSUME NEW doc, NEW s, NEW v, v # None, s \in tainted'
    PROVE  Accounted(doc, s, v)'
BY DEF Accounted

LEMMA MoreAccounted ==
    ASSUME NEW doc, NEW s, NEW v, Accounted(doc, s, v), committed' = committed, tainted \subseteq tainted'
    PROVE  Accounted(doc, s, v)'
BY DEF Accounted, Names, Pends

LEMMA StageKeyring ==
    ASSUME TypeInv, LockHolder, LocalInv, KeyringInv, NEW p \in Procs, NEW s \in Slots, Stage(p, s)
    PROVE  KeyringInv'
<1>1. /\ Others(p) /\ UNCHANGED <<file, committed, tainted>> /\ pc[p] = "stage" /\ pc'[p] = "stage"
      /\ fp'[p] = fp[p] /\ task'[p] = task[p] /\ s \in Unstaged(cfg[p])
      /\ staged'[p] = <<Staging(p, s)>> \o staged[p]
      /\ keyring' = [keyring EXCEPT ![s] = cfg[p].auth[s]]
  BY StageIs DEF Staging, disk
<1>2. /\ cfg[p].auth[s] \in Secrets /\ StagedOk(p) /\ CopyOk(p) /\ pc[p] \in Critical
      /\ cfg[p].auth[s] # None /\ cfg[p].auth[s] # Sentinel
  BY <1>1, ConfigAssumption DEF Unstaged, LocalInv, LocalOk, Critical
<1>3. s \notin StagedSlots(p)
  BY <1>2 DEF StagedOk, StagedSlots
<1>4. /\ keyring'[s] = cfg[p].auth[s] /\ \A x \in Slots : x # s => keyring'[x] = keyring[x]
  BY <1>1 DEF TypeInv, TypeOK
<1>5. /\ StagedSlots(p)' = StagedSlots(p) \cup {s}
      /\ staged'[p][1] = Staging(p, s)
      /\ \A i \in 1..Len(staged'[p]) : i = 1 \/ (i - 1 \in 1..Len(staged[p]) /\ staged'[p][i] = staged[p][i - 1])
  BY <1>1, StageSeq
<1>6. ASSUME NEW x \in Slots, x \notin StagedSlots(p)'
      PROVE  /\ Accounted(file, x, keyring[x])' /\ Accounted(fp[p], x, keyring[x])'
  <2>1. x \notin StagedSlots(p) /\ x # s /\ keyring'[x] = keyring[x]
    BY <1>4, <1>5, <1>6
  <2>2. Accounted(file, x, keyring[x]) /\ Accounted(fp[p], x, keyring[x])
    BY <1>1, <1>2, <2>1, HolderAccounts DEF KeyringInv, AccountsOk
  <2> QED
    BY <1>1, <2>1, <2>2 DEF Accounted, Names, Pends
<1>7. ASSUME NEW i \in 1..Len(staged'[p]) PROVE EntryOk(staged[p][i])'
  <2>1. CASE i = 1
    <3>1. /\ staged'[p][i].slot = s /\ staged'[p][i].original = cfg[p].auth[s]
          /\ staged'[p][i].old = keyring[s]
      BY <1>5, <2>1 DEF Staging
    <3>2. Accounted(file, s, keyring[s])
      BY <1>2, <1>3, HolderAccounts
    <3> QED
      BY <1>1, <1>2, <1>4, <3>1, <3>2 DEF EntryOk, Accounted, Names, Pends
  <2>2. CASE i # 1
    <3>1. PICK k \in 1..Len(staged[p]) : staged'[p][i] = staged[p][k]
      BY <1>5, <2>2
    <3>2. EntryOk(staged[p][k]) /\ staged[p][k] \in Stagings
      BY DEF KeyringInv, AccountsOk, TypeInv, TypeOK
    <3>3. staged[p][k].slot \in Slots /\ staged[p][k].slot # s
      BY <1>3, <3>2 DEF Stagings, StagedSlots
    <3> DEFINE e == staged[p][k]
    <3>4. staged'[p][i] = e /\ keyring'[e.slot] = keyring[e.slot] /\ EntryOk(e)
      BY <1>4, <3>1, <3>2, <3>3
    <3> HIDE DEF e
    <3> QED
      BY <1>1, <3>4 DEF EntryOk, Accounted, Names, Pends
  <2> QED
    BY <2>1, <2>2
<1>8. ~Recording(p)'
  BY <1>1, <1>2 DEF CopyOk, Recording
<1>9. AccountsOk(p)'
  BY <1>1, <1>6, <1>7, <1>8 DEF AccountsOk
<1> QED
  BY <1>1, <1>2, <1>6, <1>9, HolderFrame

(* The entry at the head is taken back, or its slot is tainted.            *)
LEMMA UnstageKeyring ==
    ASSUME TypeInv, LockHolder, LocalInv, KeyringInv, NEW p \in Procs, Rollback(p) \/ RollbackFault(p)
    PROVE  KeyringInv'
<1>0. PICK e : e = Head(staged[p])
  OBVIOUS
<1>1. /\ pc[p] = "rollback" /\ staged[p] # <<>> /\ Unstage(p)
      /\ \/ keyring' = [keyring EXCEPT ![e.slot] = e.old] /\ tainted' = tainted
         \/ keyring' = keyring /\ tainted' = tainted \cup {e.slot}
  BY <1>0 DEF Rollback, RollbackFault, Restored
<1>2. /\ Others(p) /\ UNCHANGED <<file, committed>> /\ pc'[p] = "rollback" /\ staged'[p] = Tail(staged[p])
  BY <1>1, UnstageIs
<1>3. StagedOk(p) /\ pc[p] \in Critical
  BY <1>1 DEF LocalInv, LocalOk, Critical
<1>4. /\ e \in Stagings /\ e = staged[p][1] /\ 1 \in 1..Len(staged[p])
      /\ e.slot \in StagedSlots(p) /\ StagedSlots(p)' = StagedSlots(p) \ {e.slot}
      /\ \A i \in 1..Len(staged'[p]) : i + 1 \in 1..Len(staged[p]) /\ staged'[p][i] = staged[p][i + 1]
  BY <1>0, <1>1, <1>2, <1>3, UnstageSeq
<1>5. EntryOk(e)
  BY <1>4 DEF KeyringInv, AccountsOk
<1>6. e.slot \in Slots /\ \A x \in Slots : x # e.slot => keyring'[x] = keyring[x]
  BY <1>1, <1>4 DEF Stagings, TypeInv, TypeOK
<1>7. Accounted(file, e.slot, keyring[e.slot])'
  <2>1. CASE keyring' = [keyring EXCEPT ![e.slot] = e.old] /\ tainted' = tainted
    <3>1. keyring'[e.slot] = e.old
      BY <1>6, <2>1 DEF TypeInv, TypeOK
    <3> QED
      BY <1>2, <1>5, <2>1, <3>1 DEF EntryOk, Accounted, Names, Pends
  <2>2. CASE keyring' = keyring /\ tainted' = tainted \cup {e.slot}
    BY <1>5, <2>2 DEF EntryOk, Accounted
  <2> QED
    BY <1>1, <2>1, <2>2
<1>8. ASSUME NEW x \in Slots, x \notin StagedSlots(p)' PROVE Accounted(file, x, keyring[x])'
  <2>1. CASE x = e.slot
    BY <1>7, <2>1
  <2>2. CASE x # e.slot
    <3>1. x \notin StagedSlots(p) /\ keyring'[x] = keyring[x]
      BY <1>4, <1>6, <1>8, <2>2
    <3>2. Accounted(file, x, keyring[x])
      BY <1>3, <3>1, HolderAccounts
    <3> QED
      BY <1>1, <1>2, <3>1, <3>2 DEF Accounted, Names, Pends
  <2> QED
    BY <2>1, <2>2
<1>9. ASSUME NEW i \in 1..Len(staged'[p]) PROVE EntryOk(staged[p][i])'
  <2> DEFINE k == i + 1
  <2>1. k \in 1..Len(staged[p]) /\ staged'[p][i] = staged[p][k] /\ k # 1
    BY <1>4
  <2> HIDE DEF k
  <2>2. EntryOk(staged[p][k]) /\ staged[p][k] \in Stagings
    BY <2>1 DEF KeyringInv, AccountsOk, TypeInv, TypeOK
  <2>3. staged[p][k].slot \in Slots /\ staged[p][k].slot # e.slot
    BY <1>3, <1>4, <2>1, <2>2 DEF Stagings, StagedOk
  <2> DEFINE d == staged[p][k]
  <2>4. staged'[p][i] = d /\ keyring'[d.slot] = keyring[d.slot] /\ EntryOk(d)
    BY <1>6, <2>1, <2>2, <2>3
  <2> HIDE DEF d
  <2> QED
    BY <1>1, <1>2, <2>4 DEF EntryOk, Accounted, Names, Pends
<1>10. AccountsOk(p)'
  BY <1>2, <1>9 DEF AccountsOk, Recording
<1> QED
  BY <1>2, <1>3, <1>8, <1>10, HolderFrame

(* A process that dies leaves what it had staged, and taints it.           *)
LEMMA CrashKeyring ==
    ASSUME TypeInv, LockHolder, LocalInv, KeyringInv, NEW p \in Procs, Crash(p)
    PROVE  KeyringInv'
<1>1. /\ Others(p) /\ UNCHANGED <<file, keyring, committed>> /\ pc'[p] = "exited" /\ staged'[p] = <<>>
      /\ tainted' = tainted \cup StagedSlots(p)
  BY ForgetIs DEF Crash
<1>2. AccountsOk(p)' /\ StagedSlots(p)' = {}
  BY <1>1, IdleAccountsNext DEF Critical
<1>3. CASE pc[p] \in Critical
  <2>1. ASSUME NEW x \in Slots PROVE Accounted(file, x, keyring[x])'
    <3>1. CASE x \in StagedSlots(p)
      <4>1. PICK i \in 1..Len(staged[p]) : x = staged[p][i].slot
        BY <3>1 DEF StagedSlots
      <4>2. EntryOk(staged[p][i])
        BY DEF KeyringInv, AccountsOk
      <4>3. keyring[x] # None
        BY <4>1, <4>2 DEF EntryOk
      <4> QED
        BY <1>1, <3>1, <4>3 DEF Accounted
    <3>2. CASE x \notin StagedSlots(p)
      <4>1. Accounted(file, x, keyring[x])
        BY <1>3, <3>2, HolderAccounts
      <4> QED
        BY <1>1, <4>1 DEF Accounted, Names, Pends
    <3> QED
      BY <3>1, <3>2
  <2> QED
    BY <1>1, <1>2, <1>3, <2>1, HolderFrame
<1>4. CASE pc[p] \notin Critical
  <2>1. staged[p] = <<>>
    BY <1>4 DEF LocalInv, LocalOk, StagedOk, Critical
  <2>2. StagedSlots(p) = {}
    BY <1>4, <2>1, IdleAccounts
  <2>3. Still
    BY <1>1, <2>2 DEF Still
  <2> QED
    BY <1>1, <1>2, <2>1, <2>3, StillFrame
<1> QED
  BY <1>3, <1>4

LEMMA CommitKeyring ==
    ASSUME TypeInv, LockHolder, LocalInv, KeyringInv, NEW p \in Procs, Commit(p)
    PROVE  KeyringInv'
<1>1. /\ Others(p) /\ keyring' = keyring /\ pc[p] = "stage" /\ pc'[p] = "sync"
      /\ Unstaged(cfg[p]) = {} /\ file' = cfg[p] /\ staged'[p] = <<>> /\ committed' = SavedSecrets(p)
      /\ tainted' = tainted \ {s \in StagedSlots(p) : keyring[s] = SavedSecrets(p)[s]}
  BY CommitIs
<1>2. /\ DocsOk(p) /\ StagedOk(p) /\ EditOk(p) /\ AccountsOk(p) /\ cfg[p] \in Config /\ pc[p] \in Critical
  BY <1>1 DEF LocalInv, LocalOk, KeyringInv, TypeInv, TypeOK, Critical
<1>3. /\ None \notin Secrets /\ Sentinel \notin Secrets /\ None # Sentinel
      /\ \A s \in Slots : cfg[p].auth[s] = None \/ cfg[p].auth[s] = Sentinel
  BY <1>1, <1>2, DocIs DEF Unstaged, DocsOk, WellFormed
<1>4. \A s \in Slots : Queued(p) = cfg[p].pending
  BY <1>1 DEF Queued
<1>5. ASSUME NEW s \in Slots, s \in StagedSlots(p)
      PROVE  /\ cfg[p].auth[s] = Sentinel /\ keyring[s] # None
             /\ keyring[s] = SavedSecrets(p)[s] \/ s \in tainted
  <2>1. PICK i \in 1..Len(staged[p]) : s = staged[p][i].slot
    BY <1>5 DEF StagedSlots
  <2>2. cfg[p].auth[s] = Sentinel
    BY <1>2, <2>1 DEF StagedOk
  <2>3. /\ keyring[s] # None
        /\ keyring[s] = staged[p][i].original \/ s \in tainted
    BY <1>2, <2>1 DEF AccountsOk, EntryOk
  <2>4. SavedSecrets(p)[s] = staged[p][i].original
    <3>1. i \in StagedAt(p, s)
      BY <2>1 DEF StagedAt
    <3>2. PICK k \in StagedAt(p, s) : k = CHOOSE j \in StagedAt(p, s) : TRUE
      BY <3>1
    <3>3. k = i
      BY <1>2, <2>1, <3>2 DEF StagedAt, StagedOk
    <3> QED
      BY <3>1, <3>2, <3>3 DEF SavedSecrets
  <2> QED
    BY <2>2, <2>3, <2>4
<1>6. ASSUME NEW s \in Slots, s \notin StagedSlots(p), cfg[p].auth[s] = Sentinel
      PROVE  committed'[s] = committed[s]
  <2>1. StagedAt(p, s) = {}
    BY <1>6 DEF StagedAt, StagedSlots
  <2> QED
    BY <1>1, <1>6, <2>1 DEF SavedSecrets
<1>7. ASSUME NEW s \in Slots PROVE Accounted(file, s, keyring[s])'
  <2>1. /\ Names(file', s) <=> cfg[p].auth[s] = Sentinel
        /\ Pends(file', s) <=> s \in cfg[p].pending
    BY <1>1, <1>2 DEF Names, Pends
  <2>2. CASE s \in StagedSlots(p)
    <3>1. keyring[s] = committed'[s] \/ s \in tainted'
      BY <1>1, <1>5, <2>2
    <3> QED
      BY <1>1, <1>5, <2>1, <2>2, <3>1 DEF Accounted, Names, Pends
  <2>3. CASE s \notin StagedSlots(p)
    <3>1. Accounted(fp[p], s, keyring[s]) /\ (s \in tainted => s \in tainted')
      BY <1>1, <1>2, <2>3 DEF AccountsOk
    <3>2. cfg[p].auth[s] = Sentinel =>
             /\ Names(fp[p], s) /\ committed'[s] = committed[s]
      BY <1>1, <1>2, <1>6, <2>3 DEF EditOk
    <3>3. keyring[s] # None /\ cfg[p].auth[s] # Sentinel => s \in cfg[p].pending \/ s \in tainted
      <4> SUFFICES ASSUME keyring[s] # None, cfg[p].auth[s] = None PROVE s \in cfg[p].pending \/ s \in tainted
        BY <1>3
      <4>1. Names(fp[p], s) \/ Pends(fp[p], s) \/ s \in tainted
        BY <3>1 DEF Accounted
      <4>2. Names(fp[p], s) => s \in cfg[p].pending
        BY <1>1, <1>2, <1>4 DEF EditOk
      <4>3. Pends(fp[p], s) => s \in cfg[p].pending \/ s \in tainted
        BY <1>1, <1>2, <1>3, <1>4 DEF EditOk, AccountsOk, Dealt
      <4> QED
        BY <4>1, <4>2, <4>3
    <3>4. /\ Names(file', s) => LET found == IF keyring'[s] # None THEN keyring'[s] ELSE Legacy[s]
                                IN  found # None /\ (found = committed'[s] \/ s \in tainted')
      BY <1>1, <2>1, <3>1, <3>2 DEF Accounted
    <3>5. keyring'[s] # None => Names(file', s) \/ Pends(file', s) \/ s \in tainted'
      BY <1>1, <2>1, <3>1, <3>3
    <3> QED
      BY <3>4, <3>5 DEF Accounted, Names, Pends
  <2> QED
    BY <2>2, <2>3
<1>8. AccountsOk(p)'
  BY <1>1 DEF AccountsOk, Recording
<1> QED
  BY <1>1, <1>2, <1>7, <1>8, HolderFrame

LEMMA DeleteKeyring ==
    ASSUME TypeInv, LockHolder, LocalInv, FileInv, KeyringInv, NEW p \in Procs, NEW s \in Slots,
           DeleteSecret(p, s)
    PROVE  KeyringInv'
<1>1. /\ Others(p) /\ UNCHANGED disk /\ pc[p] = "clean" /\ pc'[p] = "clean"
      /\ cfg'[p] = cfg[p] /\ fp'[p] = fp[p] /\ staged'[p] = staged[p]
      /\ todo'[p] = todo[p] \ {s} /\ kept'[p] = kept[p]
  BY DeleteIs
<1>2. keyring' = IF ProfileUsesSecret(cfg[p], s) THEN keyring ELSE [keyring EXCEPT ![s] = None]
  BY DEF DeleteSecret
<1>3. /\ staged[p] = <<>> /\ fp[p] = cfg[p] /\ WellFormed(cfg[p]) /\ cfg[p] \in Config
      /\ pc[p] \in Critical /\ \A x \in Slots : cfg[p].auth[x] \notin Secrets
  BY <1>1 DEF LocalInv, LocalOk, StagedOk, CopyOk, DocsOk, Saved, TypeInv, TypeOK, Critical
<1>4. StagedSlots(p) = {}
  BY <1>3 DEF StagedSlots
<1>5. ProfileUsesSecret(cfg[p], s) <=> cfg[p].auth[s] = Sentinel
  BY <1>3, DocIs DEF ProfileUsesSecret, WellFormed
<1>6. Names(file, s) => cfg[p].auth[s] = Sentinel
  BY <1>1, <1>3 DEF FileInv, WithinOk, Compared, Saved, Names
<1>7. /\ \A x \in Slots : x # s => keyring'[x] = keyring[x]
      /\ keyring'[s] = IF cfg[p].auth[s] = Sentinel THEN keyring[s] ELSE None
  BY <1>2, <1>5 DEF TypeInv, TypeOK
<1>8. ASSUME NEW x \in Slots PROVE Accounted(file, x, keyring[x])'
  <2>1. Accounted(file, x, keyring[x])
    BY <1>3, <1>4, HolderAccounts
  <2> QED
    BY <1>1, <1>6, <1>7, <2>1 DEF Accounted, Names, Pends, disk
<1>9. ASSUME NEW x \in Slots, x \in cfg[p].pending
      PROVE  x \in todo'[p] \cup kept'[p] \/ Dealt(p, x)'
  <2>1. x \in todo[p] \cup kept[p] \/ Dealt(p, x)
    BY <1>1, <1>9 DEF KeyringInv, AccountsOk
  <2> QED
    BY <1>1, <1>7, <2>1 DEF Dealt, disk
<1>10. AccountsOk(p)'
  BY <1>1, <1>3, <1>9 DEF AccountsOk, Recording
<1> QED
  BY <1>1, <1>3, <1>8, <1>10, HolderFrame

(* A copy made without the lock finds its account empty and the file still *)
(* naming it, or taints it.                                                *)
LEMMA CopyKeyring ==
    ASSUME TypeInv, LockHolder, LocalInv, FileInv, KeyringInv, NEW p \in Procs, CopyLegacy(p)
    PROVE  KeyringInv'
<1>0. PICK s : s = legacyVal[p][1]
  OBVIOUS
<1>1. /\ Others(p) /\ UNCHANGED <<file, committed>> /\ pc[p] = "copy" /\ pc'[p] = "ready"
      /\ cfg'[p] = cfg[p] /\ fp'[p] = fp[p] /\ staged'[p] = staged[p]
  BY ResolveIs DEF Resolve, CopyLegacy
<1>2. staged[p] = <<>> /\ legacyVal[p] \in Slots \X Secrets /\ legacyVal[p][2] = Legacy[s]
  BY <1>0, <1>1 DEF LocalInv, LocalOk, StagedOk, CopyOk, TypeInv, TypeOK, CopyPending
<1>3. s \in Slots /\ Legacy[s] \in Secrets /\ Legacy[s] # None
  BY <1>0, <1>2, ConfigAssumption
<1>4. /\ keyring'[s] = Legacy[s] /\ \A x \in Slots : x # s => keyring'[x] = keyring[x]
      /\ tainted' = IF Overtaken(s) THEN tainted \cup {s} ELSE tainted
  BY <1>0, <1>2, <1>3 DEF CopyLegacy, TypeInv, TypeOK
<1>5. \/ s \in tainted' /\ tainted \subseteq tainted'
      \/ keyring[s] = None /\ Names(file, s) /\ tainted' = tainted
  BY <1>4 DEF Overtaken, Names
<1>6. tainted \subseteq tainted'
  BY <1>5
<1>7. PICK w : w = keyring'
  OBVIOUS
<1>8. ASSUME NEW doc, NEW x \in Slots, Names(file, s) => Names(doc, s), Accounted(doc, x, keyring[x])
      PROVE  Accounted(doc, x, w[x])'
  <2>1. CASE x # s
    BY <1>1, <1>4, <1>6, <1>7, <1>8, <2>1, MoreAccounted
  <2>2. CASE x = s /\ s \in tainted'
    BY <1>3, <1>4, <1>7, <2>2, TaintedAccounted
  <2>3. CASE x = s /\ keyring[s] = None /\ Names(file, s) /\ tainted' = tainted
    BY <1>1, <1>3, <1>4, <1>7, <1>8, <2>3 DEF Accounted, Names, Pends
  <2> QED
    BY <1>5, <2>1, <2>2, <2>3
<1>9. \A q \in Procs : staged'[q] = staged[q] /\ StagedSlots(q)' = StagedSlots(q)
  BY <1>1 DEF Others, Same, StagedSlots
<1>10. ASSUME NEW x \in Slots, \A q \in Procs : x \notin StagedSlots(q)'
       PROVE  Accounted(file, x, keyring[x])'
  <2>1. PICK f : f = file
    OBVIOUS
  <2>2. Accounted(f, x, keyring[x]) /\ (Names(file, s) => Names(f, s))
    BY <1>9, <1>10, <2>1 DEF KeyringInv
  <2>3. Accounted(f, x, w[x])'
    BY <1>8, <2>2
  <2> QED
    BY <1>1, <1>7, <2>1, <2>3 DEF Accounted, Names, Pends
<1>11. ASSUME NEW q \in Procs, q # p PROVE AccountsOk(q)'
  <2>1. /\ pc'[q] = pc[q] /\ cfg'[q] = cfg[q] /\ fp'[q] = fp[q] /\ task'[q] = task[q]
        /\ staged'[q] = staged[q] /\ todo'[q] = todo[q] /\ kept'[q] = kept[q]
        /\ Recording(q)' = Recording(q) /\ StagedSlots(q)' = StagedSlots(q)
    BY <1>1, <1>9, <1>11 DEF Others, Same, Recording
  <2>2. AccountsOk(q) /\ CopyOk(q) /\ WithinOk(q)
    BY DEF KeyringInv, LocalInv, LocalOk, FileInv
  <2>3. ASSUME NEW i \in 1..Len(staged[q]) PROVE EntryOk(staged[q][i])'
    <3>1. PICK e : e = staged[q][i]
      OBVIOUS
    <3>2. staged[q] \in Seq(Stagings) /\ EntryOk(e)
      BY <2>2, <3>1 DEF AccountsOk, TypeInv, TypeOK
    <3>3. e \in Stagings /\ e.slot \in Slots
      <4>1. staged[q][i] \in Stagings
        BY <3>2
      <4> QED
        BY <3>1, <4>1 DEF Stagings
    <3>4. Accounted(file, e.slot, e.old)'
      BY <1>1, <1>6, <3>2 DEF EntryOk, Accounted, Names, Pends
    <3>5. keyring'[e.slot] # None /\ (keyring'[e.slot] = e.original \/ e.slot \in tainted')
      BY <1>3, <1>4, <1>5, <1>6, <3>2, <3>3 DEF EntryOk
    <3>6. EntryOk(e)'
      BY <3>4, <3>5 DEF EntryOk
    <3> QED
      BY <2>1, <3>1, <3>6
  <2>4. ASSUME pc[q] = "stage", NEW x \in Slots, x \notin StagedSlots(q)
        PROVE  Accounted(fp[q], x, keyring[x])'
    <3>1. PICK f : f = fp[q]
      OBVIOUS
    <3>2. Accounted(f, x, keyring[x]) /\ (Names(file, s) => Names(f, s))
      BY <1>3, <2>2, <2>4, <3>1 DEF AccountsOk, WithinOk, Compared
    <3>3. Accounted(f, x, w[x])'
      BY <1>8, <3>2
    <3> QED
      BY <1>7, <2>1, <3>1, <3>3
  <2>5. ASSUME NEW x \in Slots, Recording(q) \/ pc[q] = "clean", Dealt(q, x) PROVE Dealt(q, x)'
    <3>1. cfg[q].auth = fp[q].auth /\ (Names(file, s) => Names(fp[q], s))
      BY <1>3, <2>2, <2>5 DEF CopyOk, WithinOk, Compared, Saved
    <3>2. Names(file, s) => cfg[q].auth[s] = Sentinel
      BY <3>1 DEF Names
    <3>3. keyring'[x] = keyring[x] \/ x \in tainted' \/ cfg[q].auth[x] = Sentinel
      BY <1>4, <1>5, <3>2
    <3> QED
      BY <1>6, <2>1, <2>5, <3>3 DEF Dealt
  <2>6. Recording(q) => \A x \in Slots : Pends(fp[q], x)' => x \in cfg'[q].pending \/ Dealt(q, x)'
    <3>1. \A x \in Slots : Pends(fp[q], x)' = Pends(fp[q], x)
      BY <2>1 DEF Pends
    <3> QED
      BY <2>1, <2>2, <2>5, <3>1 DEF AccountsOk
  <2>7. pc[q] = "clean" =>
           \A x \in Slots : x \in cfg'[q].pending => x \in todo'[q] \cup kept'[q] \/ Dealt(q, x)'
    BY <2>1, <2>2, <2>5 DEF AccountsOk
  <2> QED
    BY <2>1, <2>3, <2>4, <2>6, <2>7 DEF AccountsOk
<1>12. AccountsOk(p)'
  BY <1>1, <1>2, IdleAccountsNext DEF Critical
<1>13. \A q \in Procs : AccountsOk(q)'
  BY <1>11, <1>12
<1> QED
  BY <1>10, <1>13 DEF KeyringInv

LEMMA HandEditAccounted ==
    ASSUME TypeInv, HandEdit, NEW s \in Slots, NEW v, Accounted(file, s, v)
    PROVE  Accounted(file, s, v)'
<1>1. /\ committed' = committed /\ tainted \subseteq tainted'
      /\ Names(file', s) => Names(file, s)
      /\ Names(file, s) => Names(file', s) \/ s \in tainted'
      /\ Pends(file, s) => Pends(file', s) \/ s \in tainted'
  BY HandEditIs
<1> QED
  BY <1>1 DEF Accounted, Names, Pends

LEMMA HandEditKeyring ==
    ASSUME TypeInv, KeyringInv, HandEdit
    PROVE  KeyringInv'
<1>1. /\ UNCHANGED <<keyring, committed, pc, cfg, fp, task, staged, todo, kept>>
      /\ tainted \subseteq tainted'
  BY HandEditIs
<1>2. PICK w : w = keyring
  OBVIOUS
<1>3. \A q \in Procs : StagedSlots(q)' = StagedSlots(q)
  BY <1>1 DEF StagedSlots
<1>4. ASSUME NEW x \in Slots, \A q \in Procs : x \notin StagedSlots(q)'
      PROVE  Accounted(file, x, keyring[x])'
  <2>1. Accounted(file, x, w[x])
    BY <1>2, <1>3, <1>4 DEF KeyringInv
  <2>2. Accounted(file, x, w[x])'
    BY <2>1, HandEditAccounted
  <2> QED
    BY <1>1, <1>2, <2>2
<1>5. ASSUME NEW q \in Procs PROVE AccountsOk(q)'
  <2>1. AccountsOk(q) /\ Recording(q)' = Recording(q)
    BY <1>1 DEF KeyringInv, Recording
  <2>2. ASSUME NEW i \in 1..Len(staged[q]) PROVE EntryOk(staged[q][i])'
    <3>1. PICK e : e = staged[q][i]
      OBVIOUS
    <3>2. staged[q] \in Seq(Stagings) /\ EntryOk(e)
      BY <2>1, <3>1 DEF AccountsOk, TypeInv, TypeOK
    <3>3. e \in Stagings /\ e.slot \in Slots
      <4>1. staged[q][i] \in Stagings
        BY <3>2
      <4> QED
        BY <3>1, <4>1 DEF Stagings
    <3>4. Accounted(file, e.slot, e.old)'
      BY <3>2, <3>3, HandEditAccounted DEF EntryOk
    <3>5. EntryOk(e)'
      BY <1>1, <3>2, <3>4 DEF EntryOk
    <3> QED
      BY <1>1, <3>1, <3>5
  <2>3. ASSUME pc[q] = "stage", NEW x \in Slots, x \notin StagedSlots(q)
        PROVE  Accounted(fp[q], x, keyring[x])'
    <3>1. PICK f : f = fp[q]
      OBVIOUS
    <3>2. Accounted(f, x, w[x])
      BY <1>2, <2>1, <2>3, <3>1 DEF AccountsOk
    <3>3. Accounted(f, x, w[x])'
      BY <1>1, <3>2, MoreAccounted
    <3> QED
      BY <1>1, <1>2, <3>1, <3>3
  <2>4. \A x \in Slots : Pends(fp[q], x)' = Pends(fp[q], x) /\ (Dealt(q, x) => Dealt(q, x)')
    BY <1>1 DEF Pends, Dealt
  <2> QED
    BY <1>1, <1>3, <2>1, <2>2, <2>3, <2>4 DEF AccountsOk
<1> QED
  BY <1>4, <1>5 DEF KeyringInv

LEMMA KeyringStep ==
    ASSUME TypeInv, LockHolder, LocalInv, FileInv, KeyringInv, [Next]_vars
    PROVE  KeyringInv'
<1>1. CASE UNCHANGED vars
  BY <1>1 DEF vars, KeyringInv, AccountsOk, EntryOk, Accounted, Names, Pends, StagedSlots, Recording, Dealt
<1>2. CASE HandEdit
  BY <1>2, HandEditKeyring
<1>3. ASSUME NEW p \in Procs, Load(p) PROVE KeyringInv'
  BY <1>3, LoadIs, OutFrame DEF Still, disk, Recording
<1>4. ASSUME NEW p \in Procs, Exit(p) PROVE KeyringInv'
  <2>1. pc[p] = "ready" /\ Forget(p) /\ Still
    BY <1>4 DEF Exit, Still, disk
  <2>2. staged[p] = <<>>
    BY <2>1 DEF LocalInv, LocalOk, StagedOk
  <2> QED
    BY <2>1, <2>2, ForgetIs, OutFrame DEF Recording
<1>5. ASSUME NEW p \in Procs, Crash(p) PROVE KeyringInv'
  BY <1>5, CrashKeyring
<1>6. ASSUME NEW p \in Procs, Edits(p) PROVE KeyringInv'
  <2>1. ASSUME NEW c, NEW kind, NEW fields, Command(p, c, kind, fields) PROVE KeyringInv'
    BY <2>1, CommandOthers, OutFrame DEF Still, disk, Recording
  <2> QED
    BY <1>6, <2>1 DEF Edits, Edit, UseProfile, UnsetAuth, RemoveProfile, SetToken, InitProfile,
       SetAuthMethod, UnsetField, SetSecretField, AddProfile, RetryCleanup
<1>7. ASSUME NEW p \in Procs, Acquire(p) PROVE KeyringInv'
  <2>1. CopyOk(p)
    BY DEF LocalInv, LocalOk
  <2> QED
    BY <1>7, <2>1, AcquireIs, OutFrame DEF Still, disk, Recording, CopyOk
<1>8. ASSUME NEW p \in Procs, Verify(p) PROVE KeyringInv'
  BY <1>8, VerifyKeyring
<1>9. ASSUME NEW p \in Procs, SaveFault(p) PROVE KeyringInv'
  BY <1>9, MovedIs, OutFrame DEF Still, disk, Moved, Recording
<1>10. ASSUME NEW p \in Procs, SyncDir(p), CleansUp(p) PROVE KeyringInv'
  BY <1>10, SyncKeyring
<1>11. ASSUME NEW p \in Procs, NEW s \in Slots, Stage(p, s) PROVE KeyringInv'
  BY <1>11, StageKeyring
<1>12. ASSUME NEW p \in Procs, Rollback(p) \/ RollbackFault(p) PROVE KeyringInv'
  BY <1>12, UnstageKeyring
<1>13. ASSUME NEW p \in Procs, Commit(p) PROVE KeyringInv'
  BY <1>13, CommitKeyring
<1>14. ASSUME NEW p \in Procs, NEW s \in Slots, DeleteSecret(p, s) \/ DeleteFault(p, s)
       PROVE  KeyringInv'
  BY <1>14, DeleteKeyring, DeleteFaultKeyring
<1>15. ASSUME NEW p \in Procs, CleanupDone(p), kept[p] # cfg[p].pending PROVE KeyringInv'
  BY <1>15, RecordKeyring
<1>16. ASSUME NEW p \in Procs,
           \/ Refuse(p) \/ SkipRetry(p) \/ Rejected(p) \/ (SyncDir(p) /\ ~CleansUp(p)) \/ SyncFault(p)
           \/ (CleanupDone(p) /\ kept[p] = cfg[p].pending)
       PROVE KeyringInv'
  <2>1. Others(p) /\ Still /\ pc'[p] = "ready" /\ staged'[p] = staged[p]
    BY <1>16, DoneIs DEF Still, disk
  <2> QED
    BY <2>1, OutFrame DEF Recording
<1>17. ASSUME NEW p \in Procs, Resolve(p) PROVE KeyringInv'
  <2>1. CASE CopyLegacy(p)
    BY <2>1, CopyKeyring
  <2>2. CASE ~CopyLegacy(p)
    <3>1. Others(p) /\ Still /\ pc'[p] \in {"copy", "ready"} /\ staged'[p] = staged[p]
      BY <1>17, <2>2, ResolveIs DEF Still
    <3> QED
      BY <3>1, OutFrame DEF Recording
  <2> QED
    BY <2>1, <2>2
<1> QED
  BY <1>1, <1>2, <1>3, <1>4, <1>5, <1>6, <1>7, <1>8, <1>9, <1>10, <1>11, <1>12, <1>13, <1>14, <1>15,
     <1>16, <1>17 DEF Next, SaveStep, SaveFailure

LEMMA SecretInit == Init => SecretInv
<1> SUFFICES ASSUME Init PROVE SecretInv
  OBVIOUS
<1>1. WellFormed(file) /\ \A s \in Slots : Names(file, s) => Legacy[s] # None
  <2>1. CASE HasLegacy
    <3>1. file \in Config /\ file = UpgradedConfig
      BY <2>1, UpgradedType DEF Init
    <3>2. /\ UpgradedConfig.auth = [s \in Slots |-> IF Legacy[s] = None THEN None ELSE Sentinel]
          /\ UpgradedConfig.profiles =
                {DefaultName} \cup {s[1] : s \in {t \in Slots : Legacy[t] # None}}
      BY DEF UpgradedConfig, NewConfig
    <3> QED
      BY <3>1, <3>2, ConfigAssumption DEF WellFormed, Names
  <2>2. CASE ~HasLegacy
    BY <2>2, ContentAssumption DEF Init, WellFormed, Names
  <2> QED
    BY <2>1, <2>2
<1>2. \A p \in Procs : /\ pc[p] = "exited" /\ cfg[p] = NewConfig /\ fp[p] = NoFile /\ staged[p] = <<>>
  BY DEF Init
<1>3. WellFormed(NewConfig) /\ WellFormed(NoFile)
  BY ContentAssumption DEF WellFormed, NewConfig, NoAuth
<1>4. LocalInv
  BY <1>2, <1>3 DEF LocalInv, LocalOk, DocsOk, CopyOk, StagedOk, EditOk, Saved, Recording
<1>5. FileInv
  BY <1>1, <1>2 DEF FileInv, WithinOk, Compared, Saved, Recording
<1>6. \A s \in Slots : Accounted(file, s, keyring[s])
  BY <1>1 DEF Init, Accounted, NoAuth
<1>7. KeyringInv
  BY <1>2, <1>6, IdleAccounts DEF KeyringInv, Critical
<1> QED
  BY <1>4, <1>5, <1>7 DEF SecretInv

LEMMA SecretInvariance ==
    ASSUME EmptyInputs = FALSE
    PROVE  Spec => []SecretInv
<1>1. SecretInv /\ IInv /\ [Next]_vars => SecretInv'
  <2> SUFFICES ASSUME SecretInv, IInv, [Next]_vars PROVE SecretInv'
    OBVIOUS
  <2>1. LocalInv'
    BY LocalStep DEF SecretInv, FileInv, IInv
  <2>2. FileInv'
    BY FileStep DEF SecretInv, IInv
  <2>3. KeyringInv'
    BY KeyringStep DEF SecretInv, IInv
  <2> QED
    BY <2>1, <2>2, <2>3 DEF SecretInv
<1> QED
  BY <1>1, SecretInit, Invariance, PTL DEF Spec

(* Whatever fails, whoever dies and however saves interleave, the secrets  *)
(* in use exist and are the ones saved, and the others are queued.  Users  *)
(* must not supply empty values: those lose a credential.                  *)
THEOREM SecretsAreAccountedFor ==
    ASSUME EmptyInputs = FALSE
    PROVE  Spec => []SecretsAccountedFor
<1>1. SecretInv /\ IInv => SecretsAccountedFor
  <2> SUFFICES ASSUME SecretInv, IInv PROVE SecretsAccountedFor
    OBVIOUS
  <2>1. TypeInv /\ LockHolder /\ LocalInv /\ KeyringInv
    BY DEF SecretInv, IInv
  <2>2. ASSUME NEW s \in Slots, Names(file, s) PROVE Lookup(s) # None
    <3>1. CASE \A p \in Procs : s \notin StagedSlots(p)
      <4>1. Accounted(file, s, keyring[s])
        BY <2>1, <3>1 DEF KeyringInv
      <4> QED
        BY <2>2, <4>1 DEF Accounted, Lookup
    <3>2. ASSUME NEW p \in Procs, s \in StagedSlots(p) PROVE Lookup(s) # None
      <4>1. PICK i \in 1..Len(staged[p]) : s = staged[p][i].slot
        BY <3>2 DEF StagedSlots
      <4>2. EntryOk(staged[p][i])
        BY <2>1 DEF KeyringInv, AccountsOk
      <4> QED
        BY <4>1, <4>2 DEF EntryOk, Lookup
    <3> QED
      BY <3>1, <3>2
  <2>3. ASSUME lock = NoProc, NEW s \in Slots PROVE Accounted(file, s, keyring[s])
    <3>1. ASSUME NEW p \in Procs PROVE s \notin StagedSlots(p)
      <4>1. pc[p] \notin Critical
        BY <2>1, <2>3, ConfigAssumption DEF LockHolder
      <4>2. staged[p] = <<>>
        BY <2>1, <4>1 DEF LocalInv, LocalOk, StagedOk, Critical
      <4> QED
        BY <4>1, <4>2, IdleAccounts
    <3> QED
      BY <2>1, <3>1 DEF KeyringInv
  <2>4. ManagedSecretsBacked
    BY <2>2 DEF ManagedSecretsBacked, Names
  <2>5. CommittedSecretIntact
    BY <2>3 DEF CommittedSecretIntact, Accounted, Names, Lookup
  <2>6. OrphansTracked
    BY <2>3 DEF OrphansTracked, Accounted, Names, Pends
  <2> QED
    BY <2>4, <2>5, <2>6 DEF SecretsAccountedFor
<1> QED
  BY <1>1, SecretInvariance, Invariance, PTL
=============================================================================
