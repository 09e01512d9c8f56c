---------------------------- MODULE PlaygroundProofs ----------------------------
(***************************************************************************)
(* What Playground promises, for any profiles, stores and filters, any     *)
(* number of commands and any number of failures, and what PlaygroundDb    *)
(* promises, for any number of sessions, writes, failed saves and crashes. *)
(*                                                                         *)
(* None of Playground's properties is inductive.  A pane is true because   *)
(* the reads that can still fill it are of the selection (Placed) and      *)
(* bring what was reported and what is on screen (Current): every step     *)
(* that adds to either disowns the reads that do not have it.  The profile *)
(* follows because each model that is asked for, answered or shown exists, *)
(* or is the id of another store and never will (ServerInv), so that a     *)
(* load which finds no model was of an id that had to go (PinInv).  The    *)
(* spinner counts the requests because no two of them are equal (CallsInv). *)
(*                                                                         *)
(* Neither part of PlaygroundDb's NothingKeptIsLost is inductive: the      *)
(* rename must know that the file is the one the session started from      *)
(* (Checked), and that its copy has all of it and all its own writes       *)
(* (Base, Own); the end must know that a kept copy was saved or that its   *)
(* save failed (Ended).                                                    *)
(***************************************************************************)
EXTENDS Playground, PlaygroundDb, FiniteSetTheorems, SequenceTheorems, TLAPS

-------------------------------------------------------------------------------
(* The invariant.                                                          *)

AllKinds == Kinds \cup Mutations
Wanted == Filters \cup {None}
Calls == [kind : AllKinds, profile : Profiles, store : Stores, model : Models \cup {None},
          filter : Wanted, id : Nat, rows : SUBSET Nat, current : BOOLEAN,
          answer : Answers \cup {NoAnswer}]
Interfaces ==
    [profile : Profiles, storeID : Stores \cup {None}, modelID : Models \cup {None},
     tuples : Data \cup {None}, changes : Data \cup {None},
     assertions : Data \cup {None}, assertModelID : Models \cup {None}, result : Results \cup {None},
     applied : Wanted, wanted : Wanted, tupleMutating : BOOLEAN,
     modelApplying : BOOLEAN, assertionsWriting : BOOLEAN, pendingLoads : Nat]

TypeInv ==
    /\ m \in Interfaces
    /\ requests \subseteq Calls /\ IsFiniteSet(requests) /\ late \in Nat
    /\ server \in [Profiles -> [Stores -> Dbs]]
    /\ pins \in [Profiles -> Selections]
    /\ accepted \subseteq Profiles \X Stores \X Nat
    /\ failed \subseteq AllKinds
    /\ retries \in Nat /\ keys \in Nat /\ faults \in Nat /\ saveFaults \in Nat

(* A read is the only one of its kind, a mutation the only one of its id.  *)
Numbered(r) == IF r.kind \in Kinds THEN r.id = 0 ELSE r.id \in 1..keys
Distinct == \A q, r \in requests : q.kind = r.kind /\ q.id = r.id => q = r

(* The models that are being created leave the bound to those that are.    *)
Room ==
    \A p \in Profiles, s \in Stores :
        server[p][s].models + Cardinality(Applies(p, s)) <= MaxModels

CallsInv == (\A r \in requests : Numbered(r)) /\ Distinct /\ SpinnerExact

(* A model of a store, and an id that is one if it names the store at all. *)
Has(p, s, model) ==
    model # None /\ model.profile = p /\ model.store = s /\ model.n <= server[p][s].models
Alien(p, s, model) == model = None \/ model.profile # p \/ model.store # s
Known(p, s, model) == Alien(p, s, model) \/ Has(p, s, model)
Answered(r, is) == r.answer # NoAnswer /\ r.answer.is = is

(* What is asked for can be answered, and what is answered is so.          *)
AskedOf(r) ==
    /\ r.kind = "model" =>
          /\ Known(r.profile, r.store, r.model)
          /\ Answered(r, "ok") => Has(r.profile, r.store, r.answer.model)
    /\ r.kind = "query" /\ Answered(r, "ok") /\ r.model # None => Has(r.profile, r.store, r.model)
    /\ r.kind = "write" /\ Answered(r, "ok") => r.id \in server[r.profile][r.store].tuples
    /\ r.kind \in {"tuples", "changes"} /\ Answered(r, "ok") =>
          r.answer.seen \subseteq server[r.profile][r.store].tuples

(* A read that is not superseded is of the selection; a load of the model  *)
(* that finds none was of an id that the store does not have.              *)
Placed(r) ==
    r.kind \in Kinds =>
        /\ r.profile = m.profile /\ r.store = m.storeID
        /\ r.kind = "model" =>
              /\ r.model \in {None, m.modelID} \/ Has(m.profile, m.storeID, r.model)
              /\ Answered(r, "absent") => Alien(m.profile, m.storeID, m.modelID)

(* It brings what was reported, and what is on screen.                     *)
Current(r) ==
    r.kind \in {"tuples", "changes"} /\ Answered(r, "ok") =>
        /\ Reported \subseteq r.answer.seen
        /\ r.kind = "tuples" /\ m.tuples # None => m.tuples.seen \subseteq r.answer.seen

Selection ==
    /\ Known(m.profile, m.storeID, m.modelID)
    /\ m.storeID = None => m.tuples = None /\ m.changes = None
    /\ m.tuples # None => m.tuples.seen \subseteq server[m.profile][m.storeID].tuples
    /\ m.result # None /\ m.result.model # None => Has(m.profile, m.storeID, m.result.model)

ServerInv ==
    /\ Room
    /\ \A p \in Profiles : Known(p, pins[p].store, pins[p].model)
    /\ \A w \in accepted : w[3] \in server[w[1]][w[2]].tuples
    /\ \A r \in requests : AskedOf(r)

(* The pin follows the selection; a dropped one stays dropped until a load *)
(* has found a model.                                                      *)
PinInv ==
    /\ ProfileFollowsSelection
    /\ saveFaults = 0 => pins[m.profile].store = m.storeID
    /\ retries > 0 /\ m.modelID # None => Has(m.profile, m.storeID, m.modelID)

PaneInv ==
    /\ PanesAreSound /\ Selection
    /\ \A r \in requests : Placed(r) /\ Current(r)

IInv == TypeInv /\ CallsInv /\ ServerInv /\ PaneInv /\ PinInv

(* What the proofs use of the constants.                                   *)
LEMMA Constants ==
    /\ MaxModels \in Nat /\ MaxKeys \in Nat /\ MaxFaults \in Nat
    /\ None \notin Stores /\ None \notin Models /\ None \notin Data /\ None \notin Results
    /\ NoAnswer \notin Answers /\ Start \in Profiles
  BY PlaygroundAssumption, Zenon DEF PlaygroundAssumption

-------------------------------------------------------------------------------
(* Requests.                                                               *)

(* The same request, answered the same; it may have been disowned.         *)
Same(q, r) ==
    /\ q.kind = r.kind /\ q.profile = r.profile /\ q.store = r.store /\ q.model = r.model
    /\ q.filter = r.filter /\ q.id = r.id /\ q.rows = r.rows /\ q.answer = r.answer

LEMMA KindsApart == \A k \in Kinds : k \notin Mutations
  BY DEF Kinds, Mutations

LEMMA CardNat == ASSUME NEW S, IsFiniteSet(S) PROVE Cardinality(S) \in Nat
  BY FS_CardinalityType

(* A set that can be told apart by ids of another is not larger.           *)
LEMMA SmallerById ==
    ASSUME NEW S, NEW T, IsFiniteSet(T),
           \A x \in S : \E y \in T : y.kind = x.kind /\ y.id = x.id,
           \A x, y \in S : x.kind = y.kind /\ x.id = y.id => x = y
    PROVE  IsFiniteSet(S) /\ Cardinality(S) <= Cardinality(T)
  <1> DEFINE g == [x \in S |-> CHOOSE y \in T : y.kind = x.kind /\ y.id = x.id]
  <1>1. \A x \in S : g[x] \in T /\ g[x].kind = x.kind /\ g[x].id = x.id
    OBVIOUS
  <1>2. g \in Injection(S, T)
    <2>1. g \in [S -> T]
      BY <1>1
    <2>2. \A x, y \in S : g[x] = g[y] => x = y
      BY <1>1
    <2> HIDE DEF g
    <2> QED
      BY <2>1, <2>2 DEF Injection, IsInjective
  <1> QED
    BY <1>2, FS_Injection

(* Disowning and bumping.                                                  *)
LEMMA KeptOf ==
    ASSUME NEW R, R \subseteq Calls, NEW muts, NEW kinds,
           NEW q \in Disowned(muts, Bumped(kinds, R))
    PROVE  q \in Calls /\ \E r \in R : Same(q, r) /\ r.kind \notin kinds
  <1>1. PICK r \in R : r.kind \notin kinds /\ q = IF r.kind \in muts THEN [r EXCEPT !.current = FALSE] ELSE r
    BY Zenon DEF Disowned, Bumped
  <1>2. r \in Calls
    BY <1>1
  <1>3. [r EXCEPT !.current = FALSE] \in Calls /\ Same([r EXCEPT !.current = FALSE], r)
    BY <1>2 DEF Calls, Same
  <1>4. Same(r, r)
    BY Zenon DEF Same
  <1> QED
    BY <1>1, <1>2, <1>3, <1>4

(* What a dispatch needs of the requests it keeps and of the new ones.     *)
Dispatched(before, kept, new) ==
    /\ kept \subseteq Calls /\ new \subseteq Calls /\ IsFiniteSet(new)
    /\ \A q \in kept : \E r \in before : Same(q, r)
    /\ \A q \in new : Numbered(q)'
    /\ \A q \in kept, x \in new : q.kind = x.kind => q.id # x.id
    /\ \A x, y \in new : x.kind = y.kind => x = y

LEMMA DispatchHolds ==
    ASSUME TypeInv, CallsInv, keys' \in Nat, keys' >= keys,
           NEW before \in SUBSET requests, NEW kept, NEW new,
           \A x, y \in kept : x.kind = y.kind /\ x.id = y.id => x = y,
           Dispatched(before, kept, new), Dispatch(before, kept, new)
    PROVE  /\ requests' \subseteq Calls /\ IsFiniteSet(requests') /\ late' \in Nat
           /\ (\A r \in requests' : Numbered(r)') /\ Distinct'
           /\ Cardinality(requests') + late' = Cardinality(before) + late + Cardinality(new)
  <1>1. IsFiniteSet(before) /\ before \subseteq Calls
    BY FS_Subset DEF TypeInv
  <1>2. IsFiniteSet(kept) /\ Cardinality(kept) <= Cardinality(before)
    <2>1. \A x \in kept : \E y \in before : y.kind = x.kind /\ y.id = x.id
      BY DEF Dispatched, Same
    <2> QED
      BY <1>1, <2>1, SmallerById
  <1>3. kept \cap new = {}
    BY DEF Dispatched
  <1>4. requests' = kept \cup new
    BY DEF Dispatch
  <1>5. IsFiniteSet(requests') /\ Cardinality(requests') = Cardinality(kept) + Cardinality(new)
    <2>1. IsFiniteSet(kept \cup new) /\ Cardinality(kept \cup new)
             = Cardinality(kept) + Cardinality(new) - Cardinality(kept \cap new)
      BY <1>2, FS_Union DEF Dispatched
    <2>2. Cardinality(kept \cap new) = 0
      BY <1>3, FS_EmptySet
    <2>3. Cardinality(kept) \in Nat /\ Cardinality(new) \in Nat
      BY <1>2, CardNat DEF Dispatched
    <2> QED
      BY <1>4, <2>1, <2>2, <2>3
  <1>6. Cardinality(before) \in Nat /\ Cardinality(kept) \in Nat /\ Cardinality(new) \in Nat /\ late \in Nat
    BY <1>1, <1>2, CardNat DEF Dispatched, TypeInv
  <1>7. late' = late + Cardinality(before) - Cardinality(kept)
    BY DEF Dispatch
  <1>8. \A r \in requests' : Numbered(r)'
    <2>1. ASSUME NEW q \in kept PROVE Numbered(q)'
      <3>1. PICK r \in requests : Same(q, r)
        BY <2>1 DEF Dispatched
      <3>2. Numbered(r) /\ keys \in Nat
        BY DEF CallsInv, TypeInv
      <3> QED
        BY <3>1, <3>2 DEF Numbered, Same
    <2> QED
      BY <1>4, <2>1 DEF Dispatched
  <1>9. Distinct'
    BY <1>4 DEF Distinct, Dispatched
  <1> QED
    BY <1>2, <1>4, <1>5, <1>6, <1>7, <1>8, <1>9 DEF Dispatched

LEMMA KeptDistinct ==
    ASSUME TypeInv, Distinct, NEW R \in SUBSET requests, NEW muts, NEW kinds,
           NEW x \in Disowned(muts, Bumped(kinds, R)), NEW y \in Disowned(muts, Bumped(kinds, R)),
           x.kind = y.kind, x.id = y.id
    PROVE  x = y
  <1> DEFINE F(r) == IF r.kind \in muts THEN [r EXCEPT !.current = FALSE] ELSE r
  <1>1. PICK q \in R, r \in R : x = F(q) /\ y = F(r)
    BY Zenon DEF Disowned, Bumped
  <1>2. \A c \in Calls : [c EXCEPT !.current = FALSE].kind = c.kind /\ [c EXCEPT !.current = FALSE].id = c.id
    BY DEF Calls
  <1>3. q \in Calls /\ r \in Calls /\ q \in requests /\ r \in requests
    BY <1>1 DEF TypeInv
  <1>4. q.kind = x.kind /\ q.id = x.id /\ r.kind = y.kind /\ r.id = y.id
    BY <1>1, <1>2, <1>3
  <1>5. q = r
    BY <1>3, <1>4 DEF Distinct
  <1> QED
    BY <1>1, <1>5

(* Nothing is kept of the kinds that are bumped.                           *)
LEMMA KeptHolds ==
    ASSUME TypeInv, Distinct, NEW R \in SUBSET requests, NEW muts, NEW kinds, NEW kept,
           kept = Disowned(muts, Bumped(kinds, R))
    PROVE  /\ kept \subseteq Calls
           /\ \A q \in kept : q.kind \notin kinds /\ \E r \in R : Same(q, r)
           /\ \A x, y \in kept : x.kind = y.kind /\ x.id = y.id => x = y
  <1>1. R \subseteq Calls
    BY DEF TypeInv
  <1>2. \A q \in kept : q \in Calls /\ q.kind \notin kinds /\ \E r \in R : Same(q, r)
    BY <1>1, KeptOf DEF Same
  <1>3. \A x, y \in kept : x.kind = y.kind /\ x.id = y.id => x = y
    BY KeptDistinct
  <1> QED
    BY <1>2, <1>3

(* What is not bumped is kept.                                             *)
LEMMA KeptKeeps ==
    ASSUME NEW R \in SUBSET Calls, NEW muts, NEW kinds, NEW r \in R, r.kind \notin kinds
    PROVE  \E q \in Disowned(muts, Bumped(kinds, R)) : Same(q, r)
  <1> DEFINE q == IF r.kind \in muts THEN [r EXCEPT !.current = FALSE] ELSE r
  <1>1. q \in Disowned(muts, Bumped(kinds, R))
    BY Zenon DEF Disowned, Bumped
  <1>2. Same(q, r)
    BY DEF Same, Calls
  <1> QED
    BY <1>1, <1>2

(* Disowning nothing, or bumping nothing, is the special case.             *)
LEMMA DisownNone == ASSUME NEW R PROVE Disowned({}, R) = R
  BY DEF Disowned
LEMMA BumpNone == ASSUME NEW R PROVE Bumped({}, R) = R
  BY DEF Bumped

-------------------------------------------------------------------------------
(* The Model.                                                              *)

LEMMA BeginType ==
    ASSUME NEW a \in Interfaces, NEW n \in Nat
    PROVE  /\ BeginLoad(a, n) \in Interfaces
           /\ BeginLoad(a, n) = [a EXCEPT !.pendingLoads = a.pendingLoads + n]
  BY DEF BeginLoad, Interfaces

LEMMA EndType ==
    ASSUME NEW a \in Interfaces
    PROVE  /\ EndLoad(a) \in Interfaces
           /\ EndLoad(a) = [a EXCEPT !.pendingLoads = IF a.pendingLoads > 0 THEN a.pendingLoads - 1 ELSE 0]
  BY DEF EndLoad, Interfaces

LEMMA ClearType == ASSUME NEW a \in Interfaces PROVE ClearResourcePending(a) \in Interfaces
  BY DEF ClearResourcePending, Interfaces

(* What may be shown of the selection stays, or goes.                      *)
Fields(a) ==
    <<a.profile, a.storeID, a.modelID, a.tuples, a.changes, a.assertions, a.assertModelID, a.result,
      a.applied, a.wanted>>

LEMMA BeginFields ==
    ASSUME NEW a \in Interfaces, NEW n \in Nat
    PROVE  /\ BeginLoad(a, n) \in Interfaces /\ Fields(BeginLoad(a, n)) = Fields(a)
           /\ BeginLoad(a, n).pendingLoads = a.pendingLoads + n
  BY BeginType DEF Interfaces, Fields

LEMMA EndFields ==
    ASSUME NEW a \in Interfaces
    PROVE  /\ EndLoad(a) \in Interfaces /\ Fields(EndLoad(a)) = Fields(a)
           /\ EndLoad(a).pendingLoads = IF a.pendingLoads > 0 THEN a.pendingLoads - 1 ELSE 0
  BY EndType DEF Interfaces, Fields

LEMMA ClearFields ==
    ASSUME NEW a \in Interfaces
    PROVE  LET b == ClearResourcePending(a)
           IN  /\ b \in Interfaces /\ b.pendingLoads = a.pendingLoads
               /\ b.profile = a.profile /\ b.storeID = a.storeID /\ b.modelID = a.modelID
               /\ b.tuples = a.tuples /\ b.changes = a.changes
               /\ b.assertions = None /\ b.assertModelID = None /\ b.result = None
               /\ b.applied = a.applied /\ b.wanted = a.wanted
  <1> DEFINE b == ClearResourcePending(a)
  <1>1. b \in Interfaces
    BY DEF ClearResourcePending, Interfaces
  <1>2. /\ b.pendingLoads = a.pendingLoads
        /\ b.profile = a.profile /\ b.storeID = a.storeID /\ b.modelID = a.modelID
    BY DEF ClearResourcePending, Interfaces
  <1>3. /\ b.tuples = a.tuples /\ b.changes = a.changes
        /\ b.applied = a.applied /\ b.wanted = a.wanted
    BY DEF ClearResourcePending, Interfaces
  <1>4. b.assertions = None /\ b.assertModelID = None /\ b.result = None
    BY DEF ClearResourcePending, Interfaces
  <1> HIDE DEF b
  <1>5. /\ b \in Interfaces /\ b.pendingLoads = a.pendingLoads
        /\ b.profile = a.profile /\ b.storeID = a.storeID /\ b.modelID = a.modelID
        /\ b.tuples = a.tuples /\ b.changes = a.changes
        /\ b.assertions = None /\ b.assertModelID = None /\ b.result = None
        /\ b.applied = a.applied /\ b.wanted = a.wanted
    BY <1>1, <1>2, <1>3, <1>4
  <1> QED
    BY <1>5 DEF b

LEMMA SelectedFields ==
    ASSUME NEW a \in Interfaces, NEW s \in Stores
    PROVE  LET b == Selected(a, s)
           IN  /\ b \in Interfaces /\ b.pendingLoads = a.pendingLoads
               /\ b.profile = a.profile /\ b.storeID = s /\ b.modelID = None
               /\ b.tuples = None /\ b.changes = None
               /\ b.assertions = None /\ b.result = None
               /\ b.applied = None /\ b.wanted = None
  <1> DEFINE c == ClearResourcePending(a)
  <1>1. c \in Interfaces /\ c.pendingLoads = a.pendingLoads /\ c.profile = a.profile
        /\ c.assertions = None /\ c.result = None
    BY ClearFields
  <1>2. Selected(a, s) = [c EXCEPT !.storeID = s, !.modelID = None, !.tuples = None, !.changes = None,
                                   !.applied = None, !.wanted = None]
    BY DEF Selected
  <1> DEFINE b == Selected(a, s)
  <1> HIDE DEF c
  <1>3. b \in Interfaces
    <2> DEFINE d == [c EXCEPT !.storeID = s, !.modelID = None]
               f == [d EXCEPT !.tuples = None, !.changes = None]
    <2>1. d \in Interfaces
      BY <1>1 DEF Interfaces
    <2>2. b = [f EXCEPT !.applied = None, !.wanted = None]
      BY <1>1, <1>2 DEF Interfaces
    <2> HIDE DEF d, b
    <2>3. f \in Interfaces
      BY <2>1 DEF Interfaces
    <2> HIDE DEF f
    <2> QED
      BY <2>2, <2>3 DEF Interfaces, Wanted
  <1>4. /\ b.pendingLoads = c.pendingLoads /\ b.profile = c.profile
        /\ b.assertions = c.assertions /\ b.result = c.result
    BY <1>1, <1>2 DEF Interfaces
  <1>5. /\ b.storeID = s /\ b.modelID = None
        /\ b.tuples = None /\ b.changes = None /\ b.applied = None /\ b.wanted = None
    BY <1>1, <1>2 DEF Interfaces
  <1> HIDE DEF b
  <1>6. /\ b \in Interfaces /\ b.pendingLoads = a.pendingLoads
        /\ b.profile = a.profile /\ b.storeID = s /\ b.modelID = None
        /\ b.tuples = None /\ b.changes = None
        /\ b.assertions = None /\ b.result = None
        /\ b.applied = None /\ b.wanted = None
    BY <1>1, <1>3, <1>4, <1>5
  <1> QED
    BY <1>6 DEF b

LEMMA ActivatedFields ==
    ASSUME NEW a \in Interfaces, NEW p \in Profiles, pins \in [Profiles -> Selections]
    PROVE  LET b == Activated(a, p)
           IN  /\ b \in Interfaces /\ b.pendingLoads = a.pendingLoads
               /\ b.profile = p /\ b.storeID = pins[p].store /\ b.modelID = pins[p].model
               /\ b.tuples = None /\ b.changes = None
               /\ b.assertions = None /\ b.result = None
               /\ b.applied = None /\ b.wanted = None
  <1>1. pins[p].store \in Stores \cup {None} /\ pins[p].model \in Models \cup {None}
    BY DEF Selections
  <1> QED
    BY <1>1, ZenonT(30) DEF Activated, Interfaces, Wanted

LEMMA RequestFields ==
    ASSUME NEW a \in Interfaces, a.storeID # None, NEW k \in AllKinds, NEW model \in Models \cup {None}
    PROVE  LET r == Request(k, a, model)
           IN  /\ r \in Calls /\ r.kind = k /\ r.profile = a.profile /\ r.store = a.storeID
               /\ r.model = model /\ r.id = 0 /\ r.answer = NoAnswer /\ r.rows = {}
               /\ r.filter = IF k = "tuples" THEN a.wanted ELSE None
  <1>1. a.storeID \in Stores /\ a.profile \in Profiles /\ a.wanted \in Wanted
    BY DEF Interfaces
  <1>2. (IF k = "tuples" THEN a.wanted ELSE None) \in Wanted
    BY <1>1 DEF Wanted
  <1> QED
    BY <1>1, <1>2 DEF Request, Calls

-------------------------------------------------------------------------------
(* The servers.                                                            *)

Grows ==
    /\ server' \in [Profiles -> [Stores -> Dbs]]
    /\ \A p \in Profiles, s \in Stores :
          /\ server[p][s].models <= server'[p][s].models
          /\ server[p][s].tuples \subseteq server'[p][s].tuples

LEMMA DbType ==
    ASSUME TypeInv, NEW p \in Profiles, NEW s \in Stores
    PROVE  server[p][s] \in Dbs /\ server[p][s].models \in 0..MaxModels
           /\ server[p][s].tuples \in SUBSET Nat /\ server[p][s].asserts \in [1..MaxModels -> SUBSET Nat]
  BY DEF TypeInv, Dbs

LEMMA GrowsHas ==
    ASSUME TypeInv, Grows, NEW p, NEW s, NEW model \in Models \cup {None}
    PROVE  /\ Has(p, s, model) => Has(p, s, model)'
           /\ Known(p, s, model) => Known(p, s, model)'
  <1>1. ASSUME Has(p, s, model) PROVE Has(p, s, model)'
    <2>1. model # None /\ p \in Profiles /\ s \in Stores /\ model.profile = p /\ model.store = s /\ model.n \in Nat
      BY <1>1 DEF Has, Models
    <2>2. server[p][s].models \in Nat /\ server'[p][s].models \in Nat
      BY <2>1 DEF TypeInv, Grows, Dbs
    <2> QED
      BY <1>1, <2>1, <2>2 DEF Has, Grows
  <1> QED
    BY <1>1 DEF Known, Alien

(* A server that is left alone.                                            *)
LEMMA RestGrows == ASSUME TypeInv, server' = server PROVE Grows
  <1>1. \A p \in Profiles, s \in Stores : server[p][s].models \in Nat
    BY DbType
  <1> QED
    BY <1>1 DEF Grows, TypeInv

(* What it says of a model, asked for by id or as the latest.              *)
LEMMA ReplyHolds ==
    ASSUME TypeInv, NEW r \in Calls
    PROVE  /\ Reply(r) \in Answers /\ Reply(r).is \in {"ok", "absent"}
           /\ r.kind = "model" /\ Reply(r).is = "ok" => Has(r.profile, r.store, Reply(r).model)
           /\ r.kind = "query" /\ Reply(r).is = "ok" /\ r.model # None => Has(r.profile, r.store, r.model)
           /\ r.kind \in {"tuples", "changes"} =>
                 Reply(r).is = "ok" /\ Reply(r).seen = server[r.profile][r.store].tuples
           /\ r.kind = "model" /\ Known(r.profile, r.store, r.model) /\ Reply(r).is = "absent" =>
                 \/ r.model # None /\ Alien(r.profile, r.store, r.model)
                 \/ r.model = None /\ server[r.profile][r.store].models = 0
           /\ r.kind = "write" /\ Reply(r).is = "ok" => Exists(r, Resolved(r))
  <1> DEFINE db == server[r.profile][r.store]
             last == Latest(r)
             model == Resolved(r)
  <1>1. r.profile \in Profiles /\ r.store \in Stores /\ r.model \in Models \cup {None} /\ r.kind \in AllKinds
    BY DEF Calls
  <1>2. db.models \in 0..MaxModels /\ db.tuples \in SUBSET Nat /\ db.asserts \in [1..MaxModels -> SUBSET Nat]
    BY <1>1, DbType
  <1>3. /\ last \in Models \cup {None}
        /\ last = None => db.models = 0
        /\ last # None => Has(r.profile, r.store, last)
    <2>1. CASE db.models = 0
      BY <2>1 DEF Latest, Db
    <2>2. CASE db.models # 0
      <3>1. last = Model(r.profile, r.store, db.models) /\ db.models \in 1..MaxModels
        BY <1>2, <2>2 DEF Latest, Db
      <3> QED
        BY <1>1, <3>1, <2>2, Constants DEF Model, Models, Has
    <2> QED
      BY <2>1, <2>2
  <1>4. model \in Models \cup {None} /\ model = IF r.model = None THEN last ELSE r.model
    BY <1>1, <1>3 DEF Resolved
  <1>6. Exists(r, model) <=> Has(r.profile, r.store, model)
    BY Zenon DEF Exists, Has, Db
  <1>7. Exists(r, model) => db.asserts[model.n] \in SUBSET Nat
    <2>1. ASSUME Exists(r, model) PROVE model.n \in 1..MaxModels
      BY <1>4, <2>1 DEF Exists, Models
    <2> QED
      BY <1>2, <2>1
  <1>8. \A is \in {"ok", "absent"}, x \in Models \cup {None}, seen \in SUBSET Nat :
           Answer(is, x, seen) \in Answers /\ Answer(is, x, seen).is = is
           /\ Answer(is, x, seen).model = x /\ Answer(is, x, seen).seen = seen
    BY DEF Answer, Answers
  <1>9. {} \in SUBSET Nat
    OBVIOUS
  <1> HIDE DEF db, last, model
  <1>10. CASE r.kind \in {"tuples", "changes"}
    <2>1. Reply(r) = Answer("ok", None, db.tuples)
      BY <1>10, Zenon DEF Reply, Db, db
    <2>2. Reply(r) \in Answers /\ Reply(r).is = "ok" /\ Reply(r).model = None /\ Reply(r).seen = db.tuples
      BY <1>2, <1>8, <2>1
    <2> QED
      BY <1>10, <2>2 DEF db
  <1>11. CASE r.kind \notin {"tuples", "changes"} /\ r.kind # "apply" /\ ~Exists(r, model)
    <2>1. Reply(r) = Answer("absent", r.model, {})
      BY <1>11, Zenon DEF Reply, model
    <2>2. Reply(r) \in Answers /\ Reply(r).is = "absent" /\ Reply(r).model = r.model
      BY <1>1, <1>8, <1>9, <2>1
    <2>3. ~Has(r.profile, r.store, model)
      BY <1>6, <1>11
    <2>4. r.model # None /\ Known(r.profile, r.store, r.model) => Alien(r.profile, r.store, r.model)
      BY <1>4, <2>3 DEF Known
    <2>5. r.model = None => db.models = 0
      BY <1>3, <1>4, <2>3
    <2> QED
      BY <1>11, <2>2, <2>4, <2>5 DEF db
  <1>12. CASE r.kind = "assertions" /\ Exists(r, model)
    <2>1. Reply(r) = Answer("ok", model, db.asserts[model.n])
      BY <1>12, Zenon DEF Reply, Db, db, model
    <2>2. Reply(r) \in Answers /\ Reply(r).is = "ok" /\ Reply(r).model = model
      BY <1>4, <1>7, <1>8, <1>12, <2>1
    <2> QED
      BY <1>12, <2>2
  <1>13. CASE r.kind \notin {"tuples", "changes", "assertions"} /\ (r.kind = "apply" \/ Exists(r, model))
    <2>1. Reply(r) = Answer("ok", IF r.kind = "query" THEN r.model ELSE model, {})
      BY <1>13, Zenon DEF Reply, model
    <2>2. Reply(r) \in Answers /\ Reply(r).is = "ok"
          /\ Reply(r).model = IF r.kind = "query" THEN r.model ELSE model
      BY <1>1, <1>4, <1>8, <1>9, <2>1
    <2> QED
      BY <1>4, <1>6, <1>13, <2>2 DEF model
  <1> QED
    BY <1>10, <1>11, <1>12, <1>13

(* What it makes of a mutation.                                            *)
LEMMA EffectHolds ==
    ASSUME TypeInv, NEW r \in Calls, r.kind \in Mutations,
           r.kind = "apply" => server[r.profile][r.store].models < MaxModels
    PROVE  LET db == server[r.profile][r.store]
           IN  /\ Effect(r) \in Dbs
               /\ Effect(r).models = IF r.kind = "apply" THEN db.models + 1 ELSE db.models
               /\ db.tuples \subseteq Effect(r).tuples
               /\ r.kind = "write" /\ Exists(r, Resolved(r)) => r.id \in Effect(r).tuples
  <1> DEFINE db == server[r.profile][r.store]
             model == Resolved(r)
  <1>1. r.profile \in Profiles /\ r.store \in Stores /\ r.rows \in SUBSET Nat /\ r.id \in Nat
    BY DEF Calls
  <1>2. db \in Dbs /\ db.models \in 0..MaxModels /\ db.tuples \in SUBSET Nat
        /\ db.asserts \in [1..MaxModels -> SUBSET Nat]
    BY <1>1, DbType
  <1> HIDE DEF db, model
  <1>3. CASE r.kind = "apply"
    <2>1. Effect(r) = [db EXCEPT !.models = @ + 1]
      BY <1>3, Zenon DEF Effect, Db, db
    <2>2. db.models + 1 \in 0..MaxModels
      <3>1. db.models \in 0..MaxModels /\ db.models < MaxModels /\ MaxModels \in Nat
        BY <1>2, <1>3, Constants, Zenon DEF db
      <3> QED
        BY <3>1, SMT
    <2> QED
      BY <1>2, <1>3, <2>1, <2>2 DEF Dbs, db
  <1>4. CASE r.kind = "write" /\ Exists(r, model)
    <2>1. Effect(r) = [db EXCEPT !.tuples = @ \cup {r.id}]
      BY <1>4, Zenon DEF Effect, Db, db, model
    <2>2. db.tuples \cup {r.id} \in SUBSET Nat
      BY <1>1, <1>2
    <2>3. Effect(r) \in Dbs /\ Effect(r).models = db.models /\ Effect(r).tuples = db.tuples \cup {r.id}
      BY <1>2, <2>1, <2>2 DEF Dbs
    <2> QED
      BY <1>4, <2>3 DEF db
  <1>5. CASE r.kind = "assert" /\ Exists(r, model)
    <2>1. Effect(r) = [db EXCEPT !.asserts[model.n] = r.rows]
      BY <1>5, Zenon DEF Effect, Db, db, model
    <2>2. Effect(r) = [db EXCEPT !.asserts = [db.asserts EXCEPT ![model.n] = r.rows]]
      BY <1>2, <2>1 DEF Dbs
    <2>3. [db.asserts EXCEPT ![model.n] = r.rows] \in [1..MaxModels -> SUBSET Nat]
      BY <1>1, <1>2
    <2> QED
      BY <1>2, <1>5, <2>2, <2>3 DEF Dbs, db
  <1>6. CASE r.kind # "apply" /\ ~(r.kind \in {"write", "assert"} /\ Exists(r, model))
    <2>1. Effect(r) = db
      BY <1>6, Zenon DEF Effect, Db, db, model
    <2> QED
      BY <1>2, <1>6, <2>1 DEF db, model
  <1> QED
    BY <1>3, <1>4, <1>5, <1>6 DEF Mutations


(* What was asked, and answered, stays so while the servers grow.          *)
LEMMA AskedKept ==
    ASSUME TypeInv, Grows, NEW r \in Calls, NEW q, Same(q, r), AskedOf(r)
    PROVE  AskedOf(q)'
  <1>1. r.profile \in Profiles /\ r.store \in Stores /\ r.model \in Models \cup {None}
        /\ (r.answer # NoAnswer => r.answer.model \in Models \cup {None})
    BY DEF Calls, Answers
  <1>2. server[r.profile][r.store].tuples \subseteq server'[r.profile][r.store].tuples
    BY <1>1 DEF Grows
  <1>3. /\ Known(r.profile, r.store, r.model) => Known(r.profile, r.store, r.model)'
        /\ Has(r.profile, r.store, r.model) => Has(r.profile, r.store, r.model)'
    BY <1>1, GrowsHas
  <1>4. r.answer # NoAnswer =>
           (Has(r.profile, r.store, r.answer.model) => Has(r.profile, r.store, r.answer.model)')
    BY <1>1, GrowsHas
  <1>5. /\ r.kind = "model" => Known(r.profile, r.store, r.model)'
        /\ r.kind = "model" /\ Answered(r, "ok") => Has(r.profile, r.store, r.answer.model)'
        /\ r.kind = "query" /\ Answered(r, "ok") /\ r.model # None => Has(r.profile, r.store, r.model)'
        /\ r.kind = "write" /\ Answered(r, "ok") => r.id \in server'[r.profile][r.store].tuples
        /\ r.kind \in {"tuples", "changes"} /\ Answered(r, "ok") =>
              r.answer.seen \subseteq server'[r.profile][r.store].tuples
    BY <1>2, <1>3, <1>4 DEF AskedOf, Answered
  <1>6. q.kind = r.kind /\ q.profile = r.profile /\ q.store = r.store /\ q.model = r.model
        /\ q.id = r.id /\ q.answer = r.answer
    BY DEF Same
  <1>7. q.kind = "model" => Known(q.profile, q.store, q.model)'
    BY <1>5, <1>6 DEF Known, Alien, Has
  <1>8. /\ q.kind = "model" /\ Answered(q, "ok") => Has(q.profile, q.store, q.answer.model)'
        /\ q.kind = "query" /\ Answered(q, "ok") /\ q.model # None => Has(q.profile, q.store, q.model)'
        /\ q.kind = "write" /\ Answered(q, "ok") => q.id \in server'[q.profile][q.store].tuples
        /\ q.kind \in {"tuples", "changes"} /\ Answered(q, "ok") =>
              q.answer.seen \subseteq server'[q.profile][q.store].tuples
    BY <1>5, <1>6 DEF Answered, Has
  <1> QED
    BY <1>7, <1>8 DEF AskedOf, Answered

LEMMA AskedNew ==
    ASSUME NEW q, q.answer = NoAnswer, q.kind = "model" => Known(q.profile, q.store, q.model)'
    PROVE  AskedOf(q)'
  BY Zenon DEF AskedOf, Answered

(* ServerInv is kept by a step that creates no model and says nothing new  *)
(* but what the server has stored.                                         *)
Asks(q) ==
    \/ \E r \in requests : Same(q, r)
    \/ q.answer = NoAnswer /\ (q.kind = "model" => Known(q.profile, q.store, q.model))

LEMMA RoomKept ==
    ASSUME TypeInv, Room, server' = server, requests' \subseteq Calls, Distinct',
           \A q \in requests' : q.kind = "apply" => \E r \in requests : Same(q, r)
    PROVE  Room'
  <1> SUFFICES ASSUME NEW p \in Profiles, NEW s \in Stores
               PROVE  server[p][s].models + Cardinality(Applies(p, s)') <= MaxModels
    BY Zenon DEF Room
  <1>1. IsFiniteSet(Applies(p, s))
    BY FS_Subset DEF TypeInv, Applies
  <1>2. \A x \in Applies(p, s)' : \E y \in Applies(p, s) : y.kind = x.kind /\ y.id = x.id
    BY DEF Applies, Same
  <1>3. \A x, y \in Applies(p, s)' : x.kind = y.kind /\ x.id = y.id => x = y
    BY DEF Applies, Distinct
  <1>4. IsFiniteSet(Applies(p, s)') /\ Cardinality(Applies(p, s)') <= Cardinality(Applies(p, s))
    BY <1>1, <1>2, <1>3, SmallerById
  <1>5. Cardinality(Applies(p, s)') \in Nat /\ Cardinality(Applies(p, s)) \in Nat
        /\ server[p][s].models \in 0..MaxModels
    BY <1>1, <1>4, CardNat, DbType
  <1>6. server[p][s].models + Cardinality(Applies(p, s)) <= MaxModels
    BY DEF Room
  <1> QED
    BY <1>4, <1>5, <1>6, Constants, SMT

LEMMA ServerKept ==
    ASSUME TypeInv, ServerInv, server' = server, requests' \subseteq Calls,
           Room', \A q \in requests' : Asks(q),
           \A p \in Profiles : Known(p, pins'[p].store, pins'[p].model),
           \A w \in accepted' : w[3] \in server[w[1]][w[2]].tuples
    PROVE  ServerInv'
  <1>1. Grows
    BY RestGrows
  <1>2. ASSUME NEW q \in requests' PROVE AskedOf(q)'
    <2>1. CASE \E r \in requests : Same(q, r)
      BY <1>1, <2>1, AskedKept DEF ServerInv, TypeInv
    <2>2. CASE q.answer = NoAnswer /\ (q.kind = "model" => Known(q.profile, q.store, q.model))
      <3>1. q.kind = "model" => Known(q.profile, q.store, q.model)'
        BY <2>2 DEF Known, Alien, Has
      <3> QED
        BY <2>2, <3>1, AskedNew
    <2> QED
      BY <2>1, <2>2 DEF Asks
  <1>3. (\A p \in Profiles : Known(p, pins[p].store, pins[p].model))'
    BY DEF Known, Alien, Has
  <1>4. (\A w \in accepted : w[3] \in server[w[1]][w[2]].tuples)'
    OBVIOUS
  <1> QED
    BY <1>2, <1>3, <1>4 DEF ServerInv

-------------------------------------------------------------------------------
(* The panes.                                                              *)

(* A read that a step keeps, or starts, is of the selection.               *)
ReadsStay ==
    \A q \in requests' : q.kind \in Kinds =>
        \/ /\ \E r \in requests : Same(q, r)
           /\ q.kind = "model" => m'.modelID = m.modelID
        \/ /\ q.answer = NoAnswer /\ q.profile = m.profile /\ q.store = m.storeID
           /\ q.kind = "model" => q.model \in {None, m'.modelID} \/ Has(m.profile, m.storeID, q.model)

StaysOn ==
    /\ server' = server /\ m' \in Interfaces
    /\ m'.profile = m.profile /\ m'.storeID = m.storeID
    /\ Known(m.profile, m.storeID, m'.modelID)

(* Data of the selection with every reported write.                        *)
Fresh(data) ==
    /\ data # None /\ data.profile = m.profile /\ data.store = m.storeID
    /\ Reported' \subseteq data.seen

OthersStay ==
    /\ \/ m'.assertions \in {None, m.assertions}
       \/ m'.assertions.profile = m.profile /\ m'.assertions.store = m.storeID
    /\ \/ m'.result = None
       \/ m'.result = m.result /\ (m.result.model = None \/ m'.modelID = m.modelID)
       \/ /\ m'.result.profile = m.profile /\ m'.result.store = m.storeID
          /\ m'.result.model # None =>
                m'.result.model = m'.modelID /\ Has(m.profile, m.storeID, m'.result.model)
    /\ \/ m'.changes = None
       \/ m'.changes = m.changes /\ Reported' = Reported
       \/ Fresh(m'.changes)

(* The rows stay, while they are loaded again, after a load that failed, or *)
(* because nothing has happened; or newer ones come.                       *)
SameRows ==
    /\ m'.tuples = m.tuples
    /\ \/ Loading("tuples")'
       \/ m'.wanted = m'.applied /\ "tuples" \in failed'
       \/ /\ ~Loading("tuples") /\ m'.wanted = m.wanted /\ m'.applied = m.applied
          /\ Reported' = Reported /\ ("tuples" \in failed <=> "tuples" \in failed')
    /\ \/ Reported' = Reported
       \/ \A q \in requests' : q.kind \in {"tuples", "changes"} => q.answer = NoAnswer
NewRows ==
    /\ Fresh(m'.tuples) /\ Reported' = Reported
    /\ m'.tuples.seen \subseteq server[m.profile][m.storeID].tuples
    /\ m.tuples # None => m.tuples.seen \subseteq m'.tuples.seen
    /\ m'.wanted = m'.applied
    /\ \A q \in requests' : q.kind # "tuples"

LEMMA PanesKept ==
    ASSUME TypeInv, PaneInv, StaysOn, ReadsStay, OthersStay, SameRows \/ NewRows
    PROVE  PaneInv' /\ NeverOlder
  <1> DEFINE p == m.profile
             s == m.storeID
  <1>1. server' = server /\ m'.profile = p /\ m'.storeID = s /\ m' \in Interfaces /\ m \in Interfaces
    BY DEF StaysOn, TypeInv
  <1>2. \A model : (Has(p, s, model) <=> Has(p, s, model)') /\ (Alien(p, s, model) <=> Alien(p, s, model)')
                     /\ (Known(p, s, model) <=> Known(p, s, model)')
    BY <1>1 DEF Has, Alien, Known
  <1>3. ShownIsSelected'
    <2>1. (m.tuples = None \/ Here(m.tuples))'
      BY <1>1 DEF SameRows, NewRows, Fresh, Here, PaneInv, PanesAreSound, PanesMatchSelection, ShownIsSelected
    <2>2. (m.changes = None \/ Here(m.changes))'
      BY <1>1 DEF OthersStay, Fresh, Here, PaneInv, PanesAreSound, PanesMatchSelection, ShownIsSelected
    <2>3. (m.assertions = None \/ Here(m.assertions))'
      BY <1>1 DEF OthersStay, Fresh, Here, PaneInv, PanesAreSound, PanesMatchSelection, ShownIsSelected
    <2>4. (m.result = None \/ (Here(m.result) /\ (m.result.model # None => m.result.model = m.modelID)))'
      BY <1>1 DEF OthersStay, Fresh, Here, PaneInv, PanesAreSound, PanesMatchSelection, ShownIsSelected
    <2> QED
      BY <2>1, <2>2, <2>3, <2>4 DEF ShownIsSelected
  <1>4. /\ \A w : (w \in accepted /\ w[1] = p /\ w[2] = s) <=> (w \in accepted /\ w[1] = m'.profile /\ w[2] = m'.storeID)
        /\ Reported' = {w[3] : w \in {a \in accepted' : a[1] = p /\ a[2] = s}}
    BY <1>1 DEF Reported
  <1>5. (FilterSettled /\ NoStrandedPane /\ ReportedWritesShown)'
    <2>1. CASE NewRows
      <3>1. m'.tuples # None /\ Reported' \subseteq m'.tuples.seen /\ m'.wanted = m'.applied
        BY <2>1 DEF NewRows, Fresh
      <3>2. m'.changes = None \/ Reported' \subseteq m'.changes.seen
        BY DEF OthersStay, Fresh, PaneInv, PanesAreSound, ReportedWritesShown
      <3> QED
        BY <3>1, <3>2 DEF FilterSettled, NoStrandedPane, ReportedWritesShown
    <2>2. CASE SameRows
      <3>1. m'.changes = None \/ Reported' \subseteq m'.changes.seen
        BY DEF OthersStay, Fresh, PaneInv, PanesAreSound, ReportedWritesShown
      <3>2. CASE Loading("tuples")'
        BY <3>1, <3>2 DEF FilterSettled, NoStrandedPane, ReportedWritesShown
      <3>3. CASE m'.wanted = m'.applied /\ "tuples" \in failed'
        BY <3>1, <3>3 DEF FilterSettled, NoStrandedPane, ReportedWritesShown
      <3>4. CASE /\ ~Loading("tuples") /\ m'.wanted = m.wanted /\ m'.applied = m.applied
                 /\ Reported' = Reported /\ ("tuples" \in failed <=> "tuples" \in failed')
        <4>1. m'.wanted = m'.applied
          BY <3>4 DEF PaneInv, PanesAreSound, PanesMatchSelection, FilterSettled
        <4>2. s # None => m'.tuples # None \/ "tuples" \in failed'
          BY <2>2, <3>4 DEF SameRows, PaneInv, PanesAreSound, PanesMatchSelection, NoStrandedPane
        <4>3. m'.tuples # None /\ "tuples" \notin failed' => Reported' \subseteq m'.tuples.seen
          BY <2>2, <3>4 DEF SameRows, PaneInv, PanesAreSound, ReportedWritesShown
        <4> QED
          BY <1>1, <3>1, <4>1, <4>2, <4>3 DEF FilterSettled, NoStrandedPane, ReportedWritesShown
      <3> QED
        BY <2>2, <3>2, <3>3, <3>4 DEF SameRows
    <2> QED
      BY <2>1, <2>2
  <1>6. Selection'
    <2>1. Known(m.profile, m.storeID, m.modelID)'
      BY <1>1 DEF StaysOn, Known, Alien, Has
    <2>2. m'.tuples \in Data \cup {None} /\ m'.changes \in Data \cup {None} /\ m'.result \in Results \cup {None}
      BY <1>1 DEF Interfaces
    <2>3. \A data \in Data \cup {None} : Fresh(data) => s # None
      BY Constants DEF Fresh, Data
    <2>4. m'.storeID = None => m'.tuples = None /\ m'.changes = None
      BY <1>1, <2>2, <2>3 DEF OthersStay, SameRows, NewRows, PaneInv, Selection
    <2>5. m'.tuples # None => m'.tuples.seen \subseteq server'[m'.profile][m'.storeID].tuples
      BY <1>1 DEF SameRows, NewRows, PaneInv, Selection
    <2>6. m'.result # None /\ m'.result.model # None => Has(m.profile, m.storeID, m.result.model)'
      BY <1>1 DEF OthersStay, PaneInv, Selection, Has
    <2> QED
      BY <2>1, <2>4, <2>5, <2>6 DEF Selection
  <1>7. ASSUME NEW q \in requests' PROVE Placed(q)' /\ Current(q)'
    <2>1. Placed(q)'
      <3>1. CASE q.kind \notin Kinds
        BY <3>1 DEF Placed
      <3>2. CASE q.kind \in Kinds /\ (\E r \in requests : Same(q, r)) /\ (q.kind = "model" => m'.modelID = m.modelID)
        <4>1. PICK r \in requests : Same(q, r)
          BY <3>2
        <4>2. Placed(r)
          BY DEF PaneInv
        <4> QED
          BY <1>1, <3>2, <4>1, <4>2 DEF Placed, Same, Answered, Has, Alien
      <3>3. CASE /\ q.answer = NoAnswer /\ q.profile = m.profile /\ q.store = m.storeID
                 /\ q.kind = "model" => q.model \in {None, m'.modelID} \/ Has(m.profile, m.storeID, q.model)
        BY <1>1, <3>3 DEF Placed, Answered, Has
      <3> QED
        BY <3>1, <3>2, <3>3 DEF ReadsStay
    <2>2. Current(q)'
      <3> SUFFICES ASSUME q.kind \in {"tuples", "changes"}, Answered(q, "ok")
                   PROVE  /\ Reported' \subseteq q.answer.seen
                          /\ q.kind = "tuples" /\ m'.tuples # None => m'.tuples.seen \subseteq q.answer.seen
        BY DEF Current
      <3>1. q.kind \in Kinds /\ q.answer # NoAnswer
        BY DEF Kinds, Answered
      <3>2. PICK r \in requests : Same(q, r)
        BY <3>1 DEF ReadsStay
      <3>3. Current(r)
        BY DEF PaneInv
      <3>4. Reported \subseteq q.answer.seen
            /\ (q.kind = "tuples" /\ m.tuples # None => m.tuples.seen \subseteq q.answer.seen)
        BY <3>2, <3>3 DEF Current, Same, Answered
      <3>5. Reported' = Reported
        BY <3>1 DEF SameRows, NewRows
      <3>6. q.kind = "tuples" => m'.tuples = m.tuples
        BY DEF SameRows, NewRows
      <3> QED
        BY <3>4, <3>5, <3>6
    <2> QED
      BY <2>1, <2>2
  <1>8. NeverOlder
    BY <1>3 DEF NeverOlder, SameRows, NewRows, SameSource, PaneInv, TypeInv
  <1> QED
    BY <1>3, <1>5, <1>6, <1>7, <1>8 DEF PaneInv, PanesAreSound, PanesMatchSelection

(* Nothing is shown yet: a store was selected, or the program starts.      *)
Blank ==
    /\ Known(m.profile, m.storeID, m.modelID)
    /\ m.tuples = None /\ m.changes = None /\ m.assertions = None /\ m.result = None
    /\ m.wanted = m.applied
    /\ m.storeID = None \/ Loading("tuples")
    /\ \A q \in requests : q.kind \in Kinds =>
          /\ q.answer = NoAnswer /\ q.profile = m.profile /\ q.store = m.storeID
          /\ q.kind = "model" => q.model \in {None, m.modelID}

LEMMA BlankIsTrue == Blank => PaneInv
  <1> SUFFICES ASSUME Blank PROVE PaneInv
    OBVIOUS
  <1>1. PanesAreSound /\ Selection
    BY DEF Blank, PanesAreSound, PanesMatchSelection, ShownIsSelected, FilterSettled, NoStrandedPane,
           ReportedWritesShown, Selection
  <1>2. ASSUME NEW q \in requests PROVE Placed(q) /\ Current(q)
    BY DEF Blank, Placed, Current, Answered, Kinds
  <1> QED
    BY <1>1, <1>2 DEF PaneInv

LEMMA BlankHolds == Blank' => PaneInv' /\ NeverOlder
  <1>1. Blank' => PaneInv'
    BY BlankIsTrue, PTL
  <1>2. Blank' => NeverOlder
    BY DEF Blank, NeverOlder, SameSource
  <1> QED
    BY <1>1, <1>2

(* The pin follows as long as the selection and the profile are left alone *)
(* and no load of the model is forgotten.                                  *)
LEMMA PinKept ==
    ASSUME TypeInv, PinInv, Grows, m'.profile = m.profile, m'.storeID = m.storeID, m'.modelID = m.modelID,
           pins' = pins, saveFaults' = saveFaults, retries' \in {retries, 0},
           Loading("model") \/ "model" \in failed => Loading("model")' \/ "model" \in failed'
    PROVE  PinInv'
  <1>1. m.modelID \in Models \cup {None}
    BY DEF TypeInv, Interfaces
  <1>2. Has(m.profile, m.storeID, m.modelID) => Has(m.profile, m.storeID, m.modelID)'
    <2>1. ASSUME Has(m.profile, m.storeID, m.modelID) PROVE Has(m.profile, m.storeID, m.modelID)'
      <3>1. m.modelID # None /\ m.profile \in Profiles /\ m.storeID \in Stores /\ m.modelID.n \in Nat
        BY <1>1, <2>1 DEF Has, Models
      <3>2. server[m.profile][m.storeID].models \in Nat /\ server'[m.profile][m.storeID].models \in Nat
            /\ server[m.profile][m.storeID].models <= server'[m.profile][m.storeID].models
        BY <3>1 DEF TypeInv, Grows, Dbs
      <3> QED
        BY <2>1, <3>1, <3>2 DEF Has
    <2> QED
      BY <2>1
  <1>3. retries' \in Nat /\ retries' <= 1 /\ (retries' > 0 => retries > 0)
    BY DEF TypeInv, PinInv, ProfileFollowsSelection, PinRetriedOnce
  <1> QED
    BY <1>2, <1>3 DEF PinInv, ProfileFollowsSelection, PinRetriedOnce

-------------------------------------------------------------------------------
(* The commands.                                                           *)

LEMMA ReportedStays ==
    ASSUME m'.profile = m.profile, m'.storeID = m.storeID, accepted' = accepted PROVE Reported' = Reported
  BY DEF Reported

LEMMA ReadHolds ==
    ASSUME IInv, Key, Quiet, failed' = failed, m.storeID # None,
           NEW kind \in Kinds, NEW model \in Models \cup {None}, Known(m.profile, m.storeID, model),
           kind = "model" => model = None \/ Has(m.profile, m.storeID, model),
           NEW a \in Interfaces, m' = BeginLoad(a, 1), NEW muts,
           Dispatch(requests, Disowned(muts, Bumped({kind}, requests)), {Request(kind, a, model)}),
           a.profile = m.profile, a.storeID = m.storeID, a.modelID = m.modelID, a.tuples = m.tuples,
           a.changes = m.changes, a.assertions \in {None, m.assertions}, a.result \in {None, m.result},
           a.applied = m.applied, kind = "tuples" \/ a.wanted = m.wanted,
           a.pendingLoads = m.pendingLoads
    PROVE  IInv' /\ NeverOlder
  <1> DEFINE new == Request(kind, a, model)
             kept == Disowned(muts, Bumped({kind}, requests))
  <1>1. TypeInv /\ CallsInv /\ ServerInv /\ PaneInv /\ PinInv
    BY DEF IInv
  <1>2. /\ keys' = keys + 1 /\ retries' = 0 /\ server' = server /\ accepted' = accepted
        /\ pins' = pins /\ faults' = faults /\ saveFaults' = saveFaults
    BY Zenon DEF Key, Quiet
  <1>3. m.storeID # None /\ m' = BeginLoad(a, 1) /\ Dispatch(requests, kept, {new})
    OBVIOUS
  <1>4. new \in Calls /\ new.kind = kind /\ new.profile = m.profile /\ new.store = m.storeID
        /\ new.model = model /\ new.id = 0 /\ new.answer = NoAnswer
    BY <1>3, RequestFields DEF AllKinds
  <1> HIDE DEF new
  <1>5. /\ kept \subseteq Calls
        /\ \A q \in kept : q.kind \notin {kind} /\ \E r \in requests : Same(q, r)
        /\ \A x, y \in kept : x.kind = y.kind /\ x.id = y.id => x = y
    <2> DEFINE ks == {kind}
    <2>1. kept = Disowned(muts, Bumped(ks, requests))
      OBVIOUS
    <2>2. TypeInv /\ Distinct /\ requests \in SUBSET requests
      BY <1>1 DEF CallsInv
    <2> HIDE DEF kept, ks
    <2>3. /\ kept \subseteq Calls
          /\ \A q \in kept : q.kind \notin ks /\ \E r \in requests : Same(q, r)
          /\ \A x, y \in kept : x.kind = y.kind /\ x.id = y.id => x = y
      BY <2>1, <2>2, KeptHolds
    <2> QED
      BY <2>3 DEF ks
  <1>6. \A r \in requests : r.kind # kind => \E q \in kept : Same(q, r)
    BY <1>1, KeptKeeps DEF TypeInv
  <1>7. requests' = kept \cup {new}
    BY <1>3 DEF Dispatch
  <1> HIDE DEF kept
  <1>8. Dispatched(requests, kept, {new}) /\ IsFiniteSet({new}) /\ Cardinality({new}) = 1
    BY <1>4, <1>5, FS_Singleton DEF Dispatched, Numbered
  <1>9. keys \in Nat /\ keys' \in Nat /\ keys' >= keys
    BY <1>1, <1>2 DEF TypeInv
  <1>10. /\ requests' \subseteq Calls /\ IsFiniteSet(requests') /\ late' \in Nat
         /\ (\A r \in requests' : Numbered(r)') /\ Distinct'
         /\ Cardinality(requests') + late' = Cardinality(requests) + late + 1
    BY <1>1, <1>3, <1>5, <1>8, <1>9, DispatchHolds
  <1>11. m' \in Interfaces /\ Fields(m') = Fields(a) /\ m'.pendingLoads = a.pendingLoads + 1
    BY <1>3, BeginFields
  <1>12. /\ m'.profile = m.profile /\ m'.storeID = m.storeID /\ m'.modelID = m.modelID
         /\ m'.tuples = m.tuples /\ m'.changes = m.changes /\ m'.assertions \in {None, m.assertions}
         /\ m'.result \in {None, m.result} /\ m'.applied = m.applied /\ (kind = "tuples" \/ m'.wanted = m.wanted)
    BY <1>11 DEF Fields
  <1>13. TypeInv'
    BY <1>1, <1>2, <1>9, <1>10, <1>11 DEF TypeInv
  <1>14. CallsInv'
    BY <1>1, <1>10, <1>11, CardNat DEF CallsInv, SpinnerExact, TypeInv
  <1>15. ServerInv'
    <2>1. Room'
      BY <1>1, <1>2, <1>4, <1>5, <1>7, <1>10, RoomKept, KindsApart DEF ServerInv, Mutations
    <2>2. \A q \in requests' : Asks(q)
      BY <1>4, <1>5, <1>7 DEF Asks
    <2> QED
      BY <1>1, <1>2, <1>10, <2>1, <2>2, ServerKept DEF ServerInv
  <1>16. PaneInv' /\ NeverOlder
    <2>1. StaysOn
      BY <1>1, <1>2, <1>11, <1>12 DEF StaysOn, PaneInv, Selection
    <2>2. ReadsStay
      BY <1>4, <1>5, <1>7, <1>12 DEF ReadsStay
    <2>3. Reported' = Reported
      BY <1>2, <1>12, ReportedStays
    <2>4. OthersStay
      BY <1>12, <2>3 DEF OthersStay
    <2>5. SameRows
      <3>1. CASE Loading("tuples")'
        BY <1>12, <2>3, <3>1 DEF SameRows
      <3>2. CASE ~Loading("tuples")'
        <4>1. kind # "tuples" /\ ~Loading("tuples")
          BY <1>4, <1>6, <1>7, <3>2 DEF Loading, Same
        <4> QED
          BY <1>12, <2>3, <4>1 DEF SameRows
      <3> QED
        BY <3>1, <3>2
    <2> QED
      BY <1>1, <2>1, <2>2, <2>4, <2>5, PanesKept
  <1>17. PinInv'
    <2>1. Loading("model") => Loading("model")'
      BY <1>4, <1>6, <1>7 DEF Loading, Same
    <2> QED
      BY <1>1, <1>2, <1>12, <2>1, PinKept, RestGrows
  <1> QED
    BY <1>13, <1>14, <1>15, <1>16, <1>17 DEF IInv

(* Selecting a store, or a profile that has one, starts four reads.        *)
LEMMA FourReads ==
    ASSUME NEW b \in Interfaces, b.storeID # None
    PROVE  LET new == StoreReads(b)
           IN  /\ new \subseteq Calls /\ IsFiniteSet(new) /\ Cardinality(new) = 4
               /\ \A q \in new :
                     /\ q.kind \in Kinds /\ q.profile = b.profile /\ q.store = b.storeID
                     /\ q.id = 0 /\ q.answer = NoAnswer /\ q.model \in {None, b.modelID}
               /\ \A x, y \in new : x.kind = y.kind => x = y
               /\ \A k \in {"model", "tuples"} : \E q \in new : q.kind = k
  <1> DEFINE r1 == Request("model", b, b.modelID)
             r2 == Request("tuples", b, None)
             r3 == Request("changes", b, None)
             r4 == Request("assertions", b, b.modelID)
             new == StoreReads(b)
  <1>1. b.modelID \in Models \cup {None} /\ None \in Models \cup {None}
        /\ {"model", "tuples", "changes", "assertions"} \subseteq AllKinds
    BY DEF Interfaces, AllKinds, Kinds
  <1>2. /\ r1 \in Calls /\ r1.kind = "model" /\ r1.profile = b.profile /\ r1.store = b.storeID
        /\ r1.model = b.modelID /\ r1.id = 0 /\ r1.answer = NoAnswer
    BY <1>1, RequestFields
  <1>3. /\ r2 \in Calls /\ r2.kind = "tuples" /\ r2.profile = b.profile /\ r2.store = b.storeID
        /\ r2.model = None /\ r2.id = 0 /\ r2.answer = NoAnswer
    BY <1>1, RequestFields
  <1>4. /\ r3 \in Calls /\ r3.kind = "changes" /\ r3.profile = b.profile /\ r3.store = b.storeID
        /\ r3.model = None /\ r3.id = 0 /\ r3.answer = NoAnswer
    BY <1>1, RequestFields
  <1>5. /\ r4 \in Calls /\ r4.kind = "assertions" /\ r4.profile = b.profile /\ r4.store = b.storeID
        /\ r4.model = b.modelID /\ r4.id = 0 /\ r4.answer = NoAnswer
    BY <1>1, RequestFields
  <1>6. new = {r1, r2, r3, r4}
    BY Zenon DEF StoreReads, FirstModel
  <1> HIDE DEF r1, r2, r3, r4, new
  <1>7. IsFiniteSet(new) /\ Cardinality(new) = 4
    <2>1. IsFiniteSet({r1}) /\ Cardinality({r1}) = 1
      BY FS_Singleton
    <2>2. r2 \notin {r1} /\ r3 \notin {r1} \cup {r2} /\ r4 \notin ({r1} \cup {r2}) \cup {r3}
      BY <1>2, <1>3, <1>4, <1>5
    <2>3. IsFiniteSet({r1} \cup {r2}) /\ Cardinality({r1} \cup {r2}) = 2
      BY <2>1, <2>2, FS_AddElement
    <2>4. IsFiniteSet(({r1} \cup {r2}) \cup {r3}) /\ Cardinality(({r1} \cup {r2}) \cup {r3}) = 3
      BY <2>2, <2>3, FS_AddElement
    <2> DEFINE three == ({r1} \cup {r2}) \cup {r3}
    <2>5. r4 \notin three /\ new = three \cup {r4} /\ IsFiniteSet(three) /\ Cardinality(three) = 3
      BY <1>6, <2>2, <2>4
    <2> HIDE DEF three
    <2>6. IsFiniteSet(three \cup {r4}) /\ Cardinality(three \cup {r4}) = 4
      BY <2>5, FS_AddElement
    <2> QED
      BY <2>5, <2>6
  <1> QED
    BY <1>2, <1>3, <1>4, <1>5, <1>6, <1>7 DEF Kinds, new

LEMMA ReconnectHolds ==
    ASSUME IInv, Key, NEW b \in Interfaces, b.pendingLoads = m.pendingLoads,
           Known(b.profile, b.storeID, b.modelID),
           b.tuples = None, b.changes = None, b.assertions = None, b.result = None, b.wanted = b.applied,
           \/ /\ b.storeID # None /\ m' = BeginLoad(b, 4)
              /\ Dispatch(requests, Superseded(requests), StoreReads(b))
           \/ /\ b.storeID = None /\ m' = b
              /\ Dispatch(requests, Superseded(requests), {})
              /\ pins'[b.profile] = [store |-> b.storeID, model |-> b.modelID],
           failed' = {}, faults' \in Nat, saveFaults' \in Nat,
           pins' \in [Profiles -> Selections],
           \A p \in Profiles : Known(p, pins'[p].store, pins'[p].model),
           saveFaults' = 0 => pins'[b.profile].store = b.storeID
    PROVE  IInv' /\ NeverOlder
  <1> DEFINE new == IF b.storeID = None THEN {} ELSE StoreReads(b)
             kept == Superseded(requests)
  <1>1. TypeInv /\ CallsInv /\ ServerInv /\ PaneInv /\ PinInv
    BY DEF IInv
  <1>2. keys' = keys + 1 /\ retries' = 0 /\ server' = server /\ accepted' = accepted
    BY Zenon DEF Key
  <1>3. /\ Dispatch(requests, kept, new)
        /\ m' = IF b.storeID = None THEN b ELSE BeginLoad(b, 4)
    BY Zenon
  <1>4. /\ new \subseteq Calls /\ IsFiniteSet(new) /\ Cardinality(new) = IF b.storeID = None THEN 0 ELSE 4
        /\ \A q \in new :
              /\ q.kind \in Kinds /\ q.profile = b.profile /\ q.store = b.storeID
              /\ q.id = 0 /\ q.answer = NoAnswer /\ q.model \in {None, b.modelID}
        /\ \A x, y \in new : x.kind = y.kind => x = y
        /\ b.storeID # None => \A k \in {"model", "tuples"} : \E q \in new : q.kind = k
    <2>1. CASE b.storeID = None
      BY <2>1, FS_EmptySet
    <2>2. CASE b.storeID # None
      BY <2>2, FourReads
    <2> QED
      BY <2>1, <2>2
  <1> HIDE DEF new
  <1>5. /\ kept \subseteq Calls
        /\ \A q \in kept : q.kind \notin Kinds /\ \E r \in requests : Same(q, r)
        /\ \A x, y \in kept : x.kind = y.kind /\ x.id = y.id => x = y
    <2>1. kept = Disowned(Mutations, Bumped(Kinds, requests))
      BY DEF Superseded
    <2>2. TypeInv /\ Distinct /\ requests \in SUBSET requests
      BY <1>1 DEF CallsInv
    <2> HIDE DEF kept
    <2> QED
      BY <2>1, <2>2, KeptHolds
  <1> HIDE DEF kept
  <1>6. requests' = kept \cup new
    BY <1>3 DEF Dispatch
  <1>7. Dispatched(requests, kept, new)
    BY <1>4, <1>5 DEF Dispatched, Numbered
  <1>8. keys \in Nat /\ keys' \in Nat /\ keys' >= keys
    BY <1>1, <1>2 DEF TypeInv
  <1>9. /\ requests' \subseteq Calls /\ IsFiniteSet(requests') /\ late' \in Nat
        /\ (\A r \in requests' : Numbered(r)') /\ Distinct'
        /\ Cardinality(requests') + late' = Cardinality(requests) + late + Cardinality(new)
    BY <1>1, <1>3, <1>5, <1>7, <1>8, DispatchHolds
  <1>10. /\ m' \in Interfaces /\ Fields(m') = Fields(b)
         /\ m'.pendingLoads = m.pendingLoads + Cardinality(new)
    <2>1. CASE b.storeID = None
      BY <1>1, <1>3, <1>4, <2>1 DEF TypeInv, Interfaces
    <2>2. CASE b.storeID # None
      BY <1>3, <1>4, <2>2, BeginFields
    <2> QED
      BY <2>1, <2>2
  <1>11. /\ m'.profile = b.profile /\ m'.storeID = b.storeID /\ m'.modelID = b.modelID
         /\ m'.tuples = None /\ m'.changes = None /\ m'.assertions = None
         /\ m'.result = None /\ m'.applied = m'.wanted
    BY <1>10 DEF Fields
  <1>12. TypeInv'
    BY <1>1, <1>2, <1>8, <1>9, <1>10 DEF TypeInv
  <1>13. CallsInv'
    BY <1>1, <1>9, <1>10, <1>4, CardNat DEF CallsInv, SpinnerExact, TypeInv
  <1>14. Known(m'.profile, m'.storeID, m'.modelID)
    BY <1>11 DEF Known, Alien, Has
  <1>15. ServerInv'
    <2>1. \A q \in requests' : q.kind = "apply" => \E r \in requests : Same(q, r)
      BY <1>4, <1>5, <1>6, KindsApart DEF Mutations
    <2>2. Room'
      BY <1>1, <1>2, <1>9, <2>1, RoomKept DEF ServerInv
    <2>3. \A q \in requests' : Asks(q)
      BY <1>4, <1>5, <1>6 DEF Asks, Known, Alien
    <2> QED
      BY <1>1, <1>2, <1>9, <2>2, <2>3, ServerKept DEF ServerInv
  <1>16. PaneInv' /\ NeverOlder
    <2>1. (Known(m.profile, m.storeID, m.modelID))'
      BY <1>2, <1>14 DEF Known, Alien, Has
    <2>2. (m.storeID = None \/ Loading("tuples"))'
      BY <1>4, <1>6, <1>11 DEF Loading
    <2>3. Blank'
      BY <1>4, <1>5, <1>6, <1>11, <2>1, <2>2 DEF Blank
    <2> QED
      BY <2>3, BlankHolds
  <1>17. PinInv'
    <2>1. b.storeID # None => Loading("model")'
      BY <1>4, <1>6 DEF Loading
    <2>2. b.storeID = None => pins'[b.profile] = [store |-> b.storeID, model |-> b.modelID]
      OBVIOUS
    <2> QED
      BY <1>2, <1>11, <2>1, <2>2 DEF PinInv, ProfileFollowsSelection, PinRetriedOnce
  <1> QED
    BY <1>12, <1>13, <1>15, <1>16, <1>17 DEF IInv

LEMMA SelectStoreHolds == ASSUME IInv, NEW s \in Stores, SelectStore(s) PROVE IInv' /\ NeverOlder
  <1> DEFINE b == Selected(m, s)
             picked == [store |-> s, model |-> None]
  <1>1. TypeInv /\ ServerInv
    BY DEF IInv
  <1>2. m \in Interfaces /\ pins \in [Profiles -> Selections] /\ faults \in Nat /\ saveFaults \in Nat
    BY <1>1 DEF TypeInv
  <1>3. /\ b \in Interfaces /\ b.pendingLoads = m.pendingLoads
        /\ b.profile = m.profile /\ b.storeID = s /\ b.modelID = None
        /\ b.tuples = None /\ b.changes = None /\ b.assertions = None /\ b.result = None
        /\ b.applied = None /\ b.wanted = None
    BY <1>2, SelectedFields
  <1>4. Key /\ m' = BeginLoad(b, 4) /\ Persist(m.profile, picked)
        /\ Dispatch(requests, Superseded(requests), StoreReads(b)) /\ failed' = {}
    BY Zenon DEF SelectStore
  <1> HIDE DEF b
  <1>5. \/ pins' = [pins EXCEPT ![m.profile] = picked] /\ faults' = faults /\ saveFaults' = saveFaults
        \/ pins' = pins /\ faults' = faults + 1 /\ saveFaults' = saveFaults + 1
    BY <1>4, Zenon DEF Persist
  <1>6. picked \in Selections /\ m.profile \in Profiles
    BY <1>2 DEF Selections, Interfaces
  <1>7. pins' \in [Profiles -> Selections] /\ faults' \in Nat /\ saveFaults' \in Nat
    BY <1>2, <1>5, <1>6
  <1>8. \A p \in Profiles : Known(p, pins'[p].store, pins'[p].model)
    BY <1>1, <1>2, <1>5, <1>6 DEF ServerInv, Known, Alien
  <1>9. saveFaults' = 0 => pins'[b.profile].store = b.storeID
    BY <1>2, <1>3, <1>5, <1>6
  <1>10. Known(b.profile, b.storeID, b.modelID) /\ b.storeID # None
    BY <1>3, Constants DEF Known, Alien
  <1> QED
    BY <1>3, <1>4, <1>7, <1>8, <1>9, <1>10, ReconnectHolds

LEMMA SwitchProfileHolds == ASSUME IInv, NEW p \in Profiles, SwitchProfile(p) PROVE IInv' /\ NeverOlder
  <1> DEFINE b == Activated(m, p)
  <1>1. TypeInv /\ ServerInv
    BY DEF IInv
  <1>2. m \in Interfaces /\ pins \in [Profiles -> Selections] /\ faults \in Nat /\ saveFaults \in Nat
    BY <1>1 DEF TypeInv
  <1>3. /\ b \in Interfaces /\ b.pendingLoads = m.pendingLoads
        /\ b.profile = p /\ b.storeID = pins[p].store /\ b.modelID = pins[p].model
        /\ b.tuples = None /\ b.changes = None /\ b.assertions = None /\ b.result = None
        /\ b.applied = None /\ b.wanted = None
    BY <1>2, ActivatedFields
  <1>4. /\ Key /\ failed' = {} /\ Quiet
        /\ \/ /\ b.storeID # None /\ m' = BeginLoad(b, 4)
              /\ Dispatch(requests, Superseded(requests), StoreReads(b))
           \/ /\ b.storeID = None /\ m' = b
              /\ Dispatch(requests, Superseded(requests), {})
    BY Zenon DEF SwitchProfile
  <1> HIDE DEF b
  <1>5. pins' = pins /\ faults' = faults /\ saveFaults' = saveFaults
    BY <1>4, Zenon DEF Quiet
  <1>6. pins'[b.profile] = [store |-> b.storeID, model |-> b.modelID]
    BY <1>2, <1>3, <1>5 DEF Selections
  <1>7. pins' \in [Profiles -> Selections] /\ faults' \in Nat /\ saveFaults' \in Nat
    BY <1>2, <1>5
  <1>8. (\A q \in Profiles : Known(q, pins'[q].store, pins'[q].model)) /\ Known(b.profile, b.storeID, b.modelID)
    BY <1>1, <1>3, <1>5 DEF ServerInv
  <1>9. saveFaults' = 0 => pins'[b.profile].store = b.storeID
    BY <1>3, <1>5
  <1> QED
    BY <1>3, <1>4, <1>6, <1>7, <1>8, <1>9, ReconnectHolds

LEMMA ReadsHold ==
    ASSUME IInv,
           \/ ReloadModel \/ ReloadTuples \/ ReloadChanges \/ ReloadAssertions \/ RunQuery
           \/ \E f \in Filters \cup {None} : SubmitFilter(f)
    PROVE  IInv' /\ NeverOlder
  <1>1. m \in Interfaces /\ m.modelID \in Models \cup {None} /\ None \in Models \cup {None}
        /\ Known(m.profile, m.storeID, m.modelID) /\ Known(m.profile, m.storeID, None)
    BY DEF IInv, TypeInv, Interfaces, PaneInv, Selection, Known, Alien
  <1>2. ASSUME NEW kind \in Kinds, NEW model \in {None, m.modelID}, NEW a \in Interfaces,
               Key, Read(kind, model, a), failed' = failed, kind = "model" => model = None,
               a = m \/ \E f \in Wanted : kind = "tuples" /\ a = [m EXCEPT !.wanted = f]
        PROVE  IInv' /\ NeverOlder
    <2>1. Quiet /\ m.storeID # None /\ m' = BeginLoad(a, 1)
          /\ Dispatch(requests, Bumped({kind}, requests), {Request(kind, a, model)})
      BY <1>2, Zenon DEF Read
    <2>2. Dispatch(requests, Disowned({}, Bumped({kind}, requests)), {Request(kind, a, model)})
      BY <2>1, DisownNone
    <2>3. /\ a.profile = m.profile /\ a.storeID = m.storeID /\ a.modelID = m.modelID /\ a.tuples = m.tuples
          /\ a.changes = m.changes /\ a.assertions = m.assertions /\ a.result = m.result
          /\ a.applied = m.applied /\ (kind = "tuples" \/ a.wanted = m.wanted)
          /\ a.pendingLoads = m.pendingLoads
      BY <1>1, <1>2 DEF Interfaces
    <2>4. Known(m.profile, m.storeID, model) /\ model \in Models \cup {None}
      BY <1>1
    <2> QED
      BY <1>2, <2>1, <2>2, <2>3, <2>4, ReadHolds
  <1>3. CASE ReloadModel
    BY <1>1, <1>2, <1>3 DEF ReloadModel, Kinds
  <1>4. CASE ReloadTuples
    BY <1>1, <1>2, <1>4 DEF ReloadTuples, Kinds
  <1>5. CASE ReloadChanges
    BY <1>1, <1>2, <1>5 DEF ReloadChanges, Kinds
  <1>6. CASE ReloadAssertions
    BY <1>1, <1>2, <1>6 DEF ReloadAssertions, Kinds
  <1>7. CASE RunQuery
    BY <1>1, <1>2, <1>7 DEF RunQuery, Kinds
  <1>8. ASSUME NEW f \in Filters \cup {None}, SubmitFilter(f) PROVE IInv' /\ NeverOlder
    <2>1. [m EXCEPT !.wanted = f] \in Interfaces
      BY <1>1 DEF Interfaces, Wanted
    <2> QED
      BY <1>1, <1>2, <1>8, <2>1 DEF SubmitFilter, Kinds, Wanted
  <1> QED
    BY <1>3, <1>4, <1>5, <1>6, <1>7, <1>8

LEMMA PickModelHolds == ASSUME IInv, NEW n \in 1..MaxModels, PickModel(n) PROVE IInv' /\ NeverOlder
  <1> DEFINE a == ClearResourcePending(m)
             model == Model(m.profile, m.storeID, n)
  <1>1. /\ Key /\ m.storeID # None /\ n \in 1..server[m.profile][m.storeID].models
        /\ m' = BeginLoad(a, 1) /\ failed' = failed /\ Quiet
        /\ Dispatch(requests, Disowned(Mutations, Bumped({"model"}, requests)), {Request("model", m, model)})
    BY Zenon DEF PickModel, PickKept
  <1>2. m \in Interfaces
    BY DEF IInv, TypeInv
  <1>3. /\ a \in Interfaces /\ a.pendingLoads = m.pendingLoads
        /\ a.profile = m.profile /\ a.storeID = m.storeID /\ a.modelID = m.modelID
        /\ a.tuples = m.tuples /\ a.changes = m.changes
        /\ a.assertions = None /\ a.result = None
        /\ a.applied = m.applied /\ a.wanted = m.wanted
    BY <1>2, ClearFields
  <1> HIDE DEF a
  <1>4. Request("model", m, model) = Request("model", a, model)
    BY <1>3, Zenon DEF Request
  <1>5. model \in Models \cup {None} /\ Has(m.profile, m.storeID, model)
    BY <1>1, <1>2, Constants DEF Interfaces, Model, Models, Has
  <1>6. Known(m.profile, m.storeID, model)
    BY <1>5 DEF Known
  <1> HIDE DEF model
  <1> QED
    BY <1>1, <1>3, <1>4, <1>5, <1>6, ReadHolds DEF Kinds

LEMMA MutationHolds ==
    ASSUME IInv, Key, Quiet, failed' = failed, m.storeID # None,
           NEW r \in Calls, r.kind \in Mutations, r.profile = m.profile, r.store = m.storeID,
           r.id = keys + 1, r.answer = NoAnswer,
           r.kind = "apply" =>
               server[m.profile][m.storeID].models + Cardinality(Applies(m.profile, m.storeID)) < MaxModels,
           m' \in Interfaces, Fields(m') = Fields(m), m'.pendingLoads = m.pendingLoads + 1,
           Dispatch(requests, Disowned({r.kind}, requests), {r})
    PROVE  IInv' /\ NeverOlder
  <1> DEFINE kept == Disowned({r.kind}, requests)
  <1>1. TypeInv /\ CallsInv /\ ServerInv /\ PaneInv /\ PinInv
    BY DEF IInv
  <1>2. /\ keys' = keys + 1 /\ retries' = 0 /\ server' = server /\ accepted' = accepted
        /\ pins' = pins /\ faults' = faults /\ saveFaults' = saveFaults
    BY Zenon DEF Key, Quiet
  <1>3. /\ kept \subseteq Calls
        /\ \A q \in kept : \E x \in requests : Same(q, x)
        /\ \A x, y \in kept : x.kind = y.kind /\ x.id = y.id => x = y
        /\ \A x \in requests : \E q \in kept : Same(q, x)
    <2> DEFINE muts == {r.kind}
               none == {}
    <2>1. kept = Disowned(muts, Bumped(none, requests)) /\ \A x : x.kind \notin none
      BY BumpNone
    <2>2. TypeInv /\ Distinct /\ requests \in SUBSET requests /\ requests \in SUBSET Calls
      BY <1>1 DEF CallsInv, TypeInv
    <2> HIDE DEF kept, muts, none
    <2> QED
      BY <2>1, <2>2, KeptHolds, KeptKeeps
  <1>4. Dispatch(requests, kept, {r})
    OBVIOUS
  <1> HIDE DEF kept
  <1>5. requests' = kept \cup {r}
    BY <1>4 DEF Dispatch
  <1>6. keys \in Nat /\ keys' \in Nat /\ keys' >= keys
    BY <1>1, <1>2 DEF TypeInv
  <1>7. \A q \in kept : q.kind = r.kind => q.id # r.id
    <2>1. ASSUME NEW q \in kept, q.kind = r.kind PROVE q.id \in 1..keys
      <3>1. PICK x \in requests : Same(q, x)
        BY <1>3
      <3> QED
        BY <1>1, <2>1, <3>1, KindsApart DEF CallsInv, Numbered, Same
    <2> QED
      BY <1>6, <2>1
  <1>8. Dispatched(requests, kept, {r}) /\ IsFiniteSet({r}) /\ Cardinality({r}) = 1
    <2>1. Numbered(r)'
      BY <1>2, <1>6, KindsApart DEF Numbered
    <2> QED
      BY <1>3, <1>7, <2>1, FS_Singleton DEF Dispatched
  <1>9. /\ requests' \subseteq Calls /\ IsFiniteSet(requests') /\ late' \in Nat
        /\ (\A q \in requests' : Numbered(q)') /\ Distinct'
        /\ Cardinality(requests') + late' = Cardinality(requests) + late + 1
    BY <1>1, <1>3, <1>4, <1>6, <1>8, DispatchHolds
  <1>10. TypeInv'
    BY <1>1, <1>2, <1>6, <1>9 DEF TypeInv
  <1>11. CallsInv'
    BY <1>1, <1>9, CardNat DEF CallsInv, SpinnerExact, TypeInv
  <1>12. /\ m'.profile = m.profile /\ m'.storeID = m.storeID /\ m'.modelID = m.modelID
         /\ m'.tuples = m.tuples /\ m'.changes = m.changes /\ m'.assertions = m.assertions
         /\ m'.result = m.result /\ m'.applied = m.applied /\ m'.wanted = m.wanted
    BY DEF Fields
  <1>13. Room'
    <2>1. CASE r.kind # "apply"
      <3>1. \A q \in requests' : q.kind = "apply" => \E x \in requests : Same(q, x)
        BY <1>3, <1>5, <2>1
      <3> QED
        BY <1>1, <1>2, <1>9, <3>1, RoomKept DEF ServerInv
    <2>2. CASE r.kind = "apply"
      <3> SUFFICES ASSUME NEW p \in Profiles, NEW s \in Stores
                   PROVE  server[p][s].models + Cardinality(Applies(p, s)') <= MaxModels
        BY <1>2, Zenon DEF Room
      <3> DEFINE old == Applies(p, s)
                 most == IF p = m.profile /\ s = m.storeID THEN old \cup {r} ELSE old
      <3>1. IsFiniteSet(old) /\ Cardinality(old) \in Nat
        BY <1>1, FS_Subset, CardNat DEF TypeInv, Applies
      <3>2. IsFiniteSet(old \cup {r}) /\ Cardinality(old \cup {r}) <= Cardinality(old) + 1
        <4> HIDE DEF old
        <4>1. /\ IsFiniteSet(old \cup {r})
              /\ Cardinality(old \cup {r}) = IF r \in old THEN Cardinality(old) ELSE Cardinality(old) + 1
          BY <3>1, FS_AddElement
        <4> QED
          BY <3>1, <4>1
      <3>3. \A x \in Applies(p, s)' : \E y \in most : y.kind = x.kind /\ y.id = x.id
        BY <1>3, <1>5 DEF Applies, Same
      <3>4. \A x, y \in Applies(p, s)' : x.kind = y.kind /\ x.id = y.id => x = y
        BY <1>9 DEF Applies, Distinct
      <3>5. IsFiniteSet(most)
        BY <3>1, <3>2
      <3> HIDE DEF most
      <3>6. IsFiniteSet(Applies(p, s)') /\ Cardinality(Applies(p, s)') <= Cardinality(most)
        BY <3>3, <3>4, <3>5, SmallerById
      <3>7. Cardinality(Applies(p, s)') \in Nat /\ Cardinality(most) \in Nat
            /\ server[p][s].models \in Nat /\ server[p][s].models + Cardinality(old) <= MaxModels
        BY <1>1, <3>5, <3>6, CardNat, DbType DEF ServerInv, Room
      <3>8. server[p][s].models + Cardinality(most) <= MaxModels
        <4>1. CASE p = m.profile /\ s = m.storeID
          <5>1. Cardinality(most) <= Cardinality(old) + 1 /\ server[p][s].models + Cardinality(old) < MaxModels
            BY <2>2, <3>2, <4>1 DEF most
          <5> QED
            BY <3>1, <3>7, <5>1, Constants
        <4>2. CASE ~(p = m.profile /\ s = m.storeID)
          BY <3>7, <4>2 DEF most
        <4> QED
          BY <4>1, <4>2
      <3> QED
        BY <3>6, <3>7, <3>8, Constants
    <2> QED
      BY <2>1, <2>2
  <1>14. ServerInv'
    <2>1. \A q \in requests' : Asks(q)
      BY <1>3, <1>5 DEF Asks, Mutations
    <2> QED
      BY <1>1, <1>2, <1>9, <1>13, <2>1, ServerKept DEF ServerInv
  <1>15. PaneInv' /\ NeverOlder
    <2>1. StaysOn
      BY <1>1, <1>2, <1>12 DEF StaysOn, PaneInv, Selection
    <2>2. ReadsStay
      BY <1>3, <1>5, <1>12, KindsApart DEF ReadsStay
    <2>3. Reported' = Reported
      BY <1>2, <1>12, ReportedStays
    <2>4. OthersStay
      BY <1>12, <2>3 DEF OthersStay
    <2>5. Loading("tuples")' <=> Loading("tuples")
      BY <1>3, <1>5 DEF Loading, Same, Mutations
    <2>6. SameRows
      BY <1>12, <2>3, <2>5 DEF SameRows
    <2> QED
      BY <1>1, <2>1, <2>2, <2>4, <2>6, PanesKept
  <1>16. PinInv'
    <2>1. Loading("model") => Loading("model")'
      BY <1>3, <1>5 DEF Loading, Same
    <2> QED
      BY <1>1, <1>2, <1>12, <2>1, PinKept, RestGrows
  <1> QED
    BY <1>10, <1>11, <1>14, <1>15, <1>16 DEF IInv

LEMMA MutationsHold ==
    ASSUME IInv, WriteTuple \/ ApplyModel \/ AddAssertion PROVE IInv' /\ NeverOlder
  <1>1. m \in Interfaces /\ keys \in Nat
    BY DEF IInv, TypeInv
  <1>2. /\ BeginLoad(m, 1) \in Interfaces /\ Fields(BeginLoad(m, 1)) = Fields(m)
        /\ BeginLoad(m, 1).pendingLoads = m.pendingLoads + 1
    BY <1>1, BeginFields
  <1>3. ASSUME NEW a \in Interfaces
        PROVE  \A b \in {[a EXCEPT !.tupleMutating = TRUE], [a EXCEPT !.modelApplying = TRUE],
                         [a EXCEPT !.assertionsWriting = TRUE]} :
                  b \in Interfaces /\ Fields(b) = Fields(a) /\ b.pendingLoads = a.pendingLoads
    BY ZenonT(30) DEF Interfaces, Fields
  <1>4. ASSUME m.storeID # None, NEW kind \in Mutations, NEW model \in Models \cup {None}, NEW rows \in SUBSET Nat
        PROVE  LET r == Mutation(kind, model, keys + 1, rows)
               IN  /\ r \in Calls /\ r.kind = kind /\ r.profile = m.profile /\ r.store = m.storeID
                   /\ r.id = keys + 1 /\ r.answer = NoAnswer
    <2> DEFINE q == Request(kind, m, model)
    <2>1. /\ q \in Calls /\ q.kind = kind /\ q.profile = m.profile /\ q.store = m.storeID
          /\ q.answer = NoAnswer
      BY <1>1, <1>4, RequestFields DEF AllKinds
    <2>2. Mutation(kind, model, keys + 1, rows) = [q EXCEPT !.id = keys + 1, !.rows = rows]
      BY DEF Mutation
    <2>3. keys + 1 \in Nat
      BY <1>1
    <2> HIDE DEF q
    <2>4. \A n \in Nat : LET r == [q EXCEPT !.id = n, !.rows = rows]
                         IN  /\ r \in Calls /\ r.kind = q.kind /\ r.profile = q.profile /\ r.store = q.store
                             /\ r.id = n /\ r.answer = q.answer
      BY <2>1 DEF Calls
    <2> QED
      BY <2>1, <2>2, <2>3, <2>4
  <1>5. /\ m.modelID \in Models \cup {None} /\ m.assertModelID \in Models \cup {None}
        /\ {} \in SUBSET Nat /\ ShownAssertions \cup {keys + 1} \in SUBSET Nat
    BY <1>1 DEF Interfaces, ShownAssertions, Data
  <1>6. CASE WriteTuple
    <2> DEFINE r == Mutation("write", m.modelID, keys + 1, {})
    <2>1. /\ Key /\ m.storeID # None /\ failed' = failed /\ Quiet
          /\ m' = [BeginLoad(m, 1) EXCEPT !["tupleMutating"] = TRUE]
          /\ Dispatch(requests, Disowned({r.kind}, requests), {r})
      BY <1>6, Zenon DEF WriteTuple, StartMutation
    <2>2. m' \in Interfaces /\ Fields(m') = Fields(m) /\ m'.pendingLoads = m.pendingLoads + 1
      BY <1>2, <1>3, <2>1
    <2>3. r \in Calls /\ r.kind = "write" /\ r.profile = m.profile /\ r.store = m.storeID
          /\ r.id = keys + 1 /\ r.answer = NoAnswer
      BY <1>4, <1>5, <2>1 DEF Mutations
    <2> HIDE DEF r
    <2> QED
      BY <2>1, <2>2, <2>3, MutationHolds DEF Mutations
  <1>7. CASE ApplyModel
    <2> DEFINE r == Mutation("apply", m.modelID, keys + 1, {})
    <2>1. /\ Key /\ m.storeID # None /\ failed' = failed /\ Quiet
          /\ server[m.profile][m.storeID].models + Cardinality(Applies(m.profile, m.storeID)) < MaxModels
          /\ m' = [BeginLoad(m, 1) EXCEPT !["modelApplying"] = TRUE]
          /\ Dispatch(requests, Disowned({r.kind}, requests), {r})
      BY <1>7, Zenon DEF ApplyModel, StartMutation
    <2>2. m' \in Interfaces /\ Fields(m') = Fields(m) /\ m'.pendingLoads = m.pendingLoads + 1
      BY <1>2, <1>3, <2>1
    <2>3. r \in Calls /\ r.kind = "apply" /\ r.profile = m.profile /\ r.store = m.storeID
          /\ r.id = keys + 1 /\ r.answer = NoAnswer
      BY <1>4, <1>5, <2>1 DEF Mutations
    <2> HIDE DEF r
    <2> QED
      BY <2>1, <2>2, <2>3, MutationHolds DEF Mutations
  <1>8. CASE AddAssertion
    <2> DEFINE r == Mutation("assert", m.assertModelID, keys + 1, ShownAssertions \cup {keys + 1})
    <2>1. /\ Key /\ m.storeID # None /\ failed' = failed /\ Quiet
          /\ m' = [BeginLoad(m, 1) EXCEPT !["assertionsWriting"] = TRUE]
          /\ Dispatch(requests, Disowned({r.kind}, requests), {r})
      BY <1>8, Zenon DEF AddAssertion, StartMutation
    <2>2. m' \in Interfaces /\ Fields(m') = Fields(m) /\ m'.pendingLoads = m.pendingLoads + 1
      BY <1>2, <1>3, <2>1
    <2>3. r \in Calls /\ r.kind = "assert" /\ r.profile = m.profile /\ r.store = m.storeID
          /\ r.id = keys + 1 /\ r.answer = NoAnswer
      BY <1>4, <1>5, <2>1 DEF Mutations
    <2> HIDE DEF r
    <2> QED
      BY <2>1, <2>2, <2>3, MutationHolds DEF Mutations
  <1> QED
    BY <1>6, <1>7, <1>8

-------------------------------------------------------------------------------
(* The completions.                                                        *)

(* The other requests stay, those of some kinds superseded; new ones come. *)
Finished(r, a, kinds, new) ==
    /\ requests' \subseteq Calls /\ IsFiniteSet(requests') /\ late' \in Nat
    /\ (\A q \in requests' : Numbered(q)') /\ Distinct' /\ SpinnerExact'
    /\ m' \in Interfaces /\ Fields(m') = Fields(a)
    /\ \A q \in requests' : q \in new \/ (q.kind \notin kinds /\ \E x \in requests : x # r /\ Same(q, x))
    /\ \A x \in requests : x # r /\ x.kind \notin kinds => \E q \in requests' : Same(q, x)
    /\ new \subseteq requests'

LEMMA FinishHolds ==
    ASSUME TypeInv, CallsInv, keys' = keys, NEW r \in requests,
           NEW a \in Interfaces, a.pendingLoads = m.pendingLoads,
           NEW muts, NEW kinds, NEW new, new \subseteq Calls, IsFiniteSet(new),
           \A q \in new : q.kind \in Kinds /\ q.kind \in kinds /\ q.id = 0,
           \A x, y \in new : x.kind = y.kind => x = y,
           m' = BeginLoad(EndLoad(a), Cardinality(new)),
           Dispatch(Others(r), Disowned(muts, Bumped(kinds, Others(r))), new)
    PROVE  Finished(r, a, kinds, new)
  <1> DEFINE rest == Others(r)
             kept == Disowned(muts, Bumped(kinds, rest))
  <1>1. requests \subseteq Calls /\ IsFiniteSet(requests) /\ late \in Nat /\ m \in Interfaces /\ keys \in Nat
    BY DEF TypeInv
  <1>2. rest \in SUBSET requests /\ \A x : x \in rest <=> x \in requests /\ x # r
    BY DEF Others
  <1>3. IsFiniteSet(rest) /\ Cardinality(rest) = Cardinality(requests) - 1
    BY <1>1, FS_RemoveElement DEF Others
  <1>4. Dispatch(rest, kept, new)
    OBVIOUS
  <1>5. /\ kept \subseteq Calls
        /\ \A q \in kept : q.kind \notin kinds /\ \E x \in rest : Same(q, x)
        /\ \A x, y \in kept : x.kind = y.kind /\ x.id = y.id => x = y
        /\ \A x \in rest : x.kind \notin kinds => \E q \in kept : Same(q, x)
    <2>1. kept = Disowned(muts, Bumped(kinds, rest))
      OBVIOUS
    <2>2. TypeInv /\ Distinct /\ rest \in SUBSET Calls
      BY <1>1, <1>2 DEF CallsInv
    <2> HIDE DEF kept, rest
    <2> QED
      BY <1>2, <2>1, <2>2, KeptHolds, KeptKeeps
  <1> HIDE DEF kept, rest
  <1>6. Dispatched(rest, kept, new)
    BY <1>5 DEF Dispatched, Numbered
  <1>7. /\ requests' \subseteq Calls /\ IsFiniteSet(requests') /\ late' \in Nat
        /\ (\A q \in requests' : Numbered(q)') /\ Distinct'
        /\ Cardinality(requests') + late' = Cardinality(rest) + late + Cardinality(new)
    <2>1. keys' \in Nat /\ keys' >= keys
      BY <1>1
    <2>2. rest \in SUBSET requests
      BY <1>2
    <2>3. \A x, y \in kept : x.kind = y.kind /\ x.id = y.id => x = y
      BY <1>5
    <2> QED
      BY <1>4, <1>6, <2>1, <2>2, <2>3, DispatchHolds
  <1>8. requests' = kept \cup new
    BY <1>4 DEF Dispatch
  <1>9. Cardinality(new) \in Nat /\ Cardinality(rest) \in Nat /\ Cardinality(requests) \in Nat
        /\ Cardinality(requests') \in Nat
    BY <1>1, <1>3, <1>7, CardNat
  <1>10. /\ EndLoad(a) \in Interfaces /\ Fields(EndLoad(a)) = Fields(a)
         /\ EndLoad(a).pendingLoads = IF a.pendingLoads > 0 THEN a.pendingLoads - 1 ELSE 0
    BY EndFields
  <1>11. /\ m' \in Interfaces /\ Fields(m') = Fields(a)
         /\ m'.pendingLoads = EndLoad(a).pendingLoads + Cardinality(new)
    BY <1>9, <1>10, BeginFields
  <1>12. SpinnerExact'
    <2>1. m.pendingLoads = Cardinality(requests) + late
      BY DEF CallsInv, SpinnerExact
    <2>2. Cardinality(requests') + late' = Cardinality(requests) - 1 + late + Cardinality(new)
      BY <1>3, <1>7
    <2>3. m'.pendingLoads = (IF m.pendingLoads > 0 THEN m.pendingLoads - 1 ELSE 0) + Cardinality(new)
      BY <1>10, <1>11
    <2>4. m'.pendingLoads = Cardinality(requests') + late'
      BY <1>1, <1>3, <1>7, <1>9, <2>1, <2>2, <2>3
    <2> QED
      BY <2>4 DEF SpinnerExact
  <1> QED
    BY <1>2, <1>5, <1>7, <1>8, <1>11, <1>12 DEF Finished

(* A completion that starts nothing.                                       *)
LEMMA EndHolds ==
    ASSUME TypeInv, CallsInv, keys' = keys, NEW r \in requests, NEW muts,
           NEW a \in Interfaces, a.pendingLoads = m.pendingLoads,
           m' = EndLoad(a), requests' = Disowned(muts, Others(r)), late' = late
    PROVE  Finished(r, a, {}, {})
  <1> DEFINE rest == Others(r)
             kept == Disowned(muts, rest)
             none == {}
  <1>1. EndLoad(a) \in Interfaces
    BY EndType
  <1>2. \A b \in Interfaces : BeginLoad(b, 0) = b
    BY DEF BeginLoad, Interfaces
  <1>3. IsFiniteSet(none) /\ Cardinality(none) = 0
    BY FS_EmptySet
  <1>4. m' = BeginLoad(EndLoad(a), Cardinality(none))
    BY <1>1, <1>2, <1>3
  <1>5. rest \in SUBSET requests /\ rest \in SUBSET Calls /\ IsFiniteSet(rest) /\ late \in Nat
    <2>1. rest \in SUBSET requests
      BY DEF Others
    <2> QED
      BY <2>1, FS_Subset DEF TypeInv
  <1>6. kept = Disowned(muts, Bumped(none, rest)) /\ \A k : k \notin none
    BY BumpNone
  <1>7. IsFiniteSet(kept) /\ Cardinality(kept) = Cardinality(rest)
    <2> HIDE DEF none, rest, kept
    <2>1. /\ \A q \in kept : \E x \in rest : Same(q, x)
          /\ \A x, y \in kept : x.kind = y.kind /\ x.id = y.id => x = y
          /\ \A x \in rest : \E q \in kept : Same(q, x)
      <3>1. TypeInv /\ Distinct
        BY DEF CallsInv
      <3> QED
        BY <1>5, <1>6, <3>1, KeptHolds, KeptKeeps
    <2>2. \A x, y \in rest : x.kind = y.kind /\ x.id = y.id => x = y
      BY <1>5 DEF CallsInv, Distinct
    <2>3. \A q \in kept : \E x \in rest : x.kind = q.kind /\ x.id = q.id
      BY <2>1 DEF Same
    <2>4. IsFiniteSet(kept) /\ Cardinality(kept) <= Cardinality(rest)
      BY <1>5, <2>1, <2>3, SmallerById
    <2>5. \A x \in rest : \E q \in kept : q.kind = x.kind /\ q.id = x.id
      BY <2>1 DEF Same
    <2>6. Cardinality(rest) <= Cardinality(kept)
      BY <2>2, <2>4, <2>5, SmallerById
    <2> QED
      BY <1>5, <2>4, <2>6, CardNat
  <1>8. Dispatch(rest, kept, none)
    BY <1>5, <1>7, CardNat DEF Dispatch
  <1>9. none \subseteq Calls /\ \A k : k \notin none
    OBVIOUS
  <1> HIDE DEF none, rest, kept
  <1>10. Dispatch(Others(r), Disowned(muts, Bumped(none, Others(r))), none)
    BY <1>6, <1>8 DEF rest
  <1>11. Finished(r, a, none, none)
    BY <1>3, <1>4, <1>9, <1>10, FinishHolds
  <1> QED
    BY <1>11 DEF none

LEMMA CompletionKept ==
    ASSUME IInv, NEW r \in requests, NEW a \in Interfaces, NEW kinds, NEW new, Finished(r, a, kinds, new),
           server' = server, keys' = keys,
           faults' \in Nat, saveFaults' \in Nat, retries' \in Nat, failed' \subseteq AllKinds,
           pins' \in [Profiles -> Selections], accepted' \subseteq Profiles \X Stores \X Nat,
           \A p \in Profiles : Known(p, pins'[p].store, pins'[p].model),
           \A w \in accepted' : w[3] \in server[w[1]][w[2]].tuples,
           \A q \in new : /\ q.kind \in Kinds /\ q.profile = m.profile /\ q.store = m.storeID
                          /\ q.answer = NoAnswer /\ (q.kind = "model" => q.model = None),
           a.profile = m.profile, a.storeID = m.storeID, Known(m.profile, m.storeID, a.modelID),
           a.modelID = m.modelID \/ r.kind = "model",
           OthersStay, SameRows \/ NewRows, PinInv'
    PROVE  IInv' /\ NeverOlder
  <1>1. TypeInv /\ CallsInv /\ ServerInv /\ PaneInv
    BY DEF IInv
  <1>2. /\ requests' \subseteq Calls /\ IsFiniteSet(requests') /\ late' \in Nat
        /\ (\A q \in requests' : Numbered(q)') /\ Distinct' /\ SpinnerExact'
        /\ m' \in Interfaces /\ Fields(m') = Fields(a)
        /\ \A q \in requests' : q \in new \/ (\E x \in requests : x # r /\ Same(q, x))
    BY Zenon DEF Finished
  <1>3. m'.profile = m.profile /\ m'.storeID = m.storeID /\ m'.modelID = a.modelID
    BY <1>2 DEF Fields
  <1>4. TypeInv'
    BY <1>1, <1>2 DEF TypeInv
  <1>5. CallsInv'
    BY <1>2 DEF CallsInv
  <1>6. ServerInv'
    <2>1. \A q \in requests' : q.kind = "apply" => \E x \in requests : Same(q, x)
      BY <1>2, KindsApart DEF Mutations
    <2>2. Room'
      BY <1>1, <1>2, <2>1, RoomKept DEF ServerInv
    <2>3. \A q \in requests' : Asks(q)
      BY <1>2 DEF Asks, Known, Alien
    <2> QED
      BY <1>1, <1>2, <2>2, <2>3, ServerKept
  <1>7. PaneInv' /\ NeverOlder
    <2>1. StaysOn
      BY <1>2, <1>3 DEF StaysOn
    <2>2. ReadsStay
      <3> SUFFICES ASSUME NEW q \in requests', q.kind \in Kinds
                   PROVE  \/ /\ \E x \in requests : Same(q, x)
                             /\ q.kind = "model" => m'.modelID = m.modelID
                          \/ /\ q.answer = NoAnswer /\ q.profile = m.profile /\ q.store = m.storeID
                             /\ q.kind = "model" => q.model \in {None, m'.modelID} \/ Has(m.profile, m.storeID, q.model)
        BY DEF ReadsStay
      <3>1. CASE q \in new
        BY <3>1
      <3>2. CASE \E x \in requests : x # r /\ Same(q, x)
        <4>1. PICK x \in requests : x # r /\ Same(q, x)
          BY <3>2
        <4>2. q.kind = "model" => r.kind # "model"
          <5>1. Numbered(x) /\ Numbered(r) /\ Distinct
            BY <1>1 DEF CallsInv
          <5> QED
            BY <4>1, <5>1 DEF Numbered, Distinct, Same
        <4> QED
          BY <1>3, <4>1, <4>2
      <3> QED
        BY <1>2, <3>1, <3>2
    <2> QED
      BY <1>1, <2>1, <2>2, PanesKept
  <1> QED
    BY <1>4, <1>5, <1>6, <1>7 DEF IInv

(* What comes back is of the selection, and of what the servers have.      *)
LEMMA ArrivedHolds ==
    ASSUME IInv, NEW r \in requests, r.kind \in Kinds
    PROVE  LET x == Arrived(r)
           IN  /\ r.profile = m.profile /\ r.store = m.storeID /\ m.storeID \in Stores /\ x \in Answers
               /\ r.kind = "model" /\ x.is = "ok" => Has(m.profile, m.storeID, x.model)
               /\ r.kind = "model" /\ x.is = "absent" => Alien(m.profile, m.storeID, m.modelID)
               /\ r.kind = "query" /\ x.is = "ok" /\ r.model # None => Has(m.profile, m.storeID, r.model)
               /\ r.kind \in {"tuples", "changes"} /\ x.is = "ok" =>
                     /\ x.seen \subseteq server[m.profile][m.storeID].tuples
                     /\ Reported \subseteq x.seen
                     /\ r.kind = "tuples" /\ m.tuples # None => m.tuples.seen \subseteq x.seen
  <1> DEFINE x == Arrived(r)
  <1>1. TypeInv /\ ServerInv /\ PaneInv
    BY DEF IInv
  <1>2. r \in Calls /\ AskedOf(r) /\ Placed(r) /\ Current(r) /\ Selection
    BY <1>1 DEF TypeInv, ServerInv, PaneInv
  <1>3. r.profile = m.profile /\ r.store = m.storeID /\ r.profile \in Profiles /\ r.store \in Stores
        /\ r.answer \in Answers \cup {NoAnswer}
    BY <1>2 DEF Placed, Calls
  <1>4. CASE r.answer # NoAnswer
    <2>1. x = r.answer
      BY <1>4 DEF Arrived
    <2> HIDE DEF x
    <2>2. r.kind = "model" /\ x.is = "ok" => Has(m.profile, m.storeID, x.model)
      BY <1>2, <1>3, <1>4, <2>1 DEF AskedOf, Answered
    <2>3. r.kind = "model" /\ x.is = "absent" => Alien(m.profile, m.storeID, m.modelID)
      BY <1>2, <1>3, <1>4, <2>1 DEF Placed, Answered
    <2>4. r.kind = "query" /\ x.is = "ok" /\ r.model # None => Has(m.profile, m.storeID, r.model)
      BY <1>2, <1>3, <1>4, <2>1 DEF AskedOf, Answered
    <2>5. r.kind \in {"tuples", "changes"} /\ x.is = "ok" =>
             /\ x.seen \subseteq server[m.profile][m.storeID].tuples
             /\ Reported \subseteq x.seen
             /\ r.kind = "tuples" /\ m.tuples # None => m.tuples.seen \subseteq x.seen
      BY <1>2, <1>3, <1>4, <2>1 DEF AskedOf, Answered, Current
    <2> QED
      BY <1>3, <1>4, <2>1, <2>2, <2>3, <2>4, <2>5 DEF x
  <1>5. CASE r.answer = NoAnswer
    <2>1. x = Reply(r)
      BY <1>5 DEF Arrived
    <2>2. /\ x \in Answers /\ x.is \in {"ok", "absent"}
          /\ r.kind = "model" /\ x.is = "ok" => Has(m.profile, m.storeID, x.model)
          /\ r.kind = "query" /\ x.is = "ok" /\ r.model # None => Has(m.profile, m.storeID, r.model)
          /\ r.kind \in {"tuples", "changes"} => x.seen = server[m.profile][m.storeID].tuples
          /\ r.kind = "model" /\ Known(m.profile, m.storeID, r.model) /\ x.is = "absent" =>
                \/ r.model # None /\ Alien(m.profile, m.storeID, r.model)
                \/ r.model = None /\ server[m.profile][m.storeID].models = 0
      BY <1>1, <1>2, <1>3, <2>1, ReplyHolds
    <2> HIDE DEF x
    <2>3. ASSUME r.kind = "model", x.is = "absent" PROVE Alien(m.profile, m.storeID, m.modelID)
      <3>1. Known(m.profile, m.storeID, r.model) /\ Known(m.profile, m.storeID, m.modelID)
        BY <1>2, <1>3, <2>3 DEF AskedOf, Selection
      <3>2. r.model \in {None, m.modelID} \/ Has(m.profile, m.storeID, r.model)
        BY <1>2, <2>3 DEF Placed
      <3>3. CASE r.model # None
        BY <2>2, <2>3, <3>1, <3>2, <3>3 DEF Alien, Has
      <3>4. CASE r.model = None
        <4>1. server[m.profile][m.storeID].models = 0
          BY <2>2, <2>3, <3>1, <3>4
        <4>2. m.modelID \in Models \cup {None}
          BY <1>1 DEF TypeInv, Interfaces
        <4>3. ~Has(m.profile, m.storeID, m.modelID)
          BY <4>1, <4>2 DEF Has, Models
        <4> QED
          BY <3>1, <4>3 DEF Known
      <3> QED
        BY <3>3, <3>4
    <2>4. Reported \subseteq server[m.profile][m.storeID].tuples
      BY <1>1 DEF ServerInv, Reported
    <2>5. m.tuples # None => m.tuples.seen \subseteq server[m.profile][m.storeID].tuples
      BY <1>2 DEF Selection
    <2> QED
      BY <1>3, <2>2, <2>3, <2>4, <2>5 DEF x
  <1> QED
    BY <1>4, <1>5

(* What a completion leaves alone unless it says otherwise.                *)
Calm == server' = server /\ accepted' = accepted /\ keys' = keys /\ retries' = retries
        /\ pins' = pins /\ faults' = faults /\ saveFaults' = saveFaults

LEMMA CalmKept ==
    ASSUME IInv, Calm, NEW r \in requests, NEW a \in Interfaces, NEW kinds, NEW new,
           Finished(r, a, kinds, new), failed' \subseteq AllKinds,
           \A q \in new : /\ q.kind \in Kinds /\ q.profile = m.profile /\ q.store = m.storeID
                          /\ q.answer = NoAnswer /\ (q.kind = "model" => q.model = None),
           a.profile = m.profile, a.storeID = m.storeID, a.modelID = m.modelID,
           OthersStay, SameRows \/ NewRows,
           Loading("model") \/ "model" \in failed => Loading("model")' \/ "model" \in failed'
    PROVE  IInv' /\ NeverOlder
  <1>1. TypeInv /\ ServerInv /\ PaneInv /\ PinInv
    BY DEF IInv
  <1>2. server' = server /\ accepted' = accepted /\ keys' = keys /\ retries' = retries
        /\ pins' = pins /\ faults' = faults /\ saveFaults' = saveFaults
    BY DEF Calm
  <1>3. m'.profile = m.profile /\ m'.storeID = m.storeID /\ m'.modelID = m.modelID
    BY DEF Finished, Fields
  <1>4. PinInv'
    BY <1>1, <1>2, <1>3, PinKept, RestGrows
  <1>5. /\ faults' \in Nat /\ saveFaults' \in Nat /\ retries' \in Nat
        /\ pins' \in [Profiles -> Selections] /\ accepted' \subseteq Profiles \X Stores \X Nat
    BY <1>1, <1>2 DEF TypeInv
  <1>6. /\ \A p \in Profiles : Known(p, pins'[p].store, pins'[p].model)
        /\ \A w \in accepted' : w[3] \in server[w[1]][w[2]].tuples
        /\ Known(m.profile, m.storeID, a.modelID)
    BY <1>1, <1>2 DEF ServerInv, PaneInv, Selection
  <1> QED
    BY <1>2, <1>4, <1>5, <1>6, CompletionKept

(* A completion that only ends, and changes neither rows nor model.        *)
LEMMA PlainHolds ==
    ASSUME IInv, Calm, NEW r \in requests, r.kind \notin {"model", "tuples"},
           NEW a \in Interfaces, a.pendingLoads = m.pendingLoads,
           m' = EndLoad(a), requests' = Others(r), late' = late,
           failed' \subseteq AllKinds, \A k \in {"model", "tuples"} : k \in failed' <=> k \in failed,
           a.profile = m.profile, a.storeID = m.storeID, a.modelID = m.modelID, a.tuples = m.tuples,
           a.applied = m.applied, a.wanted = m.wanted,
           OthersStay
    PROVE  IInv' /\ NeverOlder
  <1>1. TypeInv /\ CallsInv /\ PaneInv
    BY DEF IInv
  <1> DEFINE no == {}
  <1>2. Finished(r, a, no, no)
    <2>1. requests' = Disowned({}, Others(r)) /\ keys' = keys
      BY DisownNone DEF Calm
    <2> QED
      BY <1>1, <2>1, EndHolds
  <1>3. \A k \in {"model", "tuples"} : (\E q \in requests' : q.kind = k) <=> (\E q \in requests : q.kind = k)
    BY DEF Others
  <1>4. /\ Loading("tuples")' <=> Loading("tuples")
        /\ Loading("model")' <=> Loading("model")
    BY <1>3 DEF Loading
  <1>5. m'.profile = m.profile /\ m'.storeID = m.storeID /\ m'.tuples = m.tuples
        /\ m'.applied = m.applied /\ m'.wanted = m.wanted
    BY EndFields DEF Fields
  <1>6. Reported' = Reported
    BY <1>5, ReportedStays DEF Calm
  <1>7. SameRows
    BY <1>4, <1>5, <1>6 DEF SameRows
  <1>8. \A q \in no : FALSE
    OBVIOUS
  <1> HIDE DEF no
  <1>9. Loading("model") \/ "model" \in failed => Loading("model")' \/ "model" \in failed'
    BY <1>4
  <1> QED
    BY <1>2, <1>7, <1>8, <1>9, CalmKept

Keeps(a) ==
    /\ a.profile = m.profile /\ a.storeID = m.storeID /\ a.modelID = m.modelID /\ a.tuples = m.tuples
    /\ a.applied = m.applied /\ a.wanted = m.wanted /\ a.pendingLoads = m.pendingLoads

LEMMA SettleHolds ==
    ASSUME IInv, Calm, NEW r \in requests, r.kind \notin {"model", "tuples"},
           NEW a \in Interfaces, Keeps(a), Settle(r, a),
           \/ a.assertions \in {None, m.assertions}
           \/ a.assertions.profile = m.profile /\ a.assertions.store = m.storeID,
           \/ a.result \in {None, m.result}
           \/ /\ a.result.profile = m.profile /\ a.result.store = m.storeID
              /\ a.result.model # None => a.result.model = m.modelID /\ Has(m.profile, m.storeID, a.result.model),
           \/ a.changes = m.changes
           \/ /\ a.changes # None /\ a.changes.profile = m.profile /\ a.changes.store = m.storeID
              /\ Reported \subseteq a.changes.seen
    PROVE  IInv' /\ NeverOlder
  <1>1. m' = EndLoad(a) /\ requests' = Others(r) /\ late' = late
        /\ failed' = IF Ok(r) THEN failed \ {r.kind} ELSE failed \cup {r.kind}
    BY Zenon DEF Settle
  <1>2. m' \in Interfaces /\ Fields(m') = Fields(a)
    BY <1>1, EndFields
  <1>3. /\ m'.profile = m.profile /\ m'.storeID = m.storeID /\ m'.modelID = m.modelID
        /\ m'.assertions = a.assertions /\ m'.result = a.result /\ m'.changes = a.changes
    BY <1>2 DEF Fields, Keeps
  <1>4. Reported' = Reported
    BY <1>3, ReportedStays DEF Calm
  <1>5. OthersStay
    BY <1>3, <1>4 DEF OthersStay, Fresh
  <1>6. failed' \subseteq AllKinds /\ \A k \in {"model", "tuples"} : k \in failed' <=> k \in failed
    <2>1. r.kind \in AllKinds /\ failed \subseteq AllKinds
      BY DEF IInv, TypeInv, Calls
    <2> QED
      BY <1>1, <2>1
  <1> QED
    BY <1>1, <1>5, <1>6, PlainHolds DEF Keeps

LEMMA DroppedHolds ==
    ASSUME IInv, Calm, NEW r \in requests, r.kind \notin {"model", "tuples"}, Dropped(r)
    PROVE  IInv' /\ NeverOlder
  <1>1. m' = EndLoad(m) /\ requests' = Others(r) /\ late' = late /\ failed' = failed
    BY Zenon DEF Dropped
  <1>2. m \in Interfaces /\ failed \subseteq AllKinds
    BY DEF IInv, TypeInv
  <1>3. m' \in Interfaces /\ Fields(m') = Fields(m)
    BY <1>1, <1>2, EndFields
  <1>4. /\ m'.profile = m.profile /\ m'.storeID = m.storeID /\ m'.modelID = m.modelID
        /\ m'.assertions = m.assertions /\ m'.result = m.result /\ m'.changes = m.changes
    BY <1>3 DEF Fields
  <1>5. Reported' = Reported
    BY <1>4, ReportedStays DEF Calm
  <1>6. OthersStay
    BY <1>4, <1>5 DEF OthersStay
  <1> QED
    BY <1>1, <1>2, <1>6, PlainHolds

LEMMA OnChangesHolds ==
    ASSUME IInv, NEW r \in requests, OnChanges(r) PROVE IInv' /\ NeverOlder
  <1>1. Calm /\ r.kind = "changes"
        /\ (Dropped(r) \/ Settle(r, IF Ok(r) THEN [m EXCEPT !.changes = Rows(r)] ELSE m))
    BY Zenon DEF OnChanges, Calm, Unwritten, NoRetry, Quiet
  <1>2. CASE Dropped(r)
    BY <1>1, <1>2, DroppedHolds
  <1>3. CASE Settle(r, IF Ok(r) THEN [m EXCEPT !.changes = Rows(r)] ELSE m)
    <2> DEFINE a == IF Ok(r) THEN [m EXCEPT !.changes = Rows(r)] ELSE m
               x == Arrived(r)
    <2>1. /\ r.profile = m.profile /\ r.store = m.storeID /\ m.storeID \in Stores /\ x \in Answers
          /\ x.is = "ok" => Reported \subseteq x.seen
      BY <1>1, ArrivedHolds DEF Kinds
    <2>2. m \in Interfaces
      BY DEF IInv, TypeInv
    <2>3. /\ Rows(r) \in Data /\ Rows(r) # None /\ Rows(r).profile = m.profile /\ Rows(r).store = m.storeID
          /\ Rows(r).seen = x.seen
      BY <2>1, <2>2, Constants DEF Rows, Data, Answers, Interfaces
    <2>4. Ok(r) <=> x.is = "ok"
      BY DEF Ok
    <2> HIDE DEF x
    <2>5. /\ a \in Interfaces /\ Keeps(a) /\ a.assertions = m.assertions /\ a.result = m.result
          /\ a.changes = IF Ok(r) THEN Rows(r) ELSE m.changes
      BY <2>2, <2>3 DEF Interfaces, Keeps
    <2> HIDE DEF a
    <2>6. Settle(r, a)
      BY <1>3 DEF a
    <2> QED
      BY <1>1, <2>1, <2>3, <2>4, <2>5, <2>6, SettleHolds
  <1> QED
    BY <1>1, <1>2, <1>3

LEMMA OnAssertionsHolds ==
    ASSUME IInv, NEW r \in requests, OnAssertions(r) PROVE IInv' /\ NeverOlder
  <1>1. Calm /\ r.kind = "assertions" /\ (Dropped(r) \/ Settle(r, LoadedAssertions(r)))
    BY Zenon DEF OnAssertions, Calm, Unwritten, NoRetry, Quiet
  <1>2. CASE Dropped(r)
    BY <1>1, <1>2, DroppedHolds
  <1>3. CASE Settle(r, LoadedAssertions(r))
    <2> DEFINE a == LoadedAssertions(r)
               x == Arrived(r)
    <2>1. r.profile = m.profile /\ r.store = m.storeID /\ m.storeID \in Stores /\ x \in Answers
      BY <1>1, ArrivedHolds DEF Kinds
    <2>2. m \in Interfaces
      BY DEF IInv, TypeInv
    <2>3. Rows(r) \in Data /\ Rows(r).profile = m.profile /\ Rows(r).store = m.storeID
      BY <2>1, <2>2 DEF Rows, Data, Answers, Interfaces
    <2>4. \E shown \in {Rows(r), m.assertions, None} :
             a = [m EXCEPT !.assertModelID = x.model, !.assertions = shown]
      BY <2>2 DEF LoadedAssertions, Interfaces
    <2>5. x.model \in Models \cup {None}
      BY <2>1 DEF Answers
    <2> HIDE DEF x, a
    <2>6. /\ a \in Interfaces /\ Keeps(a) /\ a.changes = m.changes /\ a.result = m.result
          /\ a.assertions \in {Rows(r), m.assertions, None}
      <3>1. PICK shown \in {Rows(r), m.assertions, None} :
               a = [m EXCEPT !.assertModelID = x.model, !.assertions = shown]
        BY <2>4
      <3>2. shown \in Data \cup {None}
        BY <2>2, <2>3 DEF Interfaces
      <3>3. a \in Interfaces
        BY <2>2, <2>5, <3>1, <3>2 DEF Interfaces
      <3>4. a.assertions = shown /\ a.changes = m.changes /\ a.result = m.result
        BY <2>2, <3>1 DEF Interfaces
      <3>5. Keeps(a)
        BY <2>2, <3>1 DEF Interfaces, Keeps
      <3> QED
        BY <3>3, <3>4, <3>5
    <2>7. Settle(r, a)
      BY <1>3 DEF a
    <2> QED
      BY <1>1, <2>3, <2>6, <2>7, SettleHolds
  <1> QED
    BY <1>1, <1>2, <1>3

LEMMA OnQueryHolds ==
    ASSUME IInv, NEW r \in requests, OnQuery(r) PROVE IInv' /\ NeverOlder
  <1> DEFINE res == [profile |-> r.profile, store |-> r.store, model |-> r.model]
             a == [m EXCEPT !.result = IF Ok(r) THEN res ELSE None]
  <1>1. Calm /\ r.kind = "query" /\ (Dropped(r) \/ (Settle(r, a) /\ ~StaleModel(r)))
    BY Zenon DEF OnQuery, Calm, Unwritten, NoRetry, Quiet
  <1>2. CASE Dropped(r)
    BY <1>1, <1>2, DroppedHolds
  <1>3. CASE Settle(r, a) /\ ~StaleModel(r)
    <2>1. /\ r.profile = m.profile /\ r.store = m.storeID /\ m.storeID \in Stores
          /\ Arrived(r).is = "ok" /\ r.model # None => Has(m.profile, m.storeID, r.model)
      BY <1>1, ArrivedHolds DEF Kinds
    <2>2. m \in Interfaces /\ r \in Calls
      BY DEF IInv, TypeInv
    <2>3. /\ res \in Results /\ res.profile = m.profile /\ res.store = m.storeID /\ res.model = r.model
          /\ r.model # None => r.model = m.modelID
      BY <1>3, <2>1, <2>2 DEF Results, Calls, Interfaces, StaleModel
    <2> HIDE DEF res
    <2>4. /\ a \in Interfaces /\ Keeps(a) /\ a.assertions = m.assertions /\ a.changes = m.changes
          /\ a.result = IF Ok(r) THEN res ELSE None
      BY <2>2, <2>3 DEF Interfaces, Keeps
    <2> HIDE DEF a
    <2>5. a.result = None \/ (a.result = res /\ (r.model # None => Has(m.profile, m.storeID, r.model)))
      BY <2>1, <2>4 DEF Ok
    <2> QED
      BY <1>1, <1>3, <2>3, <2>4, <2>5, SettleHolds
  <1> QED
    BY <1>1, <1>2, <1>3

(* A read is the only one of its kind.                                     *)
LEMMA OnlyOne ==
    ASSUME IInv, NEW r \in requests, r.kind \in Kinds, NEW x \in requests, x # r PROVE x.kind # r.kind
  <1>1. Numbered(x) /\ Numbered(r) /\ Distinct
    BY DEF IInv, CallsInv
  <1> QED
    BY <1>1 DEF Numbered, Distinct

LEMMA OnTuplesHolds ==
    ASSUME IInv, NEW r \in requests, OnTuples(r) PROVE IInv' /\ NeverOlder
  <1> DEFINE a == LoadedTuples(r)
             x == Arrived(r)
             no == {}
  <1>1. TypeInv /\ CallsInv
    BY DEF IInv
  <1>2. Calm /\ r.kind = "tuples" /\ (Settle(r, a) \/ StaleStore(r))
    BY Zenon DEF OnTuples, Calm, Unwritten, NoRetry, Quiet
  <1>3. /\ r.profile = m.profile /\ r.store = m.storeID /\ m.storeID \in Stores /\ x \in Answers
        /\ x.is = "ok" =>
              /\ x.seen \subseteq server[m.profile][m.storeID].tuples
              /\ Reported \subseteq x.seen
              /\ m.tuples # None => m.tuples.seen \subseteq x.seen
    BY <1>2, ArrivedHolds DEF Kinds
  <1>4. Settle(r, a)
    BY <1>2, <1>3 DEF StaleStore
  <1>5. m \in Interfaces /\ r \in Calls /\ failed \subseteq AllKinds
    BY <1>1 DEF TypeInv
  <1>6. /\ Rows(r) \in Data /\ Rows(r) # None /\ Rows(r).profile = m.profile /\ Rows(r).store = m.storeID
        /\ Rows(r).seen = x.seen
    BY <1>3, <1>5, Constants DEF Rows, Data, Answers, Interfaces
  <1>7. Ok(r) <=> x.is = "ok"
    BY DEF Ok
  <1> HIDE DEF x
  <1>8. /\ a \in Interfaces /\ Keeps([a EXCEPT !.tuples = m.tuples, !.applied = m.applied, !.wanted = m.wanted])
        /\ a.profile = m.profile /\ a.storeID = m.storeID /\ a.modelID = m.modelID
        /\ a.pendingLoads = m.pendingLoads
        /\ a.assertions = m.assertions /\ a.changes = m.changes /\ a.result = m.result
        /\ a.tuples = IF Ok(r) THEN Rows(r) ELSE m.tuples
        /\ a.wanted = a.applied
    BY <1>5, <1>6 DEF LoadedTuples, Interfaces, Keeps, Calls
  <1> HIDE DEF a
  <1>9. m' = EndLoad(a) /\ requests' = Others(r) /\ late' = late
        /\ failed' = IF Ok(r) THEN failed \ {r.kind} ELSE failed \cup {r.kind}
    BY <1>4, Zenon DEF Settle
  <1>10. Finished(r, a, no, no)
    <2>1. requests' = Disowned({}, Others(r)) /\ keys' = keys
      BY <1>2, <1>9, DisownNone DEF Calm
    <2> QED
      BY <1>1, <1>8, <1>9, <2>1, EndHolds
  <1>11. /\ m'.profile = m.profile /\ m'.storeID = m.storeID /\ m'.modelID = m.modelID
         /\ m'.assertions = m.assertions /\ m'.changes = m.changes /\ m'.result = m.result
         /\ m'.tuples = (IF Ok(r) THEN Rows(r) ELSE m.tuples) /\ m'.wanted = m'.applied
    BY <1>8, <1>9, EndFields DEF Fields
  <1>12. Reported' = Reported
    BY <1>2, <1>11, ReportedStays DEF Calm
  <1>13. OthersStay
    BY <1>11, <1>12 DEF OthersStay
  <1>14. \A q \in requests' : q.kind # "tuples"
    BY <1>2, <1>9, OnlyOne DEF Others, Kinds
  <1>15. SameRows \/ NewRows
    <2>1. CASE Ok(r)
      BY <1>3, <1>6, <1>7, <1>11, <1>12, <1>14, <2>1 DEF NewRows, Fresh
    <2>2. CASE ~Ok(r)
      BY <1>2, <1>9, <1>11, <1>12, <2>2 DEF SameRows
    <2> QED
      BY <2>1, <2>2
  <1>16. failed' \subseteq AllKinds /\ ("model" \in failed' <=> "model" \in failed)
    BY <1>2, <1>5, <1>9 DEF AllKinds, Kinds
  <1>17. Loading("model") => Loading("model")'
    BY <1>2, <1>9 DEF Loading, Others
  <1>18. \A q \in no : FALSE
    OBVIOUS
  <1> HIDE DEF no
  <1> QED
    BY <1>2, <1>8, <1>10, <1>13, <1>15, <1>16, <1>17, <1>18, CalmKept

(* A completion that starts one read.                                      *)
LEMMA FollowHolds ==
    ASSUME IInv, keys' = keys, NEW r \in requests, NEW a \in Interfaces, a.pendingLoads = m.pendingLoads,
           NEW kinds, NEW kind \in Kinds, kind \in kinds, NEW model \in Models \cup {None}, m.storeID # None,
           Follow(r, a, kinds, {Request(kind, m, model)})
    PROVE  /\ Finished(r, a, kinds, {Request(kind, m, model)}) /\ failed' = failed
           /\ LET q == Request(kind, m, model)
              IN  /\ q.kind = kind /\ q.profile = m.profile /\ q.store = m.storeID
                  /\ q.answer = NoAnswer /\ q.model = model
  <1> DEFINE q == Request(kind, m, model)
             new == {q}
  <1>1. TypeInv /\ CallsInv /\ m \in Interfaces
    BY DEF IInv, TypeInv
  <1>2. /\ q \in Calls /\ q.kind = kind /\ q.profile = m.profile /\ q.store = m.storeID
        /\ q.model = model /\ q.id = 0 /\ q.answer = NoAnswer
    BY <1>1, RequestFields DEF AllKinds
  <1>3. m' = BeginLoad(EndLoad(a), Cardinality(new)) /\ failed' = failed
        /\ Dispatch(Others(r), Bumped(kinds, Others(r)), new)
    BY Zenon DEF Follow
  <1>4. Dispatch(Others(r), Disowned({}, Bumped(kinds, Others(r))), new)
    BY <1>3, DisownNone
  <1> HIDE DEF q
  <1>5. /\ new \subseteq Calls /\ IsFiniteSet(new)
        /\ \A x \in new : x.kind \in Kinds /\ x.kind \in kinds /\ x.id = 0
        /\ \A x, y \in new : x.kind = y.kind => x = y
    BY <1>2, FS_Singleton
  <1> HIDE DEF new
  <1>6. Finished(r, a, kinds, new)
    BY <1>1, <1>3, <1>4, <1>5, FinishHolds
  <1>7. Finished(r, a, kinds, {q})
    BY <1>6 DEF new
  <1> QED
    BY <1>2, <1>3, <1>7 DEF q

(* A write was made: the rows are read again.                              *)
LEMMA WrittenHolds ==
    ASSUME IInv, NEW r \in requests, r.kind = "write", r.answer # NoAnswer,
           ~StaleMutation(r), Ok(r), Follow(r, Written(m), AfterWrite, {Request("tuples", m, None)}),
           accepted' = accepted \cup {<<r.profile, r.store, r.id>>},
           server' = server, keys' = keys, retries' = retries,
           pins' = pins, faults' = faults, saveFaults' = saveFaults
    PROVE  IInv' /\ NeverOlder
  <1> DEFINE a == Written(m)
             q == Request("tuples", m, None)
             new == {q}
             kinds == AfterWrite
             w == <<r.profile, r.store, r.id>>
  <1>1. TypeInv /\ ServerInv /\ PaneInv /\ PinInv
    BY DEF IInv
  <1>2. m \in Interfaces /\ r \in Calls /\ AskedOf(r)
    BY <1>1 DEF TypeInv, ServerInv
  <1>3. r.profile = m.profile /\ r.store = m.storeID /\ r.profile \in Profiles /\ r.store \in Stores
        /\ r.id \in Nat /\ m.storeID # None
    BY <1>2, Constants DEF StaleMutation, StaleStore, Calls
  <1>4. r.id \in server[r.profile][r.store].tuples
    BY <1>2 DEF AskedOf, Answered, Ok, Arrived
  <1>5. /\ a \in Interfaces /\ a.pendingLoads = m.pendingLoads
        /\ a.profile = m.profile /\ a.storeID = m.storeID /\ a.modelID = m.modelID
        /\ a.tuples = m.tuples /\ a.changes = None /\ a.assertions = m.assertions /\ a.result = m.result
    BY <1>2 DEF Written, Interfaces
  <1>6. /\ Finished(r, a, kinds, new) /\ failed' = failed
        /\ q.kind = "tuples" /\ q.profile = m.profile /\ q.store = m.storeID
        /\ q.answer = NoAnswer /\ q.model = None
    <2>1. "tuples" \in kinds /\ "tuples" \in Kinds /\ None \in Models \cup {None}
      BY DEF AfterWrite, Kinds
    <2> HIDE DEF a
    <2>2. Follow(r, a, kinds, {Request("tuples", m, None)})
      BY DEF a
    <2> HIDE DEF kinds
    <2> QED
      BY <1>3, <1>5, <2>1, <2>2, FollowHolds
  <1>7. /\ \A x \in requests' : x \in new \/ (x.kind \notin kinds /\ \E y \in requests : y # r /\ Same(x, y))
        /\ \A x \in requests : x # r /\ x.kind \notin kinds => \E y \in requests' : Same(y, x)
        /\ new \subseteq requests' /\ Fields(m') = Fields(a)
    BY <1>6, Zenon DEF Finished
  <1> HIDE DEF a, q
  <1>8. /\ m'.profile = m.profile /\ m'.storeID = m.storeID /\ m'.modelID = m.modelID
        /\ m'.assertions = m.assertions /\ m'.changes = None /\ m'.result = m.result /\ m'.tuples = m.tuples
    BY <1>5, <1>7 DEF Fields
  <1>9. OthersStay
    BY <1>8 DEF OthersStay
  <1>10. SameRows
    <2>1. Loading("tuples")'
      BY <1>6, <1>7 DEF Loading
    <2>2. \A x \in requests' : x.kind \in {"tuples", "changes"} => x.answer = NoAnswer
      BY <1>6, <1>7 DEF AfterWrite
    <2> QED
      BY <1>8, <2>1, <2>2 DEF SameRows
  <1>11. PinInv'
    <2>1. Loading("model") => Loading("model")'
      BY <1>7 DEF Loading, Same, AfterWrite
    <2> QED
      BY <1>1, <1>6, <1>8, <2>1, PinKept, RestGrows
  <1>12. /\ \A v \in accepted' : v[3] \in server[v[1]][v[2]].tuples
         /\ accepted' \subseteq Profiles \X Stores \X Nat
    <2>1. w \in Profiles \X Stores \X Nat /\ w[1] = r.profile /\ w[2] = r.store /\ w[3] = r.id
      BY <1>3
    <2>2. accepted' = accepted \cup {w}
      OBVIOUS
    <2> HIDE DEF w
    <2> QED
      BY <1>1, <1>4, <2>1, <2>2 DEF ServerInv, TypeInv
  <1>13. /\ faults' \in Nat /\ saveFaults' \in Nat /\ retries' \in Nat /\ failed' \subseteq AllKinds
         /\ pins' \in [Profiles -> Selections]
         /\ \A p \in Profiles : Known(p, pins'[p].store, pins'[p].model)
         /\ Known(m.profile, m.storeID, a.modelID)
    BY <1>1, <1>5, <1>6 DEF TypeInv, ServerInv, PaneInv, Selection
  <1>14. \A x \in new : /\ x.kind \in Kinds /\ x.profile = m.profile /\ x.store = m.storeID
                        /\ x.answer = NoAnswer /\ (x.kind = "model" => x.model = None)
    BY <1>6 DEF Kinds
  <1> HIDE DEF new, kinds
  <1> QED
    BY <1>5, <1>6, <1>9, <1>10, <1>11, <1>12, <1>13, <1>14, CompletionKept

(* A mutation that is followed by one read of the model or the assertions. *)
LEMMA FollowCalm ==
    ASSUME IInv, Calm, NEW r \in requests, r.kind \in Mutations, m.storeID # None,
           NEW kind \in {"model", "assertions"}, NEW model \in Models \cup {None}, kind = "model" => model = None,
           NEW a \in Interfaces, Keeps(a),
           a.assertions = m.assertions, a.changes = m.changes, a.result = m.result,
           Follow(r, a, {kind}, {Request(kind, m, model)})
    PROVE  IInv' /\ NeverOlder
  <1> DEFINE q == Request(kind, m, model)
             new == {q}
             kinds == {kind}
  <1>1. failed \subseteq AllKinds
    BY DEF IInv, TypeInv
  <1>2. /\ a.profile = m.profile /\ a.storeID = m.storeID /\ a.modelID = m.modelID /\ a.tuples = m.tuples
        /\ a.applied = m.applied /\ a.wanted = m.wanted /\ a.pendingLoads = m.pendingLoads
    BY DEF Keeps
  <1>3. /\ Finished(r, a, kinds, new) /\ failed' = failed
        /\ q.kind = kind /\ q.profile = m.profile /\ q.store = m.storeID
        /\ q.answer = NoAnswer /\ q.model = model
    <2>1. kind \in kinds /\ kind \in Kinds
      BY DEF Kinds
    <2>2. Follow(r, a, kinds, {Request(kind, m, model)}) /\ keys' = keys
      BY DEF Calm
    <2> HIDE DEF kinds
    <2> QED
      BY <1>2, <2>1, <2>2, FollowHolds
  <1>4. /\ \A x \in requests' : x \in new \/ (x.kind \notin kinds /\ \E y \in requests : y # r /\ Same(x, y))
        /\ \A x \in requests : x # r /\ x.kind \notin kinds => \E y \in requests' : Same(y, x)
        /\ new \subseteq requests' /\ Fields(m') = Fields(a)
    BY <1>3, Zenon DEF Finished
  <1> HIDE DEF q
  <1>5. /\ m'.profile = m.profile /\ m'.storeID = m.storeID /\ m'.modelID = m.modelID
        /\ m'.assertions = m.assertions /\ m'.changes = m.changes /\ m'.result = m.result
        /\ m'.tuples = m.tuples /\ m'.applied = m.applied /\ m'.wanted = m.wanted
    BY <1>2, <1>4 DEF Fields
  <1>6. Reported' = Reported
    BY <1>5, ReportedStays DEF Calm
  <1>7. Loading("tuples")' <=> Loading("tuples")
    BY <1>3, <1>4, KindsApart DEF Loading, Same, Kinds
  <1>8. OthersStay /\ SameRows
    BY <1>3, <1>5, <1>6, <1>7 DEF OthersStay, SameRows
  <1>9. Loading("model") => Loading("model")'
    BY <1>3, <1>4, KindsApart DEF Loading, Same, Kinds
  <1>10. \A x \in new : /\ x.kind \in Kinds /\ x.profile = m.profile /\ x.store = m.storeID
                        /\ x.answer = NoAnswer /\ (x.kind = "model" => x.model = None)
    BY <1>3 DEF Kinds
  <1> HIDE DEF new, kinds
  <1> QED
    BY <1>1, <1>2, <1>3, <1>8, <1>9, <1>10, CalmKept

LEMMA OnMutationHolds ==
    ASSUME IInv, NEW r \in requests, r.kind \in Kinds \/ r.answer # NoAnswer,
           OnWritten(r) \/ OnApplied(r) \/ OnAssertionsWritten(r)
    PROVE  IInv' /\ NeverOlder
  <1>1. m \in Interfaces /\ r \in Calls
    BY DEF IInv, TypeInv
  <1>2. ASSUME r.kind \in Mutations, ~StaleMutation(r) PROVE m.storeID # None
    BY <1>1, <1>2, Constants DEF StaleMutation, StaleStore, Calls
  <1>3. \A a \in {m, [m EXCEPT !.tupleMutating = FALSE], [m EXCEPT !.modelApplying = FALSE],
                  [m EXCEPT !.assertionsWriting = FALSE]} :
           /\ a \in Interfaces /\ Keeps(a)
           /\ a.assertions = m.assertions /\ a.changes = m.changes /\ a.result = m.result
    BY <1>1, ZenonT(30) DEF Interfaces, Keeps
  <1>4. ASSUME NEW a \in {[m EXCEPT !.tupleMutating = FALSE], [m EXCEPT !.modelApplying = FALSE],
                          [m EXCEPT !.assertionsWriting = FALSE]},
               Calm, r.kind \in Mutations, Settle(r, a)
        PROVE  IInv' /\ NeverOlder
    <2>1. /\ a \in Interfaces /\ Keeps(a)
          /\ a.assertions = m.assertions /\ a.changes = m.changes /\ a.result = m.result
      BY <1>3
    <2>2. r.kind \notin {"model", "tuples"}
      BY <1>4 DEF Mutations
    <2> QED
      BY <1>4, <2>1, <2>2, SettleHolds
  <1>5. CASE OnWritten(r)
    <2>1. r.kind = "write" /\ r.kind \in Mutations /\ r.kind \notin {"model", "tuples"} /\ r.kind \notin Kinds
      BY <1>5 DEF OnWritten, Mutations, Kinds
    <2>2. \/ Dropped(r) /\ Calm
          \/ Settle(r, [m EXCEPT !.tupleMutating = FALSE]) /\ Calm
          \/ /\ ~StaleMutation(r) /\ Ok(r)
             /\ Follow(r, Written(m), AfterWrite, {Request("tuples", m, None)})
             /\ accepted' = accepted \cup {<<r.profile, r.store, r.id>>}
             /\ server' = server /\ keys' = keys /\ retries' = retries
             /\ pins' = pins /\ faults' = faults /\ saveFaults' = saveFaults
      BY <1>5, Zenon DEF OnWritten, Calm, NoRetry, Quiet
    <2>3. CASE Dropped(r) /\ Calm
      BY <2>1, <2>3, DroppedHolds
    <2>4. CASE Settle(r, [m EXCEPT !.tupleMutating = FALSE]) /\ Calm
      BY <1>4, <2>1, <2>4
    <2>5. CASE /\ ~StaleMutation(r) /\ Ok(r)
               /\ Follow(r, Written(m), AfterWrite, {Request("tuples", m, None)})
               /\ accepted' = accepted \cup {<<r.profile, r.store, r.id>>}
               /\ server' = server /\ keys' = keys /\ retries' = retries
               /\ pins' = pins /\ faults' = faults /\ saveFaults' = saveFaults
      BY <2>1, <2>5, WrittenHolds
    <2> QED
      BY <2>2, <2>3, <2>4, <2>5
  <1>6. CASE OnApplied(r)
    <2> DEFINE done == [m EXCEPT !.modelApplying = FALSE]
    <2>1. r.kind = "apply" /\ r.kind \in Mutations /\ r.kind \notin {"model", "tuples"}
      BY <1>6 DEF OnApplied, Mutations
    <2>2. /\ Calm
          /\ \/ Dropped(r)
             \/ Settle(r, done)
             \/ ~StaleMutation(r) /\ Follow(r, done, {"model"}, {Request("model", m, None)})
      BY <1>6, Zenon DEF OnApplied, Calm, NoRetry, Quiet, Unwritten
    <2>3. done \in Interfaces /\ Keeps(done)
          /\ done.assertions = m.assertions /\ done.changes = m.changes /\ done.result = m.result
      BY <1>3
    <2>4. CASE Dropped(r)
      BY <2>1, <2>2, <2>4, DroppedHolds
    <2>5. CASE Settle(r, done)
      BY <1>4, <2>1, <2>2, <2>5
    <2>6. CASE ~StaleMutation(r) /\ Follow(r, done, {"model"}, {Request("model", m, None)})
      <3> HIDE DEF done
      <3>1. None \in Models \cup {None} /\ "model" \in {"model", "assertions"}
        OBVIOUS
      <3> QED
        BY <1>2, <2>1, <2>2, <2>3, <2>6, <3>1, FollowCalm
    <2> QED
      BY <2>2, <2>4, <2>5, <2>6
  <1>7. CASE OnAssertionsWritten(r)
    <2> DEFINE done == [m EXCEPT !.assertionsWriting = FALSE]
               model == Arrived(r).model
    <2>1. r.kind = "assert" /\ r.kind \in Mutations /\ r.kind \notin {"model", "tuples"} /\ r.kind \notin Kinds
      BY <1>7 DEF OnAssertionsWritten, Mutations, Kinds
    <2>2. /\ Calm
          /\ \/ Dropped(r)
             \/ Settle(r, done)
             \/ ~StaleMutation(r) /\ Follow(r, done, {"assertions"}, {Request("assertions", m, model)})
      BY <1>7, Zenon DEF OnAssertionsWritten, Calm, NoRetry, Quiet, Unwritten
    <2>3. done \in Interfaces /\ Keeps(done)
          /\ done.assertions = m.assertions /\ done.changes = m.changes /\ done.result = m.result
      BY <1>3
    <2>4. CASE Dropped(r)
      BY <2>1, <2>2, <2>4, DroppedHolds
    <2>5. CASE Settle(r, done)
      BY <1>4, <2>1, <2>2, <2>5
    <2>6. CASE ~StaleMutation(r) /\ Follow(r, done, {"assertions"}, {Request("assertions", m, model)})
      <3>1. model \in Models \cup {None} /\ "assertions" \in {"model", "assertions"}
        BY <1>1, <2>1 DEF Arrived, Calls, Answers
      <3> HIDE DEF done, model
      <3> QED
        BY <1>2, <2>1, <2>2, <2>3, <2>6, <3>1, FollowCalm
    <2> QED
      BY <2>2, <2>4, <2>5, <2>6
  <1> QED
    BY <1>5, <1>6, <1>7

LEMMA LateReadHolds == ASSUME IInv, LateRead PROVE IInv' /\ NeverOlder
  <1>1. TypeInv /\ CallsInv /\ ServerInv /\ PaneInv /\ PinInv
    BY DEF IInv
  <1>2. /\ m' = EndLoad(m) /\ late > 0 /\ late' = late - 1 /\ requests' = requests /\ server' = server
        /\ pins' = pins /\ accepted' = accepted /\ failed' = failed /\ retries' = retries
        /\ keys' = keys /\ faults' = faults /\ saveFaults' = saveFaults
    BY Zenon DEF LateRead
  <1>3. /\ m \in Interfaces /\ late \in Nat /\ IsFiniteSet(requests)
    BY <1>1 DEF TypeInv
  <1>4. m' \in Interfaces /\ Fields(m') = Fields(m)
        /\ m'.pendingLoads = IF m.pendingLoads > 0 THEN m.pendingLoads - 1 ELSE 0
    BY <1>2, <1>3, EndFields
  <1>5. /\ m'.profile = m.profile /\ m'.storeID = m.storeID /\ m'.modelID = m.modelID
        /\ m'.assertions = m.assertions /\ m'.changes = m.changes /\ m'.result = m.result
        /\ m'.tuples = m.tuples /\ m'.applied = m.applied /\ m'.wanted = m.wanted
    BY <1>4 DEF Fields
  <1>6. late' \in Nat
    BY <1>2, <1>3
  <1>7. TypeInv'
    BY <1>1, <1>2, <1>4, <1>6 DEF TypeInv
  <1>8. CallsInv'
    <2>1. Cardinality(requests) \in Nat
      BY <1>3, CardNat
    <2>2. SpinnerExact'
      BY <1>1, <1>2, <1>3, <1>4, <2>1 DEF CallsInv, SpinnerExact
    <2> QED
      BY <1>1, <1>2, <2>2 DEF CallsInv, Numbered, Distinct
  <1>9. \A q : Same(q, q)
    BY Zenon DEF Same
  <1>10. ServerInv'
    <2>1. Room'
      BY <1>1, <1>2, <1>7, <1>8, <1>9, RoomKept DEF ServerInv, TypeInv, CallsInv
    <2>2. \A q \in requests' : Asks(q)
      BY <1>2, <1>9 DEF Asks
    <2>3. /\ \A p \in Profiles : Known(p, pins'[p].store, pins'[p].model)
          /\ \A w \in accepted' : w[3] \in server[w[1]][w[2]].tuples
      BY <1>1, <1>2 DEF ServerInv
    <2>4. requests' \subseteq Calls
      BY <1>1, <1>2 DEF TypeInv
    <2> QED
      BY <1>1, <1>2, <2>1, <2>2, <2>3, <2>4, ServerKept
  <1>11. PaneInv' /\ NeverOlder
    <2>1. StaysOn
      BY <1>1, <1>2, <1>4, <1>5 DEF StaysOn, PaneInv, Selection
    <2>2. ReadsStay
      BY <1>2, <1>5, <1>9 DEF ReadsStay
    <2>3. Reported' = Reported
      BY <1>2, <1>5, ReportedStays
    <2>4. Loading("tuples")' <=> Loading("tuples")
      BY <1>2 DEF Loading
    <2>5. OthersStay /\ SameRows
      BY <1>2, <1>5, <2>3, <2>4 DEF OthersStay, SameRows
    <2> QED
      BY <1>1, <2>1, <2>2, <2>5, PanesKept
  <1>12. PinInv'
    <2>1. Loading("model")' <=> Loading("model")
      BY <1>2 DEF Loading
    <2> QED
      BY <1>1, <1>2, <1>5, <2>1, PinKept, RestGrows
  <1> QED
    BY <1>7, <1>8, <1>10, <1>11, <1>12 DEF IInv

(* A load that fails leaves everything as it is.                           *)
LEMMA ModelFailedHolds ==
    ASSUME IInv, Calm, NEW r \in requests, r.kind = "model", ~Ok(r), Settle(r, m)
    PROVE  IInv' /\ NeverOlder
  <1> DEFINE no == {}
  <1>1. TypeInv /\ CallsInv /\ m \in Interfaces /\ failed \subseteq AllKinds
    BY DEF IInv, TypeInv
  <1>2. m' = EndLoad(m) /\ requests' = Others(r) /\ late' = late /\ failed' = failed \cup {"model"}
    BY Zenon DEF Settle
  <1>3. Finished(r, m, no, no)
    <2>1. requests' = Disowned({}, Others(r)) /\ keys' = keys
      BY <1>2, DisownNone DEF Calm
    <2> QED
      BY <1>1, <1>2, <2>1, EndHolds
  <1>4. /\ m'.profile = m.profile /\ m'.storeID = m.storeID /\ m'.modelID = m.modelID
        /\ m'.assertions = m.assertions /\ m'.changes = m.changes /\ m'.result = m.result
        /\ m'.tuples = m.tuples /\ m'.applied = m.applied /\ m'.wanted = m.wanted
    BY <1>1, <1>2, EndFields DEF Fields
  <1>5. Reported' = Reported
    BY <1>4, ReportedStays DEF Calm
  <1>6. Loading("tuples")' <=> Loading("tuples")
    BY <1>2 DEF Loading, Others
  <1>7. OthersStay /\ SameRows
    BY <1>2, <1>4, <1>5, <1>6 DEF OthersStay, SameRows
  <1>8. failed' \subseteq AllKinds /\ "model" \in failed'
    BY <1>1, <1>2 DEF AllKinds, Kinds
  <1>9. \A q \in no : FALSE
    OBVIOUS
  <1> HIDE DEF no
  <1> QED
    BY <1>1, <1>3, <1>7, <1>8, <1>9, CalmKept

(* A pin that is gone is dropped: it was of another store, so nothing that *)
(* is shown depends on it, and it was not dropped before.                  *)
LEMMA ModelAbsentHolds ==
    ASSUME IInv, NEW r \in requests, r.kind = "model", ModelAbsent(r), Unwritten
    PROVE  IInv' /\ NeverOlder
  <1> DEFINE a == Unpinned
             q == Request("model", m, None)
             new == {q}
             kinds == {"model"}
  <1>1. TypeInv /\ ServerInv /\ PaneInv /\ PinInv
    BY DEF IInv
  <1>2. /\ Absent(r) /\ m.modelID # None /\ Follow(r, a, kinds, new) /\ retries' = retries + 1
        /\ pins' = pins /\ faults' = faults /\ saveFaults' = saveFaults
        /\ server' = server /\ accepted' = accepted /\ keys' = keys
    BY Zenon DEF ModelAbsent, Quiet, Unwritten
  <1>3. Alien(m.profile, m.storeID, m.modelID) /\ m.storeID \in Stores
    BY <1>2, ArrivedHolds DEF Absent, Kinds
  <1>4. m \in Interfaces /\ m.storeID # None /\ failed \subseteq AllKinds
    BY <1>1, <1>3, Constants DEF TypeInv
  <1>5. /\ a \in Interfaces /\ a.pendingLoads = m.pendingLoads
        /\ a.profile = m.profile /\ a.storeID = m.storeID /\ a.modelID = None
        /\ a.assertions = m.assertions /\ a.changes = m.changes /\ a.result = m.result
        /\ a.tuples = m.tuples /\ a.applied = m.applied /\ a.wanted = m.wanted
    BY <1>4 DEF Unpinned, Interfaces
  <1>6. /\ Finished(r, a, kinds, new) /\ failed' = failed
        /\ q.kind = "model" /\ q.profile = m.profile /\ q.store = m.storeID
        /\ q.answer = NoAnswer /\ q.model = None
    <2>0. keys' = keys /\ m.storeID # None /\ a \in Interfaces /\ a.pendingLoads = m.pendingLoads
      BY <1>2, <1>4, <1>5
    <2>1. "model" \in kinds /\ "model" \in Kinds /\ None \in Models \cup {None}
      BY DEF Kinds
    <2> HIDE DEF a, kinds
    <2>2. Follow(r, a, kinds, {Request("model", m, None)})
      BY <1>2
    <2>3. /\ Finished(r, a, kinds, {Request("model", m, None)}) /\ failed' = failed
          /\ LET x == Request("model", m, None)
             IN  /\ x.kind = "model" /\ x.profile = m.profile /\ x.store = m.storeID
                 /\ x.answer = NoAnswer /\ x.model = None
      BY <2>0, <2>1, <2>2, FollowHolds, SMTT(30)
    <2> QED
      BY <2>3
  <1>7. /\ \A x \in requests' : x \in new \/ (x.kind \notin kinds /\ \E y \in requests : y # r /\ Same(x, y))
        /\ \A x \in requests : x # r /\ x.kind \notin kinds => \E y \in requests' : Same(y, x)
        /\ new \subseteq requests' /\ Fields(m') = Fields(a)
    BY <1>6, Zenon DEF Finished
  <1> HIDE DEF a, q
  <1>8. /\ m'.profile = m.profile /\ m'.storeID = m.storeID /\ m'.modelID = None
        /\ m'.assertions = m.assertions /\ m'.changes = m.changes /\ m'.result = m.result
        /\ m'.tuples = m.tuples /\ m'.applied = m.applied /\ m'.wanted = m.wanted
    BY <1>5, <1>7 DEF Fields
  <1>9. Reported' = Reported
    BY <1>2, <1>8, ReportedStays
  <1>10. OthersStay
    <2>1. m.result = None \/ m.result.model = None
      BY <1>1, <1>3 DEF PaneInv, PanesAreSound, PanesMatchSelection, ShownIsSelected, Selection, Has, Alien
    <2> QED
      BY <1>8, <1>9, <2>1 DEF OthersStay
  <1>11. SameRows
    <2>1. Loading("tuples")' <=> Loading("tuples")
      BY <1>6, <1>7 DEF Loading, Same
    <2> QED
      BY <1>6, <1>8, <1>9, <2>1 DEF SameRows
  <1>12. PinInv'
    <2>1. Loading("model")'
      BY <1>6, <1>7 DEF Loading
    <2>2. retries = 0
      BY <1>1, <1>2, <1>3 DEF PinInv, TypeInv, Has, Alien
    <2> QED
      BY <1>1, <1>2, <1>8, <2>1, <2>2 DEF PinInv, ProfileFollowsSelection, PinRetriedOnce
  <1>13. /\ faults' \in Nat /\ saveFaults' \in Nat /\ retries' \in Nat /\ failed' \subseteq AllKinds
         /\ pins' \in [Profiles -> Selections] /\ accepted' \subseteq Profiles \X Stores \X Nat
    BY <1>1, <1>2, <1>6 DEF TypeInv
  <1>14. /\ \A p \in Profiles : Known(p, pins'[p].store, pins'[p].model)
         /\ \A w \in accepted' : w[3] \in server[w[1]][w[2]].tuples
         /\ Known(m.profile, m.storeID, a.modelID)
    BY <1>1, <1>2, <1>5 DEF ServerInv, Known, Alien
  <1>15. \A x \in new : /\ x.kind \in Kinds /\ x.profile = m.profile /\ x.store = m.storeID
                        /\ x.answer = NoAnswer /\ (x.kind = "model" => x.model = None)
    BY <1>6 DEF Kinds
  <1> HIDE DEF new, kinds
  <1> QED
    BY <1>2, <1>5, <1>6, <1>10, <1>11, <1>12, <1>13, <1>14, <1>15, CompletionKept

LEMMA ModelLoadedHolds ==
    ASSUME IInv, NEW r \in requests, r.kind = "model", ModelLoaded(r), Unwritten
    PROVE  IInv' /\ NeverOlder
  <1> DEFINE model == Arrived(r).model
             switched == m.modelID # None /\ model # m.modelID
             base == IF switched THEN ClearResourcePending(m) ELSE m
             a == LoadedModel(r)
             muts == IF switched THEN Mutations ELSE {}
             no == {}
             picked == PinOf(model)
  <1>1. TypeInv /\ CallsInv /\ ServerInv /\ PaneInv /\ PinInv
    BY DEF IInv
  <1>2. /\ Ok(r) /\ m' = EndLoad(a) /\ Persist(m.profile, picked)
        /\ requests' = (IF switched THEN Disowned(Mutations, Others(r)) ELSE Others(r))
        /\ failed' = failed \ {"model"} /\ retries' = retries /\ late' = late
        /\ server' = server /\ accepted' = accepted /\ keys' = keys
    BY Zenon DEF ModelLoaded, NoRetry, Unwritten
  <1>3. requests' = Disowned(muts, Others(r))
    BY <1>2, DisownNone
  <1>4. Has(m.profile, m.storeID, model) /\ m.storeID \in Stores /\ model \in Models \cup {None}
    BY <1>2, ArrivedHolds DEF Ok, Kinds, Answers
  <1>5. m \in Interfaces /\ m.profile \in Profiles /\ failed \subseteq AllKinds
        /\ pins \in [Profiles -> Selections] /\ faults \in Nat /\ saveFaults \in Nat
    BY <1>1 DEF TypeInv, Interfaces
  <1>6. a = [base EXCEPT !.modelID = model]
    BY Zenon DEF LoadedModel
  <1> HIDE DEF a, model
  <1>7. /\ base \in Interfaces /\ base.pendingLoads = m.pendingLoads
        /\ base.profile = m.profile /\ base.storeID = m.storeID
        /\ base.tuples = m.tuples /\ base.changes = m.changes
        /\ base.applied = m.applied /\ base.wanted = m.wanted
        /\ base.assertions \in {None, m.assertions}
        /\ base.result = IF switched THEN None ELSE m.result
    BY <1>5, ClearFields
  <1> HIDE DEF base, switched
  <1>8. /\ a \in Interfaces /\ a.pendingLoads = m.pendingLoads
        /\ a.profile = m.profile /\ a.storeID = m.storeID /\ a.modelID = model
        /\ a.assertions \in {None, m.assertions} /\ a.changes = m.changes
        /\ a.tuples = m.tuples /\ a.applied = m.applied /\ a.wanted = m.wanted
        /\ a.result = IF switched THEN None ELSE m.result
    BY <1>4, <1>6, <1>7 DEF Interfaces
  <1>9. Finished(r, a, no, no)
    <2> HIDE DEF muts
    <2> QED
      BY <1>1, <1>2, <1>3, <1>8, EndHolds
  <1>10. /\ m'.profile = m.profile /\ m'.storeID = m.storeID /\ m'.modelID = model
         /\ m'.assertions \in {None, m.assertions} /\ m'.changes = m.changes
         /\ m'.tuples = m.tuples /\ m'.applied = m.applied /\ m'.wanted = m.wanted
         /\ m'.result = IF switched THEN None ELSE m.result
    BY <1>2, <1>8, EndFields DEF Fields
  <1>11. Reported' = Reported
    BY <1>2, <1>10, ReportedStays
  <1>12. OthersStay
    <2>1. m.result # None /\ m.result.model # None => m.result.model = m.modelID
      BY <1>1 DEF PaneInv, PanesAreSound, PanesMatchSelection, ShownIsSelected
    <2>2. m'.result = None \/ (m'.result = m.result /\ (m.result = None \/ m.result.model = None \/ m'.modelID = m.modelID))
      BY <1>10, <2>1 DEF switched
    <2> QED
      BY <1>10, <1>11, <2>2 DEF OthersStay
  <1>13. SameRows
    <2>1. /\ \A x \in requests' : \E y \in requests : y # r /\ Same(x, y)
          /\ \A x \in requests : x # r => \E y \in requests' : Same(y, x)
      BY <1>9 DEF Finished
    <2>2. Loading("tuples")' <=> Loading("tuples")
      BY <2>1 DEF Loading, Same
    <2> QED
      BY <1>2, <1>10, <1>11, <2>2 DEF SameRows
  <1>14. /\ picked \in Selections /\ picked.store = pins[m.profile].store /\ picked.model = model
         /\ picked = [store |-> pins[m.profile].store, model |-> model]
    BY <1>4, <1>5 DEF PinOf, Selections
  <1> HIDE DEF picked
  <1>15. \/ pins' = [pins EXCEPT ![m.profile] = picked] /\ faults' = faults /\ saveFaults' = saveFaults
         \/ pins' = pins /\ faults' = faults + 1 /\ saveFaults' = saveFaults + 1
    BY <1>2, Zenon DEF Persist
  <1>16. /\ pins' \in [Profiles -> Selections] /\ faults' \in Nat /\ saveFaults' \in Nat
         /\ retries' \in Nat /\ failed' \subseteq AllKinds /\ accepted' \subseteq Profiles \X Stores \X Nat
    BY <1>1, <1>2, <1>5, <1>14, <1>15 DEF TypeInv
  <1>17. \A p \in Profiles : Known(p, pins'[p].store, pins'[p].model)
    <2>1. Known(m.profile, picked.store, picked.model)
      BY <1>4, <1>14 DEF Known, Alien, Has
    <2> QED
      BY <1>1, <1>5, <1>15, <2>1 DEF ServerInv
  <1>18. PinInv'
    <2>1. saveFaults' = 0 => pins'[m.profile] = [store |-> m.storeID, model |-> model]
      BY <1>1, <1>5, <1>14, <1>15 DEF PinInv
    <2>2. Has(m.profile, m.storeID, m.modelID)'
      BY <1>2, <1>4, <1>10 DEF Has
    <2>3. retries' <= 1
      BY <1>1, <1>2 DEF PinInv, ProfileFollowsSelection, PinRetriedOnce
    <2> QED
      BY <1>10, <2>1, <2>2, <2>3 DEF PinInv, ProfileFollowsSelection, PinRetriedOnce
  <1>19. \A w \in accepted' : w[3] \in server[w[1]][w[2]].tuples
    BY <1>1, <1>2 DEF ServerInv
  <1>20. Known(m.profile, m.storeID, a.modelID)
    BY <1>4, <1>8 DEF Known
  <1>21. \A x \in no : FALSE
    OBVIOUS
  <1> HIDE DEF no
  <1> QED
    BY <1>2, <1>8, <1>9, <1>12, <1>13, <1>16, <1>17, <1>18, <1>19, <1>20, <1>21, CompletionKept

LEMMA OnModelHolds == ASSUME IInv, NEW r \in requests, OnModel(r) PROVE IInv' /\ NeverOlder
  <1>1. r.kind = "model" /\ Unwritten
    BY Zenon DEF OnModel
  <1>2. ~StaleStore(r)
    BY <1>1, ArrivedHolds DEF StaleStore, Kinds
  <1>3. ModelLoaded(r) \/ ModelAbsent(r) \/ (Calm /\ ~Ok(r) /\ Settle(r, m))
    BY <1>2, Zenon DEF OnModel, Calm, Unwritten, NoRetry, Quiet
  <1> QED
    BY <1>1, <1>3, ModelLoadedHolds, ModelAbsentHolds, ModelFailedHolds

LEMMA CompleteHolds == ASSUME IInv, NEW r \in requests, Complete(r) PROVE IInv' /\ NeverOlder
  BY OnModelHolds, OnTuplesHolds, OnChangesHolds, OnAssertionsHolds, OnQueryHolds, OnMutationHolds, Zenon
     DEF Complete

-------------------------------------------------------------------------------
(* The servers answer.                                                     *)

(* The requests are the same ones; some have an answer.                    *)
SameCall(q, x) ==
    /\ q.kind = x.kind /\ q.profile = x.profile /\ q.store = x.store /\ q.model = x.model
    /\ q.filter = x.filter /\ q.id = x.id /\ q.rows = x.rows

AnsweredSet(r, answer, before) ==
    (requests \ (before \cup {r})) \cup {WithAnswer(r, answer)} \cup {WithAnswer(q, Reply(q)) : q \in before}

LEMMA AnswerHolds ==
    ASSUME TypeInv, CallsInv, NEW r \in requests, NEW answer \in Answers, NEW before \in SUBSET requests,
           r \notin before, \A q \in before : Reply(q) \in Answers,
           requests' = AnsweredSet(r, answer, before), m' = m, late' = late, keys' = keys
    PROVE  /\ requests' \subseteq Calls /\ IsFiniteSet(requests') /\ CallsInv'
           /\ \A q \in requests' : \E x \in requests :
                 /\ SameCall(q, x)
                 /\ \/ x # r /\ q.answer = x.answer
                    \/ x = r /\ q.answer = answer
                    \/ x \in before /\ q.answer = Reply(x)
           /\ \A x \in requests : \E q \in requests' : SameCall(q, x)
  <1> DEFINE W(x) == IF x \in before THEN WithAnswer(x, Reply(x))
                     ELSE IF x = r THEN WithAnswer(r, answer) ELSE x
  <1>1. /\ \A q \in requests' : \E x \in requests : q = W(x)
        /\ \A x \in requests : W(x) \in requests'
    <2>1. \A q \in requests' : \E x \in requests : q = W(x)
      BY Zenon DEF AnsweredSet
    <2>2. \A x \in requests : W(x) \in requests'
      BY Zenon DEF AnsweredSet
    <2> QED
      BY <2>1, <2>2
  <1>2. \A x \in Calls, given \in Answers :
           LET q == WithAnswer(x, given) IN q \in Calls /\ SameCall(q, x) /\ q.answer = given
    BY DEF WithAnswer, Calls, SameCall
  <1>3. requests \subseteq Calls /\ IsFiniteSet(requests) /\ (\A x \in requests : Numbered(x)) /\ Distinct
    BY DEF TypeInv, CallsInv
  <1>4. \A x : SameCall(x, x)
    BY Zenon DEF SameCall
  <1>5. ASSUME NEW x \in requests
        PROVE  /\ W(x) \in Calls /\ SameCall(W(x), x)
               /\ \/ x # r /\ W(x).answer = x.answer
                  \/ x = r /\ W(x).answer = answer
                  \/ x \in before /\ W(x).answer = Reply(x)
    <2>1. CASE x \in before
      BY <1>2, <1>3, <2>1
    <2>2. CASE x \notin before /\ x = r
      BY <1>2, <1>3, <2>2
    <2>3. CASE x \notin before /\ x # r
      BY <1>3, <1>4, <2>3
    <2> QED
      BY <2>1, <2>2, <2>3
  <1> HIDE DEF W
  <1>6. requests' \subseteq Calls
    BY <1>1, <1>5
  <1>7. Distinct'
    <2> SUFFICES ASSUME NEW p \in requests', NEW q \in requests', p.kind = q.kind, p.id = q.id PROVE p = q
      BY DEF Distinct
    <2>1. PICK x \in requests, y \in requests : p = W(x) /\ q = W(y)
      BY <1>1
    <2>2. x.kind = y.kind /\ x.id = y.id
      BY <1>5, <2>1 DEF SameCall
    <2> QED
      BY <1>3, <2>1, <2>2 DEF Distinct
  <1>8. IsFiniteSet(requests') /\ Cardinality(requests') = Cardinality(requests)
    <2>1. \A q \in requests' : \E x \in requests : x.kind = q.kind /\ x.id = q.id
      BY <1>1, <1>5 DEF SameCall
    <2>2. \A x \in requests : \E q \in requests' : q.kind = x.kind /\ q.id = x.id
      BY <1>1, <1>5 DEF SameCall
    <2>3. \A x, y \in requests' : x.kind = y.kind /\ x.id = y.id => x = y
      BY <1>7 DEF Distinct
    <2>4. \A x, y \in requests : x.kind = y.kind /\ x.id = y.id => x = y
      BY <1>3 DEF Distinct
    <2>5. IsFiniteSet(requests') /\ Cardinality(requests') <= Cardinality(requests)
      BY <1>3, <2>1, <2>3, SmallerById
    <2>6. Cardinality(requests) <= Cardinality(requests')
      BY <2>2, <2>4, <2>5, SmallerById
    <2> QED
      BY <1>3, <2>5, <2>6, CardNat
  <1>9. \A q \in requests' : Numbered(q)'
    <2> SUFFICES ASSUME NEW q \in requests' PROVE Numbered(q)'
      OBVIOUS
    <2>1. PICK x \in requests : SameCall(q, x)
      BY <1>1, <1>5
    <2> QED
      BY <1>3, <2>1 DEF Numbered, SameCall
  <1>10. CallsInv'
    BY <1>7, <1>8, <1>9 DEF CallsInv, SpinnerExact
  <1> QED
    BY <1>1, <1>5, <1>6, <1>8, <1>10

(* A model is created for a request that was to create it.                 *)
LEMMA AnswerRoom ==
    ASSUME TypeInv, Room, NEW r \in requests, r.answer = NoAnswer, requests' \subseteq Calls, Distinct',
           NEW before, NEW answer \in Answers, \A q \in before : Reply(q) \in Answers,
           \A q \in requests' : \E x \in requests :
                 /\ SameCall(q, x)
                 /\ \/ x # r /\ q.answer = x.answer
                    \/ x = r /\ q.answer = answer
                    \/ x \in before /\ q.answer = Reply(x),
           server' \in [Profiles -> [Stores -> Dbs]],
           \A p \in Profiles, s \in Stores :
              server'[p][s].models = server[p][s].models + IF server' # server /\ r \in Applies(p, s) THEN 1 ELSE 0
    PROVE  Room'
  <1> SUFFICES ASSUME NEW p \in Profiles, NEW s \in Stores
               PROVE  server'[p][s].models + Cardinality(Applies(p, s)') <= MaxModels
    BY Zenon DEF Room
  <1> DEFINE old == Applies(p, s)
             left == old \ {r}
  <1>1. IsFiniteSet(old) /\ IsFiniteSet(left)
    BY FS_Subset DEF TypeInv, Applies
  <1>2. Cardinality(left) = IF r \in old THEN Cardinality(old) - 1 ELSE Cardinality(old)
    BY <1>1, FS_RemoveElement
  <1>3. \A x \in Applies(p, s)' : \E y \in left : y.kind = x.kind /\ y.id = x.id
    <2> SUFFICES ASSUME NEW q \in Applies(p, s)' PROVE \E y \in left : y.kind = q.kind /\ y.id = q.id
      OBVIOUS
    <2>1. q \in requests' /\ q.kind = "apply" /\ q.profile = p /\ q.store = s /\ q.answer = NoAnswer
      BY DEF Applies
    <2>2. PICK x \in requests :
             /\ SameCall(q, x)
             /\ \/ x # r /\ q.answer = x.answer
                \/ x = r /\ q.answer = answer
                \/ x \in before /\ q.answer = Reply(x)
      BY <2>1
    <2>3. x # r /\ x.answer = NoAnswer
      BY <2>1, <2>2, Constants
    <2>4. x \in left
      BY <2>1, <2>2, <2>3 DEF SameCall, Applies
    <2> QED
      BY <2>2, <2>4 DEF SameCall
  <1>4. \A x, y \in Applies(p, s)' : x.kind = y.kind /\ x.id = y.id => x = y
    BY DEF Applies, Distinct
  <1> HIDE DEF left
  <1>5. IsFiniteSet(Applies(p, s)') /\ Cardinality(Applies(p, s)') <= Cardinality(left)
    BY <1>1, <1>3, <1>4, SmallerById
  <1>6. Cardinality(Applies(p, s)') \in Nat /\ Cardinality(left) \in Nat /\ Cardinality(old) \in Nat
        /\ server[p][s].models \in Nat /\ server[p][s].models + Cardinality(old) <= MaxModels
    BY <1>1, <1>5, CardNat, DbType DEF Room
  <1>7. server'[p][s].models <= server[p][s].models + IF r \in old THEN 1 ELSE 0
    BY <1>6
  <1>8. server'[p][s].models \in Nat
    BY DEF Dbs
  <1> HIDE DEF old
  <1> QED
    BY <1>2, <1>5, <1>6, <1>7, <1>8, Constants

(* What a mutation does to its server.                                     *)
LEMMA EffectGrows ==
    ASSUME IInv, NEW r \in requests, r.kind \in Mutations, r.answer = NoAnswer,
           server' = [server EXCEPT ![r.profile][r.store] = Effect(r)]
    PROVE  /\ Grows /\ server'[r.profile][r.store] = Effect(r)
           /\ \A p \in Profiles, s \in Stores :
                 server'[p][s].models = server[p][s].models + IF r \in Applies(p, s) THEN 1 ELSE 0
           /\ r.kind = "write" /\ Exists(r, Resolved(r)) => r.id \in Effect(r).tuples
  <1>1. TypeInv /\ Room
    BY DEF IInv, ServerInv
  <1>2. r \in Calls /\ r.profile \in Profiles /\ r.store \in Stores
    BY <1>1 DEF TypeInv, Calls
  <1> DEFINE db == server[r.profile][r.store]
  <1>3. r.kind = "apply" => db.models < MaxModels
    <2> SUFFICES ASSUME r.kind = "apply" PROVE db.models < MaxModels
      OBVIOUS
    <2> DEFINE open == Applies(r.profile, r.store)
    <2>1. r \in open /\ IsFiniteSet(open)
      BY <1>1, <1>2, FS_Subset DEF TypeInv, Applies
    <2>2. db.models + Cardinality(open) <= MaxModels /\ db.models \in Nat
      BY <1>1, <1>2, DbType DEF Room
    <2> HIDE DEF open, db
    <2>3. Cardinality(open) \in Nat /\ Cardinality(open) # 0
      BY <2>1, CardNat, FS_EmptySet
    <2> QED
      BY <2>2, <2>3, Constants
  <1>4. /\ Effect(r) \in Dbs
        /\ Effect(r).models = IF r.kind = "apply" THEN db.models + 1 ELSE db.models
        /\ db.tuples \subseteq Effect(r).tuples
        /\ r.kind = "write" /\ Exists(r, Resolved(r)) => r.id \in Effect(r).tuples
    BY <1>1, <1>2, <1>3, EffectHolds
  <1>5. /\ server' \in [Profiles -> [Stores -> Dbs]]
        /\ \A p \in Profiles, s \in Stores :
              server'[p][s] = IF p = r.profile /\ s = r.store THEN Effect(r) ELSE server[p][s]
    BY <1>1, <1>2, <1>4 DEF TypeInv
  <1>6. \A p \in Profiles, s \in Stores : r \in Applies(p, s) <=> r.kind = "apply" /\ p = r.profile /\ s = r.store
    BY DEF Applies
  <1>7. \A p \in Profiles, s \in Stores : server[p][s].models \in Nat
    BY <1>1, DbType
  <1>8. \A p \in Profiles, s \in Stores :
           server'[p][s].models = server[p][s].models + IF r \in Applies(p, s) THEN 1 ELSE 0
    BY <1>2, <1>4, <1>5, <1>6, <1>7
  <1>9. \A p \in Profiles, s \in Stores : server[p][s].tuples \subseteq server'[p][s].tuples
    BY <1>4, <1>5
  <1>10. Grows
    BY <1>5, <1>7, <1>8, <1>9 DEF Grows
  <1> QED
    BY <1>2, <1>4, <1>5, <1>8, <1>10

LEMMA AnswerStep ==
    ASSUME IInv, NEW r \in requests, r.answer = NoAnswer, NEW answer \in Answers, NEW before \in SUBSET Reads(r),
           requests' = AnsweredSet(r, answer, before), r \notin before,
           server' = server
             \/ (r.kind \in Mutations /\ server' = [server EXCEPT ![r.profile][r.store] = Effect(r)]),
           answer.is = "ok" =>
              /\ r.kind \in Mutations /\ answer = Reply(r)
              /\ server' = [server EXCEPT ![r.profile][r.store] = Effect(r)],
           r.kind \in Kinds => answer.is \in {"refused", "lost"},
           m' = m, late' = late, pins' = pins, accepted' = accepted, failed' = failed, retries' = retries,
           keys' = keys, saveFaults' = saveFaults, faults' \in Nat
    PROVE  IInv' /\ NeverOlder
  <1>1. TypeInv /\ CallsInv /\ ServerInv /\ PaneInv /\ PinInv
    BY DEF IInv
  <1>2. r \in Calls /\ requests \subseteq Calls
    BY <1>1 DEF TypeInv
  <1>3. \A q \in before : q \in requests /\ q.kind \in Kinds /\ q.answer = NoAnswer /\ Reply(q) \in Answers
    BY <1>1, <1>2, ReplyHolds DEF Reads
  <1>4. /\ requests' \subseteq Calls /\ IsFiniteSet(requests') /\ CallsInv'
        /\ \A q \in requests' : \E x \in requests :
              /\ SameCall(q, x)
              /\ \/ x # r /\ q.answer = x.answer
                 \/ x = r /\ q.answer = answer
                 \/ x \in before /\ q.answer = Reply(x)
        /\ \A x \in requests : \E q \in requests' : SameCall(q, x)
    <2>1. before \in SUBSET requests
      BY <1>3
    <2> QED
      BY <1>1, <1>3, <2>1, AnswerHolds
  <1>5. /\ Grows
        /\ \A p \in Profiles, s \in Stores : server'[p][s].models
              = server[p][s].models + IF server' # server /\ r \in Applies(p, s) THEN 1 ELSE 0
    <2>1. CASE server' = server
      <3>1. \A p \in Profiles, s \in Stores : server[p][s].models \in Nat
        BY <1>1, DbType
      <3> QED
        BY <1>1, <2>1, <3>1, RestGrows
    <2>2. CASE server' # server
      BY <2>2, EffectGrows
    <2> QED
      BY <2>1, <2>2
  <1>6. \A k : (\E q \in requests' : q.kind = k) <=> (\E q \in requests : q.kind = k)
    BY <1>4 DEF SameCall
  <1>7. TypeInv'
    BY <1>1, <1>4, <1>5 DEF TypeInv, Grows
  <1>8. \A p, s, model : model \in Models \cup {None} =>
           /\ Has(p, s, model) => Has(p, s, model)'
           /\ Known(p, s, model) => Known(p, s, model)'
    BY <1>1, <1>5, GrowsHas
  <1>9. ServerInv'
    <2>1. Room'
      <3>1. server' \in [Profiles -> [Stores -> Dbs]] /\ Distinct' /\ Room
        BY <1>1, <1>4, <1>5 DEF Grows, CallsInv, ServerInv
      <3>2. \A q \in before : Reply(q) \in Answers
        BY <1>3
      <3> QED
        BY <1>1, <1>4, <1>5, <3>1, <3>2, AnswerRoom
    <2>2. (\A p \in Profiles : Known(p, pins[p].store, pins[p].model))'
      <3>1. \A p \in Profiles : pins[p].model \in Models \cup {None} /\ Known(p, pins[p].store, pins[p].model)
        BY <1>1 DEF TypeInv, Selections, ServerInv
      <3> QED
        BY <1>8, <3>1
    <2>3. (\A w \in accepted : w[3] \in server[w[1]][w[2]].tuples)'
      <3>1. \A w \in accepted : w[1] \in Profiles /\ w[2] \in Stores /\ w[3] \in server[w[1]][w[2]].tuples
        BY <1>1 DEF TypeInv, ServerInv
      <3> QED
        BY <1>5, <3>1 DEF Grows
    <2>4. ASSUME NEW q \in requests' PROVE AskedOf(q)'
      <3>1. PICK x \in requests :
              /\ SameCall(q, x)
              /\ \/ x # r /\ q.answer = x.answer
                 \/ x = r /\ q.answer = answer
                 \/ x \in before /\ q.answer = Reply(x)
        BY <1>4
      <3>2. AskedOf(x) /\ x \in Calls
        BY <1>1, <1>2 DEF ServerInv
      <3>3. x.model \in Models \cup {None} /\ x.profile \in Profiles /\ x.store \in Stores
        BY <3>2 DEF Calls
      <3>4. q.kind = "model" => Known(q.profile, q.store, q.model)'
        <4>1. x.kind = "model" => Known(x.profile, x.store, x.model)'
          BY <1>8, <3>2, <3>3 DEF AskedOf
        <4> QED
          BY <3>1, <4>1 DEF SameCall, Known, Alien, Has
      <3>5. CASE x # r /\ q.answer = x.answer
        <4>1. Same(q, x)
          BY <3>1, <3>5 DEF Same, SameCall
        <4> QED
          BY <1>1, <1>5, <3>2, <4>1, AskedKept
      <3>6. CASE x = r /\ q.answer = answer
        <4>1. Answered(q, "ok") => q.kind \in Mutations
          BY <3>1, <3>6 DEF Answered, SameCall
        <4>2. Answered(q, "ok") /\ q.kind = "write" => q.id \in server'[q.profile][q.store].tuples
          <5> SUFFICES ASSUME Answered(q, "ok"), q.kind = "write" PROVE q.id \in server'[q.profile][q.store].tuples
            OBVIOUS
          <5>1. answer.is = "ok" /\ r.kind = "write" /\ q.id = r.id /\ q.profile = r.profile /\ q.store = r.store
            BY <3>1, <3>6 DEF Answered, SameCall
          <5>2. Exists(r, Resolved(r))
            BY <1>1, <1>2, <5>1, ReplyHolds
          <5> QED
            BY <5>1, <5>2, EffectGrows
        <4> QED
          BY <3>4, <4>1, <4>2 DEF AskedOf, Mutations
      <3>7. CASE x \in before /\ q.answer = Reply(x)
        <4>1. x.kind \in Kinds /\ x.answer = NoAnswer /\ Arrived(x) = Reply(x)
          BY <1>3, <3>7 DEF Arrived
        <4>2. /\ Reply(x) \in Answers
              /\ x.kind = "model" /\ Reply(x).is = "ok" => Has(x.profile, x.store, Reply(x).model)
              /\ x.kind = "query" /\ Reply(x).is = "ok" /\ x.model # None => Has(x.profile, x.store, x.model)
              /\ x.kind \in {"tuples", "changes"} => Reply(x).seen = server[x.profile][x.store].tuples
          BY <1>1, <3>2, ReplyHolds
        <4>3. Reply(x).model \in Models \cup {None}
          BY <4>2 DEF Answers
        <4>4. /\ x.kind = "model" /\ Reply(x).is = "ok" => Has(x.profile, x.store, q.answer.model)'
              /\ x.kind = "query" /\ Reply(x).is = "ok" /\ x.model # None => Has(x.profile, x.store, x.model)'
              /\ x.kind \in {"tuples", "changes"} => Reply(x).seen \subseteq server'[x.profile][x.store].tuples
          <5>1. x.kind = "model" /\ Reply(x).is = "ok" => Has(x.profile, x.store, q.answer.model)'
            BY <1>8, <3>7, <4>2, <4>3
          <5>2. x.kind = "query" /\ Reply(x).is = "ok" /\ x.model # None => Has(x.profile, x.store, x.model)'
            BY <1>8, <3>3, <4>2
          <5>3. x.kind \in {"tuples", "changes"} => Reply(x).seen \subseteq server'[x.profile][x.store].tuples
            BY <1>5, <3>3, <4>2 DEF Grows
          <5> QED
            BY <5>1, <5>2, <5>3
        <4> QED
          BY <3>1, <3>4, <3>7, <4>1, <4>4, KindsApart DEF AskedOf, Answered, SameCall, Has, Mutations
      <3> QED
        BY <3>1, <3>5, <3>6, <3>7
    <2> QED
      BY <2>1, <2>2, <2>3, <2>4 DEF ServerInv
  <1>10. Reported' = Reported
    BY ReportedStays
  <1>11. PaneInv'
    <2>1. PanesAreSound'
      <3>1. Loading("tuples")' <=> Loading("tuples")
        BY <1>6 DEF Loading
      <3> QED
        BY <1>1, <1>10, <3>1 DEF PaneInv, PanesAreSound, PanesMatchSelection, ShownIsSelected, FilterSettled,
                                 NoStrandedPane, ReportedWritesShown, Here
    <2>2. Selection'
      <3>1. /\ m.modelID \in Models \cup {None} /\ m.profile \in Profiles /\ m.storeID \in Stores \cup {None}
            /\ m.result # None => m.result.model \in Models \cup {None}
            /\ m.tuples # None => m.storeID \in Stores
        BY <1>1 DEF TypeInv, Interfaces, Results, PaneInv, Selection
      <3>2. Known(m.profile, m.storeID, m.modelID)'
        BY <1>1, <1>8, <3>1 DEF PaneInv, Selection
      <3>3. m.result # None /\ m.result.model # None => Has(m.profile, m.storeID, m.result.model)'
        BY <1>1, <1>8, <3>1 DEF PaneInv, Selection
      <3>4. m.tuples # None => m.tuples.seen \subseteq server'[m.profile][m.storeID].tuples
        BY <1>1, <1>5, <3>1 DEF PaneInv, Selection, Grows
      <3> QED
        BY <1>1, <3>2, <3>3, <3>4 DEF PaneInv, Selection
    <2>3. ASSUME NEW q \in requests' PROVE Placed(q)' /\ Current(q)'
      <3>1. PICK x \in requests :
              /\ SameCall(q, x)
              /\ \/ x # r /\ q.answer = x.answer
                 \/ x = r /\ q.answer = answer
                 \/ x \in before /\ q.answer = Reply(x)
        BY <1>4
      <3>2. Placed(x) /\ Current(x) /\ x.model \in Models \cup {None}
        BY <1>1, <1>2 DEF PaneInv, Calls
      <3>3. ASSUME q.kind \in Kinds
            PROVE  /\ q.profile = m.profile /\ q.store = m.storeID
                   /\ q.kind = "model" => q.model \in {None, m.modelID} \/ Has(m.profile, m.storeID, q.model)'
        <4>1. x.kind = q.kind /\ x.profile = q.profile /\ x.store = q.store /\ x.model = q.model
          BY <3>1 DEF SameCall
        <4>2. q.model \in {None, m.modelID} \/ Has(m.profile, m.storeID, x.model)' \/ q.kind # "model"
          BY <1>8, <3>2, <3>3, <4>1 DEF Placed
        <4> QED
          BY <3>2, <3>3, <4>1, <4>2 DEF Placed, Has
      <3>4. CASE x # r /\ q.answer = x.answer
        <4>1. q.kind = "model" /\ Answered(q, "absent") => Alien(m.profile, m.storeID, m.modelID)
          BY <3>1, <3>2, <3>4 DEF Placed, Answered, SameCall, Kinds
        <4>2. Placed(q)'
          BY <3>3, <4>1 DEF Placed, Answered, Alien
        <4>3. Current(q)'
          BY <1>10, <3>1, <3>2, <3>4 DEF Current, Answered, SameCall
        <4> QED
          BY <4>2, <4>3
      <3>5. CASE x = r /\ q.answer = answer
        <4>1. q.kind \in Kinds => q.answer.is \in {"refused", "lost"}
          BY <3>1, <3>5 DEF SameCall
        <4> QED
          BY <3>3, <4>1 DEF Placed, Current, Answered, Kinds
      <3>6. CASE x \in before /\ q.answer = Reply(x)
        <4>1. x.kind \in Kinds /\ Arrived(x) = q.answer /\ x.kind = q.kind
          BY <1>3, <3>1, <3>6 DEF Arrived, SameCall
        <4>2. /\ q.kind = "model" /\ q.answer.is = "absent" => Alien(m.profile, m.storeID, m.modelID)
              /\ q.kind \in {"tuples", "changes"} /\ q.answer.is = "ok" =>
                    /\ Reported \subseteq q.answer.seen
                    /\ q.kind = "tuples" /\ m.tuples # None => m.tuples.seen \subseteq q.answer.seen
          BY <4>1, ArrivedHolds
        <4>3. Placed(q)'
          BY <3>3, <4>2 DEF Placed, Answered, Alien
        <4>4. Current(q)'
          BY <1>10, <4>2 DEF Current, Answered
        <4> QED
          BY <4>3, <4>4
      <3> QED
        BY <3>1, <3>4, <3>5, <3>6
    <2> QED
      BY <2>1, <2>2, <2>3 DEF PaneInv
  <1>12. PinInv'
    <2>1. Loading("model")' <=> Loading("model")
      BY <1>6 DEF Loading
    <2> QED
      BY <1>1, <1>5, <2>1, PinKept
  <1>13. NeverOlder
    BY DEF NeverOlder
  <1> QED
    BY <1>4, <1>7, <1>9, <1>11, <1>12, <1>13 DEF IInv

LEMMA ServeHolds == ASSUME IInv, NEW r \in requests, Serve(r) PROVE IInv' /\ NeverOlder
  <1> DEFINE answer == Reply(r)
  <1>1. TypeInv /\ r \in Calls /\ faults \in Nat
    BY DEF IInv, TypeInv
  <1>2. /\ r.kind \in Mutations /\ r.answer = NoAnswer
        /\ server' = [server EXCEPT ![r.profile][r.store] = Effect(r)]
        /\ m' = m /\ late' = late /\ pins' = pins /\ accepted' = accepted /\ failed' = failed
        /\ retries' = retries /\ keys' = keys /\ faults' = faults /\ saveFaults' = saveFaults
    BY Zenon DEF Serve, Process
  <1>3. PICK before \in SUBSET Reads(r) : requests' = AnsweredSet(r, answer, before)
    BY Zenon DEF Serve, Process, AnsweredSet
  <1>4. answer \in Answers
    BY <1>1, ReplyHolds
  <1>5. r \notin before /\ r.kind \notin Kinds
    BY <1>2, <1>3, KindsApart DEF Reads
  <1> HIDE DEF answer
  <1>6. answer = Reply(r)
    BY DEF answer
  <1> QED
    BY <1>1, <1>2, <1>3, <1>4, <1>5, <1>6, AnswerStep

LEMMA FailuresType ==
    ASSUME TypeInv, NEW r \in Calls, NEW answer \in Failures(r)
    PROVE  answer \in Answers /\ answer.is \in {"refused", "lost"}
  <1>1. r.model \in Models \cup {None} /\ r.profile \in Profiles /\ r.store \in Stores
    BY DEF Calls
  <1>2. server[r.profile][r.store].models \in 0..MaxModels
    BY <1>1, DbType
  <1>3. Latest(r) \in Models \cup {None}
    <2>1. CASE server[r.profile][r.store].models = 0
      BY <2>1 DEF Latest, Db
    <2>2. CASE server[r.profile][r.store].models # 0
      <3>1. Latest(r) = Model(r.profile, r.store, server[r.profile][r.store].models)
        BY <2>2 DEF Latest, Db
      <3> QED
        BY <1>1, <1>2, <2>2, <3>1, Constants DEF Model, Models
    <2> QED
      BY <2>1, <2>2
  <1>4. Resolved(r) \in Models \cup {None}
    BY <1>1, <1>3 DEF Resolved
  <1>5. \E is \in {"refused", "lost"}, model \in Models \cup {None} : answer = Answer(is, model, {})
    <2>1. CASE r.kind = "assertions"
      <3>1. Failures(r) = {Answer(e, model, {}) : e \in {"refused", "lost"}, model \in {r.model, Resolved(r)}}
        BY <2>1, SMT DEF Failures
      <3>2. PICK e \in {"refused", "lost"}, model \in {r.model, Resolved(r)} : answer = Answer(e, model, {})
        BY <3>1, SMT
      <3>3. model \in Models \cup {None}
        BY <1>1, <1>4, <3>2, Zenon
      <3> QED
        BY <3>2, <3>3, Zenon
    <2>2. CASE r.kind # "assertions"
      <3>1. answer = Answer("refused", r.model, {})
        BY <2>2, SMT DEF Failures
      <3> QED
        BY <1>1, <3>1, Zenon
    <2> QED
      BY <2>1, <2>2, Zenon
  <1> QED
    BY <1>5 DEF Answer, Answers

LEMMA FailHolds == ASSUME IInv, NEW r \in requests, Fail(r) PROVE IInv' /\ NeverOlder
  <1>1. TypeInv /\ r \in Calls /\ faults \in Nat
    BY DEF IInv, TypeInv
  <1>2. /\ r.answer = NoAnswer /\ faults' = faults + 1
        /\ m' = m /\ late' = late /\ pins' = pins /\ accepted' = accepted /\ failed' = failed
        /\ retries' = retries /\ keys' = keys /\ saveFaults' = saveFaults
    BY Zenon DEF Fail
  <1>3. faults' \in Nat
    BY <1>1, <1>2
  <1>4. CASE /\ \E answer \in Failures(r) : requests' = (requests \ {r}) \cup {WithAnswer(r, answer)}
             /\ UNCHANGED server
    <2>1. PICK answer \in Failures(r) : requests' = (requests \ {r}) \cup {WithAnswer(r, answer)}
      BY <1>4
    <2>2. answer \in Answers /\ answer.is \in {"refused", "lost"}
      BY <1>1, FailuresType
    <2> DEFINE before == {}
    <2>3. requests' = AnsweredSet(r, answer, before)
      BY <2>1 DEF AnsweredSet
    <2>4. before \in SUBSET Reads(r) /\ r \notin before
      OBVIOUS
    <2> HIDE DEF before
    <2> QED
      BY <1>2, <1>3, <1>4, <2>2, <2>3, <2>4, AnswerStep
  <1>5. CASE r.kind \in Mutations /\ Process(r, Answer("lost", r.model, {}))
    <2> DEFINE answer == Answer("lost", r.model, {})
    <2>1. PICK before \in SUBSET Reads(r) : requests' = AnsweredSet(r, answer, before)
      BY <1>5, Zenon DEF Process, AnsweredSet
    <2>2. server' = [server EXCEPT ![r.profile][r.store] = Effect(r)]
      BY <1>5, Zenon DEF Process
    <2>3. answer \in Answers /\ answer.is = "lost"
      BY <1>1 DEF Answer, Answers, Calls
    <2>4. r \notin before
      BY <1>5, <2>1, KindsApart DEF Reads
    <2> HIDE DEF answer
    <2> QED
      BY <1>2, <1>3, <1>5, <2>1, <2>2, <2>3, <2>4, AnswerStep
  <1> QED
    BY <1>4, <1>5, Zenon DEF Fail

-------------------------------------------------------------------------------
(* The specification.                                                      *)

LEMMA InitHolds == Init => IInv
  <1> SUFFICES ASSUME Init PROVE IInv
    OBVIOUS
  <1>1. /\ server \in Servers /\ pins \in Pins /\ m = Launched /\ requests = StoreReads(m) /\ late = 0
        /\ accepted = {} /\ failed = {} /\ retries = 0 /\ keys = 0 /\ faults = 0 /\ saveFaults = 0
    BY Zenon DEF Init
  <1>2. /\ server \in [Profiles -> [Stores -> Dbs]] /\ pins \in [Profiles -> Selections]
        /\ pins[Start].store \in Stores
    BY <1>1, PlaygroundAssumption, Zenon DEF PlaygroundAssumption
  <1>3. \A p \in Profiles : Known(p, pins[p].store, pins[p].model)
    <2> SUFFICES ASSUME NEW p \in Profiles PROVE Known(p, pins[p].store, pins[p].model)
      OBVIOUS
    <2>1. pins[p].model # None /\ pins[p].model.profile = p /\ pins[p].model.store = pins[p].store
             => pins[p].model.n <= server[p][pins[p].model.store].models
      BY <1>1, PlaygroundAssumption, Zenon DEF PlaygroundAssumption
    <2> QED
      BY <2>1 DEF Known, Alien, Has
  <1>4. /\ m \in Interfaces /\ m.pendingLoads = 4 /\ m.profile = Start /\ m.storeID = pins[Start].store
        /\ m.modelID = pins[Start].model /\ m.storeID # None
        /\ m.tuples = None /\ m.changes = None /\ m.assertions = None /\ m.result = None
        /\ m.applied = None /\ m.wanted = None
    BY <1>1, <1>2, Constants DEF Launched, Interfaces, Selections, Wanted
  <1>5. /\ requests \subseteq Calls /\ IsFiniteSet(requests) /\ Cardinality(requests) = 4
        /\ \A q \in requests :
              /\ q.kind \in Kinds /\ q.profile = m.profile /\ q.store = m.storeID
              /\ q.id = 0 /\ q.answer = NoAnswer /\ q.model \in {None, m.modelID}
        /\ \A x, y \in requests : x.kind = y.kind => x = y
        /\ \A k \in {"model", "tuples"} : \E q \in requests : q.kind = k
    BY <1>1, <1>4, FourReads
  <1>6. TypeInv
    BY <1>1, <1>2, <1>4, <1>5 DEF TypeInv
  <1>7. CallsInv
    BY <1>1, <1>4, <1>5 DEF CallsInv, Numbered, Distinct, SpinnerExact
  <1>8. Known(m.profile, m.storeID, m.modelID)
    BY <1>3, <1>4, Constants
  <1>9. ServerInv
    <2>1. Room
      <3> SUFFICES ASSUME NEW p \in Profiles, NEW s \in Stores
                   PROVE  server[p][s].models + Cardinality(Applies(p, s)) <= MaxModels
        BY Zenon DEF Room
      <3>1. Applies(p, s) = {}
        BY <1>5, KindsApart DEF Applies, Mutations
      <3>2. Cardinality(Applies(p, s)) = 0
        BY <3>1, FS_EmptySet
      <3> QED
        BY <1>6, <3>2, DbType, Constants
    <2>2. \A q \in requests : AskedOf(q)
      BY <1>5, <1>8 DEF AskedOf, Answered, Known, Alien
    <2> QED
      BY <1>1, <1>3, <2>1, <2>2 DEF ServerInv
  <1>10. PaneInv
    <2>1. Blank
      BY <1>4, <1>5, <1>8 DEF Blank, Loading
    <2> QED
      BY <2>1, BlankIsTrue
  <1>11. PinInv
    <2>1. Loading("model")
      BY <1>5 DEF Loading
    <2> QED
      BY <1>1, <1>4, <2>1 DEF PinInv, ProfileFollowsSelection, PinRetriedOnce
  <1> QED
    BY <1>6, <1>7, <1>9, <1>10, <1>11 DEF IInv

LEMMA StutterHolds == ASSUME IInv, UNCHANGED vars PROVE IInv' /\ NeverOlder
  <1>1. /\ m' = m /\ requests' = requests /\ late' = late /\ server' = server /\ pins' = pins
        /\ accepted' = accepted /\ failed' = failed /\ retries' = retries
        /\ keys' = keys /\ faults' = faults /\ saveFaults' = saveFaults
    BY Zenon DEF vars
  <1>2. TypeInv' /\ CallsInv'
    BY <1>1 DEF IInv, TypeInv, CallsInv, Numbered, Distinct, SpinnerExact
  <1>3. (\A p, s, model : Has(p, s, model)' <=> Has(p, s, model)) /\ (\A p, s, model : Known(p, s, model)' <=> Known(p, s, model))
    BY <1>1 DEF Has, Known, Alien
  <1>4. Reported' = Reported
    BY <1>1, ReportedStays
  <1>5. ServerInv'
    <2>1. Room'
      BY <1>1 DEF IInv, ServerInv, Room, Applies
    <2>2. \A r \in requests : AskedOf(r)'
      BY <1>1, <1>3 DEF IInv, ServerInv, AskedOf, Answered
    <2> QED
      BY <1>1, <1>3, <2>1, <2>2 DEF IInv, ServerInv
  <1>6. PaneInv' /\ PinInv'
    <2>1. \A k : Loading(k)' <=> Loading(k)
      BY <1>1 DEF Loading
    <2>2. PanesAreSound'
      BY <1>1, <1>4, <2>1 DEF IInv, PaneInv, PanesAreSound, PanesMatchSelection, ShownIsSelected, FilterSettled,
                              NoStrandedPane, ReportedWritesShown, Here
    <2>3. Selection'
      BY <1>1 DEF IInv, PaneInv, Selection, Known, Alien, Has
    <2>4. \A r \in requests : Placed(r)' /\ Current(r)'
      BY <1>1, <1>4 DEF IInv, PaneInv, Placed, Current, Answered, Alien, Has
    <2>5. PinInv'
      BY <1>1, <2>1 DEF IInv, PinInv, ProfileFollowsSelection, PinRetriedOnce, Has
    <2> QED
      BY <1>1, <2>2, <2>3, <2>4, <2>5 DEF PaneInv
  <1>7. NeverOlder
    BY <1>1 DEF NeverOlder
  <1> QED
    BY <1>2, <1>5, <1>6, <1>7 DEF IInv

LEMMA NextHolds == IInv /\ [Next]_vars => IInv' /\ NeverOlder
  <1> SUFFICES ASSUME IInv, [Next]_vars PROVE IInv' /\ NeverOlder
    OBVIOUS
  <1>1. ASSUME NEW s \in Stores, SelectStore(s) PROVE IInv' /\ NeverOlder
    BY <1>1, SelectStoreHolds
  <1>2. ASSUME NEW p \in Profiles, SwitchProfile(p) PROVE IInv' /\ NeverOlder
    BY <1>2, SwitchProfileHolds
  <1>3. CASE \/ ReloadModel \/ ReloadTuples \/ ReloadChanges \/ ReloadAssertions \/ RunQuery
             \/ \E f \in Filters \cup {None} : SubmitFilter(f)
    BY <1>3, ReadsHold
  <1>4. ASSUME NEW n \in 1..MaxModels, PickModel(n) PROVE IInv' /\ NeverOlder
    BY <1>4, PickModelHolds
  <1>5. CASE WriteTuple \/ ApplyModel \/ AddAssertion
    BY <1>5, MutationsHold
  <1>6. ASSUME NEW r \in requests, Serve(r) PROVE IInv' /\ NeverOlder
    BY <1>6, ServeHolds
  <1>7. ASSUME NEW r \in requests, Fail(r) PROVE IInv' /\ NeverOlder
    BY <1>7, FailHolds
  <1>8. ASSUME NEW r \in requests, Complete(r) PROVE IInv' /\ NeverOlder
    BY <1>8, CompleteHolds
  <1>9. CASE LateRead
    BY <1>9, LateReadHolds
  <1>10. CASE UNCHANGED vars
    BY <1>10, StutterHolds
  <1> QED
    BY <1>1, <1>2, <1>3, <1>4, <1>5, <1>6, <1>7, <1>8, <1>9, <1>10, Zenon DEF Next, Command

(* Every variable keeps its type.                                          *)
THEOREM PlaygroundTypeCorrect == Spec => []TypeInv
  <1>1. Spec => []IInv
    BY InitHolds, NextHolds, PTL DEF Spec
  <1>2. IInv => TypeInv
    BY DEF IInv
  <1> QED
    BY <1>1, <1>2, PTL

(* The spinner shows exactly whether requests are under way, for any       *)
(* number of commands and whatever of them is superseded, dropped or late. *)
THEOREM SpinnerIsExact == Spec => []SpinnerExact
  <1>1. Spec => []IInv
    BY InitHolds, NextHolds, PTL DEF Spec
  <1>2. IInv => SpinnerExact
    BY DEF IInv, CallsInv
  <1> QED
    BY <1>1, <1>2, PTL

(* A pin that is gone is dropped once and not in a loop, and a model that  *)
(* was loaded is the one the profile records, unless a save failed.        *)
THEOREM ProfileAlwaysFollows == Spec => []ProfileFollowsSelection
  <1>1. Spec => []IInv
    BY InitHolds, NextHolds, PTL DEF Spec
  <1>2. IInv => ProfileFollowsSelection
    BY DEF IInv, PinInv
  <1> QED
    BY <1>1, <1>2, PTL

(* The panes are of the selection, hide no write that was reported, strand *)
(* nothing and never go back to an older answer, in whatever order the     *)
(* answers of any number of servers come in.                               *)
THEOREM PanesAreAlwaysTrue == Spec => PanesAreTrue
  <1>1. Spec => []IInv
    BY InitHolds, NextHolds, PTL DEF Spec
  <1>2. IInv /\ [Next]_vars => PanesAreSound' /\ NeverOlder
    BY NextHolds DEF IInv, PaneInv
  <1>3. Spec => [][PanesAreSound' /\ NeverOlder]_vars
    BY <1>1, <1>2, PTL DEF Spec
  <1> QED
    BY <1>3 DEF PanesAreTrue

-------------------------------------------------------------------------------
(* The saved database.                                                     *)

OwnWrites(s) == {w \in made : w[1] = s}

(* What the scratch copy began with.                                       *)
Begun(s) == IF reset[s] THEN {} ELSE Content(digest[s])

(* The saved file is the session's from the check to the rename.           *)
Checked(s) == pc[s] = "copy" => saved = digest[s]

Unstarted(s) == pc[s] = "off" => request[s] = "none" /\ scratch[s] = {}
Own(s) == pc[s] # "closed" => OwnWrites(s) \subseteq scratch[s]
Base(s) == pc[s] \notin {"off", "closed"} => Begun(s) \subseteq scratch[s]

(* The answer is given once, and a kept copy is closed after its save.     *)
Asked(s) ==
    /\ pc[s] \in {"off", "running", "stopping", "stopped"} => keep[s] = "unasked"
    /\ pc[s] = "close" /\ keep[s] = "yes" => saveFailed[s]
Ended(s) ==
    pc[s] = "closed" /\ keep[s] = "yes" =>
        OwnWrites(s) \subseteq owed \/ OwnWrites(s) \subseteq scratch[s]

(* A copy that differs from what it began with has a write that was noted, *)
(* or that is about to be; after Stop nothing is about to be.              *)
Noted(s) ==
    pc[s] \notin {"off", "closed", "dead"} =>
        dirty[s] \/ request[s] = "committed" \/ scratch[s] = Begun(s)
AtEase(s) ==
    pc[s] \in {"stopped", "lock", "check", "copy", "close"} =>
        request[s] = "none" \/ SlowWrites

SessionInv(s) ==
    /\ Checked(s) /\ Unstarted(s) /\ Own(s) /\ Base(s)
    /\ Asked(s) /\ Ended(s) /\ Noted(s) /\ AtEase(s)

SessionStep(s) ==
    \/ \E fresh \in BOOLEAN : StartSession(s, fresh)
    \/ SendWrite(s) \/ CommitWrite(s) \/ EndWrite(s)
    \/ Quit(s) \/ Ending(s) \/ SaveFault(s) \/ Die(s)

DbIInv == DbTypeOK /\ NoSavedWriteLost /\ \A s \in Sessions : SessionInv(s)

USE DbAssumption DEF DbAssumption

(* Init establishes the invariant: nothing is saved and nobody has begun.  *)
LEMMA DbInitHolds == DbInit => DbIInv
  BY DEF DbInit, DbIInv, DbTypeOK, NoSavedWriteLost, SessionInv, Checked, Unstarted, Own, Base,
         Asked, Ended, Noted, AtEase, OwnWrites, Begun, Content, States, Databases, Writes

(* Every step keeps the types, and the lock with whoever is in the save.   *)
LEMMA DbTypeHolds == DbTypeOK /\ [DbNext]_dbVars => DbTypeOK'
  <1> SUFFICES ASSUME DbTypeOK, [DbNext]_dbVars PROVE DbTypeOK'
    OBVIOUS
  <1> USE DEF DbTypeOK, States, Databases
  <1>0. CASE UNCHANGED dbVars
    BY <1>0 DEF dbVars, history, answers, bounds
  <1> SUFFICES ASSUME NEW s \in Sessions, SessionStep(s) PROVE DbTypeOK'
    BY <1>0 DEF DbNext, SessionStep
  <1>1. CASE \E fresh \in BOOLEAN : StartSession(s, fresh)
    BY <1>1 DEF StartSession, Goto, Content, history, answers, bounds
  <1>2. CASE SendWrite(s) \/ Quit(s)
    BY <1>2 DEF SendWrite, Quit, Goto, history, answers, bounds
  <1>12. CASE EndWrite(s)
    <2>1. dirty' \in [Sessions -> BOOLEAN]
      <3>1. dirty \in [Sessions -> BOOLEAN]
        OBVIOUS
      <3>2. \A x \in BOOLEAN : [dirty EXCEPT ![s] = x] \in [Sessions -> BOOLEAN]
        BY <3>1
      <3>3. (dirty[s] \/ NoteWrite(s)) \in BOOLEAN
        BY Zenon DEF NoteWrite
      <3> QED
        BY <1>12, <3>2, <3>3, Zenon DEF EndWrite
    <2>2. request' \in [Sessions -> {"none", "sent", "committed"}]
      BY <1>12 DEF EndWrite
    <2> QED
      BY <1>12, <2>1, <2>2 DEF EndWrite, history, answers, bounds
  <1>3. CASE CommitWrite(s)
    BY <1>3 DEF CommitWrite, Writes, answers, bounds
  <1>4. CASE Stop(s) \/ SkipPrompt(s)
    BY <1>4 DEF Stop, SkipPrompt, Goto, history, answers, bounds
  <1>5. CASE \E a \in {"yes", "no"} : AnswerPrompt(s, a)
    BY <1>5 DEF AnswerPrompt, Goto, history, bounds
  <1>6. CASE AcquireLock(s)
    BY <1>6 DEF AcquireLock, Goto, history, answers, bounds
  <1>7. CASE Check(s)
    <2>1. CASE Unchanged(s)
      BY <1>7, <2>1 DEF Check, Goto, history, bounds
    <2>2. CASE ~Unchanged(s)
      <3>1. FailSave(s) /\ pc[s] = "check"
        BY <1>7, <2>2, Zenon DEF Check
      <3>2. UNCHANGED <<saved, scratch, digest, reset, request, dirty, keep, history, bounds>>
        BY <1>7, Zenon DEF Check
      <3> QED
        BY <3>1, <3>2 DEF FailSave, Failed, Release, Goto, history, bounds
    <2> QED
      BY <2>1, <2>2
  <1>8. CASE Replace(s)
    BY <1>8 DEF Replace, Release, Goto, Content, answers, bounds
  <1>9. CASE SaveFault(s)
    BY <1>9 DEF SaveFault, FailSave, Failed, Release, Goto, history
  <1>10. CASE Close(s)
    BY <1>10 DEF Close, Goto, history, answers, bounds
  <1>11. CASE Die(s)
    BY <1>11 DEF Die, Goto, history, answers
  <1> QED
    BY <1>1, <1>2, <1>3, <1>4, <1>5, <1>6, <1>7, <1>8, <1>9, <1>10, <1>11, <1>12 DEF SessionStep, Ending

(* A step of one session leaves another one's state alone: it adds neither *)
(* a write of the other nor, while the other copies, a new saved file.     *)
LEMMA OthersUndisturbed ==
    ASSUME DbTypeOK, NEW s \in Sessions, SessionStep(s), NEW t \in Sessions, t # s
    PROVE  /\ pc'[t] = pc[t] /\ scratch'[t] = scratch[t] /\ digest'[t] = digest[t]
           /\ reset'[t] = reset[t] /\ request'[t] = request[t] /\ dirty'[t] = dirty[t]
           /\ keep'[t] = keep[t] /\ saveFailed'[t] = saveFailed[t]
           /\ pc[t] = "copy" => saved' = saved
           /\ owed \subseteq owed' /\ OwnWrites(t)' = OwnWrites(t)
  <1> USE DEF DbTypeOK, Goto, history, answers, bounds, OwnWrites
  <1>1. CASE \E fresh \in BOOLEAN : StartSession(s, fresh)
    BY <1>1 DEF StartSession
  <1>2. CASE SendWrite(s) \/ EndWrite(s) \/ Quit(s)
    BY <1>2 DEF SendWrite, EndWrite, Quit
  <1>3. CASE CommitWrite(s)
    BY <1>3 DEF CommitWrite
  <1>4. CASE Stop(s) \/ SkipPrompt(s) \/ AcquireLock(s) \/ Close(s)
    BY <1>4 DEF Stop, SkipPrompt, AcquireLock, Close
  <1>5. CASE \E a \in {"yes", "no"} : AnswerPrompt(s, a)
    BY <1>5 DEF AnswerPrompt
  <1>6. CASE Check(s) \/ SaveFault(s)
    BY <1>6 DEF Check, SaveFault, FailSave, Failed
  <1>7. CASE Replace(s)
    BY <1>7 DEF Replace
  <1>8. CASE Die(s)
    BY <1>8 DEF Die
  <1> QED
    BY <1>1, <1>2, <1>3, <1>4, <1>5, <1>6, <1>7, <1>8 DEF SessionStep, Ending

LEMMA OtherSessionsHold ==
    ASSUME DbIInv, NEW s \in Sessions, SessionStep(s), NEW t \in Sessions, t # s
    PROVE  SessionInv(t)'
  <1>1. SessionInv(t) /\ DbTypeOK
    BY DEF DbIInv
  <1> QED
    BY <1>1, OthersUndisturbed
    DEF SessionInv, Checked, Unstarted, Own, Base, Begun, Asked, Ended, Noted, AtEase

(* What the saved file is trusted with is in it: the rename puts a copy in *)
(* place that has all of the file it replaces, unless --reset wiped that.  *)
LEMMA SavedHolds ==
    ASSUME DbIInv, NEW s \in Sessions, SessionStep(s)
    PROVE  NoSavedWriteLost'
  <1>1. SessionInv(s) /\ DbTypeOK /\ NoSavedWriteLost
    BY DEF DbIInv
  <1>2. CASE Replace(s)
    <2>1. saved = digest[s] /\ Begun(s) \subseteq scratch[s] /\ scratch[s] # NoFile
      BY <1>1, <1>2 DEF SessionInv, Checked, Base, Replace, DbTypeOK, Databases, Writes
    <2> QED
      BY <1>1, <1>2, <2>1 DEF Replace, NoSavedWriteLost, Content, Begun
  <1>3. CASE ~Replace(s)
    <2>1. UNCHANGED <<saved, owed, wiped>>
      BY <1>3 DEF SessionStep, Ending, StartSession, SendWrite, CommitWrite, EndWrite, Quit, Stop, SkipPrompt,
        AcquireLock, Close, AnswerPrompt, Check, SaveFault, Die, history
    <2> QED
      BY <1>1, <2>1 DEF NoSavedWriteLost
  <1> QED
    BY <1>2, <1>3

(* A step of a session keeps what its own end relies on.                   *)
LEMMA OwnSessionHolds ==
    ASSUME DbIInv, NEW s \in Sessions, SessionStep(s)
    PROVE  SessionInv(s)'
  <1>0. SessionInv(s) /\ DbTypeOK
    BY DEF DbIInv
  <1> USE <1>0 DEF SessionInv, Checked, Unstarted, Own, Base, Begun, Asked, Ended, Noted, AtEase,
                   DbTypeOK, Goto, history, answers, bounds, OwnWrites
  <1>1. CASE \E fresh \in BOOLEAN : StartSession(s, fresh)
    BY <1>1 DEF StartSession
  <1>2. CASE SendWrite(s)
    BY <1>2 DEF SendWrite
  <1>3. CASE CommitWrite(s)
    BY <1>3 DEF CommitWrite
  <1>4. CASE EndWrite(s)
    BY <1>4 DEF EndWrite, NoteWrite
  <1>5. CASE Quit(s)
    BY <1>5 DEF Quit
  <1>6. CASE Stop(s)
    BY <1>6 DEF Stop, Drained
  <1>7. CASE SkipPrompt(s) \/ AcquireLock(s)
    BY <1>7 DEF SkipPrompt, AcquireLock
  <1>8. CASE \E a \in {"yes", "no"} : AnswerPrompt(s, a)
    BY <1>8 DEF AnswerPrompt
  <1>9. CASE Check(s)
    BY <1>9 DEF Check, Unchanged, FailSave, Failed
  <1>10. CASE Replace(s)
    BY <1>10 DEF Replace
  <1>11. CASE SaveFault(s)
    BY <1>11 DEF SaveFault, FailSave, Failed
  <1>12. CASE Close(s)
    BY <1>12 DEF Close
  <1>13. CASE Die(s)
    BY <1>13 DEF Die
  <1> QED
    BY <1>1, <1>2, <1>3, <1>4, <1>5, <1>6, <1>7, <1>8, <1>9, <1>10, <1>11, <1>12, <1>13
    DEF SessionStep, Ending

LEMMA DbStepHolds == DbIInv /\ [DbNext]_dbVars => DbIInv'
  <1> SUFFICES ASSUME DbIInv, [DbNext]_dbVars PROVE DbIInv'
    OBVIOUS
  <1>1. DbTypeOK'
    BY DbTypeHolds DEF DbIInv
  <1>2. CASE UNCHANGED dbVars
    BY <1>1, <1>2 DEF dbVars, history, answers, bounds, DbIInv, NoSavedWriteLost, SessionInv, Checked, Unstarted,
      Own, Base, Begun, Asked, Ended, Noted, AtEase, OwnWrites
  <1>3. ASSUME NEW s \in Sessions, SessionStep(s) PROVE DbIInv'
    BY <1>1, <1>3, SavedHolds, OwnSessionHolds, OtherSessionsHold DEF DbIInv
  <1> QED
    BY <1>2, <1>3 DEF DbNext, SessionStep

LEMMA DbInvariance == DbSpec => []DbIInv
  BY DbInitHolds, DbStepHolds, PTL DEF DbSpec

(* The types of PlaygroundDb are right in every reachable state, and the   *)
(* lock is held by the session that is inside a save.                      *)
THEOREM DbTypeCorrect == DbSpec => []DbTypeOK
  <1>1. DbIInv => DbTypeOK
    BY DEF DbIInv
  <1> QED
    BY <1>1, DbInvariance, PTL

(* Whatever number of playgrounds share the saved database and however     *)
(* they fail or are killed, nothing that one of them saved or that the     *)
(* user chose to keep is lost.                                             *)
THEOREM KeptIsNeverLost == DbSpec => []NothingKeptIsLost
  <1>1. DbIInv => NothingKeptIsLost
    BY DEF DbIInv, SessionInv, Ended, OwnWrites, NothingKeptIsLost, NoSavedWriteLost, KeptChangesExist
  <1> QED
    BY <1>1, DbInvariance, PTL

(* Once Stop has drained the requests, a session that is not dirty has a   *)
(* copy that does not differ from what it began with.                      *)
THEOREM DirtyIsAlwaysFinal ==
    ASSUME SlowWrites = FALSE
    PROVE  DbSpec => []DirtyIsFinal
  <1>1. DbIInv => DirtyIsFinal
    BY DEF DbIInv, SessionInv, Noted, AtEase, Begun, DirtyIsFinal
  <1> QED
    BY <1>1, DbInvariance, PTL
=============================================================================
