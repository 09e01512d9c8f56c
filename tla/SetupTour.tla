-------------------------------- MODULE SetupTour --------------------------------
(***************************************************************************)
(* The guided tour of `ofga init` (internal/command/configcmd/wizard.go):  *)
(* the screens that collect a profile, the connection test that lists the  *)
(* stores, the load of a store's models, and the way back through them     *)
(* while answers are on their way.  The three methods with credentials     *)
(* differ only in the fields that are typed, so they are one.  Not         *)
(* followed: cursors, widths, what is drawn, the checks of single fields.  *)
(* External: the server.                                                   *)
(***************************************************************************)
EXTENDS Naturals, FiniteSets

CONSTANTS
    Urls,        \* servers the user may type
    Accounts,    \* credentials the user may type
    NoAuth,      \* no authentication
    StoreIDs, ModelIDs,
    Unset,       \* nothing chosen, nothing listed
    Sees,        \* external: the stores an account is shown
    ModelsOf,    \* external: the models of a store
    MaxTourKeys  \* bound: keys

ASSUME TourAssumption ==
    /\ Sees \in [Accounts \cup {NoAuth} -> SUBSET StoreIDs]
    /\ ModelsOf \in [StoreIDs -> SUBSET ModelIDs]
    /\ MaxTourKeys \in Nat
    /\ Unset \notin {"done", "cancelled", "failed"} \cup [of : StoreIDs, rows : SUBSET ModelIDs]
    /\ Unset \notin [of : [url : Urls \cup {Unset}, auth : Accounts \cup {NoAuth}],
                     rows : SUBSET StoreIDs]

VARIABLES
    tour,     \* the wizardModel
    probes,   \* the requests of the tour that have not come back
    strayed,  \* history: whether the user took one of the ways of Strays
    tourKeys

tourVars == <<tour, probes, strayed, tourKeys>>

--------------------------------------------------------------------------------
(* The wizardModel.  typedStore, typedModel and what a picker is `of` are   *)
(* history fields.                                                          *)

NewTour ==
    [step |-> "welcome", entered |-> FALSE, url |-> Unset, auth |-> NoAuth,
     probed |-> FALSE, connErr |-> FALSE, stores |-> {},
     storePick |-> Unset, storeManual |-> FALSE, storeID |-> Unset, typedStore |-> FALSE,
     loading |-> FALSE, modelPick |-> Unset, modelManual |-> FALSE, modelID |-> Unset,
     typedModel |-> FALSE, end |-> Unset]

Connection(t) == [url |-> t.url, auth |-> t.auth]
Probe(kind, about) == [kind |-> kind, about |-> about, id |-> tourKeys]

NoProbe == UNCHANGED probes
Launch(p) == probes' = probes \cup {p}

EnterTest(t) ==
    /\ tour' = [t EXCEPT !.step = "probe", !.probed = FALSE, !.connErr = FALSE, !.stores = {}]
    /\ Launch(Probe("stores", Connection(t)))

(* A list needs a connection and a store; without one an ID is typed.       *)
EnterStore(t) ==
    /\ tour' = IF t.connErr \/ t.stores = {}
               THEN [t EXCEPT !.step = "store", !.storeManual = TRUE]
               ELSE [t EXCEPT !.step = "store", !.storeManual = FALSE,
                              !.storePick = [of |-> Connection(t), rows |-> t.stores]]
    /\ NoProbe

EnterModel(t) ==
    IF t.connErr
    THEN tour' = [t EXCEPT !.step = "model", !.modelManual = TRUE] /\ NoProbe
    ELSE /\ tour' = [t EXCEPT !.step = "model", !.modelManual = FALSE, !.loading = TRUE]
         /\ Launch(Probe("models", t.storeID))

--------------------------------------------------------------------------------
(* Keys.                                                                    *)

TourKey == tourKeys < MaxTourKeys /\ tourKeys' = tourKeys + 1 /\ tour.end = Unset
At(step) == TourKey /\ tour.step = step
Turn(step) == tour' = [tour EXCEPT !.step = step] /\ NoProbe

Begin == At("welcome") /\ Turn("connection")

(* A form that was submitted once stays submitted: any key goes on with the *)
(* first URL.                                                               *)
EnterUrl ==
    /\ At("connection")
    /\ \E u \in IF tour.entered THEN {tour.url} ELSE Urls :
          tour' = [tour EXCEPT !.step = "auth", !.url = u, !.entered = TRUE]
    /\ NoProbe

ChooseMethod ==
    /\ At("auth")
    /\ Turn("details") \/ EnterTest([tour EXCEPT !.auth = NoAuth])

EnterDetails == At("details") /\ \E a \in Accounts : EnterTest([tour EXCEPT !.auth = a])

LeaveTest == At("probe") /\ tour.probed /\ EnterStore(tour)

(* No store, no model to pin.                                               *)
ChosenStore(s, typed) ==
    LET t == [tour EXCEPT !.storeID = s, !.typedStore = typed]
    IN  IF s = Unset
        THEN tour' = [t EXCEPT !.step = "review"] /\ NoProbe
        ELSE EnterModel(t)

TypeStore == At("store") /\ tour.storeManual /\ \E s \in StoreIDs \cup {Unset} : ChosenStore(s, TRUE)

PickStore ==
    /\ At("store") /\ ~tour.storeManual /\ tour.storePick # Unset
    /\ \/ tour' = [tour EXCEPT !.storeManual = TRUE] /\ NoProbe
       \/ \E s \in tour.storePick.rows \cup {Unset} : ChosenStore(s, FALSE)

ChosenModel(i, typed) ==
    tour' = [tour EXCEPT !.step = "review", !.modelID = i, !.typedModel = typed] /\ NoProbe

TypeModel ==
    /\ At("model") /\ ~tour.loading /\ tour.modelManual
    /\ \E i \in ModelIDs \cup {Unset} : ChosenModel(i, TRUE)

PickModel ==
    /\ At("model") /\ ~tour.loading /\ ~tour.modelManual /\ tour.modelPick # Unset
    /\ \/ tour' = [tour EXCEPT !.modelManual = TRUE] /\ NoProbe
       \/ \E i \in tour.modelPick.rows \cup {Unset} : ChosenModel(i, FALSE)

Ends(how) == tour' = [tour EXCEPT !.end = how] /\ probes' = {}
Confirmed == At("review") /\ Ends("done")
CancelTour == TourKey /\ Ends("cancelled")

(* To a list that was typed over; drawing one that was never built fails.   *)
ToList(built, t) == IF built THEN tour' = t /\ NoProbe ELSE Ends("failed")

Back ==
    \/ At("welcome") /\ Ends("cancelled")
    \/ At("connection") /\ Turn("welcome")
    \/ At("auth") /\ Turn("connection")
    \/ At("details") /\ Turn("auth")
    \/ At("probe") /\ Turn(IF tour.auth = NoAuth THEN "auth" ELSE "details")
    \/ /\ At("store") /\ tour.storeManual
       /\ ToList(tour.storePick # Unset, [tour EXCEPT !.storeManual = FALSE])
    \/ At("store") /\ ~tour.storeManual /\ EnterTest(tour)
    \/ /\ At("model") /\ tour.modelManual /\ ~tour.connErr
       /\ ToList(tour.loading \/ tour.modelPick # Unset, [tour EXCEPT !.modelManual = FALSE])
    \/ At("model") /\ ~(tour.modelManual /\ ~tour.connErr) /\ EnterStore(tour)
    \/ At("review") /\ IF tour.storeID = Unset THEN EnterStore(tour) ELSE EnterModel(tour)

--------------------------------------------------------------------------------
(* Answers.                                                                 *)

Arrives(p) == probes' = probes \ {p} /\ UNCHANGED tourKeys /\ tour.end = Unset

StoresArrive(p) ==
    /\ p.kind = "stores"
    /\ Arrives(p)
    /\ \E failed \in BOOLEAN, listed \in SUBSET Sees[p.about.auth] :
          /\ failed \/ listed = Sees[p.about.auth]
          /\ tour' = [tour EXCEPT !.probed = TRUE, !.connErr = failed, !.stores = listed]

MutantMovedOff(p) == FALSE
MovedOff(p) == p.about # tour.storeID

ModelsArrive(p) ==
    /\ p.kind = "models"
    /\ Arrives(p)
    /\ IF MovedOff(p) THEN UNCHANGED tour
       ELSE \E rows \in SUBSET ModelsOf[p.about] :
               tour' = [tour EXCEPT !.loading = FALSE,
                                    !.modelPick = [of |-> p.about, rows |-> rows]]

--------------------------------------------------------------------------------
ListIsCurrent(t) == t.storePick # Unset /\ t.storePick.of = Connection(t)

(* What the tour loses track of: a test that is left before it has          *)
(* answered, a pinned model whose store is given up, a typed store given up *)
(* for the list of another connection or of none.                           *)
Strays ==
    \/ tour.step = "probe" /\ ~tour.probed /\ tour'.step # "probe"
    \/ tour.step = "store" /\ tour'.step = "review" /\ tour.modelID # Unset
    \/ /\ tour.step = "store" /\ tour.storeManual /\ ~ListIsCurrent(tour)
       /\ ~tour'.storeManual \/ tour'.end = "failed"

TourInit == tour = NewTour /\ probes = {} /\ tourKeys = 0 /\ strayed = FALSE

TourStep ==
    \/ Begin \/ EnterUrl \/ ChooseMethod \/ EnterDetails \/ LeaveTest
    \/ TypeStore \/ PickStore \/ TypeModel \/ PickModel
    \/ Confirmed \/ CancelTour \/ Back
    \/ \E p \in probes : StoresArrive(p) \/ ModelsArrive(p)

TourNext == TourStep /\ strayed' = (strayed \/ Strays)

TourSpec == TourInit /\ [][TourNext]_tourVars

--------------------------------------------------------------------------------
(* Properties.                                                              *)

(* What the test reports and the lists offer is of the connection and the   *)
(* store on screen, whatever was asked before and however often the user    *)
(* went back; and a screen that offers a list has one.                      *)
ListsAreCurrent ==
    /\ tour.probed /\ ~tour.connErr /\ tour.step = "probe" => tour.stores = Sees[tour.auth]
    /\ tour.step = "store" /\ ~tour.storeManual => ListIsCurrent(tour)
    /\ tour.step = "model" /\ ~tour.loading /\ ~tour.modelManual =>
          tour.modelPick # Unset /\ tour.modelPick.of = tour.storeID

(* The profile that is confirmed fits together: a model only with the store *)
(* it belongs to, a store only from the account that is saved with it,      *)
(* unless the user typed them.                                              *)
ProfileFits ==
    tour.step = "review" =>
        /\ tour.modelID # Unset =>
              tour.storeID # Unset /\ (tour.typedModel \/ tour.modelID \in ModelsOf[tour.storeID])
        /\ tour.storeID # Unset => tour.typedStore \/ tour.storeID \in Sees[tour.auth]

(* The tour shows and confirms what is true, and never breaks off, unless   *)
(* the user has strayed.                                                    *)
TourIsTrue == ~strayed => tour.end # "failed" /\ ListsAreCurrent /\ ProfileFits
================================================================================
