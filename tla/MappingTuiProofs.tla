---------------------------- MODULE MappingTuiProofs ----------------------------
(***************************************************************************)
(* Theorems about the mapping workspace's interface, for any documents,    *)
(* edits and choices of a model (MappingChecks), and for any rules, lists, *)
(* tests and keys (MappingEditor).                                         *)
(***************************************************************************)
EXTENDS MappingTui, SequenceTheorems, TLAPS

-------------------------------------------------------------------------------
(* What is shown about the document.  A result can do harm only if it       *)
(* carries the current number: then no document, and no choice of a model, *)
(* has come after what it is of.                                           *)

ChecksTypes ==
    /\ testsGen \in Nat /\ modelGen \in Nat
    /\ broken \in BOOLEAN /\ fresh \in BOOLEAN /\ tick \in BOOLEAN
    /\ testing \in BOOLEAN /\ fetching \in BOOLEAN
    /\ ~broken => doc \in Docs

(* A broken file is not edited, so that no tick is on its way.             *)
BrokenRests == broken => ~tick

TestsAre ==
    \A f \in flights : f.kind = "tests" =>
        /\ f.gen \in Nat /\ f.gen <= testsGen
        /\ f.gen = testsGen /\ ~tick => f.of = Shown
FetchesAre ==
    \A f \in flights : f.kind = "fetch" => f.gen \in Nat /\ f.gen <= modelGen

ChecksInv == ChecksTypes /\ BrokenRests /\ TestsAre /\ FetchesAre /\ ScreenIsCurrent

LEMMA ChecksInitHolds == Init \/ NothingChecked => ChecksInv
<1>1. ASSUME Init PROVE ChecksInv
  <2>1. ChecksTypes /\ BrokenRests
    BY <1>1 DEF Init, ChecksTypes, BrokenRests
  <2>2. TestsAre /\ FetchesAre
    BY <1>1 DEF Init, TestsAre, FetchesAre, Shown
  <2>3. ScreenIsCurrent
    BY <1>1 DEF Init, ScreenIsCurrent, Shown
  <2> QED
    BY <2>1, <2>2, <2>3 DEF ChecksInv
<1>2. ASSUME NothingChecked PROVE ChecksInv
  <2>1. ChecksTypes /\ BrokenRests /\ TestsAre /\ FetchesAre /\ ScreenIsCurrent
    <3>1. fresh \in BOOLEAN
      BY <1>2 DEF NothingChecked
    <3> QED
      BY <1>2, <3>1 DEF NothingChecked, ChecksTypes, BrokenRests, TestsAre, FetchesAre, ScreenIsCurrent, Shown
  <2> QED
    BY <2>1 DEF ChecksInv
<1> QED
  BY <1>1, <1>2

(* A new run is the current one, and of the document it was started for.   *)
LEMMA RunsStart ==
    ASSUME ChecksInv, NEW d \in Docs \cup {None}, d = Shown', StartTestsRun(d, flights),
           RunCheck(d, model), UNCHANGED chosen, ~tick', tick' \in BOOLEAN,
           broken' \in BOOLEAN, fresh' \in BOOLEAN, ~broken' => doc' \in Docs
    PROVE  ChecksInv'
<1>1. /\ ChecksTypes /\ TestsAre /\ FetchesAre /\ ScreenIsCurrent /\ testsGen \in Nat /\ modelGen \in Nat
      /\ model' = model /\ modelGen' = modelGen /\ fetching' = fetching /\ fetching \in BOOLEAN
  BY DEF ChecksInv, ChecksTypes, chosen
<1>2. /\ testsGen' = testsGen + 1 /\ testing' = (d # None)
      /\ findings' = [doc |-> d, model |-> model]
      /\ IF d = None THEN badge' = None /\ flights' = flights
         ELSE flights' = flights \cup {[kind |-> "tests", gen |-> testsGen + 1, of |-> d]}
  BY DEF StartTestsRun, RunCheck
<1>3. ChecksTypes' /\ BrokenRests'
  BY <1>1, <1>2 DEF ChecksTypes, BrokenRests
<1>4. TestsAre'
  <2> SUFFICES ASSUME NEW f \in flights', f.kind = "tests"
               PROVE  f.gen \in Nat /\ f.gen <= testsGen' /\ (f.gen = testsGen' => f.of = Shown')
    BY DEF TestsAre
  <2>1. CASE f \in flights
    BY <1>1, <1>2, <2>1 DEF TestsAre
  <2>2. CASE f = [kind |-> "tests", gen |-> testsGen + 1, of |-> d]
    BY <1>1, <1>2, <2>2
  <2> QED
    BY <1>2, <2>1, <2>2
<1>5. FetchesAre'
  BY <1>1, <1>2 DEF FetchesAre
<1>6. ScreenIsCurrent'
  <2>1. findings'.doc = d /\ findings'.model = model'
    BY <1>1, <1>2
  <2>2. ~testing' => badge' = Shown'
    BY <1>2
  <2>3. ~fetching' /\ model' # None => model'.gen = modelGen'
    BY <1>1 DEF ScreenIsCurrent
  <2> QED
    BY <2>1, <2>2, <2>3 DEF ScreenIsCurrent
<1> QED
  BY <1>3, <1>4, <1>5, <1>6 DEF ChecksInv

LEMMA EditsHold ==
    ASSUME ChecksInv, \/ \E d \in Docs : Edit(d)
                      \/ \E d \in Docs \cup {None} : Reload(d)
                      \/ Debounced
    PROVE  ChecksInv'
<1>1. ASSUME NEW d \in Docs, Edit(d) PROVE ChecksInv'
  BY <1>1 DEF Edit, ChecksInv, ChecksTypes, BrokenRests, TestsAre, FetchesAre, ScreenIsCurrent, tested, chosen
<1>2. ASSUME NEW d \in Docs \cup {None}, Reload(d) PROVE ChecksInv'
  <2>1. /\ broken' = (d = None) /\ doc' = (IF d = None THEN doc ELSE d) /\ fresh' = FALSE /\ tick' = FALSE
        /\ RunCheck(d, model) /\ StartTestsRun(d, flights) /\ UNCHANGED chosen
    BY <1>2 DEF Reload
  <2>2. d = Shown'
    BY <2>1 DEF Shown
  <2> QED
    BY <2>1, <2>2, RunsStart
<1>3. ASSUME Debounced PROVE ChecksInv'
  <2>1. tick /\ tick' = FALSE /\ UNCHANGED <<doc, broken, fresh, chosen>>
        /\ RunCheck(Shown, model) /\ StartTestsRun(Shown, flights)
    BY <1>3 DEF Debounced, Shown
  <2>2. ~broken /\ doc \in Docs /\ broken \in BOOLEAN /\ fresh \in BOOLEAN
    BY <2>1 DEF ChecksInv, ChecksTypes, BrokenRests
  <2>3. Shown = doc /\ Shown' = doc
    BY <2>1, <2>2 DEF Shown
  <2> QED
    BY <2>1, <2>2, <2>3, RunsStart
<1> QED
  BY <1>1, <1>2, <1>3

(* A late result is told by its number.                                    *)
LEMMA ResultsHold ==
    ASSUME ChecksInv, NEW f \in flights, TestsArrived(f) \/ ModelArrived(f)
    PROVE  ChecksInv'
<1>1. /\ ChecksTypes /\ BrokenRests /\ TestsAre /\ FetchesAre /\ ScreenIsCurrent /\ flights' \subseteq flights
      /\ UNCHANGED <<doc, broken, fresh, tick, testsGen, modelGen>> /\ Shown' = Shown
  BY DEF ChecksInv, TestsArrived, ModelArrived, tested, chosen, Shown
<1>2. TestsAre' /\ FetchesAre' /\ BrokenRests'
  BY <1>1 DEF TestsAre, FetchesAre, BrokenRests
<1>3. CASE TestsArrived(f)
  <2>1. f.kind = "tests" /\ UNCHANGED <<findings, model, fetching>>
        /\ IF f.gen # testsGen THEN UNCHANGED <<badge, testing>> ELSE badge' = f.of /\ testing' = FALSE
    BY <1>3 DEF TestsArrived, StaleTests, chosen
  <2>2. ChecksTypes'
    BY <1>1, <2>1 DEF ChecksTypes
  <2>3. ~tick' /\ ~testing' => badge' = Shown'
    BY <1>1, <2>1 DEF TestsAre, ScreenIsCurrent
  <2>4. ScreenIsCurrent'
    BY <1>1, <2>1, <2>3 DEF ScreenIsCurrent
  <2> QED
    BY <1>2, <2>2, <2>4 DEF ChecksInv
<1>4. CASE ModelArrived(f)
  <2>1. UNCHANGED <<badge, testing>>
        /\ IF f.gen # modelGen THEN UNCHANGED <<model, fetching, findings>>
           ELSE /\ fetching' = FALSE /\ model' \in {None, [kind |-> "store", gen |-> f.gen]}
                /\ findings' = [doc |-> Shown, model |-> model']
    BY <1>4 DEF ModelArrived, StaleModel, tested, RunCheck, Shown
  <2>2. ChecksTypes'
    BY <1>1, <2>1 DEF ChecksTypes
  <2>3. CASE f.gen # modelGen
    BY <1>1, <1>2, <2>1, <2>2, <2>3 DEF ScreenIsCurrent, ChecksInv
  <2>4. CASE f.gen = modelGen
    <3>1. findings'.model = model' /\ findings'.doc = Shown' /\ (model' # None => model'.gen = modelGen')
      BY <1>1, <2>1, <2>4
    <3>2. ScreenIsCurrent'
      BY <1>1, <2>1, <3>1 DEF ScreenIsCurrent
    <3> QED
      BY <1>2, <2>2, <3>2 DEF ChecksInv
  <2> QED
    BY <2>3, <2>4
<1> QED
  BY <1>3, <1>4

(* A choice of a model makes every fetch on its way late.                  *)
LEMMA ChoicesHold ==
    ASSUME ChecksInv, ChooseFile \/ ChooseStore \/ FirstSave
    PROVE  ChecksInv'
<1>1. /\ ChecksTypes /\ BrokenRests /\ TestsAre /\ FetchesAre /\ ScreenIsCurrent /\ modelGen \in Nat /\ fresh \in BOOLEAN
  BY DEF ChecksInv, ChecksTypes
<1>2. ASSUME NEW x \in {None, [kind |-> "file", gen |-> modelGen + 1]}, UseModel(x), fresh' \in BOOLEAN
      PROVE  ChecksInv'
  <2>1. /\ model' = x /\ fetching' = FALSE /\ modelGen' = modelGen + 1
        /\ findings' = [doc |-> Shown, model |-> x] /\ Shown' = Shown
        /\ UNCHANGED <<doc, broken, tick, badge, testsGen, testing, flights>>
    BY <1>2 DEF UseModel, RunCheck, Shown, tested
  <2>2. ChecksTypes' /\ BrokenRests' /\ TestsAre'
    <3>1. fresh' \in BOOLEAN /\ modelGen' \in Nat
      BY <1>1, <1>2, <2>1
    <3>2. ChecksTypes'
      BY <1>1, <2>1, <3>1 DEF ChecksTypes
    <3>3. BrokenRests' /\ TestsAre'
      BY <1>1, <2>1 DEF BrokenRests, TestsAre
    <3> QED
      BY <3>2, <3>3
  <2>3. FetchesAre'
    BY <1>1, <2>1 DEF FetchesAre
  <2>4. ScreenIsCurrent'
    BY <1>1, <2>1 DEF ScreenIsCurrent
  <2> QED
    BY <2>2, <2>3, <2>4 DEF ChecksInv
<1>3. CASE ChooseFile
  BY <1>1, <1>2, <1>3 DEF ChooseFile
<1>4. CASE ChooseStore
  <2>1. /\ modelGen' = modelGen + 1 /\ fetching' = TRUE
        /\ flights' = flights \cup {[kind |-> "fetch", gen |-> modelGen + 1, of |-> None]}
        /\ UNCHANGED <<doc, broken, fresh, tick, badge, testsGen, testing, findings, model>> /\ Shown' = Shown
    BY <1>4 DEF ChooseStore, tested, Shown
  <2>2. ChecksTypes' /\ BrokenRests' /\ TestsAre'
    BY <1>1, <2>1 DEF ChecksTypes, BrokenRests, TestsAre
  <2>3. FetchesAre'
    BY <1>1, <2>1 DEF FetchesAre
  <2>4. ScreenIsCurrent'
    BY <1>1, <2>1 DEF ScreenIsCurrent
  <2> QED
    BY <2>2, <2>3, <2>4 DEF ChecksInv
<1>5. CASE FirstSave
  <2>1. fresh' = FALSE
        /\ \/ \E x \in {None, [kind |-> "file", gen |-> modelGen + 1]} : UseModel(x)
           \/ UNCHANGED <<doc, broken, tick, tested, findings, chosen, flights, busy, edits>>
    BY <1>5 DEF FirstSave
  <2>2. CASE UNCHANGED <<doc, broken, tick, tested, findings, chosen, flights, busy, edits>>
    BY <1>1, <2>1, <2>2
    DEF ChecksInv, ChecksTypes, BrokenRests, TestsAre, FetchesAre, ScreenIsCurrent, Shown, tested, chosen
  <2> QED
    BY <1>2, <2>1, <2>2
<1> QED
  BY <1>3, <1>4, <1>5

LEMMA ChecksStutter == ChecksInv /\ UNCHANGED vars => ChecksInv'
BY DEF ChecksInv, ChecksTypes, BrokenRests, TestsAre, FetchesAre, ScreenIsCurrent, Shown, vars

LEMMA ChecksHold == ChecksInv /\ [Next]_vars => ChecksInv'
BY EditsHold, ResultsHold, ChoicesHold, ChecksStutter DEF Next

(* A step of the interface is one of the checks', or leaves them alone.    *)
LEMMA TuiChecks == [TuiNext]_<<vars, editorVars>> => [Next]_vars
BY DEF TuiNext

(* Whatever runs, fetches and ticks are on their way, and in whatever order *)
(* they come: the findings are judged against the model in use, and once   *)
(* typing has paused they and the badge are of the document on screen, and *)
(* the model is the one chosen last (debounced, testsArrived, useModel,    *)
(* storeModelArrived).                                                     *)
THEOREM ScreenIsAlwaysCurrent == TuiSpec => []ScreenIsCurrent
<1>1. TuiInit => ChecksInv
  BY ChecksInitHolds DEF TuiInit
<1>2. ChecksInv /\ [TuiNext]_<<vars, editorVars>> => ChecksInv'
  BY ChecksHold, TuiChecks
<1>3. ChecksInv => ScreenIsCurrent
  BY DEF ChecksInv
<1> QED
  BY <1>1, <1>2, <1>3, PTL DEF TuiSpec
-------------------------------------------------------------------------------
(* The editors.  A pane's pile is ordered: an editor opens only editors of a *)
(* higher level, so that no form is open under a list and nothing but the  *)
(* list of rules under a question about deleting one.                      *)

OfRule ==
    {"rule", "delete", "trigger", "action", "iterHub", "iterForm", "list", "form", "paths"}
OfTest == {"editor", "name", "expect", "deleteTest"}
OfEvents == {"pick", "paste", "file", "discard"}
Kinds(p) == OfEvents \cup IF p = "tests" THEN OfTest \cup {"tests"}
                          ELSE OfRule \cup {"hub", "fork", "recipe"}

Level(k) ==
    CASE k \in {"hub", "tests"} -> 0
      [] k \in {"rule", "delete", "fork", "editor", "deleteTest"} -> 1
      [] k \in {"iterHub", "trigger", "action", "name", "expect"} -> 2
      [] k \in {"list", "iterForm"} -> 3
      [] k = "form" -> 4
      [] k \in {"paths", "pick"} -> 5
      [] k \in {"paste", "file", "recipe"} -> 6
      [] OTHER -> 7

Framed(f) ==
    f = [kind |-> f.kind, rule |-> f.rule, rid |-> f.rid, sec |-> f.sec, at |-> f.at,
         id |-> f.id, rows |-> f.rows, text |-> f.text]

(* What an editor was opened over, where it closes that too.               *)
Over(g, f) ==
    /\ f.kind \in {"paste", "file"} => g.kind = "pick"
    /\ f.kind = "discard" => g.kind = "paste"
    /\ f.kind = "recipe" => g.kind = "fork"
    /\ f.kind = "pick" => /\ g.kind \in {"fork", "trigger", "tests", "editor"}
                          /\ f.text = (g.kind = "fork")

Pile(p, s) ==
    /\ s \in Seq(ToSet(s)) /\ s # <<>> /\ Level(s[1].kind) = 0
    /\ \A i \in 1..Len(s) : Framed(s[i]) /\ s[i].kind \in Kinds(p)
    /\ \A i \in 1..(Len(s) - 1) : Over(s[i], s[i + 1])
    /\ \A i, j \in 1..Len(s) : i < j => Level(s[i].kind) < Level(s[j].kind)

Shapes ==
    /\ stacks = [p \in {"rules", "tests"} |-> stacks[p]]
    /\ \A p \in {"rules", "tests"} : Pile(p, stacks[p])
    /\ late = [pane |-> late.pane, live |-> late.live, rows |-> late.rows]
    /\ late.live \in BOOLEAN /\ (late.live => late.pane \in {"rules", "tests"})

(* What an editor works on is what it was opened on.                       *)
Fits(f, d) ==
    /\ IF f.kind \in OfRule THEN f.rule \in 1..Len(d.rules) /\ d.rules[f.rule].id = f.rid
       ELSE f.rule = 0
    /\ f.kind \in {"list", "form"} => f.sec \in Lists
    /\ f.kind = "form" =>
          LET s == d.rules[f.rule].lists[f.sec] IN f.at \in 1..Len(s) /\ s[f.at] = f.id
    /\ f.kind \in OfTest => f.at \in 1..Len(d.tests) /\ d.tests[f.at].id = f.id
AllFit(s, d) == \A i \in 1..Len(s) : Fits(s[i], d)

(* A question, and matches on their way, are of the document as it is.     *)
DropHolds ==
    asked.kind = "drop" =>
       /\ asked.rule \in Nat \ {0} /\ asked.sec \in Sections \cup {""}
       /\ asked.rule <= Len(draft.rules) => draft.rules[asked.rule].id = asked.rid
MatchesHold ==
    late.live => LET f == Last(stacks[late.pane]) IN
                 f.kind \in Listing => late.rows = Rows(f, draft)

Targets ==
    /\ draft \in Documents /\ created \in Nat /\ DOMAIN found \subseteq Nat \ {0}
    /\ \A p \in {"rules", "tests"} : AllFit(stacks[p], draft)
    /\ RowsAreCurrent /\ DropHolds /\ MatchesHold

EditorInv == Shapes /\ FindingsHold /\ ReadOnlyHolds /\ (raced \/ Targets)

-------------------------------------------------------------------------------
(* Piles.                                                                  *)

LEMMA LevelIs ==
    /\ \A k : Level(k) \in Nat
    /\ \A k \in OfEvents \cup OfTest \cup OfRule \cup {"hub", "tests", "fork", "recipe"} :
          Level(k) = 0 <=> k \in {"hub", "tests"}
BY DEF Level, OfEvents, OfTest, OfRule

LEMMA ListOf ==
    ASSUME NEW T, NEW s \in Seq(T)
    PROVE  s \in Seq(ToSet(s))
<1>1. DOMAIN s = 1..Len(s) /\ Len(s) \in Nat /\ s = [i \in 1..Len(s) |-> s[i]]
  OBVIOUS
<1>2. \A i \in 1..Len(s) : s[i] \in ToSet(s)
  BY <1>1 DEF ToSet
<1> HIDE DEF ToSet
<1> QED
  BY <1>1, <1>2

LEMMA PushIs ==
    ASSUME NEW s, s \in Seq(ToSet(s)), NEW x
    PROVE  /\ Append(s, x) \in Seq(ToSet(Append(s, x))) /\ Append(s, x) # <<>>
           /\ Len(s) \in Nat /\ Len(Append(s, x)) = Len(s) + 1
           /\ \A i \in 1..Len(s) : Append(s, x)[i] = s[i]
           /\ Append(s, x)[Len(s) + 1] = x
<1> DEFINE T == ToSet(s) \cup {x}
<1>1. s \in Seq(T) /\ x \in T /\ Len(s) \in Nat
  OBVIOUS
<1> HIDE DEF T
<1> DEFINE t == Append(s, x)
<1>2. /\ t \in Seq(T) /\ t # <<>> /\ Len(t) = Len(s) + 1
      /\ \A i \in 1..Len(s) : t[i] = s[i]
      /\ t[Len(s) + 1] = x
  BY <1>1, AppendProperties
<1> HIDE DEF t
<1>3. t \in Seq(ToSet(t))
  BY <1>2, ListOf
<1> QED
  BY <1>1, <1>2, <1>3 DEF t

LEMMA FrontIs ==
    ASSUME NEW s, s \in Seq(ToSet(s)), s # <<>>
    PROVE  /\ Front(s) \in Seq(ToSet(Front(s)))
           /\ Len(s) \in Nat \ {0} /\ Len(Front(s)) = Len(s) - 1
           /\ \A i \in 1..(Len(s) - 1) : Front(s)[i] = s[i]
<1> DEFINE T == ToSet(s)
           t == Front(s)
           n == Len(s) - 1
<1>1. s \in Seq(T) /\ Len(s) \in Nat \ {0}
  BY EmptySeq
<1> HIDE DEF T
<1>2. n \in Nat /\ n \in Int /\ 1 \in Int /\ \A i \in 1..n : i \in 1..Len(s) /\ s[i] \in T
  BY <1>1, ElementOfSeq
<1>3. t = SubSeq(s, 1, n)
  BY DEF Front
<1> HIDE DEF t, n
<1>4. /\ t \in Seq(T) /\ Len(t) = (IF 1 <= n THEN n - 1 + 1 ELSE 0)
      /\ \A i \in 1..(n - 1 + 1) : t[i] = s[1 + i - 1]
  BY <1>2, <1>3, SubSeqProperties
<1>5. Len(t) = n /\ \A i \in 1..n : t[i] = s[i]
  <2>1. (IF 1 <= n THEN n - 1 + 1 ELSE 0) = n /\ n - 1 + 1 = n /\ \A i \in 1..n : 1 + i - 1 = i
    BY <1>2
  <2> QED
    BY <1>4, <2>1
<1>6. t \in Seq(ToSet(t))
  BY <1>4, ListOf
<1> QED
  BY <1>1, <1>5, <1>6 DEF t, n

(* One of a pile changes its rows or what was typed in it.                 *)
Alike(f, g) ==
    /\ Framed(f) /\ f.kind = g.kind /\ f.rule = g.rule /\ f.rid = g.rid /\ f.sec = g.sec
    /\ f.at = g.at /\ f.id = g.id

LEMMA AlikeIs ==
    ASSUME NEW f, NEW g, Alike(f, g), NEW d
    PROVE  (Fits(g, d) => Fits(f, d)) /\ Rows(f, d) = Rows(g, d)
<1>1. f.kind = g.kind /\ f.rule = g.rule /\ f.rid = g.rid /\ f.sec = g.sec /\ f.at = g.at /\ f.id = g.id
  BY DEF Alike
<1>2. Fits(g, d) => Fits(f, d)
  BY <1>1 DEF Fits
<1>3. ItemsOf(d, f) = ItemsOf(d, g)
  BY <1>1 DEF ItemsOf
<1>4. Rows(f, d) = Rows(g, d)
  BY <1>1, <1>3 DEF Rows
<1> QED
  BY <1>2, <1>4

LEMMA SyncedIs ==
    ASSUME NEW f, Framed(f), NEW d
    PROVE  /\ Alike(Synced(f, d), f) /\ Synced(f, d).text = f.text
           /\ Synced(f, d).rows = Rows(Synced(f, d), d)
<1> DEFINE r == Rows(f, d)
<1>1. Synced(f, d) = [kind |-> f.kind, rule |-> f.rule, rid |-> f.rid, sec |-> f.sec, at |-> f.at,
                      id |-> f.id, rows |-> r, text |-> f.text]
  BY DEF Synced, Framed
<1> HIDE DEF r
<1>2. Alike(Synced(f, d), f) /\ Synced(f, d).text = f.text /\ Synced(f, d).rows = r
  BY <1>1 DEF Alike, Framed
<1>3. Rows(Synced(f, d), d) = r
  BY <1>2, AlikeIs DEF r
<1> QED
  BY <1>2, <1>3

LEMMA PilePush ==
    ASSUME NEW p, NEW s, Pile(p, s), NEW f, Framed(f), f.kind \in Kinds(p), Over(Last(s), f),
           Level(Last(s).kind) < Level(f.kind)
    PROVE  /\ Pile(p, Append(s, f)) /\ Last(Append(s, f)) = f
           /\ \A d : AllFit(s, d) /\ Fits(f, d) => AllFit(Append(s, f), d)
<1> DEFINE t == Append(s, f)
           n == Len(s)
<1>1. /\ s \in Seq(ToSet(s)) /\ s # <<>> /\ Level(s[1].kind) = 0
      /\ \A i \in 1..n : Framed(s[i]) /\ s[i].kind \in Kinds(p)
      /\ \A i \in 1..(n - 1) : Over(s[i], s[i + 1])
      /\ \A i, j \in 1..n : i < j => Level(s[i].kind) < Level(s[j].kind)
  BY DEF Pile
<1>2. /\ t \in Seq(ToSet(t)) /\ t # <<>> /\ n \in Nat /\ Len(t) = n + 1
      /\ \A i \in 1..n : t[i] = s[i]
      /\ t[n + 1] = f
  BY <1>1, PushIs
<1>3. n # 0
  BY <1>1, EmptySeq
<1>4. s[n] = Last(s)
  BY DEF Last
<1> HIDE DEF t, n
<1>5. Last(t) = f
  BY <1>2 DEF Last
<1>6. \A i \in 1..Len(t) : i \in 1..n \/ i = n + 1
  BY <1>2
<1>7. \A i \in 1..Len(t) : Framed(t[i]) /\ t[i].kind \in Kinds(p)
  BY <1>1, <1>2, <1>6
<1>8. ASSUME NEW i \in 1..(Len(t) - 1) PROVE Over(t[i], t[i + 1])
  <2>1. i \in 1..n /\ (i = n \/ (i \in 1..(n - 1) /\ i + 1 \in 1..n))
    BY <1>2
  <2> QED
    BY <1>1, <1>2, <1>4, <2>1
<1>9. ASSUME NEW i \in 1..Len(t), NEW j \in 1..Len(t), i < j
      PROVE  Level(t[i].kind) < Level(t[j].kind)
  <2>1. CASE j \in 1..n
    <3>1. i \in 1..n
      BY <1>2, <1>9, <2>1
    <3> QED
      BY <1>1, <1>2, <1>9, <2>1, <3>1
  <2>2. CASE j = n + 1
    <3>1. i \in 1..n /\ n \in 1..n /\ (i = n \/ i < n)
      BY <1>2, <1>3, <1>9, <2>2
    <3>2. Level(s[i].kind) <= Level(s[n].kind)
      <4>1. CASE i = n
        BY <4>1, LevelIs
      <4>2. CASE i < n
        <5>1. Level(s[i].kind) < Level(s[n].kind)
          BY <1>1, <3>1, <4>2
        <5> QED
          BY <5>1, LevelIs
      <4> QED
        BY <3>1, <4>1, <4>2
    <3>3. t[i] = s[i] /\ t[j] = f /\ Level(s[n].kind) < Level(f.kind)
      BY <1>2, <1>4, <2>2, <3>1
    <3> QED
      BY <3>2, <3>3, LevelIs
  <2> QED
    BY <1>6, <2>1, <2>2
<1>10. Level(t[1].kind) = 0
  <2>1. 1 \in 1..n
    BY <1>2, <1>3
  <2> QED
    BY <1>1, <1>2, <2>1
<1>11. Pile(p, t)
  BY <1>2, <1>7, <1>8, <1>9, <1>10 DEF Pile
<1>12. \A d : AllFit(s, d) /\ Fits(f, d) => AllFit(t, d)
  BY <1>2, <1>6 DEF AllFit, n
<1> QED
  BY <1>5, <1>11, <1>12 DEF t

LEMMA PilePop ==
    ASSUME NEW p, NEW s, Pile(p, s), Level(Last(s).kind) # 0
    PROVE  /\ Pile(p, Front(s)) /\ Over(Last(Front(s)), Last(s))
           /\ Level(Last(Front(s)).kind) < Level(Last(s).kind)
           /\ \A d : AllFit(s, d) => AllFit(Front(s), d)
<1> DEFINE t == Front(s)
           n == Len(s)
<1>1. /\ s \in Seq(ToSet(s)) /\ s # <<>> /\ Level(s[1].kind) = 0
      /\ \A i \in 1..n : Framed(s[i]) /\ s[i].kind \in Kinds(p)
      /\ \A i \in 1..(n - 1) : Over(s[i], s[i + 1])
      /\ \A i, j \in 1..n : i < j => Level(s[i].kind) < Level(s[j].kind)
  BY DEF Pile
<1>2. /\ t \in Seq(ToSet(t)) /\ n \in Nat \ {0} /\ Len(t) = n - 1
      /\ \A i \in 1..(n - 1) : t[i] = s[i]
  BY <1>1, FrontIs
<1>3. Last(s) = s[n]
  BY DEF Last
<1>4. n # 1
  BY <1>1, <1>3
<1> HIDE DEF t, n
<1>5. /\ n - 1 \in 1..(n - 1) /\ n - 1 \in 1..n /\ n \in 1..n /\ n - 1 < n /\ 1 \in 1..(n - 1)
      /\ n - 1 + 1 = n /\ Len(t) # 0
      /\ \A i \in 1..Len(t) : i \in 1..(n - 1) /\ i \in 1..n
      /\ \A i \in 1..(Len(t) - 1) : i \in 1..(n - 1) /\ i + 1 \in 1..(n - 1)
  BY <1>2, <1>4
<1>6. t # <<>>
  BY <1>5, EmptySeq
<1>7. Last(t) = s[n - 1]
  BY <1>2, <1>5 DEF Last
<1>8. Over(Last(t), Last(s)) /\ Level(Last(t).kind) < Level(Last(s).kind)
  <2>1. Over(s[n - 1], s[n - 1 + 1]) /\ Level(s[n - 1].kind) < Level(s[n].kind)
    BY <1>1, <1>5
  <2> QED
    BY <1>3, <1>5, <1>7, <2>1
<1>9. \A i \in 1..(Len(t) - 1) : Over(t[i], t[i + 1])
  <2> SUFFICES ASSUME NEW i \in 1..(Len(t) - 1) PROVE Over(t[i], t[i + 1])
    OBVIOUS
  <2>1. i \in 1..(n - 1) /\ t[i] = s[i] /\ t[i + 1] = s[i + 1]
    BY <1>2, <1>5
  <2> QED
    BY <1>1, <2>1
<1>10. Pile(p, t)
  BY <1>1, <1>2, <1>5, <1>6, <1>9 DEF Pile
<1>11. \A d : AllFit(s, d) => AllFit(t, d)
  BY <1>2, <1>5 DEF AllFit, n
<1> QED
  BY <1>8, <1>10, <1>11 DEF t

LEMMA PileTop ==
    ASSUME NEW p, NEW s, Pile(p, s)
    PROVE  /\ Len(s) \in 1..Len(s) /\ Framed(Last(s)) /\ Last(s).kind \in Kinds(p)
           /\ \A d : AllFit(s, d) => Fits(Last(s), d)
           /\ Last(s).kind \notin {"hub", "tests"} => Level(Last(s).kind) # 0
<1>1. s \in Seq(ToSet(s)) /\ s # <<>> /\ \A i \in 1..Len(s) : Framed(s[i]) /\ s[i].kind \in Kinds(p)
  BY DEF Pile
<1>2. Len(s) \in Nat \ {0}
  BY <1>1, FrontIs
<1>3. Len(s) \in 1..Len(s) /\ Last(s) = s[Len(s)]
  BY <1>2 DEF Last
<1>4. Last(s).kind \notin {"hub", "tests"} => Level(Last(s).kind) # 0
  BY <1>1, <1>3, LevelIs DEF Kinds
<1> QED
  BY <1>1, <1>3, <1>4 DEF AllFit

LEMMA Retop ==
    ASSUME NEW p, NEW s, Pile(p, s), NEW f, Alike(f, Last(s)),
           f.kind = "pick" => f.text = Last(s).text,
           NEW t, t \in Seq(ToSet(t)), Len(t) = Len(s),
           \A i \in 1..(Len(s) - 1) : t[i] = s[i], t[Len(s)] = f
    PROVE  /\ Pile(p, t) /\ Last(t) = f
           /\ \A d : AllFit(s, d) => AllFit(t, d)
           /\ f.text = Last(s).text /\ Holds(s) => Holds(t)
<1> DEFINE n == Len(s)
<1>1. /\ s \in Seq(ToSet(s)) /\ s # <<>> /\ Level(s[1].kind) = 0
      /\ \A i \in 1..n : Framed(s[i]) /\ s[i].kind \in Kinds(p)
      /\ \A i \in 1..(n - 1) : Over(s[i], s[i + 1])
      /\ \A i, j \in 1..n : i < j => Level(s[i].kind) < Level(s[j].kind)
  BY DEF Pile
<1>2. n \in Nat \ {0} /\ n \in 1..n /\ s[n] = Last(s) /\ Len(t) = n /\ t[n] = f
  <2>1. n \in Nat \ {0}
    BY <1>1, FrontIs
  <2> QED
    BY <2>1 DEF Last
<1>3. \A i \in 1..n : i = n \/ i \in 1..(n - 1)
  BY <1>2
<1>4. ASSUME NEW i \in 1..n PROVE t[i].kind = s[i].kind /\ Framed(t[i]) /\ (i # n => t[i] = s[i])
  BY <1>1, <1>2, <1>3 DEF Alike
<1>5. Last(t) = f /\ t # <<>>
  <2>1. Len(t) # 0
    BY <1>2
  <2> QED
    BY <1>2, <2>1, EmptySeq DEF Last
<1>6. ASSUME NEW i \in 1..(n - 1) PROVE Over(t[i], t[i + 1])
  <2>1. i \in 1..n /\ i # n /\ i + 1 \in 1..n /\ t[i] = s[i] /\ Over(s[i], s[i + 1])
    BY <1>1, <1>2
  <2>2. CASE i + 1 = n
    BY <1>2, <2>1, <2>2 DEF Over, Alike
  <2>3. CASE i + 1 # n
    BY <1>4, <2>1, <2>3
  <2> QED
    BY <2>2, <2>3
<1> HIDE DEF n
<1>7. Pile(p, t)
  <2>1. 1 \in 1..n
    BY <1>2
  <2> QED
    BY <1>1, <1>2, <1>4, <1>5, <1>6, <2>1 DEF Pile
<1>8. ASSUME NEW d, AllFit(s, d) PROVE AllFit(t, d)
  <2>1. \A i \in 1..n : Fits(s[i], d)
    BY <1>8 DEF AllFit, n
  <2>2. ASSUME NEW i \in 1..n PROVE Fits(t[i], d)
    <3>1. CASE i = n
      BY <1>2, <2>1, <3>1, AlikeIs
    <3>2. CASE i # n
      BY <1>4, <2>1, <3>2
    <3> QED
      BY <3>1, <3>2
  <2> QED
    BY <1>2, <2>2 DEF AllFit
<1>9. ASSUME f.text = Last(s).text, Holds(s) PROVE Holds(t)
  <2>1. DOMAIN s = 1..n /\ DOMAIN t = 1..n
    BY <1>1, <1>2 DEF n
  <2>2. \A i \in 1..n : t[i].kind = s[i].kind /\ t[i].text = s[i].text
    BY <1>2, <1>4, <1>9
  <2> QED
    BY <1>9, <2>1, <2>2 DEF Holds
<1> QED
  BY <1>5, <1>7, <1>8, <1>9

LEMMA ResumedIs ==
    ASSUME NEW p, NEW s, Pile(p, s), NEW d
    PROVE  LET t == Resumed(s, d)
           IN  /\ Pile(p, t) /\ Alike(Last(t), Last(s)) /\ Last(t).rows = Rows(Last(t), d)
               /\ \A e : AllFit(s, e) => AllFit(t, e)
               /\ Holds(s) => Holds(t)
               /\ Len(t) = Len(s) /\ (\A i \in 1..Len(s) : t[i].kind = s[i].kind)
<1> DEFINE g == Front(s)
           f == Synced(Last(s), d)
           t == Append(g, f)
<1>1. s \in Seq(ToSet(s)) /\ s # <<>> /\ Framed(Last(s))
  BY PileTop DEF Pile
<1>2. /\ g \in Seq(ToSet(g)) /\ Len(s) \in Nat \ {0} /\ Len(g) = Len(s) - 1
      /\ \A i \in 1..(Len(s) - 1) : g[i] = s[i]
  BY <1>1, FrontIs
<1>3. Alike(f, Last(s)) /\ f.text = Last(s).text /\ f.rows = Rows(f, d)
  BY <1>1, SyncedIs
<1> HIDE DEF f, g
<1>4. /\ t \in Seq(ToSet(t)) /\ Len(t) = Len(g) + 1
      /\ \A i \in 1..Len(g) : t[i] = g[i]
      /\ t[Len(g) + 1] = f
  BY <1>2, PushIs
<1> HIDE DEF t
<1>5. Len(t) = Len(s) /\ (\A i \in 1..(Len(s) - 1) : t[i] = s[i]) /\ t[Len(s)] = f
  <2>1. Len(g) + 1 = Len(s) /\ 1..Len(g) = 1..(Len(s) - 1)
    BY <1>2
  <2> QED
    BY <1>2, <1>4, <2>1
<1>6. /\ Pile(p, t) /\ Last(t) = f /\ \A e : AllFit(s, e) => AllFit(t, e)
      /\ Holds(s) => Holds(t)
  BY <1>3, <1>4, <1>5, Retop
<1>7. \A i \in 1..Len(s) : t[i].kind = s[i].kind
  <2>1. \A i \in 1..Len(s) : i = Len(s) \/ i \in 1..(Len(s) - 1)
    BY <1>2
  <2> QED
    BY <1>3, <1>5, <2>1 DEF Alike, Last
<1>8. t = Resumed(s, d)
  BY DEF Resumed, t, f, g
<1> QED
  BY <1>3, <1>5, <1>6, <1>7, <1>8

LEMMA PoppedIs ==
    ASSUME NEW p, NEW s, Pile(p, s), Level(Last(s).kind) # 0, NEW d
    PROVE  LET t == Popped(s, d)
           IN  /\ Pile(p, t) /\ Alike(Last(t), Last(Front(s))) /\ Last(t).rows = Rows(Last(t), d)
               /\ \A e : AllFit(s, e) => AllFit(t, e)
               /\ Len(t) = Len(s) - 1 /\ (\A i \in 1..Len(t) : i \in 1..Len(s) /\ t[i].kind = s[i].kind)
<1> DEFINE g == Front(s)
<1>1. Pile(p, g) /\ \A e : AllFit(s, e) => AllFit(g, e)
  BY PilePop
<1>2. Len(s) \in Nat \ {0} /\ Len(g) = Len(s) - 1 /\ \A i \in 1..(Len(s) - 1) : g[i] = s[i]
  BY FrontIs DEF Pile
<1>3. Popped(s, d) = Resumed(g, d)
  BY DEF Popped
<1> HIDE DEF g
<1> DEFINE t == Resumed(g, d)
<1>4. /\ Pile(p, t) /\ Alike(Last(t), Last(g)) /\ Last(t).rows = Rows(Last(t), d)
      /\ \A e : AllFit(g, e) => AllFit(t, e)
      /\ Len(t) = Len(g) /\ \A i \in 1..Len(g) : t[i].kind = g[i].kind
  BY <1>1, ResumedIs
<1> HIDE DEF t
<1>5. \A i \in 1..Len(t) : i \in 1..Len(s) /\ t[i].kind = s[i].kind
  BY <1>2, <1>4
<1> QED
  BY <1>1, <1>2, <1>3, <1>4, <1>5 DEF t, g

LEMMA OpenedIs ==
    ASSUME NEW p, NEW s, Pile(p, s), NEW f, Framed(f), f.kind \in Kinds(p), Over(Last(s), f),
           Level(Last(s).kind) < Level(f.kind), NEW d
    PROVE  LET t == Opened(s, f, d)
           IN  /\ Pile(p, t) /\ Alike(Last(t), f) /\ Last(t).rows = Rows(Last(t), d)
               /\ \A e : AllFit(s, e) /\ Fits(f, e) => AllFit(t, e)
               /\ Len(t) = Len(s) + 1 /\ (\A i \in 1..Len(s) : t[i].kind = s[i].kind)
<1> DEFINE g == Synced(f, d)
           t == Append(s, g)
<1>1. Alike(g, f) /\ g.text = f.text /\ g.rows = Rows(g, d)
  BY SyncedIs
<1>2. \A e : Fits(f, e) => Fits(g, e)
  BY <1>1, AlikeIs
<1> HIDE DEF g
<1>3. Framed(g) /\ g.kind = f.kind /\ Over(Last(s), g)
  BY <1>1 DEF Alike, Over
<1>4. Pile(p, t) /\ Last(t) = g /\ \A e : AllFit(s, e) /\ Fits(g, e) => AllFit(t, e)
  BY <1>3, PilePush
<1>5. Len(t) = Len(s) + 1 /\ \A i \in 1..Len(s) : t[i] = s[i]
  BY PushIs DEF Pile
<1>6. t = Opened(s, f, d)
  BY DEF Opened, g
<1> HIDE DEF t
<1> QED
  BY <1>1, <1>2, <1>4, <1>5, <1>6

LEMMA TypedIs ==
    ASSUME NEW p, NEW s, Pile(p, s), NEW x, Last(s).kind # "pick"
    PROVE  LET t == [s EXCEPT ![Len(s)].text = x]
           IN  /\ Pile(p, t) /\ Alike(Last(t), Last(s)) /\ Last(t).rows = Last(s).rows
               /\ \A e : AllFit(s, e) => AllFit(t, e)
               /\ Last(t).text = x
<1> DEFINE n == Len(s)
           f == [Last(s) EXCEPT !.text = x]
           t == [s EXCEPT ![n].text = x]
<1>1. s \in Seq(ToSet(s)) /\ s # <<>> /\ Framed(Last(s)) /\ n \in 1..n
  BY PileTop DEF Pile
<1>2. Alike(f, Last(s)) /\ f.text = x /\ f.rows = Last(s).rows
  <2> DEFINE l == Last(s)
  <2>1. Framed(l)
    BY <1>1
  <2> HIDE DEF l
  <2>2. [l EXCEPT !.text = x] = [kind |-> l.kind, rule |-> l.rule, rid |-> l.rid, sec |-> l.sec,
                                 at |-> l.at, id |-> l.id, rows |-> l.rows, text |-> x]
    BY <2>1 DEF Framed
  <2>3. Alike([l EXCEPT !.text = x], l)
    BY <2>2 DEF Alike, Framed
  <2> QED
    BY <2>2, <2>3 DEF l
<1> HIDE DEF f
<1>3. t = [s EXCEPT ![n] = f]
  BY DEF f, Last
<1> HIDE DEF t
<1> DEFINE T == ToSet(s) \cup {f}
<1>4. s \in Seq(T) /\ f \in T
  BY <1>1
<1> HIDE DEF T
<1>5. t \in Seq(T) /\ Len(t) = n /\ \A j \in 1..n : t[j] = IF j = n THEN f ELSE s[j]
  BY <1>1, <1>3, <1>4, ExceptSeq
<1>6. t \in Seq(ToSet(t)) /\ t[n] = f /\ \A j \in 1..(n - 1) : t[j] = s[j]
  <2>1. n \in Nat
    BY <1>1
  <2>2. \A j \in 1..(n - 1) : j \in 1..n /\ j # n
    BY <2>1
  <2> QED
    BY <1>1, <1>5, <2>2, ListOf
<1>7. Pile(p, t) /\ Last(t) = f /\ \A e : AllFit(s, e) => AllFit(t, e)
  <2>1. f.kind # "pick"
    BY <1>2 DEF Alike
  <2> HIDE DEF n
  <2>2. Len(t) = Len(s) /\ t[Len(s)] = f /\ \A j \in 1..(Len(s) - 1) : t[j] = s[j]
    BY <1>5, <1>6 DEF n
  <2> QED
    BY <1>2, <1>6, <2>1, <2>2, Retop
<1> QED
  BY <1>2, <1>7 DEF t, n

-------------------------------------------------------------------------------
(* Keys.  All that a key may do to an editor, of which the pane that is     *)
(* hidden and what is on its way need to know no more.                     *)

Viewing(s) == \A i \in 1..Len(s) : s[i].kind \in {"hub", "rule", "tests"}

KeyEffect(s) ==
    /\ showing \in {"rules", "tests"} /\ ~unparsed /\ ~left /\ asked = NoQuestion
    /\ UNCHANGED <<showing, asked, readOnly, unparsed, left>>
    /\ Pile(showing, s) /\ stacks' = [stacks EXCEPT ![showing] = s]
    /\ UNCHANGED <<draft, found, lagging>> \/ (lagging' = TRUE /\ found' = found)
    /\ late' = Covered(showing) \/ (late' = late /\ Alike(Last(s), Top))
    /\ readOnly => Viewing(s)
    /\ Targets => /\ draft' \in Documents /\ created' \in Nat
                  /\ AllFit(s, draft') /\ Last(s).rows = Rows(Last(s), draft')
                  /\ showing = "rules" => draft'.tests = draft.tests
                  /\ showing = "tests" => draft'.rules = draft.rules

LEMMA OthersFit ==
    ASSUME NEW s, NEW d, NEW e, AllFit(s, d),
           (Pile("tests", s) /\ e.tests = d.tests) \/ (Pile("rules", s) /\ e.rules = d.rules)
    PROVE  AllFit(s, e)
<1> SUFFICES ASSUME NEW i \in 1..Len(s) PROVE Fits(s[i], e)
  BY DEF AllFit
<1>1. Fits(s[i], d)
  BY DEF AllFit
<1>2. CASE Pile("tests", s) /\ e.tests = d.tests
  <2>1. s[i].kind \in Kinds("tests")
    BY <1>2 DEF Pile
  <2>2. s[i].kind \notin OfRule /\ s[i].kind \notin {"list", "form"}
    BY <2>1 DEF Kinds, OfEvents, OfTest, OfRule
  <2> QED
    BY <1>1, <1>2, <2>2 DEF Fits
<1>3. CASE Pile("rules", s) /\ e.rules = d.rules
  <2>1. s[i].kind \in Kinds("rules")
    BY <1>3 DEF Pile
  <2>2. s[i].kind \notin OfTest
    BY <2>1 DEF Kinds, OfEvents, OfTest, OfRule
  <2> QED
    BY <1>1, <1>3, <2>2 DEF Fits
<1> QED
  BY <1>2, <1>3

LEMMA KeyHolds ==
    ASSUME EditorInv, NEW s, KeyEffect(s), raced' = (raced \/ Races)
    PROVE  EditorInv'
<1>0. /\ Shapes /\ FindingsHold /\ ReadOnlyHolds /\ (raced \/ Targets)
      /\ showing \in {"rules", "tests"} /\ ~unparsed /\ asked = NoQuestion
      /\ UNCHANGED <<showing, asked, readOnly, unparsed, left>>
      /\ Pile(showing, s) /\ stacks' = [stacks EXCEPT ![showing] = s]
  BY DEF EditorInv, KeyEffect
<1>1. /\ stacks' = [p \in {"rules", "tests"} |-> stacks'[p]] /\ stacks'[showing] = s
      /\ \A p \in {"rules", "tests"} : p # showing => stacks'[p] = stacks[p]
      /\ DOMAIN stacks' = {"rules", "tests"} /\ DOMAIN stacks = {"rules", "tests"}
  <2>1. stacks = [p \in {"rules", "tests"} |-> stacks[p]]
    BY <1>0 DEF Shapes
  <2> QED
    BY <1>0, <2>1
<1>2. \A p \in {"rules", "tests"} : Pile(p, stacks'[p])
  BY <1>0, <1>1 DEF Shapes
<1>3. /\ late' = [pane |-> late'.pane, live |-> late'.live, rows |-> late'.rows]
      /\ late'.live \in BOOLEAN /\ late'.pane = late.pane /\ late'.rows = late.rows
      /\ late'.live => late.live /\ late' = late
      /\ late'.live => late.pane # showing \/ Alike(Last(s), Top)
  <2>1. /\ late = [pane |-> late.pane, live |-> late.live, rows |-> late.rows]
        /\ late.live \in BOOLEAN
    BY <1>0 DEF Shapes
  <2>2. CASE late.pane = showing /\ late' = Covered(showing)
    <3>1. late' = [late EXCEPT !.live = FALSE]
      BY <2>2 DEF Covered
    <3>2. late' = [pane |-> late.pane, live |-> FALSE, rows |-> late.rows]
      BY <2>1, <3>1
    <3> QED
      BY <3>2
  <2>3. CASE late.pane # showing /\ late' = Covered(showing)
    <3>1. late' = late
      BY <2>3 DEF Covered
    <3> QED
      BY <2>1, <2>3, <3>1
  <2>4. CASE late' = late /\ Alike(Last(s), Top)
    BY <2>1, <2>4
  <2> QED
    BY <2>2, <2>3, <2>4 DEF KeyEffect
<1>4. Shapes'
  BY <1>0, <1>1, <1>2, <1>3 DEF Shapes
<1>5. FindingsHold'
  BY <1>0 DEF FindingsHold, KeyEffect
<1>6. ReadOnlyHolds'
  <2> SUFFICES ASSUME readOnly, NEW p \in {"rules", "tests"}, NEW i \in DOMAIN stacks'[p]
               PROVE  stacks'[p][i].kind \in {"hub", "rule", "tests"}
    BY <1>0, <1>1 DEF ReadOnlyHolds
  <2>1. CASE p = showing
    <3>1. Viewing(s) /\ DOMAIN s = 1..Len(s)
      BY DEF KeyEffect, Pile
    <3> QED
      BY <1>1, <2>1, <3>1 DEF Viewing
  <2>2. CASE p # showing
    BY <1>0, <1>1, <2>2 DEF ReadOnlyHolds
  <2> QED
    BY <2>1, <2>2
<1>7. ASSUME ~raced' PROVE Targets'
  <2>1. Targets /\ (draft' = draft \/ ~late'.live)
    BY <1>0, <1>7 DEF Races
  <2>2. /\ draft' \in Documents /\ created' \in Nat
        /\ AllFit(s, draft') /\ Last(s).rows = Rows(Last(s), draft')
        /\ showing = "rules" => draft'.tests = draft.tests
        /\ showing = "tests" => draft'.rules = draft.rules
    BY <2>1 DEF KeyEffect
  <2>3. ASSUME NEW p \in {"rules", "tests"} PROVE AllFit(stacks'[p], draft')
    <3>1. CASE p = showing
      BY <1>1, <2>2, <3>1
    <3>2. CASE p # showing
      <4>1. AllFit(stacks[p], draft) /\ Pile(p, stacks[p]) /\ stacks'[p] = stacks[p]
        BY <1>0, <1>1, <2>1, <3>2 DEF Targets, Shapes
      <4>2. \/ p = "tests" /\ draft'.tests = draft.tests
            \/ p = "rules" /\ draft'.rules = draft.rules
        BY <1>0, <2>2, <3>2
      <4> QED
        BY <4>1, <4>2, OthersFit
    <3> QED
      BY <3>1, <3>2
  <2>4. RowsAreCurrent'
    BY <1>0, <1>1, <2>2 DEF RowsAreCurrent, Top, S
  <2>5. DropHolds'
    BY <1>0 DEF DropHolds, NoQuestion
  <2>6. MatchesHold'
    <3> SUFFICES ASSUME late'.live, Last(stacks'[late'.pane]).kind \in Listing
                 PROVE  late'.rows = Rows(Last(stacks'[late'.pane]), draft')
      BY DEF MatchesHold
    <3>1. late' = late /\ late.live /\ draft' = draft /\ late.pane \in {"rules", "tests"}
      BY <1>0, <1>3, <2>1 DEF Shapes
    <3>2. CASE late.pane # showing
      <4>1. stacks'[late.pane] = stacks[late.pane]
        BY <1>1, <3>1, <3>2
      <4> QED
        BY <2>1, <3>1, <4>1 DEF Targets, MatchesHold
    <3>3. CASE late.pane = showing
      <4>1. stacks'[late.pane] = s /\ Top = Last(stacks[late.pane]) /\ Alike(Last(s), Top)
        BY <1>1, <1>3, <3>3 DEF Top, S
      <4>2. Last(s).kind = Top.kind /\ Rows(Last(s), draft) = Rows(Top, draft)
        BY <4>1, AlikeIs DEF Alike
      <4> QED
        BY <2>1, <3>1, <4>1, <4>2 DEF Targets, MatchesHold
    <3> QED
      BY <3>2, <3>3
  <2>7. DOMAIN found' \subseteq Nat \ {0}
    BY <2>1 DEF Targets, KeyEffect
  <2> QED
    BY <2>2, <2>3, <2>4, <2>5, <2>6, <2>7 DEF Targets
<1> QED
  BY <1>4, <1>5, <1>6, <1>7 DEF EditorInv

(* What is known when a key arrives.                                       *)
LEMMA KeyIs ==
    ASSUME EditorInv, NEW kinds, Key(kinds)
    PROVE  /\ showing \in {"rules", "tests"} /\ ~unparsed /\ ~left /\ asked = NoQuestion
           /\ UNCHANGED <<showing, readOnly, unparsed, left>>
           /\ Pile(showing, S) /\ Top.kind \in kinds /\ Framed(Top) /\ Top.kind \in Kinds(showing)
           /\ Top.kind \notin {"hub", "tests"} => Level(Top.kind) # 0
           /\ readOnly => Viewing(S) /\ Top.kind \in {"hub", "rule", "tests"}
           /\ Targets => /\ AllFit(S, draft) /\ Fits(Top, draft) /\ Top.rows = Rows(Top, draft)
                         /\ draft \in Documents /\ created \in Nat
<1>1. DOMAIN stacks = {"rules", "tests"} /\ \A p \in {"rules", "tests"} : Pile(p, stacks[p])
  BY DEF EditorInv, Shapes
<1>2. /\ showing \in {"rules", "tests"} /\ ~unparsed /\ ~left /\ asked = NoQuestion /\ OnScreen
      /\ UNCHANGED <<showing, readOnly, unparsed, left>> /\ Top.kind \in kinds
  BY <1>1 DEF Key, Pressed, OnScreen
<1>3. Pile(showing, S) /\ Top = Last(S)
  BY <1>1, <1>2 DEF S, Top
<1>4. /\ Framed(Top) /\ Top.kind \in Kinds(showing) /\ Len(S) \in 1..Len(S)
      /\ Top.kind \notin {"hub", "tests"} => Level(Top.kind) # 0
      /\ \A d : AllFit(S, d) => Fits(Top, d)
  BY <1>3, PileTop
<1>5. readOnly => Viewing(S) /\ Top.kind \in {"hub", "rule", "tests"}
  <2> SUFFICES ASSUME readOnly PROVE Viewing(S) /\ Top.kind \in {"hub", "rule", "tests"}
    OBVIOUS
  <2>1. DOMAIN S = 1..Len(S)
    BY <1>3 DEF Pile
  <2>2. \A i \in DOMAIN S : S[i].kind \in {"hub", "rule", "tests"}
    BY <1>1, <1>2 DEF EditorInv, ReadOnlyHolds, S
  <2> QED
    BY <1>4, <2>1, <2>2 DEF Viewing, Top, Last
<1>6. Targets => /\ AllFit(S, draft) /\ Fits(Top, draft) /\ Top.rows = Rows(Top, draft)
                 /\ draft \in Documents /\ created \in Nat
  BY <1>2, <1>4 DEF Targets, S, RowsAreCurrent
<1> QED
  BY <1>2, <1>3, <1>4, <1>5, <1>6


-------------------------------------------------------------------------------
(* Editors that open and close.                                            *)

LEMMA LevelsAre ==
    /\ Level("hub") = 0 /\ Level("tests") = 0 /\ Level("rule") = 1 /\ Level("delete") = 1
    /\ Level("fork") = 1 /\ Level("editor") = 1 /\ Level("deleteTest") = 1
    /\ Level("iterHub") = 2 /\ Level("trigger") = 2 /\ Level("action") = 2
    /\ Level("name") = 2 /\ Level("expect") = 2 /\ Level("list") = 3 /\ Level("iterForm") = 3
    /\ Level("form") = 4 /\ Level("paths") = 5 /\ Level("pick") = 5
    /\ Level("paste") = 6 /\ Level("file") = 6 /\ Level("recipe") = 6 /\ Level("discard") = 7
BY DEF Level

LEMMA KindsAre ==
    ASSUME NEW p \in {"rules", "tests"}
    PROVE  /\ OfEvents \subseteq Kinds(p)
           /\ \A k \in Kinds(p) :
                 /\ k \in OfRule \cup {"hub", "fork", "recipe"} => p = "rules"
                 /\ k \in OfTest \cup {"tests"} => p = "tests"
           /\ p = "rules" => OfRule \cup {"hub", "fork", "recipe"} \subseteq Kinds(p)
           /\ p = "tests" => OfTest \cup {"tests"} \subseteq Kinds(p)
BY DEF Kinds, OfEvents, OfTest, OfRule

LEMMA RecordIs ==
    ASSUME NEW f, NEW k, NEW i, NEW r, NEW c, NEW a, NEW b, NEW w, NEW t,
           f = [kind |-> k, rule |-> i, rid |-> r, sec |-> c, at |-> a, id |-> b, rows |-> w, text |-> t]
    PROVE  /\ Framed(f) /\ f.kind = k /\ f.rule = i /\ f.rid = r /\ f.sec = c
           /\ f.at = a /\ f.id = b /\ f.rows = w /\ f.text = t
BY DEF Framed

LEMMA FrameIs ==
    ASSUME NEW k
    PROVE  /\ Framed(Frame(k)) /\ Frame(k).kind = k /\ Frame(k).rule = 0 /\ Frame(k).sec = ""
           /\ Frame(k).text = FALSE
BY RecordIs DEF Frame

IsOfRule(f, k, i, r) == Framed(f) /\ f.kind = k /\ f.rule = i /\ f.rid = r /\ ~f.text
IsInRule(f, k, i, r) == Framed(f) /\ f.kind = k /\ f.rule = i /\ f.rid = r
IsInSection(f, k, i, r, sec) == IsInRule(f, k, i, r) /\ f.sec = sec
IsOfTest(f, k, i, r) == Framed(f) /\ f.kind = k /\ f.rule = 0 /\ f.at = i /\ f.id = r /\ ~f.text

LEMMA OnRuleIs ==
    ASSUME NEW k, NEW i, NEW r
    PROVE  IsOfRule(OnRule(k, i, r), k, i, r)
<1> DEFINE f == Frame(k)
           g == [f EXCEPT !.rule = i]
           h == [g EXCEPT !.rid = r]
<1>1. Framed(f)
  BY FrameIs
<1>5. f.kind = k /\ f.rule = 0 /\ f.sec = "" /\ f.text = FALSE
  BY FrameIs
<1>2. OnRule(k, i, r) = h
  BY DEF OnRule
<1> HIDE DEF f
<1>3. Framed(g) /\ g.kind = f.kind /\ g.sec = f.sec /\ g.text = f.text /\ g.rule = i
  BY <1>1 DEF Framed
<1> HIDE DEF g
<1>4. Framed(h) /\ h.kind = g.kind /\ h.sec = g.sec /\ h.text = g.text /\ h.rule = g.rule /\ h.rid = r
  BY <1>3 DEF Framed
<1> HIDE DEF h
<1> QED
  BY <1>2, <1>3, <1>4, <1>5 DEF IsOfRule

LEMMA OnTestIs ==
    ASSUME NEW k, NEW i, NEW r
    PROVE  IsOfTest(OnTest(k, i, r), k, i, r)
<1> DEFINE f == Frame(k)
           g == [f EXCEPT !.at = i]
           h == [g EXCEPT !.id = r]
<1>1. Framed(f)
  BY FrameIs
<1>5. f.kind = k /\ f.rule = 0 /\ f.sec = "" /\ f.text = FALSE
  BY FrameIs
<1>2. OnTest(k, i, r) = h
  BY DEF OnTest
<1> HIDE DEF f
<1>3. Framed(g) /\ g.kind = f.kind /\ g.rule = f.rule /\ g.text = f.text /\ g.at = i
  BY <1>1 DEF Framed
<1> HIDE DEF g
<1>4. Framed(h) /\ h.kind = g.kind /\ h.rule = g.rule /\ h.text = g.text /\ h.at = g.at /\ h.id = r
  BY <1>3 DEF Framed
<1> HIDE DEF h
<1> QED
  BY <1>2, <1>3, <1>4, <1>5 DEF IsOfTest

LEMMA WithinIs ==
    ASSUME NEW f, NEW k, NEW x
    PROVE  /\ IsOfRule(Within(f, k), k, f.rule, f.rid)
           /\ IsInSection([Within(f, k) EXCEPT !.sec = x], k, f.rule, f.rid, x)
           /\ IsInRule([Within(f, k) EXCEPT !.text = x], k, f.rule, f.rid)
<1> DEFINE i == f.rule
           r == f.rid
           g == Within(f, k)
<1>1. IsOfRule(g, k, i, r)
  BY OnRuleIs DEF Within
<1> HIDE DEF g, i, r
<1>2. Framed(g) /\ g.kind = k /\ g.rule = i /\ g.rid = r
  BY <1>1 DEF IsOfRule
<1>3. [g EXCEPT !.sec = x] = [kind |-> k, rule |-> i, rid |-> r, sec |-> x, at |-> g.at, id |-> g.id,
                              rows |-> g.rows, text |-> g.text]
  BY <1>2 DEF Framed
<1>4. [g EXCEPT !.text = x] = [kind |-> k, rule |-> i, rid |-> r, sec |-> g.sec, at |-> g.at, id |-> g.id,
                               rows |-> g.rows, text |-> x]
  BY <1>2 DEF Framed
<1> DEFINE h1 == [g EXCEPT !.sec = x]
           h2 == [g EXCEPT !.text = x]
<1> HIDE DEF h1, h2
<1>5. Framed(h1) /\ h1.kind = k /\ h1.rule = i /\ h1.rid = r /\ h1.sec = x
  BY <1>3, RecordIs DEF h1
<1>6. Framed(h2) /\ h2.kind = k /\ h2.rule = i /\ h2.rid = r
  BY <1>4, RecordIs DEF h2
<1> QED
  BY <1>1, <1>5, <1>6 DEF g, i, r, h1, h2, IsInRule, IsInSection

(* An editor of the rule that another one is of.                           *)
LEMMA SameRule ==
    ASSUME NEW d, NEW f, Fits(f, d), f.kind \in OfRule, NEW g, g.kind \in OfRule, g.rule = f.rule,
           g.rid = f.rid, g.kind # "form", g.kind = "list" => g.sec \in Lists
    PROVE  Fits(g, d)
<1>1. f.rule \in 1..Len(d.rules) /\ d.rules[f.rule].id = f.rid
  BY DEF Fits
<1>2. g.kind \notin OfTest
  BY DEF OfRule, OfTest
<1> QED
  BY <1>1, <1>2 DEF Fits

LEMMA OpenHolds ==
    ASSUME EditorInv, NEW kinds, Key(kinds), NEW f, Open(f), Same, Quiet,
           Framed(f), f.kind \in Kinds(showing), Over(Top, f), Level(Top.kind) < Level(f.kind),
           readOnly => f.kind = "rule", Targets => Fits(f, draft)
    PROVE  \E s : KeyEffect(s)
<1> DEFINE s == Opened(S, f, draft)
<1>1. /\ showing \in {"rules", "tests"} /\ ~unparsed /\ ~left /\ asked = NoQuestion
      /\ UNCHANGED <<showing, readOnly, unparsed, left>> /\ Pile(showing, S)
      /\ readOnly => Viewing(S)
      /\ Targets => AllFit(S, draft) /\ draft \in Documents /\ created \in Nat
  BY KeyIs
<1>2. /\ UNCHANGED <<draft, found, lagging, created, asked>> /\ late' = Covered(showing)
      /\ stacks' = [stacks EXCEPT ![showing] = s]
  BY DEF Open, Becomes, Same, Quiet
<1>3. /\ Pile(showing, s) /\ Alike(Last(s), f) /\ Last(s).rows = Rows(Last(s), draft)
      /\ \A e : AllFit(S, e) /\ Fits(f, e) => AllFit(s, e)
      /\ Len(s) = Len(S) + 1 /\ (\A i \in 1..Len(S) : s[i].kind = S[i].kind)
  BY <1>1, OpenedIs DEF Top
<1> HIDE DEF s
<1>4. readOnly => Viewing(s)
  <2>1. \A i \in 1..Len(s) : i \in 1..Len(S) \/ i = Len(s)
    <3>1. Len(S) \in Nat
      BY <1>1, FrontIs DEF Pile
    <3> QED
      BY <1>3, <3>1
  <2>2. Last(s).kind = f.kind /\ Last(s) = s[Len(s)]
    BY <1>3 DEF Alike, Last
  <2> QED
    BY <1>1, <1>3, <2>1, <2>2 DEF Viewing
<1>5. Targets => AllFit(s, draft)
  BY <1>1, <1>3
<1>6. KeyEffect(s)
  BY <1>1, <1>2, <1>3, <1>4, <1>5 DEF KeyEffect
<1> QED
  BY <1>6

LEMMA CloseHolds ==
    ASSUME EditorInv, NEW kinds, Key(kinds), Close, Quiet, UNCHANGED created,
           Same \/ Edited(draft), "hub" \notin kinds, "tests" \notin kinds
    PROVE  \E s : KeyEffect(s)
<1> DEFINE s == Popped(S, draft)
<1>1. /\ showing \in {"rules", "tests"} /\ ~unparsed /\ ~left /\ asked = NoQuestion
      /\ UNCHANGED <<showing, readOnly, unparsed, left>> /\ Pile(showing, S)
      /\ Top.kind \notin {"hub", "tests"} /\ Level(Top.kind) # 0
      /\ readOnly => Viewing(S)
      /\ Targets => AllFit(S, draft) /\ draft \in Documents /\ created \in Nat
  BY KeyIs
<1>2. /\ UNCHANGED <<draft, created, asked>> /\ late' = Covered(showing)
      /\ UNCHANGED <<draft, found, lagging>> \/ (lagging' = TRUE /\ found' = found)
      /\ stacks' = [stacks EXCEPT ![showing] = s]
  BY DEF Close, Becomes, Same, Edited, Quiet
<1>3. /\ Pile(showing, s) /\ Last(s).rows = Rows(Last(s), draft)
      /\ \A e : AllFit(S, e) => AllFit(s, e)
      /\ \A i \in 1..Len(s) : i \in 1..Len(S) /\ s[i].kind = S[i].kind
  BY <1>1, PoppedIs DEF Top
<1> HIDE DEF s
<1>4. KeyEffect(s)
  BY <1>1, <1>2, <1>3 DEF KeyEffect, Viewing
<1> QED
  BY <1>4

LEMMA TypeHolds ==
    ASSUME EditorInv, NEW kinds, Key(kinds), Edited(draft), Quiet,
           UNCHANGED <<stacks, late, created>>
    PROVE  \E s : KeyEffect(s)
<1>1. /\ showing \in {"rules", "tests"} /\ ~unparsed /\ ~left /\ asked = NoQuestion
      /\ UNCHANGED <<showing, readOnly, unparsed, left>> /\ Pile(showing, S) /\ Framed(Top)
      /\ readOnly => Viewing(S)
      /\ Targets => /\ AllFit(S, draft) /\ Top.rows = Rows(Top, draft)
                    /\ draft \in Documents /\ created \in Nat
  BY KeyIs
<1>2. stacks' = [stacks EXCEPT ![showing] = S]
  <2>1. stacks = [p \in {"rules", "tests"} |-> stacks[p]]
    BY DEF EditorInv, Shapes
  <2> QED
    BY <1>1, <2>1 DEF S
<1>3. Top = Last(S) /\ Alike(Last(S), Top)
  BY <1>1 DEF Top, Alike
<1>4. draft' = draft /\ lagging' = TRUE /\ found' = found /\ UNCHANGED <<late, created, asked>>
  BY DEF Edited, Quiet
<1>5. KeyEffect(S)
  BY <1>1, <1>2, <1>3, <1>4 DEF KeyEffect
<1> QED
  BY <1>5

(* What the rows of an editor point at.                                    *)
LEMMA RowsAre ==
    ASSUME NEW d \in Documents, NEW f, NEW r \in Rows(f, d)
    PROVE  /\ f.kind = "hub" => r.at \in 1..Len(d.rules) /\ d.rules[r.at].id = r.of
           /\ f.kind \in {"list", "editor"} =>
                 r.at \in DOMAIN ItemsOf(d, f) /\ ItemsOf(d, f)[r.at] = r.of
           /\ f.kind = "tests" =>
                 IF r.own THEN r.at \in 1..Len(d.tests) /\ d.tests[r.at].id = r.of
                 ELSE r.at \in 1..Len(d.rules) /\ d.rules[r.at].id = r.of
<1>1. DOMAIN d.rules = 1..Len(d.rules) /\ DOMAIN d.tests = 1..Len(d.tests)
  BY DEF Documents
<1>2. CASE f.kind = "hub"
  <2>1. r \in IdsAt(RuleIds(d))
    BY <1>2 DEF Rows
  <2>2. DOMAIN RuleIds(d) = DOMAIN d.rules /\ \A i \in DOMAIN d.rules : RuleIds(d)[i] = d.rules[i].id
    BY DEF RuleIds
  <2>3. PICK i \in DOMAIN RuleIds(d) : r = [at |-> i, of |-> RuleIds(d)[i]]
    BY <2>1 DEF IdsAt
  <2> QED
    BY <1>1, <1>2, <2>2, <2>3
<1>3. CASE f.kind \in {"list", "editor"}
  <2>1. r \in IdsAt(ItemsOf(d, f))
    BY <1>3 DEF Rows
  <2> QED
    BY <1>3, <2>1 DEF IdsAt
<1>4. CASE f.kind = "tests"
  <2>1. r \in SavedTests(d)
    BY <1>4 DEF Rows
  <2>2. Sampled(d) \subseteq DOMAIN d.rules
    BY DEF Sampled
  <2> QED
    BY <1>1, <1>4, <2>1, <2>2 DEF SavedTests
<1> QED
  BY <1>2, <1>3, <1>4

LEMMA SectionIs ==
    ASSUME NEW g, NEW sec
    PROVE  LET f == SectionEditor(g, sec)
           IN  /\ Framed(f) /\ f.kind \in {"trigger", "action", "iterHub", "list"}
               /\ f.rule = g.rule /\ f.rid = g.rid /\ (f.kind = "list" /\ sec \in Sections => f.sec \in Lists)
<1> DEFINE f == SectionEditor(g, sec)
<1>1. CASE sec \in {"trigger", "action"}
  <2>1. SectionEditor(g, sec) = Within(g, sec)
    BY <1>1 DEF SectionEditor
  <2>2. IsOfRule(f, sec, g.rule, g.rid)
    BY <2>1, WithinIs
  <2> HIDE DEF f
  <2>3. /\ Framed(f) /\ f.kind \in {"trigger", "action", "iterHub", "list"}
        /\ f.rule = g.rule /\ f.rid = g.rid /\ (f.kind = "list" /\ sec \in Sections => f.sec \in Lists)
    BY <1>1, <2>2 DEF IsOfRule
  <2> QED
    BY <2>3 DEF f
<1>2. CASE sec = "iterator"
  <2>1. SectionEditor(g, sec) = Within(g, "iterHub")
    BY <1>2 DEF SectionEditor
  <2>2. IsOfRule(f, "iterHub", g.rule, g.rid)
    BY <2>1, WithinIs
  <2> HIDE DEF f
  <2>3. /\ Framed(f) /\ f.kind \in {"trigger", "action", "iterHub", "list"}
        /\ f.rule = g.rule /\ f.rid = g.rid /\ (f.kind = "list" /\ sec \in Sections => f.sec \in Lists)
    BY <2>2 DEF IsOfRule
  <2> QED
    BY <2>3 DEF f
<1>3. CASE sec \notin {"trigger", "action", "iterator"}
  <2>1. SectionEditor(g, sec) = [Within(g, "list") EXCEPT !.sec = sec]
    BY <1>3 DEF SectionEditor
  <2>2. IsInSection(f, "list", g.rule, g.rid, sec)
    BY <2>1, WithinIs
  <2> HIDE DEF f
  <2>3. /\ Framed(f) /\ f.kind \in {"trigger", "action", "iterHub", "list"}
        /\ f.rule = g.rule /\ f.rid = g.rid /\ (f.kind = "list" /\ sec \in Sections => f.sec \in Lists)
    BY <1>3, <2>2 DEF Lists, Sections, IsInSection, IsInRule
  <2> QED
    BY <2>3 DEF f
<1> QED
  BY <1>1, <1>2, <1>3
-------------------------------------------------------------------------------
(* One editor opens another.                                               *)

LEMMA OverIs ==
    ASSUME NEW g, NEW f, f.kind \notin {"paste", "file", "discard", "recipe", "pick"}
    PROVE  Over(g, f)
BY DEF Over

LEMMA RuleTopIs ==
    ASSUME EditorInv, NEW kinds, Key(kinds), Top.kind \in OfRule \cup {"hub"}
    PROVE  showing = "rules" /\ OfRule \subseteq Kinds(showing)
<1>1. showing \in {"rules", "tests"} /\ Top.kind \in Kinds(showing)
  BY KeyIs
<1> QED
  BY <1>1, KindsAre

LEMMA TestTopIs ==
    ASSUME EditorInv, NEW kinds, Key(kinds), Top.kind \in OfTest \cup {"tests"}
    PROVE  showing = "tests" /\ OfTest \subseteq Kinds(showing)
<1>1. showing \in {"rules", "tests"} /\ Top.kind \in Kinds(showing)
  BY KeyIs
<1> QED
  BY <1>1, KindsAre

(* A page, or a question, about the rule of a row.                         *)
LEMMA RuleRowFits ==
    ASSUME NEW d \in Documents, NEW f, NEW k \in OfRule \ {"list", "form"}, NEW i, NEW r,
           IsOfRule(f, k, i, r), i \in 1..Len(d.rules), d.rules[i].id = r
    PROVE  Fits(f, d)
<1>1. f.kind = k /\ f.rule = i /\ f.rid = r /\ k \notin OfTest
  BY DEF IsOfRule, OfRule, OfTest
<1> QED
  BY <1>1 DEF Fits
LEMMA TestRowFits ==
    ASSUME NEW d \in Documents, NEW f, NEW k \in OfTest, NEW i, NEW r,
           IsOfTest(f, k, i, r), i \in 1..Len(d.tests), d.tests[i].id = r
    PROVE  Fits(f, d)
<1>1. f.kind = k /\ f.rule = 0 /\ f.at = i /\ f.id = r /\ k \notin OfRule /\ k \notin {"list", "form"}
  BY DEF IsOfTest, OfRule, OfTest
<1> QED
  BY <1>1 DEF Fits

LEMMA OpenRuleHolds ==
    ASSUME EditorInv, OpenRule \/ AskDeleteRule
    PROVE  \E s : KeyEffect(s)
<1>1. PICK k \in {"rule", "delete"}, r \in Top.rows :
         Open(OnRule(k, r.at, r.of)) /\ Same /\ Quiet /\ Key({"hub"}) /\ (k = "delete" => ~readOnly)
  <2>1. CASE OpenRule
    BY <2>1, Zenon DEF OpenRule
  <2>2. CASE AskDeleteRule
    BY <2>2, Zenon DEF AskDeleteRule
  <2> QED
    BY <2>1, <2>2
<1> DEFINE f == OnRule(k, r.at, r.of)
<1>2. IsOfRule(f, k, r.at, r.of)
  BY OnRuleIs
<1> HIDE DEF f
<1>3. Framed(f) /\ f.kind = k
  BY <1>2 DEF IsOfRule
<1>4. Top.kind = "hub" /\ readOnly' = readOnly
  BY <1>1, KeyIs
<1>5. f.kind \in Kinds(showing)
  BY <1>1, <1>3, <1>4, RuleTopIs DEF OfRule
<1>6. Over(Top, f) /\ Level(Top.kind) < Level(f.kind)
  BY <1>3, <1>4, OverIs, LevelsAre
<1>7. Targets => Fits(f, draft)
  <2> SUFFICES ASSUME Targets PROVE Fits(f, draft)
    OBVIOUS
  <2>1. draft \in Documents /\ r \in Rows(Top, draft)
    BY <1>1, KeyIs
  <2>2. r.at \in 1..Len(draft.rules) /\ draft.rules[r.at].id = r.of
    BY <1>4, <2>1, RowsAre
  <2> QED
    BY <1>2, <2>1, <2>2, RuleRowFits DEF OfRule
<1> QED
  BY <1>1, <1>3, <1>5, <1>6, <1>7, OpenHolds DEF f

LEMMA OpenSectionHolds ==
    ASSUME EditorInv, OpenSection
    PROVE  \E s : KeyEffect(s)
<1>1. PICK sec \in Sections : /\ Open(SectionEditor(Top, sec)) /\ Same /\ Quiet /\ Key({"rule"}) /\ ~readOnly
  BY DEF OpenSection
<1> DEFINE f == SectionEditor(Top, sec)
<1>2. Top.kind = "rule"
  BY <1>1, KeyIs
<1>3. /\ Framed(f) /\ f.kind \in {"trigger", "action", "iterHub", "list"}
      /\ f.rule = Top.rule /\ f.rid = Top.rid /\ (f.kind = "list" => f.sec \in Lists)
  BY SectionIs
<1> HIDE DEF f
<1>4. f.kind \in Kinds(showing)
  BY <1>1, <1>2, <1>3, RuleTopIs DEF OfRule
<1>5. Over(Top, f) /\ Level(Top.kind) < Level(f.kind)
  BY <1>2, <1>3, OverIs, LevelsAre
<1>6. Targets => Fits(f, draft)
  <2> SUFFICES ASSUME Targets PROVE Fits(f, draft)
    OBVIOUS
  <2>1. Fits(Top, draft)
    BY <1>1, KeyIs
  <2> QED
    BY <1>2, <1>3, <2>1, SameRule DEF OfRule
<1> QED
  BY <1>1, <1>3, <1>4, <1>5, <1>6, OpenHolds DEF f

(* The rest of a rule's editors open within the rule's.                    *)
LEMMA WithinHolds ==
    ASSUME EditorInv, NEW kinds, Key(kinds), NEW f, Open(f), Same, Quiet, ~readOnly,
           Top.kind \in OfRule, Framed(f), f.kind \in OfRule \ {"form"}, Level(Top.kind) < Level(f.kind),
           f.rule = Top.rule, f.rid = Top.rid, f.kind = "list" => f.sec \in Lists
    PROVE  \E s : KeyEffect(s)
<1>1. f.kind \in Kinds(showing)
  BY RuleTopIs
<1>2. Over(Top, f)
  BY OverIs DEF OfRule
<1>3. Targets => Fits(f, draft)
  <2> SUFFICES ASSUME Targets PROVE Fits(f, draft)
    OBVIOUS
  <2>1. Fits(Top, draft)
    BY KeyIs
  <2> QED
    BY <2>1, SameRule
<1> QED
  BY <1>1, <1>2, <1>3, OpenHolds

LEMMA OpenWithinHolds ==
    ASSUME EditorInv, OpenPaths \/ OpenIterForm \/ OpenIterTuples
    PROVE  \E s : KeyEffect(s)
<1>1. CASE OpenPaths
  <2> DEFINE f == Within(Top, "paths")
  <2>1. Key({"form", "trigger", "iterForm"}) /\ Open(f) /\ Same /\ Quiet
    BY <1>1 DEF OpenPaths
  <2>2. Top.kind \in {"form", "trigger", "iterForm"} /\ ~readOnly
    BY <2>1, KeyIs
  <2>3. IsOfRule(f, "paths", Top.rule, Top.rid)
    BY WithinIs
  <2> HIDE DEF f
  <2>4. Framed(f) /\ f.kind = "paths" /\ f.rule = Top.rule /\ f.rid = Top.rid
    BY <2>3 DEF IsOfRule
  <2>5. Level(Top.kind) < Level(f.kind)
    BY <2>2, <2>4, LevelsAre
  <2> QED
    BY <2>1, <2>2, <2>4, <2>5, WithinHolds DEF OfRule
<1>2. CASE OpenIterForm
  <2> DEFINE f == [Within(Top, "iterForm") EXCEPT !.text = Iterates(Top.rule)]
  <2>1. Key({"iterHub"}) /\ Open(f) /\ Same /\ Quiet
    BY <1>2 DEF OpenIterForm
  <2>2. Top.kind = "iterHub" /\ ~readOnly
    BY <2>1, KeyIs
  <2>3. IsInRule(f, "iterForm", Top.rule, Top.rid)
    BY WithinIs
  <2> HIDE DEF f
  <2>4. Framed(f) /\ f.kind = "iterForm" /\ f.rule = Top.rule /\ f.rid = Top.rid
    BY <2>3 DEF IsInRule
  <2>5. Level(Top.kind) < Level(f.kind)
    BY <2>2, <2>4, LevelsAre
  <2> QED
    BY <2>1, <2>2, <2>4, <2>5, WithinHolds DEF OfRule
<1>3. CASE OpenIterTuples
  <2> DEFINE f == [Within(Top, "list") EXCEPT !.sec = "each"]
  <2>1. Key({"iterHub"}) /\ Open(f) /\ Same /\ Quiet
    BY <1>3 DEF OpenIterTuples
  <2>2. Top.kind = "iterHub" /\ ~readOnly
    BY <2>1, KeyIs
  <2>3. IsInSection(f, "list", Top.rule, Top.rid, "each")
    BY WithinIs
  <2> HIDE DEF f
  <2>4. Framed(f) /\ f.kind = "list" /\ f.rule = Top.rule /\ f.rid = Top.rid /\ f.sec = "each"
    BY <2>3 DEF IsInSection, IsInRule
  <2>5. Level(Top.kind) < Level(f.kind)
    BY <2>2, <2>4, LevelsAre
  <2> QED
    BY <2>1, <2>2, <2>4, <2>5, WithinHolds DEF OfRule, Lists
<1> QED
  BY <1>1, <1>2, <1>3

IsItem(f, g, i, id) ==
    /\ IsInRule(f, "form", g.rule, g.rid) /\ f.sec = g.sec /\ f.at = i /\ f.id = id

LEMMA ItemIs ==
    ASSUME NEW g, NEW i, NEW id
    PROVE  IsItem(Item(g, i, id), g, i, id)
<1> DEFINE a == Within(g, "form")
           x == g.sec
           b == [a EXCEPT !.sec = x]
           c == [b EXCEPT !.at = i]
           f == [c EXCEPT !.id = id]
<1>1. Item(g, i, id) = f
  BY DEF Item
<1>2. IsOfRule(a, "form", g.rule, g.rid)
  BY WithinIs
<1> HIDE DEF a
<1>3. Framed(a)
  BY <1>2 DEF IsOfRule
<1> HIDE DEF x
<1>4. Framed(b) /\ b.kind = a.kind /\ b.rule = a.rule /\ b.rid = a.rid /\ b.sec = x
  BY <1>3 DEF Framed
<1> HIDE DEF b
<1>5. Framed(c) /\ c.kind = b.kind /\ c.rule = b.rule /\ c.rid = b.rid /\ c.sec = b.sec /\ c.at = i
  BY <1>4 DEF Framed
<1> HIDE DEF c
<1>6. /\ Framed(f) /\ f.kind = c.kind /\ f.rule = c.rule /\ f.rid = c.rid /\ f.sec = c.sec /\ f.at = c.at
      /\ f.id = id
  BY <1>5 DEF Framed
<1> HIDE DEF f
<1>7. a.kind = "form" /\ a.rule = g.rule /\ a.rid = g.rid
  BY <1>2 DEF IsOfRule
<1>8. IsItem(f, g, i, id)
  BY <1>4, <1>5, <1>6, <1>7 DEF IsItem, IsInRule, x
<1> QED
  BY <1>1, <1>8

LEMMA RuleTyped ==
    ASSUME NEW d \in Documents
    PROVE  /\ d.rules \in Seq([id : Nat, event : Events, iter : BOOLEAN, lists : [Lists -> Seq(Nat)]])
           /\ d.tests \in Seq([id : Nat, event : Events, expects : Seq(Nat)])
           /\ d = [rules |-> d.rules, tests |-> d.tests]
           /\ \A i \in 1..Len(d.rules) : \A l \in Lists : d.rules[i].lists[l] \in Seq(Nat)
           /\ \A i \in 1..Len(d.tests) : d.tests[i].expects \in Seq(Nat)
<1> DEFINE R == [id : Nat, event : Events, iter : BOOLEAN, lists : [Lists -> Seq(Nat)]]
           T == [id : Nat, event : Events, expects : Seq(Nat)]
<1>1. d \in [rules : Seq(R), tests : Seq(T)]
  BY DEF Documents
<1>2. (\A r \in R : \A l \in Lists : r.lists[l] \in Seq(Nat)) /\ \A t \in T : t.expects \in Seq(Nat)
  OBVIOUS
<1> HIDE DEF R, T
<1>3. d.rules \in Seq(R) /\ d.tests \in Seq(T) /\ d = [rules |-> d.rules, tests |-> d.tests]
  BY <1>1
<1>4. (\A i \in 1..Len(d.rules) : d.rules[i] \in R) /\ \A i \in 1..Len(d.tests) : d.tests[i] \in T
  BY <1>3, ElementOfSeq
<1> QED
  BY <1>2, <1>3, <1>4 DEF R, T

LEMMA ItemFits ==
    ASSUME NEW d \in Documents, NEW g, Fits(g, d), g.kind = "list", NEW f, NEW i, NEW id,
           IsItem(f, g, i, id), i \in DOMAIN ItemsOf(d, g), ItemsOf(d, g)[i] = id
    PROVE  Fits(f, d)
<1>1. g.rule \in 1..Len(d.rules) /\ d.rules[g.rule].id = g.rid /\ g.sec \in Lists
  BY DEF Fits, OfRule
<1>2. ItemsOf(d, g) = d.rules[g.rule].lists[g.sec]
  BY DEF ItemsOf
<1>3. f.kind = "form" /\ f.rule = g.rule /\ f.rid = g.rid /\ f.sec = g.sec /\ f.at = i /\ f.id = id
  BY DEF IsItem, IsInRule
<1> DEFINE s == d.rules[g.rule].lists[g.sec]
<1>4. s \in Seq(Nat)
  BY <1>1, RuleTyped
<1>5. i \in 1..Len(s) /\ s[i] = id
  <2> HIDE DEF s
  <2>1. DOMAIN s = 1..Len(s)
    BY <1>4
  <2> QED
    BY <1>2, <2>1 DEF s
<1> QED
  BY <1>1, <1>3, <1>5 DEF Fits, OfRule, OfTest

LEMMA OpenItemHolds ==
    ASSUME EditorInv, Key({"list"}), Quiet, OpenItem
    PROVE  \E s : KeyEffect(s)
<1>1. Same /\ Top.kind = "list" /\ ~readOnly
  BY KeyIs DEF OpenItem
<1>2. PICK r \in Top.rows : Open(Item(Top, r.at, r.of))
  BY DEF OpenItem
<1> DEFINE f == Item(Top, r.at, r.of)
<1>3. IsItem(f, Top, r.at, r.of)
  BY ItemIs
<1> HIDE DEF f
<1>4. Framed(f) /\ f.kind = "form"
  BY <1>3 DEF IsItem, IsInRule
<1>5. f.kind \in Kinds(showing)
  BY <1>1, <1>4, RuleTopIs DEF OfRule
<1>6. Over(Top, f) /\ Level(Top.kind) < Level(f.kind)
  BY <1>1, <1>4, OverIs, LevelsAre
<1>7. Targets => Fits(f, draft)
  <2> SUFFICES ASSUME Targets PROVE Fits(f, draft)
    OBVIOUS
  <2>1. draft \in Documents /\ r \in Rows(Top, draft) /\ Fits(Top, draft)
    BY <1>2, KeyIs
  <2>2. r.at \in DOMAIN ItemsOf(draft, Top) /\ ItemsOf(draft, Top)[r.at] = r.of
    BY <1>1, <2>1, RowsAre
  <2> QED
    BY <1>1, <1>3, <2>1, <2>2, ItemFits
<1> QED
  BY <1>1, <1>2, <1>4, <1>5, <1>6, <1>7, OpenHolds DEF f

(* Editors of an event, which are of no position.                          *)
LEMMA EventHolds ==
    ASSUME EditorInv, NEW kinds, Key(kinds), NEW k, Open(Frame(k)), Same, Quiet, ~readOnly, k \in OfEvents,
           Over(Top, Frame(k)), Level(Top.kind) < Level(k)
    PROVE  \E s : KeyEffect(s)
<1>1. Framed(Frame(k)) /\ Frame(k).kind = k /\ Frame(k).rule = 0
  BY FrameIs
<1>2. k \notin OfRule /\ k \notin OfTest /\ k \notin {"list", "form"}
  BY DEF OfEvents, OfRule, OfTest
<1>3. \A d : Fits(Frame(k), d)
  BY <1>1, <1>2 DEF Fits
<1>4. k \in Kinds(showing)
  BY KeyIs, KindsAre
<1> QED
  BY <1>1, <1>3, <1>4, OpenHolds

LEMMA EventOver ==
    ASSUME NEW g, NEW k,
           \/ k = "pick" /\ g.kind \in {"trigger", "tests", "editor"}
           \/ k \in {"paste", "file"} /\ g.kind = "pick"
           \/ k = "discard" /\ g.kind = "paste"
    PROVE  Over(g, Frame(k)) /\ Level(g.kind) < Level(k)
<1> DEFINE f == Frame(k)
<1>1. f.kind = k /\ f.text = FALSE
  BY FrameIs
<1> HIDE DEF f
<1>2. k # "recipe" /\ (k = "pick" => f.text = (g.kind = "fork"))
  BY <1>1
<1>3. Over(g, f)
  BY <1>1, <1>2 DEF Over
<1>4. Level(g.kind) < Level(k)
  BY LevelsAre
<1> QED
  BY <1>3, <1>4 DEF f

LEMMA OpenEventHolds ==
    ASSUME EditorInv, OpenPick \/ OpenPasteOrFile \/ (EscPaste /\ Top.text)
    PROVE  \E s : KeyEffect(s)
<1>1. CASE OpenPick
  <2>1. Key({"trigger", "tests", "editor"}) /\ Open(Frame("pick")) /\ Same /\ Quiet /\ ~readOnly
    BY <1>1 DEF OpenPick
  <2>2. Top.kind \in {"trigger", "tests", "editor"}
    BY <2>1, KeyIs
  <2>3. Over(Top, Frame("pick")) /\ Level(Top.kind) < Level("pick")
    BY <2>2, EventOver
  <2> QED
    BY <2>1, <2>3, EventHolds DEF OfEvents
<1>2. CASE OpenPasteOrFile
  <2>1. PICK k \in {"paste", "file"} : Key({"pick"}) /\ Open(Frame(k)) /\ Same /\ Quiet
    BY <1>2 DEF OpenPasteOrFile
  <2>2. Top.kind = "pick" /\ ~readOnly
    BY <2>1, KeyIs
  <2>3. Over(Top, Frame(k)) /\ Level(Top.kind) < Level(k)
    BY <2>2, EventOver
  <2> QED
    BY <2>1, <2>2, <2>3, EventHolds DEF OfEvents
<1>3. CASE EscPaste /\ Top.text
  <2>1. Key({"paste"}) /\ Open(Frame("discard")) /\ Same /\ Quiet
    BY <1>3 DEF EscPaste
  <2>2. Top.kind = "paste" /\ ~readOnly
    BY <2>1, KeyIs
  <2>3. Over(Top, Frame("discard")) /\ Level(Top.kind) < Level("discard")
    BY <2>2, EventOver
  <2> QED
    BY <2>1, <2>2, <2>3, EventHolds DEF OfEvents
<1> QED
  BY <1>1, <1>2, <1>3

LEMMA TestHolds ==
    ASSUME EditorInv, NEW kinds, Key(kinds), NEW k \in OfTest, NEW i, NEW id, Open(OnTest(k, i, id)), Same, Quiet,
           ~readOnly, Top.kind \in OfTest \cup {"tests"}, Level(Top.kind) < Level(k),
           Targets => i \in 1..Len(draft.tests) /\ draft.tests[i].id = id
    PROVE  \E s : KeyEffect(s)
<1> DEFINE f == OnTest(k, i, id)
<1>1. IsOfTest(f, k, i, id)
  BY OnTestIs
<1> HIDE DEF f
<1>2. Framed(f) /\ f.kind = k
  BY <1>1 DEF IsOfTest
<1>3. k \in Kinds(showing) /\ Over(Top, f)
  BY <1>2, TestTopIs, OverIs DEF OfTest
<1>4. Targets => Fits(f, draft)
  <2> SUFFICES ASSUME Targets PROVE Fits(f, draft)
    OBVIOUS
  <2>1. draft \in Documents
    BY KeyIs
  <2> QED
    BY <1>1, <2>1, TestRowFits
<1> QED
  BY <1>2, <1>3, <1>4, OpenHolds DEF f

LEMMA OpenOwnHolds ==
    ASSUME EditorInv, Key({"tests"}), ~readOnly, Quiet, Same, NEW r \in Top.rows, r.own,
           NEW k \in {"editor", "deleteTest"}, Open(OnTest(k, r.at, r.of))
    PROVE  \E s : KeyEffect(s)
<1>1. Top.kind = "tests" /\ Level(Top.kind) < Level(k) /\ k \in OfTest
  BY KeyIs, LevelsAre DEF OfTest
<1>2. Targets => r.at \in 1..Len(draft.tests) /\ draft.tests[r.at].id = r.of
  <2> SUFFICES ASSUME Targets PROVE r.at \in 1..Len(draft.tests) /\ draft.tests[r.at].id = r.of
    OBVIOUS
  <2>1. draft \in Documents /\ r \in Rows(Top, draft)
    BY KeyIs
  <2> QED
    BY <1>1, <2>1, RowsAre
<1> QED
  BY <1>1, <1>2, TestHolds

LEMMA OpenTestFormHolds ==
    ASSUME EditorInv, OpenTestForm
    PROVE  \E s : KeyEffect(s)
<1>1. PICK k \in {"name", "expect"} : Key({"editor"}) /\ Open(OnTest(k, Top.at, Top.id)) /\ Same /\ Quiet
  BY DEF OpenTestForm
<1>2. Top.kind = "editor" /\ ~readOnly
  BY <1>1, KeyIs
<1>3. Level(Top.kind) < Level(k) /\ k \in OfTest /\ Top.kind \in OfTest
  BY <1>1, <1>2, LevelsAre DEF OfTest
<1>4. Targets => Top.at \in 1..Len(draft.tests) /\ draft.tests[Top.at].id = Top.id
  <2> SUFFICES ASSUME Targets PROVE Top.at \in 1..Len(draft.tests) /\ draft.tests[Top.at].id = Top.id
    OBVIOUS
  <2>1. Fits(Top, draft)
    BY <1>1, KeyIs
  <2> QED
    BY <1>3, <2>1 DEF Fits
<1> QED
  BY <1>1, <1>2, <1>3, <1>4, TestHolds

-------------------------------------------------------------------------------
(* Edits of the document.                                                  *)

RuleOf == [id : Nat, event : Events, iter : BOOLEAN, lists : [Lists -> Seq(Nat)]]
TestOf == [id : Nat, event : Events, expects : Seq(Nat)]

(* What is there stays where it is.                                        *)
Extends(d, e) ==
    /\ Len(d.rules) \in Nat /\ Len(e.rules) \in Nat /\ Len(d.rules) <= Len(e.rules)
    /\ \A i \in 1..Len(d.rules) : e.rules[i].id = d.rules[i].id
    /\ Len(d.tests) \in Nat /\ Len(e.tests) \in Nat /\ Len(d.tests) <= Len(e.tests)
    /\ \A i \in 1..Len(d.tests) : e.tests[i].id = d.tests[i].id

LEMMA DocumentIs ==
    ASSUME NEW d
    PROVE  /\ d \in Documents => /\ d = [rules |-> d.rules, tests |-> d.tests]
                                 /\ d.rules \in Seq(RuleOf) /\ d.tests \in Seq(TestOf)
                                 /\ Len(d.rules) \in Nat /\ Len(d.tests) \in Nat
           /\ \A r \in Seq(RuleOf), t \in Seq(TestOf) : [rules |-> r, tests |-> t] \in Documents
<1>1. Documents = [rules : Seq(RuleOf), tests : Seq(TestOf)]
  BY DEF Documents, RuleOf, TestOf
<1> QED
  BY <1>1

LEMMA ChangedIs ==
    ASSUME NEW T, NEW s \in Seq(T), NEW i \in 1..Len(s), NEW x \in T
    PROVE  LET t == [s EXCEPT ![i] = x]
           IN  t \in Seq(T) /\ Len(t) = Len(s) /\ \A j \in 1..Len(s) : t[j] = IF j = i THEN x ELSE s[j]
BY ExceptSeq

(* An edit of one rule, or of one test.                                    *)
LEMMA RuleChanged ==
    ASSUME NEW d \in Documents, NEW i \in 1..Len(d.rules), NEW r \in RuleOf, r.id = d.rules[i].id,
           NEW e, e = [rules |-> [d.rules EXCEPT ![i] = r], tests |-> d.tests]
    PROVE  e \in Documents /\ Extends(d, e) /\ e.tests = d.tests /\ e.rules[i] = r
<1> DEFINE s == d.rules
           t == [s EXCEPT ![i] = r]
<1>1. s \in Seq(RuleOf) /\ d.tests \in Seq(TestOf) /\ Len(s) \in Nat /\ Len(d.tests) \in Nat
  BY DocumentIs
<1>2. t \in Seq(RuleOf) /\ Len(t) = Len(s) /\ \A j \in 1..Len(s) : t[j] = IF j = i THEN r ELSE s[j]
  BY <1>1, ChangedIs
<1> HIDE DEF t
<1>3. e.rules = t /\ e.tests = d.tests /\ e = [rules |-> t, tests |-> d.tests]
  BY DEF t
<1>4. e \in Documents
  BY <1>1, <1>2, <1>3, DocumentIs
<1> QED
  BY <1>1, <1>2, <1>3, <1>4 DEF Extends

LEMMA TestChanged ==
    ASSUME NEW d \in Documents, NEW i \in 1..Len(d.tests), NEW r \in TestOf, r.id = d.tests[i].id,
           NEW e, e = [rules |-> d.rules, tests |-> [d.tests EXCEPT ![i] = r]]
    PROVE  e \in Documents /\ Extends(d, e) /\ e.rules = d.rules /\ e.tests[i] = r
<1> DEFINE s == d.tests
           t == [s EXCEPT ![i] = r]
<1>1. s \in Seq(TestOf) /\ d.rules \in Seq(RuleOf) /\ Len(s) \in Nat /\ Len(d.rules) \in Nat
  BY DocumentIs
<1>2. t \in Seq(TestOf) /\ Len(t) = Len(s) /\ \A j \in 1..Len(s) : t[j] = IF j = i THEN r ELSE s[j]
  BY <1>1, ChangedIs
<1> HIDE DEF t
<1>3. e.tests = t /\ e.rules = d.rules /\ e = [rules |-> d.rules, tests |-> t]
  BY DEF t
<1>4. e \in Documents
  BY <1>1, <1>2, <1>3, DocumentIs
<1> QED
  BY <1>1, <1>2, <1>3, <1>4 DEF Extends

LEMMA RuleAdded ==
    ASSUME NEW d \in Documents, NEW r \in RuleOf, NEW e, e = [d EXCEPT !.rules = Append(@, r)]
    PROVE  /\ e \in Documents /\ Extends(d, e) /\ e.tests = d.tests
           /\ Len(e.rules) \in 1..Len(e.rules) /\ e.rules[Len(e.rules)].id = r.id
<1> DEFINE s == d.rules
           t == Append(s, r)
<1>1. /\ s \in Seq(RuleOf) /\ d.tests \in Seq(TestOf) /\ Len(s) \in Nat /\ Len(d.tests) \in Nat
      /\ d = [rules |-> s, tests |-> d.tests]
  BY DocumentIs
<1>2. t \in Seq(RuleOf) /\ Len(t) = Len(s) + 1 /\ t[Len(s) + 1] = r /\ \A j \in 1..Len(s) : t[j] = s[j]
  BY <1>1, AppendProperties
<1> HIDE DEF t
<1>3. e = [d EXCEPT !.rules = t]
  BY DEF t
<1> HIDE DEF s
<1>4. e.rules = t /\ e.tests = d.tests /\ e = [rules |-> t, tests |-> d.tests]
  BY <1>1, <1>3
<1>6. [rules |-> t, tests |-> d.tests] \in Documents
  BY <1>1, <1>2, DocumentIs
<1>5. e \in Documents
  BY <1>4, <1>6
<1> QED
  BY <1>1, <1>2, <1>4, <1>5 DEF Extends, s

LEMMA TestAdded ==
    ASSUME NEW d \in Documents, NEW r \in TestOf, NEW e, e = [d EXCEPT !.tests = Append(@, r)]
    PROVE  /\ e \in Documents /\ Extends(d, e) /\ e.rules = d.rules
           /\ Len(e.tests) \in 1..Len(e.tests) /\ e.tests[Len(e.tests)].id = r.id
<1> DEFINE s == d.tests
           t == Append(s, r)
<1>1. /\ s \in Seq(TestOf) /\ d.rules \in Seq(RuleOf) /\ Len(s) \in Nat /\ Len(d.rules) \in Nat
      /\ d = [rules |-> d.rules, tests |-> s]
  BY DocumentIs
<1>2. t \in Seq(TestOf) /\ Len(t) = Len(s) + 1 /\ t[Len(s) + 1] = r /\ \A j \in 1..Len(s) : t[j] = s[j]
  BY <1>1, AppendProperties
<1> HIDE DEF t
<1>3. e = [d EXCEPT !.tests = t]
  BY DEF t
<1> HIDE DEF s
<1>4. e.tests = t /\ e.rules = d.rules /\ e = [rules |-> d.rules, tests |-> t]
  BY <1>1, <1>3
<1>6. [rules |-> d.rules, tests |-> t] \in Documents
  BY <1>1, <1>2, DocumentIs
<1>5. e \in Documents
  BY <1>4, <1>6
<1> QED
  BY <1>1, <1>2, <1>4, <1>5 DEF Extends, s

LEMMA RemovedIs ==
    ASSUME NEW T, NEW s \in Seq(T), NEW i \in 1..Len(s)
    PROVE  RemoveAt(s, i) \in Seq(T)
<1> DEFINE n == Len(s)
<1>1. n \in Nat /\ \A j \in 1..n : s[j] \in T
  BY ElementOfSeq
<1>2. SubSeq(s, 1, i - 1) \in Seq(T)
  <2>1. i - 1 \in Int /\ 1 \in Int /\ \A j \in 1..(i - 1) : s[j] \in T
    BY <1>1
  <2> HIDE DEF n
  <2> QED
    BY <2>1, SubSeqProperties
<1>3. SubSeq(s, i + 1, Len(s)) \in Seq(T)
  <2>1. i + 1 \in Int /\ n \in Int /\ \A j \in (i + 1)..n : s[j] \in T
    BY <1>1
  <2> HIDE DEF n
  <2>2. SubSeq(s, i + 1, n) \in Seq(T)
    BY <2>1, SubSeqProperties
  <2> QED
    BY <2>2 DEF n
<1> HIDE DEF n
<1>4. SubSeq(s, 1, i - 1) \o SubSeq(s, i + 1, Len(s)) \in Seq(T)
  BY <1>2, <1>3, ConcatProperties
<1> QED
  BY <1>4 DEF RemoveAt

LEMMA RuleRemoved ==
    ASSUME NEW d \in Documents, NEW i \in 1..Len(d.rules), NEW e, e = [d EXCEPT !.rules = RemoveAt(@, i)]
    PROVE  e \in Documents /\ e.tests = d.tests
<1> DEFINE t == RemoveAt(d.rules, i)
<1>1. d.rules \in Seq(RuleOf) /\ d.tests \in Seq(TestOf) /\ d = [rules |-> d.rules, tests |-> d.tests]
  BY DocumentIs
<1>2. t \in Seq(RuleOf) /\ e = [d EXCEPT !.rules = t]
  BY <1>1, RemovedIs
<1> HIDE DEF t
<1>3. e = [rules |-> t, tests |-> d.tests]
  BY <1>1, <1>2
<1> QED
  BY <1>1, <1>2, <1>3, DocumentIs

LEMMA TestRemoved ==
    ASSUME NEW d \in Documents, NEW i \in 1..Len(d.tests), NEW e, e = [d EXCEPT !.tests = RemoveAt(@, i)]
    PROVE  e \in Documents /\ e.rules = d.rules
<1> DEFINE t == RemoveAt(d.tests, i)
<1>1. d.rules \in Seq(RuleOf) /\ d.tests \in Seq(TestOf) /\ d = [rules |-> d.rules, tests |-> d.tests]
  BY DocumentIs
<1>2. t \in Seq(TestOf) /\ e = [d EXCEPT !.tests = t]
  BY <1>1, RemovedIs
<1> HIDE DEF t
<1>3. e = [rules |-> d.rules, tests |-> t]
  BY <1>1, <1>2
<1> QED
  BY <1>1, <1>2, <1>3, DocumentIs

(* The root of a pane is of no position.                                   *)
LEMMA RootFits ==
    ASSUME NEW p, NEW s, Pile(p, s), Level(Last(s).kind) < 1, NEW d, AllFit(s, d), NEW e
    PROVE  AllFit(s, e)
<1>1. /\ s # <<>> /\ Level(s[1].kind) = 0
      /\ \A i \in 1..Len(s) : Framed(s[i]) /\ s[i].kind \in Kinds(p)
      /\ \A i, j \in 1..Len(s) : i < j => Level(s[i].kind) < Level(s[j].kind)
      /\ Len(s) \in 1..Len(s) /\ Last(s) = s[Len(s)]
  BY PileTop DEF Pile, Last
<1> SUFFICES ASSUME NEW i \in 1..Len(s) PROVE Fits(s[i], e)
  BY DEF AllFit
<1>2. Level(s[i].kind) = 0
  <2>1. Level(s[i].kind) \in Nat /\ Level(s[Len(s)].kind) = 0
    BY <1>1, LevelIs
  <2>2. i = Len(s) \/ i < Len(s)
    BY <1>1
  <2> QED
    BY <1>1, <2>1, <2>2
<1>3. s[i].kind \in {"hub", "tests"}
  BY <1>1, <1>2, LevelIs DEF Kinds
<1>4. Fits(s[i], d)
  BY DEF AllFit
<1> QED
  BY <1>3, <1>4 DEF Fits, OfRule, OfTest

(* An edit that moves nothing, under editors that are no form of an item.  *)
LEMMA ExtendedFits ==
    ASSUME NEW p, NEW s, Pile(p, s), Level(Last(s).kind) < 4, NEW d, AllFit(s, d), NEW e, Extends(d, e)
    PROVE  AllFit(s, e)
<1>1. /\ \A i, j \in 1..Len(s) : i < j => Level(s[i].kind) < Level(s[j].kind)
      /\ Len(s) \in 1..Len(s) /\ Last(s) = s[Len(s)]
  BY PileTop DEF Pile, Last
<1> SUFFICES ASSUME NEW i \in 1..Len(s) PROVE Fits(s[i], e)
  BY DEF AllFit
<1>2. s[i].kind # "form"
  <2>1. Level(s[i].kind) \in Nat /\ Level(s[Len(s)].kind) \in Nat
    BY LevelIs
  <2>2. i = Len(s) \/ i < Len(s)
    BY <1>1
  <2>3. Level(s[i].kind) < 4
    BY <1>1, <2>1, <2>2
  <2> QED
    BY <2>3, LevelsAre
<1>3. Fits(s[i], d)
  BY DEF AllFit
<1>4. \A k \in 1..Len(d.rules) : k \in 1..Len(e.rules)
  BY DEF Extends
<1>5. \A k \in 1..Len(d.tests) : k \in 1..Len(e.tests)
  BY DEF Extends
<1> QED
  BY <1>2, <1>3, <1>4, <1>5 DEF Fits, Extends

-------------------------------------------------------------------------------
(* Keys that edit the document, or change what is open otherwise.          *)

LEMMA EditHolds ==
    ASSUME EditorInv, NEW kinds, Key(kinds), Quiet, ~readOnly, NEW t, Becomes(t), Pile(showing, t),
           UNCHANGED <<draft, found, lagging>> \/ Edited(draft'),
           late' = Covered(showing) \/ (late' = late /\ Alike(Last(t), Top)),
           Targets => /\ draft' \in Documents /\ created' \in Nat
                      /\ AllFit(t, draft') /\ Last(t).rows = Rows(Last(t), draft')
                      /\ showing = "rules" => draft'.tests = draft.tests
                      /\ showing = "tests" => draft'.rules = draft.rules
    PROVE  \E s : KeyEffect(s)
<1>1. /\ showing \in {"rules", "tests"} /\ ~unparsed /\ ~left /\ asked = NoQuestion
      /\ UNCHANGED <<showing, readOnly, unparsed, left>>
  BY KeyIs
<1>2. /\ UNCHANGED asked /\ stacks' = [stacks EXCEPT ![showing] = t]
      /\ UNCHANGED <<draft, found, lagging>> \/ (lagging' = TRUE /\ found' = found)
  BY DEF Quiet, Becomes, Edited
<1>3. KeyEffect(t)
  BY <1>1, <1>2 DEF KeyEffect
<1> QED
  BY <1>3

(* The one on top closes with an edit that removes what it is about, or     *)
(* that moves nothing.                                                     *)
LEMMA DeleteRuleHolds ==
    ASSUME EditorInv, DeleteRule
    PROVE  \E s : KeyEffect(s)
<1> DEFINE d == [draft EXCEPT !.rules = RemoveAt(@, Top.rule)]
           t == Popped(S, d)
<1>1. Key({"delete"}) /\ Edited(d) /\ Becomes(t) /\ late' = Covered(showing) /\ created' = created /\ Quiet
  BY DEF DeleteRule
<1>2. Pile(showing, S) /\ Top = Last(S) /\ Top.kind = "delete" /\ Level(Top.kind) = 1 /\ ~readOnly
  BY <1>1, KeyIs, LevelsAre DEF Top
<1>3. showing = "rules"
  BY <1>1, <1>2, RuleTopIs DEF OfRule
<1>4. draft' = d
  BY <1>1 DEF Edited
<1> HIDE DEF d
<1>5. /\ Pile(showing, t) /\ Alike(Last(t), Last(Front(S))) /\ Last(t).rows = Rows(Last(t), d)
      /\ \A e : AllFit(S, e) => AllFit(t, e)
  BY <1>2, PoppedIs
<1>6. Level(Last(t).kind) < 1
  BY <1>2, <1>5, PilePop DEF Alike
<1> HIDE DEF t
<1>7. ASSUME Targets PROVE d \in Documents /\ created' \in Nat /\ AllFit(t, d) /\ d.tests = draft.tests
  <2>1. draft \in Documents /\ created \in Nat /\ AllFit(S, draft) /\ Fits(Top, draft)
    BY <1>1, <1>7, KeyIs
  <2>2. Top.rule \in 1..Len(draft.rules)
    BY <1>2, <2>1 DEF Fits, OfRule
  <2>3. d \in Documents /\ d.tests = draft.tests
    BY <2>1, <2>2, RuleRemoved DEF d
  <2>4. AllFit(t, d)
    BY <1>5, <1>6, <2>1, RootFits
  <2> QED
    BY <1>1, <2>1, <2>3, <2>4
<1> QED
  BY <1>1, <1>2, <1>3, <1>4, <1>5, <1>7, EditHolds

LEMMA DeleteTestHolds ==
    ASSUME EditorInv, DeleteTest
    PROVE  \E s : KeyEffect(s)
<1> DEFINE d == [draft EXCEPT !.tests = RemoveAt(@, Top.at)]
           t == Popped(S, d)
<1>1. Key({"deleteTest"}) /\ Edited(d) /\ Becomes(t) /\ late' = Covered(showing) /\ created' = created /\ Quiet
  BY DEF DeleteTest
<1>2. Pile(showing, S) /\ Top = Last(S) /\ Top.kind = "deleteTest" /\ Level(Top.kind) = 1 /\ ~readOnly
  BY <1>1, KeyIs, LevelsAre DEF Top
<1>3. showing = "tests"
  BY <1>1, <1>2, TestTopIs DEF OfTest
<1>4. draft' = d
  BY <1>1 DEF Edited
<1> HIDE DEF d
<1>5. /\ Pile(showing, t) /\ Alike(Last(t), Last(Front(S))) /\ Last(t).rows = Rows(Last(t), d)
      /\ \A e : AllFit(S, e) => AllFit(t, e)
  BY <1>2, PoppedIs
<1>6. Level(Last(t).kind) < 1
  BY <1>2, <1>5, PilePop DEF Alike
<1> HIDE DEF t
<1>7. ASSUME Targets PROVE d \in Documents /\ created' \in Nat /\ AllFit(t, d) /\ d.rules = draft.rules
  <2>1. draft \in Documents /\ created \in Nat /\ AllFit(S, draft) /\ Fits(Top, draft)
    BY <1>1, <1>7, KeyIs
  <2>2. Top.at \in 1..Len(draft.tests)
    BY <1>2, <2>1 DEF Fits, OfTest
  <2>3. d \in Documents /\ d.rules = draft.rules
    BY <2>1, <2>2, TestRemoved DEF d
  <2>4. AllFit(t, d)
    BY <1>5, <1>6, <2>1, RootFits
  <2> QED
    BY <1>1, <2>1, <2>3, <2>4
<1> QED
  BY <1>1, <1>2, <1>3, <1>4, <1>5, <1>7, EditHolds

LEMMA CloseKeysHold ==
    ASSUME EditorInv, Esc \/ CloseIterHub \/ ChooseAction \/ ChoosePath \/ SubmitName \/ (EscPaste /\ ~Top.text)
    PROVE  \E s : KeyEffect(s)
<1> DEFINE kinds == {"rule", "action", "list", "iterHub", "form", "trigger", "paths", "file",
                     "editor", "name", "expect", "delete", "deleteTest", "discard"}
<1>1. PICK k \in {kinds, {"iterHub"}, {"action"}, {"paths"}, {"name"}, {"paste"}} :
         Key(k) /\ Close /\ Quiet /\ UNCHANGED created /\ (Same \/ Edited(draft))
  BY DEF Esc, CloseIterHub, ChooseAction, ChoosePath, SubmitName, EscPaste, Same
<1> QED
  BY <1>1, CloseHolds

LEMMA TypeKeysHold ==
    ASSUME EditorInv, TupleForm \/ VarForm \/ FilterForm \/ TriggerForm \/ ToggleCoverage
    PROVE  \E s : KeyEffect(s)
<1>1. PICK k \in {{"form"}, {"trigger"}, {"editor"}} :
         Key(k) /\ Edited(draft) /\ Quiet /\ UNCHANGED <<stacks, late, created>>
  BY DEF TupleForm, VarForm, FilterForm, TriggerForm, ToggleCoverage, TypeIn
<1> QED
  BY <1>1, TypeHolds

Relisted(d, i, l, s) == [d EXCEPT !.rules[i].lists[l] = s]

LEMMA ListChanged ==
    ASSUME NEW d \in Documents, NEW i \in 1..Len(d.rules), NEW l \in Lists, NEW s \in Seq(Nat)
    PROVE  LET e == Relisted(d, i, l, s)
           IN  e \in Documents /\ Extends(d, e) /\ e.tests = d.tests /\ e.rules[i].lists[l] = s
<1> DEFINE e == Relisted(d, i, l, s)
           a == d.rules
           b == a[i]
           c == b.lists
           c2 == [c EXCEPT ![l] = s]
           r == [b EXCEPT !.lists = c2]
           a2 == [a EXCEPT ![i] = r]
<1>1. d = [rules |-> a, tests |-> d.tests] /\ a \in Seq(RuleOf)
  BY DocumentIs
<1>2. b \in RuleOf
  BY <1>1, ElementOfSeq
<1>3. e = [d EXCEPT !.rules = a2]
  BY DEF Relisted
<1> HIDE DEF a2, e
<1>4. e = [rules |-> a2, tests |-> d.tests]
  BY <1>1, <1>3
<1> HIDE DEF b
<1>10. b = [id |-> b.id, event |-> b.event, iter |-> b.iter, lists |-> c]
  BY <1>2 DEF RuleOf
<1>5. c \in [Lists -> Seq(Nat)] /\ b.id \in Nat /\ b.event \in Events /\ b.iter \in BOOLEAN
  BY <1>2 DEF RuleOf
<1> HIDE DEF c
<1>6. c2 \in [Lists -> Seq(Nat)] /\ c2[l] = s
  BY <1>5
<1> HIDE DEF c2
<1>7. r = [id |-> b.id, event |-> b.event, iter |-> b.iter, lists |-> c2]
  BY <1>10
<1> HIDE DEF r
<1>8. r \in RuleOf /\ r.id = b.id /\ r.lists = c2
  BY <1>5, <1>6, <1>7 DEF RuleOf
<1>11. r.id = d.rules[i].id /\ e = [rules |-> [d.rules EXCEPT ![i] = r], tests |-> d.tests]
  BY <1>4, <1>8 DEF a2, b
<1>9. e \in Documents /\ Extends(d, e) /\ e.tests = d.tests /\ e.rules[i] = r
  BY <1>8, <1>11, RuleChanged
<1> QED
  BY <1>6, <1>8, <1>9 DEF e

LEMMA ItemsChanged ==
    ASSUME EditorInv, Key({"list"}), Targets, NEW s \in Seq(Nat), NEW d, d = WithItems(Top, s)
    PROVE  /\ d \in Documents /\ d.tests = draft.tests /\ ItemsOf(d, Top) = s
           /\ Fits(Top, d) /\ \A t : Pile(showing, t) /\ Level(Last(t).kind) < 4 /\ AllFit(t, draft) => AllFit(t, d)
<1>1. /\ Top.kind = "list" /\ Fits(Top, draft) /\ draft \in Documents /\ Pile(showing, S) /\ Top = Last(S)
      /\ AllFit(S, draft)
  BY KeyIs DEF Top
<1>2. Top.rule \in 1..Len(draft.rules) /\ Top.sec \in Lists
  BY <1>1 DEF Fits, OfRule
<1> DEFINE i == Top.rule
           l == Top.sec
<1>3. d = Relisted(draft, i, l, s)
  BY DEF WithItems, Relisted
<1> HIDE DEF i, l
<1>4. i \in 1..Len(draft.rules) /\ l \in Lists
  BY <1>2 DEF i, l
<1>5. d \in Documents /\ Extends(draft, d) /\ d.tests = draft.tests /\ d.rules[i].lists[l] = s
  BY <1>1, <1>3, <1>4, ListChanged
<1>6. ItemsOf(d, Top) = s
  BY <1>1, <1>5 DEF ItemsOf, i, l
<1>7. \A t : Pile(showing, t) /\ Level(Last(t).kind) < 4 /\ AllFit(t, draft) => AllFit(t, d)
  BY <1>5, ExtendedFits
<1>8. AllFit(S, d)
  BY <1>1, <1>7, LevelsAre
<1>9. Fits(Top, d)
  BY <1>1, <1>8, PileTop
<1> QED
  BY <1>5, <1>6, <1>7, <1>9

LEMMA AddItemHolds ==
    ASSUME EditorInv, Key({"list"}), Quiet, AddItem
    PROVE  \E s : KeyEffect(s)
<1> DEFINE s == Append(ItemsOf(draft, Top), NewId)
           d == WithItems(Top, s)
           u == Resumed(S, d)
           f == Item(Top, Len(s), NewId)
           t == Opened(u, f, d)
<1>1. Made(1) /\ Edited(d) /\ Becomes(t) /\ late' = Covered(showing)
  BY DEF AddItem
<1>2. /\ Top.kind = "list" /\ ~readOnly /\ Pile(showing, S) /\ Top = Last(S) /\ draft' = d
      /\ created' = created + 1
  BY <1>1, KeyIs DEF Top, Edited, Made
<1>3. showing = "rules" /\ "form" \in Kinds(showing)
  BY <1>2, RuleTopIs DEF OfRule
<1>4. IsItem(f, Top, Len(s), NewId)
  BY ItemIs
<1> HIDE DEF f, d, s
<1>5. Pile(showing, u) /\ Alike(Last(u), Top) /\ \A e : AllFit(S, e) => AllFit(u, e)
  BY <1>2, ResumedIs
<1> HIDE DEF u
<1>6. Framed(f) /\ f.kind = "form" /\ Last(u).kind = "list"
  BY <1>2, <1>4, <1>5 DEF IsItem, IsInRule, Alike
<1>7. Over(Last(u), f) /\ Level(Last(u).kind) < Level(f.kind)
  BY <1>6, OverIs, LevelsAre
<1>8. /\ Pile(showing, t) /\ Last(t).rows = Rows(Last(t), d)
      /\ \A e : AllFit(u, e) /\ Fits(f, e) => AllFit(t, e)
  BY <1>3, <1>5, <1>6, <1>7, OpenedIs
<1> HIDE DEF t
<1>9. ASSUME Targets PROVE d \in Documents /\ created' \in Nat /\ AllFit(t, d) /\ d.tests = draft.tests
  <2>1. draft \in Documents /\ created \in Nat /\ AllFit(S, draft) /\ Fits(Top, draft)
    BY <1>9, KeyIs
  <2>2. NewId \in Nat
    BY <2>1, EditorAssumption DEF NewId
  <2>3. ItemsOf(draft, Top) \in Seq(Nat)
    <3>1. Top.rule \in 1..Len(draft.rules) /\ Top.sec \in Lists
      BY <1>2, <2>1 DEF Fits, OfRule
    <3>2. ItemsOf(draft, Top) = draft.rules[Top.rule].lists[Top.sec]
      BY <1>2 DEF ItemsOf
    <3> QED
      BY <2>1, <3>1, <3>2, RuleTyped
  <2>4. s \in Seq(Nat) /\ Len(s) \in DOMAIN s /\ s[Len(s)] = NewId
    <3> DEFINE q == ItemsOf(draft, Top)
    <3>1. q \in Seq(Nat) /\ Len(q) \in Nat /\ s = Append(q, NewId)
      BY <2>3 DEF s
    <3> HIDE DEF q
    <3> QED
      BY <2>2, <3>1, AppendProperties
  <2>5. /\ d \in Documents /\ d.tests = draft.tests /\ ItemsOf(d, Top) = s /\ Fits(Top, d)
        /\ \A v : Pile(showing, v) /\ Level(Last(v).kind) < 4 /\ AllFit(v, draft) => AllFit(v, d)
    BY <1>9, <2>4, ItemsChanged DEF d
  <2>6. AllFit(u, d)
    BY <1>2, <1>5, <2>1, <2>5, LevelsAre
  <2>7. Fits(f, d)
    BY <1>2, <1>4, <2>4, <2>5, ItemFits
  <2> QED
    BY <1>2, <1>8, <2>1, <2>5, <2>6, <2>7
<1> QED
  BY <1>1, <1>2, <1>3, <1>8, <1>9, EditHolds

LEMMA DeleteItemHolds ==
    ASSUME EditorInv, Key({"list"}), Quiet, DeleteItem
    PROVE  \E s : KeyEffect(s)
<1> DEFINE Cut(r) == WithItems(Top, RemoveAt(ItemsOf(draft, Top), r.at))
<1>1. PICK r \in Top.rows : Edited(Cut(r)) /\ Becomes(Resumed(S, Cut(r)))
  BY DEF DeleteItem
<1> DEFINE s == RemoveAt(ItemsOf(draft, Top), r.at)
           d == Cut(r)
           t == Resumed(S, d)
<1>2. /\ Top.kind = "list" /\ ~readOnly /\ Pile(showing, S) /\ Top = Last(S) /\ draft' = d
      /\ late' = late /\ created' = created
  BY <1>1, KeyIs DEF Top, Edited, DeleteItem
<1>3. showing = "rules"
  BY <1>2, RuleTopIs DEF OfRule
<1>4. d = WithItems(Top, s) /\ Edited(d) /\ Becomes(t)
  BY <1>1
<1> HIDE DEF d, s
<1>5. /\ Pile(showing, t) /\ Alike(Last(t), Top) /\ Last(t).rows = Rows(Last(t), d)
      /\ \A e : AllFit(S, e) => AllFit(t, e)
  BY <1>2, ResumedIs
<1> HIDE DEF t
<1>6. ASSUME Targets PROVE d \in Documents /\ created' \in Nat /\ AllFit(t, d) /\ d.tests = draft.tests
  <2>1. /\ draft \in Documents /\ created \in Nat /\ AllFit(S, draft) /\ Fits(Top, draft)
        /\ Top.rows = Rows(Top, draft)
    BY <1>6, KeyIs
  <2>2. r.at \in DOMAIN ItemsOf(draft, Top)
    BY <1>2, <2>1, RowsAre
  <2>3. ItemsOf(draft, Top) \in Seq(Nat)
    <3>1. Top.rule \in 1..Len(draft.rules) /\ Top.sec \in Lists
      BY <1>2, <2>1 DEF Fits, OfRule
    <3>2. ItemsOf(draft, Top) = draft.rules[Top.rule].lists[Top.sec]
      BY <1>2 DEF ItemsOf
    <3> QED
      BY <2>1, <3>1, <3>2, RuleTyped
  <2>4. s \in Seq(Nat)
    <3> DEFINE q == ItemsOf(draft, Top)
    <3>1. q \in Seq(Nat) /\ DOMAIN q = 1..Len(q) /\ r.at \in DOMAIN q /\ s = RemoveAt(q, r.at)
      BY <2>2, <2>3 DEF s
    <3> HIDE DEF q
    <3> QED
      BY <3>1, RemovedIs
  <2>5. /\ d \in Documents /\ d.tests = draft.tests
        /\ \A v : Pile(showing, v) /\ Level(Last(v).kind) < 4 /\ AllFit(v, draft) => AllFit(v, d)
    BY <1>4, <1>6, <2>4, ItemsChanged
  <2>6. AllFit(t, d)
    BY <1>2, <1>5, <2>1, <2>5, LevelsAre
  <2> QED
    BY <1>2, <2>1, <2>5, <2>6
<1> QED
  BY <1>2, <1>3, <1>4, <1>5, <1>6, EditHolds

LEMMA ListKeysHold ==
    ASSUME EditorInv, TupleList \/ VarList \/ FilterList
    PROVE  \E s : KeyEffect(s)
<1>1. Key({"list"}) /\ Quiet /\ (AddItem \/ OpenItem \/ DeleteItem)
  BY DEF TupleList, VarList, FilterList, ListKey
<1> QED
  BY <1>1, AddItemHolds, OpenItemHolds, DeleteItemHolds

Flagged(d, i, x) == [d EXCEPT !.rules[i].iter = x]

LEMMA IterChanged ==
    ASSUME NEW d \in Documents, NEW i \in 1..Len(d.rules), NEW x \in BOOLEAN
    PROVE  LET e == Flagged(d, i, x)
           IN  e \in Documents /\ Extends(d, e) /\ e.tests = d.tests
<1> DEFINE e == Flagged(d, i, x)
           a == d.rules
           b == a[i]
           r == [b EXCEPT !.iter = x]
           a2 == [a EXCEPT ![i] = r]
<1>1. d = [rules |-> d.rules, tests |-> d.tests] /\ a \in Seq(RuleOf)
  BY DocumentIs
<1>2. b \in RuleOf
  BY <1>1, ElementOfSeq
<1>3. e = [d EXCEPT !.rules = a2]
  BY DEF Flagged
<1> HIDE DEF a2, e
<1>4. e = [rules |-> a2, tests |-> d.tests]
  BY <1>1, <1>3
<1> HIDE DEF b
<1>5. r \in RuleOf /\ r.id = b.id
  BY <1>2 DEF RuleOf
<1> HIDE DEF r
<1>6. r.id = d.rules[i].id /\ e = [rules |-> [d.rules EXCEPT ![i] = r], tests |-> d.tests]
  BY <1>4, <1>5 DEF a2, b
<1>7. e \in Documents /\ Extends(d, e) /\ e.tests = d.tests
  BY <1>5, <1>6, RuleChanged
<1> QED
  BY <1>7 DEF e

Tried(d, i, x) == [d EXCEPT !.rules[i].event = x]

LEMMA EventChanged ==
    ASSUME NEW d \in Documents, NEW i \in 1..Len(d.rules), NEW x \in Events
    PROVE  LET e == Tried(d, i, x)
           IN  e \in Documents /\ Extends(d, e) /\ e.tests = d.tests
<1> DEFINE e == Tried(d, i, x)
           a == d.rules
           b == a[i]
           r == [b EXCEPT !.event = x]
           a2 == [a EXCEPT ![i] = r]
<1>1. d = [rules |-> d.rules, tests |-> d.tests] /\ a \in Seq(RuleOf)
  BY DocumentIs
<1>2. b \in RuleOf
  BY <1>1, ElementOfSeq
<1>3. e = [d EXCEPT !.rules = a2]
  BY DEF Tried
<1> HIDE DEF a2, e
<1>4. e = [rules |-> a2, tests |-> d.tests]
  BY <1>1, <1>3
<1> HIDE DEF b
<1>5. r \in RuleOf /\ r.id = b.id
  BY <1>2 DEF RuleOf
<1> HIDE DEF r
<1>6. r.id = d.rules[i].id /\ e = [rules |-> [d.rules EXCEPT ![i] = r], tests |-> d.tests]
  BY <1>4, <1>5 DEF a2, b
<1>7. e \in Documents /\ Extends(d, e) /\ e.tests = d.tests
  BY <1>5, <1>6, RuleChanged
<1> QED
  BY <1>7 DEF e

TriedTest(d, i, x) == [d EXCEPT !.tests[i].event = x]

LEMMA TestEventChanged ==
    ASSUME NEW d \in Documents, NEW i \in 1..Len(d.tests), NEW x \in Events
    PROVE  LET e == TriedTest(d, i, x)
           IN  e \in Documents /\ Extends(d, e) /\ e.rules = d.rules
<1> DEFINE e == TriedTest(d, i, x)
           a == d.tests
           b == a[i]
           r == [b EXCEPT !.event = x]
           a2 == [a EXCEPT ![i] = r]
<1>1. d = [rules |-> d.rules, tests |-> d.tests] /\ a \in Seq(TestOf)
  BY DocumentIs
<1>2. b \in TestOf
  BY <1>1, ElementOfSeq
<1>3. e = [d EXCEPT !.tests = a2]
  BY DEF TriedTest
<1> HIDE DEF a2, e
<1>4. e = [rules |-> d.rules, tests |-> a2]
  BY <1>1, <1>3
<1> HIDE DEF b
<1>5. r \in TestOf /\ r.id = b.id
  BY <1>2 DEF TestOf
<1> HIDE DEF r
<1>6. r.id = d.tests[i].id /\ e = [rules |-> d.rules, tests |-> [d.tests EXCEPT ![i] = r]]
  BY <1>4, <1>5 DEF a2, b
<1>7. e \in Documents /\ Extends(d, e) /\ e.rules = d.rules
  BY <1>5, <1>6, TestChanged
<1> QED
  BY <1>7 DEF e

Expected(d, i, x) == [d EXCEPT !.tests[i].expects = x]

LEMMA ExpectsChanged ==
    ASSUME NEW d \in Documents, NEW i \in 1..Len(d.tests), NEW x \in Seq(Nat)
    PROVE  LET e == Expected(d, i, x)
           IN  e \in Documents /\ Extends(d, e) /\ e.rules = d.rules
<1> DEFINE e == Expected(d, i, x)
           a == d.tests
           b == a[i]
           r == [b EXCEPT !.expects = x]
           a2 == [a EXCEPT ![i] = r]
<1>1. d = [rules |-> d.rules, tests |-> d.tests] /\ a \in Seq(TestOf)
  BY DocumentIs
<1>2. b \in TestOf
  BY <1>1, ElementOfSeq
<1>3. e = [d EXCEPT !.tests = a2]
  BY DEF Expected
<1> HIDE DEF a2, e
<1>4. e = [rules |-> d.rules, tests |-> a2]
  BY <1>1, <1>3
<1> HIDE DEF b
<1>5. r \in TestOf /\ r.id = b.id
  BY <1>2 DEF TestOf
<1> HIDE DEF r
<1>6. r.id = d.tests[i].id /\ e = [rules |-> d.rules, tests |-> [d.tests EXCEPT ![i] = r]]
  BY <1>4, <1>5 DEF a2, b
<1>7. e \in Documents /\ Extends(d, e) /\ e.rules = d.rules
  BY <1>5, <1>6, TestChanged
<1> QED
  BY <1>7 DEF e

LEMMA IterDropped ==
    ASSUME NEW d \in Documents, NEW i \in 1..Len(d.rules)
    PROVE  LET e == Relisted(Flagged(d, i, FALSE), i, "each", <<>>)
           IN  e \in Documents /\ Extends(d, e) /\ e.tests = d.tests
<1> DEFINE a == Flagged(d, i, FALSE)
           e == Relisted(a, i, "each", <<>>)
<1>1. a \in Documents /\ Extends(d, a) /\ a.tests = d.tests
  BY IterChanged
<1> HIDE DEF a
<1>2. i \in 1..Len(a.rules) /\ "each" \in Lists /\ <<>> \in Seq(Nat)
  BY <1>1 DEF Extends, Lists
<1>3. e \in Documents /\ Extends(a, e) /\ e.tests = a.tests
  BY <1>1, <1>2, ListChanged
<1> HIDE DEF e
<1>4. Extends(d, e)
  <2>1. \A k \in 1..Len(d.rules) : k \in 1..Len(a.rules) /\ e.rules[k].id = d.rules[k].id
    BY <1>1, <1>3 DEF Extends
  <2>2. \A k \in 1..Len(d.tests) : k \in 1..Len(a.tests) /\ e.tests[k].id = d.tests[k].id
    BY <1>1, <1>3 DEF Extends
  <2>3. Len(d.rules) <= Len(e.rules) /\ Len(d.tests) <= Len(e.tests)
    BY <1>1, <1>3 DEF Extends
  <2> QED
    BY <1>1, <1>3, <2>1, <2>2, <2>3 DEF Extends
<1> QED
  BY <1>1, <1>3, <1>4 DEF a, e

LEMMA NoRows ==
    ASSUME NEW f, f.kind \notin {"hub", "list", "editor", "tests"}, NEW d
    PROVE  Rows(f, d) = {}
BY DEF Rows

LEMMA TypeSourceHolds ==
    ASSUME EditorInv, TypeSource
    PROVE  \E s : KeyEffect(s)
<1> DEFINE on == Flagged(draft, Top.rule, TRUE)
<1>1. PICK x \in BOOLEAN :
         /\ Becomes([S EXCEPT ![Len(S)].text = x])
         /\ IF x THEN Edited(on) ELSE UNCHANGED <<draft, found, lagging>>
  BY DEF TypeSource, Flagged
<1> DEFINE t == [S EXCEPT ![Len(S)].text = x]
<1>2. Key({"iterForm"}) /\ late' = late /\ created' = created /\ Quiet
  BY DEF TypeSource
<1>3. Top.kind = "iterForm" /\ ~readOnly /\ Pile(showing, S) /\ Top = Last(S)
  BY <1>2, KeyIs DEF Top
<1>4. showing = "rules"
  BY <1>2, <1>3, RuleTopIs DEF OfRule
<1>5. /\ Pile(showing, t) /\ Alike(Last(t), Top) /\ Last(t).rows = Top.rows
      /\ \A e : AllFit(S, e) => AllFit(t, e)
  BY <1>3, TypedIs
<1>6. Becomes(t)
  BY <1>1
<1> HIDE DEF t
<1>7. draft' = IF x THEN on ELSE draft
  BY <1>1 DEF Edited
<1>8. UNCHANGED <<draft, found, lagging>> \/ Edited(draft')
  BY <1>1 DEF Edited
<1> HIDE DEF on
<1>9. ASSUME Targets
      PROVE  /\ draft' \in Documents /\ created' \in Nat /\ AllFit(t, draft') /\ draft'.tests = draft.tests
             /\ Last(t).rows = Rows(Last(t), draft')
  <2>1. draft \in Documents /\ created \in Nat /\ AllFit(S, draft) /\ Fits(Top, draft) /\ Top.rows = Rows(Top, draft)
    BY <1>2, <1>9, KeyIs
  <2>2. Top.rule \in 1..Len(draft.rules)
    BY <1>3, <2>1 DEF Fits, OfRule
  <2>3. on \in Documents /\ Extends(draft, on) /\ on.tests = draft.tests
    BY <2>1, <2>2, IterChanged DEF on
  <2>4. AllFit(S, on)
    BY <1>3, <2>1, <2>3, ExtendedFits, LevelsAre
  <2>5. AllFit(t, on) /\ AllFit(t, draft)
    BY <1>5, <2>1, <2>4
  <2>6. Last(t).kind = "iterForm"
    BY <1>3, <1>5 DEF Alike
  <2>7. Last(t).rows = Rows(Last(t), draft')
    BY <1>3, <1>5, <2>1, <2>6, NoRows
  <2> QED
    BY <1>2, <1>7, <2>1, <2>3, <2>5, <2>7
<1> QED
  BY <1>2, <1>3, <1>4, <1>5, <1>6, <1>8, <1>9, EditHolds

LEMMA CloseIterFormHolds ==
    ASSUME EditorInv, CloseIterForm
    PROVE  \E s : KeyEffect(s)
<1> DEFINE off == Relisted(Flagged(draft, Top.rule, FALSE), Top.rule, "each", <<>>)
           t == Popped(S, off)
<1>1. Key({"iterForm"}) /\ Quiet /\ created' = created
  BY DEF CloseIterForm
<1>2. Top.kind = "iterForm" /\ ~readOnly /\ Pile(showing, S) /\ Top = Last(S)
  BY <1>1, KeyIs DEF Top
<1>3. \/ UNCHANGED <<draft, found, lagging>> /\ Close
      \/ Edited(off) /\ Becomes(t) /\ late' = Covered(showing)
  BY DEF CloseIterForm, Flagged, Relisted
<1>4. CASE UNCHANGED <<draft, found, lagging>> /\ Close
  BY <1>1, <1>4, CloseHolds DEF Same
<1>5. CASE Edited(off) /\ Becomes(t) /\ late' = Covered(showing)
  <2>1. showing = "rules"
    BY <1>1, <1>2, RuleTopIs DEF OfRule
  <2>2. draft' = off
    BY <1>5 DEF Edited
  <2> HIDE DEF off
  <2>3. /\ Pile(showing, t) /\ Last(t).rows = Rows(Last(t), off)
        /\ \A e : AllFit(S, e) => AllFit(t, e)
    BY <1>2, PoppedIs, LevelsAre
  <2> HIDE DEF t
  <2>4. ASSUME Targets PROVE off \in Documents /\ created' \in Nat /\ AllFit(t, off) /\ off.tests = draft.tests
    <3>1. draft \in Documents /\ created \in Nat /\ AllFit(S, draft) /\ Fits(Top, draft)
      BY <1>1, <2>4, KeyIs
    <3>2. Top.rule \in 1..Len(draft.rules)
      BY <1>2, <3>1 DEF Fits, OfRule
    <3>3. off \in Documents /\ Extends(draft, off) /\ off.tests = draft.tests
      BY <3>1, <3>2, IterDropped DEF off
    <3>4. AllFit(S, off)
      BY <1>2, <3>1, <3>3, ExtendedFits, LevelsAre
    <3> QED
      BY <1>1, <2>3, <3>1, <3>3, <3>4
  <2> QED
    BY <1>1, <1>2, <1>5, <2>1, <2>2, <2>3, <2>4, EditHolds
<1> QED
  BY <1>3, <1>4, <1>5

LEMMA AppendRuleHolds ==
    ASSUME EditorInv, NEW kinds, Key(kinds), Quiet, ~readOnly, late' = Covered(showing),
           NEW s, Pile(showing, s), Level(Last(s).kind) < 1, showing = "rules", NEW r, AppendRule(s, r),
           Targets => r \in RuleOf /\ created' \in Nat /\ AllFit(s, draft)
    PROVE  \E t : KeyEffect(t)
<1> DEFINE d == [draft EXCEPT !.rules = Append(@, r)]
           u == Resumed(s, d)
           n == Len(d.rules)
           x == r.id
           f == OnRule("rule", n, x)
           t == Opened(u, f, d)
<1>1. Edited(d) /\ Becomes(t)
  BY DEF AppendRule
<1>2. draft' = d
  BY <1>1 DEF Edited
<1>3. IsOfRule(f, "rule", n, x)
  BY OnRuleIs
<1> HIDE DEF f
<1>4. ASSUME Targets
      PROVE  /\ draft \in Documents /\ d \in Documents /\ d.tests = draft.tests
             /\ n \in 1..Len(d.rules) /\ d.rules[n].id = x
  <2>1. draft \in Documents /\ r \in RuleOf
    BY <1>4, KeyIs
  <2> QED
    BY <2>1, RuleAdded
<1> HIDE DEF d, n, x
<1>5. /\ Pile(showing, u) /\ Alike(Last(u), Last(s))
      /\ \A e : AllFit(s, e) => AllFit(u, e)
  BY ResumedIs
<1> HIDE DEF u
<1>6. Framed(f) /\ f.kind = "rule" /\ f.kind \in Kinds(showing)
  <2>1. "rule" \in Kinds(showing)
    BY DEF Kinds, OfRule
  <2> QED
    BY <1>3, <2>1 DEF IsOfRule
<1>7. Level(Last(u).kind) < 1 /\ Level(f.kind) = 1 /\ Over(Last(u), f)
  BY <1>5, <1>6, LevelsAre, OverIs DEF Alike
<1>8. /\ Pile(showing, t) /\ Last(t).rows = Rows(Last(t), d)
      /\ \A e : AllFit(u, e) /\ Fits(f, e) => AllFit(t, e)
  BY <1>5, <1>6, <1>7, OpenedIs
<1> HIDE DEF t
<1>9. ASSUME Targets PROVE d \in Documents /\ created' \in Nat /\ AllFit(t, d) /\ d.tests = draft.tests
  <2>1. AllFit(u, d)
    BY <1>5, <1>7, <1>9, RootFits
  <2>2. Fits(f, d)
    BY <1>3, <1>4, <1>9, RuleRowFits DEF OfRule
  <2> QED
    BY <1>4, <1>8, <1>9, <2>1, <2>2
<1> QED
  BY <1>1, <1>2, <1>8, <1>9, EditHolds

LEMMA AppendTestHolds ==
    ASSUME EditorInv, NEW kinds, Key(kinds), Quiet, ~readOnly, late' = Covered(showing),
           NEW s, Pile(showing, s), Level(Last(s).kind) < 1, showing = "tests", NEW r, AppendTest(s, r),
           Targets => r \in TestOf /\ created' \in Nat /\ AllFit(s, draft)
    PROVE  \E t : KeyEffect(t)
<1> DEFINE d == [draft EXCEPT !.tests = Append(@, r)]
           u == Resumed(s, d)
           n == Len(d.tests)
           x == r.id
           f == OnTest("editor", n, x)
           t == Opened(u, f, d)
<1>1. Edited(d) /\ Becomes(t)
  BY DEF AppendTest
<1>2. draft' = d
  BY <1>1 DEF Edited
<1>3. IsOfTest(f, "editor", n, x)
  BY OnTestIs
<1> HIDE DEF f
<1>4. ASSUME Targets
      PROVE  /\ draft \in Documents /\ d \in Documents /\ d.rules = draft.rules
             /\ n \in 1..Len(d.tests) /\ d.tests[n].id = x
  <2>1. draft \in Documents /\ r \in TestOf
    BY <1>4, KeyIs
  <2> QED
    BY <2>1, TestAdded
<1> HIDE DEF d, n, x
<1>5. /\ Pile(showing, u) /\ Alike(Last(u), Last(s))
      /\ \A e : AllFit(s, e) => AllFit(u, e)
  BY ResumedIs
<1> HIDE DEF u
<1>6. Framed(f) /\ f.kind = "editor" /\ f.kind \in Kinds(showing)
  <2>1. "editor" \in Kinds(showing)
    BY DEF Kinds, OfTest
  <2> QED
    BY <1>3, <2>1 DEF IsOfTest
<1>7. Level(Last(u).kind) < 1 /\ Level(f.kind) = 1 /\ Over(Last(u), f)
  BY <1>5, <1>6, LevelsAre, OverIs DEF Alike
<1>8. /\ Pile(showing, t) /\ Last(t).rows = Rows(Last(t), d)
      /\ \A e : AllFit(u, e) /\ Fits(f, e) => AllFit(t, e)
  BY <1>5, <1>6, <1>7, OpenedIs
<1> HIDE DEF t
<1>9. ASSUME Targets PROVE d \in Documents /\ created' \in Nat /\ AllFit(t, d) /\ d.rules = draft.rules
  <2>1. AllFit(u, d)
    BY <1>5, <1>7, <1>9, RootFits
  <2>2. Fits(f, d)
    BY <1>3, <1>4, <1>9, TestRowFits DEF OfTest
  <2> QED
    BY <1>4, <1>8, <1>9, <2>1, <2>2
<1> QED
  BY <1>1, <1>2, <1>8, <1>9, EditHolds

LEMMA NewRuleIs ==
    ASSUME NEW id \in Nat, NEW e \in Events, NEW items \in Seq(Nat)
    PROVE  NewRule(id, e, items) \in RuleOf
<1> DEFINE l == [k \in Lists |-> IF k = "tuples" THEN items ELSE <<>>]
<1>1. l \in [Lists -> Seq(Nat)]
  OBVIOUS
<1>2. NewRule(id, e, items) = [id |-> id, event |-> e, iter |-> FALSE, lists |-> l]
  BY DEF NewRule
<1> HIDE DEF l
<1> QED
  BY <1>1, <1>2 DEF RuleOf

(* An event, or a rule, is handed down.                                    *)
LEMMA ReceiveHolds ==
    ASSUME EditorInv, NEW kinds, Key(kinds), Quiet, ~readOnly, late' = Covered(showing),
           NEW s, Pile(showing, s), Receive(s), Targets => AllFit(s, draft)
    PROVE  \E t : KeyEffect(t)
<1> DEFINE g == Last(s)
<1>1. showing \in {"rules", "tests"} /\ g.kind \in Kinds(showing)
  BY KeyIs, PileTop
<1>2. Targets => draft \in Documents /\ created \in Nat /\ NewId \in Nat /\ NewId + 1 \in Nat
  <2>1. Targets => draft \in Documents /\ created \in Nat
    BY KeyIs
  <2> QED
    BY <2>1, EditorAssumption DEF NewId
<1>3. PICK e \in Samples :
         \/ /\ g.kind = "fork" /\ Made(1)
            /\ AppendRule(Front(s), NewRule(NewId, e, <<>>))
         \/ /\ g.kind = "tests" /\ Made(1)
            /\ AppendTest(s, [id |-> NewId, event |-> e, expects |-> <<>>])
         \/ /\ g.kind = "trigger" /\ UNCHANGED created
            /\ LET d == Tried(draft, g.rule, e) IN Edited(d) /\ Becomes(Resumed(s, d))
         \/ /\ g.kind = "editor" /\ UNCHANGED created
            /\ LET d == TriedTest(draft, g.at, e) IN Edited(d) /\ Becomes(Resumed(s, d))
  BY Zenon DEF Receive, Tried, TriedTest
<1>4. e \in Events
  BY DEF Events
<1>5. CASE g.kind = "fork" /\ Made(1) /\ AppendRule(Front(s), NewRule(NewId, e, <<>>))
  <2> DEFINE q == Front(s)
  <2>1. showing = "rules" /\ Level(g.kind) = 1
    BY <1>1, <1>5, KindsAre, LevelsAre
  <2>2. Pile(showing, q) /\ Level(Last(q).kind) < 1 /\ \A d : AllFit(s, d) => AllFit(q, d)
    BY <2>1, PilePop
  <2>3. Targets => NewRule(NewId, e, <<>>) \in RuleOf /\ created' \in Nat
    <3>1. <<>> \in Seq(Nat)
      OBVIOUS
    <3>2. Targets => created' \in Nat
      BY <1>2, <1>5 DEF Made
    <3>3. Targets => NewRule(NewId, e, <<>>) \in RuleOf
      BY <1>2, <1>4, <3>1, NewRuleIs
    <3> QED
      BY <3>2, <3>3
  <2> HIDE DEF q
  <2>4. Targets => AllFit(q, draft)
    BY <2>2
  <2>5. AppendRule(q, NewRule(NewId, e, <<>>))
    BY <1>5 DEF q
  <2> QED
    BY <2>1, <2>2, <2>3, <2>4, <2>5, AppendRuleHolds
<1>6. CASE g.kind = "tests" /\ Made(1) /\ AppendTest(s, [id |-> NewId, event |-> e, expects |-> <<>>])
  <2>1. showing = "tests" /\ Level(g.kind) < 1
    BY <1>1, <1>6, KindsAre, LevelsAre
  <2>2. Targets => [id |-> NewId, event |-> e, expects |-> <<>>] \in TestOf /\ created' \in Nat
    BY <1>2, <1>4, <1>6 DEF TestOf, Made
  <2> QED
    BY <1>6, <2>1, <2>2, AppendTestHolds
<1>7. CASE /\ g.kind = "trigger" /\ UNCHANGED created
           /\ LET d == Tried(draft, g.rule, e) IN Edited(d) /\ Becomes(Resumed(s, d))
  <2> DEFINE d == Tried(draft, g.rule, e)
             t == Resumed(s, d)
  <2>1. showing = "rules" /\ Level(g.kind) < 4
    BY <1>1, <1>7, KindsAre, LevelsAre DEF OfRule
  <2>2. Edited(d) /\ Becomes(t) /\ created' = created
    BY <1>7
  <2>3. ASSUME Targets PROVE d \in Documents /\ Extends(draft, d) /\ d.tests = draft.tests
    <3>1. Fits(g, draft)
      BY <2>3, PileTop
    <3>2. g.rule \in 1..Len(draft.rules)
      BY <1>7, <3>1 DEF Fits, OfRule
    <3> QED
      BY <1>2, <1>4, <2>3, <3>2, EventChanged
  <2> HIDE DEF d
  <2>4. draft' = d
    BY <2>2 DEF Edited
  <2>5. /\ Pile(showing, t) /\ Last(t).rows = Rows(Last(t), d)
        /\ \A x : AllFit(s, x) => AllFit(t, x)
    BY ResumedIs
  <2> HIDE DEF t
  <2>6. ASSUME Targets PROVE AllFit(t, d)
    BY <2>1, <2>3, <2>5, <2>6, ExtendedFits
  <2> QED
    BY <1>2, <2>1, <2>2, <2>3, <2>4, <2>5, <2>6, EditHolds
<1>8. CASE /\ g.kind = "editor" /\ UNCHANGED created
           /\ LET d == TriedTest(draft, g.at, e) IN Edited(d) /\ Becomes(Resumed(s, d))
  <2> DEFINE d == TriedTest(draft, g.at, e)
             t == Resumed(s, d)
  <2>1. showing = "tests" /\ Level(g.kind) < 4
    BY <1>1, <1>8, KindsAre, LevelsAre DEF OfTest
  <2>2. Edited(d) /\ Becomes(t) /\ created' = created
    BY <1>8
  <2>3. ASSUME Targets PROVE d \in Documents /\ Extends(draft, d) /\ d.rules = draft.rules
    <3>1. Fits(g, draft)
      BY <2>3, PileTop
    <3>2. g.at \in 1..Len(draft.tests)
      BY <1>8, <3>1 DEF Fits, OfTest
    <3> QED
      BY <1>2, <1>4, <2>3, <3>2, TestEventChanged
  <2> HIDE DEF d
  <2>4. draft' = d
    BY <2>2 DEF Edited
  <2>5. /\ Pile(showing, t) /\ Last(t).rows = Rows(Last(t), d)
        /\ \A x : AllFit(s, x) => AllFit(t, x)
    BY ResumedIs
  <2> HIDE DEF t
  <2>6. ASSUME Targets PROVE AllFit(t, d)
    BY <2>1, <2>3, <2>5, <2>6, ExtendedFits
  <2> QED
    BY <1>2, <2>1, <2>2, <2>3, <2>4, <2>5, <2>6, EditHolds
<1> QED
  BY <1>3, <1>5, <1>6, <1>7, <1>8

-------------------------------------------------------------------------------
(* Keys of the catalog, a paste and a recipe.                              *)

LEMMA PickIs ==
    ASSUME EditorInv, NEW kinds, Key(kinds), Top.kind = "pick"
    PROVE  LET g == Last(Front(S))
           IN  /\ Pile(showing, S) /\ Top = Last(S) /\ ~readOnly /\ Level(Top.kind) = 5
               /\ Pile(showing, Front(S)) /\ Level(g.kind) < 5
               /\ \A d : AllFit(S, d) => AllFit(Front(S), d)
               /\ g.kind \in {"fork", "trigger", "tests", "editor"} /\ (Top.text => g.kind = "fork")
<1>1. /\ Pile(showing, S) /\ Top = Last(S) /\ ~readOnly /\ Level(Top.kind) = 5
  BY KeyIs, LevelsAre DEF Top
<1>2. /\ Pile(showing, Front(S)) /\ Over(Last(Front(S)), Top) /\ Level(Last(Front(S)).kind) < 5
      /\ \A d : AllFit(S, d) => AllFit(Front(S), d)
  BY <1>1, PilePop
<1> QED
  BY <1>1, <1>2 DEF Over

(* A paste, or a file, is over a pick.                                     *)
LEMMA PasteIs ==
    ASSUME EditorInv, NEW kinds, Key(kinds), Top.kind \in {"paste", "file"}
    PROVE  LET q == Front(Front(S))
           IN  /\ Pile(showing, S) /\ Top = Last(S) /\ ~readOnly /\ Pile(showing, q)
               /\ \A d : AllFit(S, d) => AllFit(q, d)
<1>1. /\ Pile(showing, S) /\ Top = Last(S) /\ ~readOnly /\ Level(Top.kind) = 6
  BY KeyIs, LevelsAre DEF Top
<1> DEFINE a == Front(S)
<1>2. /\ Pile(showing, a) /\ Over(Last(a), Top) /\ \A d : AllFit(S, d) => AllFit(a, d)
  BY <1>1, PilePop
<1> HIDE DEF a
<1>3. Last(a).kind = "pick"
  BY <1>2 DEF Over
<1>4. Pile(showing, Front(a)) /\ \A d : AllFit(a, d) => AllFit(Front(a), d)
  BY <1>2, <1>3, PilePop, LevelsAre
<1> QED
  BY <1>1, <1>2, <1>4 DEF a

LEMMA AcceptEventHolds ==
    ASSUME EditorInv, AcceptEvent
    PROVE  \E s : KeyEffect(s)
<1> DEFINE q == Front(Front(S))
<1>1. Key({"paste", "file"}) /\ Receive(q) /\ late' = Covered(showing) /\ Quiet
  BY DEF AcceptEvent
<1>2. Top.kind \in {"paste", "file"} /\ (Targets => AllFit(S, draft))
  BY <1>1, KeyIs
<1>3. ~readOnly /\ Pile(showing, q) /\ \A d : AllFit(S, d) => AllFit(q, d)
  BY <1>1, <1>2, PasteIs
<1> HIDE DEF q
<1> QED
  BY <1>1, <1>2, <1>3, ReceiveHolds

(* The fork changes what it shows, and another editor is over it.          *)
LEMMA ForkHolds ==
    ASSUME EditorInv, NEW kinds, Key(kinds), Same, Quiet, ~readOnly, late' = Covered(showing),
           Pile(showing, Front(S)), Last(Front(S)).kind = "fork", Targets => AllFit(Front(S), draft),
           NEW x, NEW f, IsInRule(f, f.kind, 0, f.rid), f.rows = {},
           \/ f.kind = "recipe"
           \/ f.kind = "pick" /\ f.text = TRUE,
           Becomes(Append([Front(S) EXCEPT ![Len(S) - 1].text = x], f))
    PROVE  \E s : KeyEffect(s)
<1> DEFINE q == Front(S)
           u == [q EXCEPT ![Len(q)].text = x]
           t == Append(u, f)
<1>1. Len(q) = Len(S) - 1
  <2>1. Pile(showing, S)
    BY KeyIs
  <2> QED
    BY <2>1, FrontIs DEF Pile
<1>2. Becomes(t)
  BY <1>1
<1>3. /\ showing \in {"rules", "tests"} /\ Framed(f) /\ f.rule = 0 /\ draft' = draft /\ created' = created
      /\ UNCHANGED <<draft, found, lagging>>
  BY KeyIs DEF IsInRule, Same
<1>4. showing = "rules" /\ f.kind \in Kinds(showing)
  <2>1. showing = "rules"
    BY <1>3, PileTop, KindsAre
  <2> QED
    BY <2>1 DEF Kinds, OfEvents
<1> HIDE DEF q
<1>5. /\ Pile(showing, u) /\ Alike(Last(u), Last(q))
      /\ \A e : AllFit(q, e) => AllFit(u, e)
  BY TypedIs DEF q
<1> HIDE DEF u
<1>6. Last(u).kind = "fork"
  BY <1>5 DEF Alike, q
<1>7. Over(Last(u), f) /\ Level(Last(u).kind) < Level(f.kind)
  <2>1. CASE f.kind = "recipe"
    BY <1>6, <2>1, LevelsAre DEF Over
  <2>2. CASE f.kind = "pick" /\ f.text = TRUE
    <3>1. (Last(u).kind = "fork") = TRUE
      BY <1>6
    <3>2. f.text = (Last(u).kind = "fork")
      BY <2>2, <3>1, Zenon
    <3>3. Over(Last(u), f)
      BY <1>6, <2>2, <3>2 DEF Over
    <3> QED
      BY <1>6, <2>2, <3>3, LevelsAre
  <2> QED
    BY <2>1, <2>2
<1>8. /\ Pile(showing, t) /\ Last(t) = f
      /\ \A d : AllFit(u, d) /\ Fits(f, d) => AllFit(t, d)
  BY <1>3, <1>4, <1>5, <1>7, PilePush
<1> HIDE DEF t
<1>9. ASSUME Targets
      PROVE  /\ draft' \in Documents /\ created' \in Nat /\ AllFit(t, draft')
             /\ Last(t).rows = Rows(Last(t), draft')
  <2>1. draft \in Documents /\ created \in Nat
    BY <1>9, KeyIs
  <2>2. Fits(f, draft)
    BY <1>3 DEF Fits, OfRule, OfTest
  <2>3. AllFit(t, draft)
    BY <1>5, <1>8, <1>9, <2>2 DEF q
  <2>4. f.rows = Rows(f, draft)
    BY NoRows
  <2> QED
    BY <1>3, <1>8, <2>1, <2>3, <2>4
<1> QED
  BY <1>2, <1>3, <1>8, <1>9, EditHolds

LEMMA PickFromCatalogHolds ==
    ASSUME EditorInv, PickFromCatalog
    PROVE  \E s : KeyEffect(s)
<1> DEFINE q == Front(S)
<1>1. Key({"pick"}) /\ late' = Covered(showing) /\ Quiet
  BY DEF PickFromCatalog
<1>2. Top.kind = "pick" /\ (Targets => AllFit(S, draft))
  BY <1>1, KeyIs
<1>3. /\ ~readOnly /\ Pile(showing, q) /\ (\A d : AllFit(S, d) => AllFit(q, d))
      /\ Top.text => Last(q).kind = "fork"
  BY <1>1, <1>2, PickIs
<1>4. CASE ~Top.text /\ Receive(q)
  <2> HIDE DEF q
  <2> QED
    BY <1>1, <1>2, <1>3, <1>4, ReceiveHolds
<1>5. CASE /\ Top.text /\ Same
           /\ Becomes(Append([Front(S) EXCEPT ![Len(S) - 1].text = TRUE], Frame("recipe")))
  <2> DEFINE f == Frame("recipe")
  <2>1. f = [kind |-> "recipe", rule |-> 0, rid |-> 0, sec |-> "", at |-> 0, id |-> 0,
             rows |-> {}, text |-> FALSE]
    BY DEF Frame
  <2>2. Becomes(Append([Front(S) EXCEPT ![Len(S) - 1].text = TRUE], f))
    BY <1>5
  <2> HIDE DEF f
  <2>3. IsInRule(f, f.kind, 0, f.rid) /\ f.kind = "recipe" /\ f.rows = {}
    BY <2>1, RecordIs DEF IsInRule
  <2> QED
    BY <1>1, <1>2, <1>3, <1>5, <2>2, <2>3, ForkHolds
<1> QED
  BY <1>4, <1>5 DEF PickFromCatalog

LEMMA RecipeIs ==
    ASSUME EditorInv, NEW kinds, Key(kinds), Top.kind = "recipe"
    PROVE  LET q == Front(Front(S))
           IN  /\ showing = "rules" /\ ~readOnly /\ Pile(showing, Front(S)) /\ Last(Front(S)).kind = "fork"
               /\ Pile(showing, q) /\ Level(Last(q).kind) < 1
               /\ \A d : AllFit(S, d) => AllFit(Front(S), d) /\ AllFit(q, d)
<1>1. /\ Pile(showing, S) /\ Top = Last(S) /\ ~readOnly /\ Level(Top.kind) = 6
      /\ showing \in {"rules", "tests"} /\ Top.kind \in Kinds(showing)
  BY KeyIs, LevelsAre DEF Top
<1>2. showing = "rules"
  BY <1>1, KindsAre
<1> DEFINE a == Front(S)
<1>3. /\ Pile(showing, a) /\ Over(Last(a), Top) /\ \A d : AllFit(S, d) => AllFit(a, d)
  BY <1>1, PilePop
<1> HIDE DEF a
<1>4. Last(a).kind = "fork" /\ Level(Last(a).kind) = 1
  BY <1>3, LevelsAre DEF Over
<1>5. Pile(showing, Front(a)) /\ Level(Last(Front(a)).kind) < 1 /\ \A d : AllFit(a, d) => AllFit(Front(a), d)
  BY <1>3, <1>4, PilePop
<1> QED
  BY <1>1, <1>2, <1>3, <1>4, <1>5 DEF a

LEMMA TextIs ==
    ASSUME NEW g, Framed(g), NEW x
    PROVE  LET f == [g EXCEPT !.text = x]
           IN  Framed(f) /\ f.kind = g.kind /\ f.rule = g.rule /\ f.rows = g.rows /\ f.text = x
BY DEF Framed

LEMMA EscRecipeHolds ==
    ASSUME EditorInv, EscRecipe
    PROVE  \E s : KeyEffect(s)
<1> DEFINE g == Frame("pick")
           f == [g EXCEPT !.text = TRUE]
<1>1. /\ Key({"recipe"}) /\ late' = Covered(showing) /\ Same /\ Quiet
      /\ Becomes(Append([Front(S) EXCEPT ![Len(S) - 1].text = FALSE], f))
  BY DEF EscRecipe
<1>2. Top.kind = "recipe" /\ (Targets => AllFit(S, draft))
  BY <1>1, KeyIs
<1>3. Framed(g)
  BY FrameIs
<1>4. g.kind = "pick" /\ g.rule = 0 /\ g.rows = {}
  BY DEF Frame
<1> HIDE DEF g
<1>7. Framed(f) /\ f.kind = g.kind /\ f.rule = g.rule /\ f.rows = g.rows /\ f.text = TRUE
  BY <1>3, TextIs
<1> HIDE DEF f
<1>5. IsInRule(f, f.kind, 0, f.rid) /\ f.kind = "pick" /\ f.rows = {} /\ f.text = TRUE
  BY <1>4, <1>7 DEF IsInRule
<1>6. /\ ~readOnly /\ Pile(showing, Front(S)) /\ Last(Front(S)).kind = "fork"
      /\ \A d : AllFit(S, d) => AllFit(Front(S), d)
  BY <1>1, <1>2, RecipeIs
<1> QED
  BY <1>1, <1>2, <1>5, <1>6, ForkHolds

LEMMA AcceptRecipeHolds ==
    ASSUME EditorInv, AcceptRecipe
    PROVE  \E s : KeyEffect(s)
<1> DEFINE q == Front(Front(S))
<1>1. Key({"recipe"}) /\ late' = Covered(showing) /\ Quiet
  BY DEF AcceptRecipe
<1>2. PICK e \in Samples, n \in {0, 1} :
         Made(n + 1) /\ AppendRule(q, NewRule(NewId, e, [i \in 1..n |-> NewId + i]))
  BY DEF AcceptRecipe
<1>3. Top.kind = "recipe" /\ (Targets => AllFit(S, draft) /\ created \in Nat)
  BY <1>1, KeyIs
<1>4. /\ showing = "rules" /\ ~readOnly /\ Pile(showing, q) /\ Level(Last(q).kind) < 1
      /\ \A d : AllFit(S, d) => AllFit(q, d)
  BY <1>1, <1>3, RecipeIs
<1> HIDE DEF q
<1> DEFINE r == NewRule(NewId, e, [i \in 1..n |-> NewId + i])
<1>5. ASSUME Targets PROVE r \in RuleOf /\ created' \in Nat
  <2>1. NewId \in Nat /\ created' \in Nat
    BY <1>2, <1>3, <1>5, EditorAssumption DEF NewId, Made
  <2>2. e \in Events
    BY DEF Events
  <2> DEFINE t == [i \in 1..n |-> NewId + i]
  <2>3. t \in Seq(Nat)
    BY <2>1
  <2> HIDE DEF t
  <2>4. NewRule(NewId, e, t) \in RuleOf
    BY <2>1, <2>2, <2>3, NewRuleIs
  <2> QED
    BY <2>1, <2>4 DEF t
<1>6. AppendRule(q, r)
  BY <1>2
<1> HIDE DEF r
<1> QED
  BY <1>1, <1>3, <1>4, <1>5, <1>6, AppendRuleHolds

(* Two close at once.                                                      *)
LEMMA ShutHolds ==
    ASSUME EditorInv, NEW kinds, Key(kinds), Same, Quiet, ~readOnly, late' = Covered(showing),
           NEW s, Pile(showing, s), Level(Last(s).kind) # 0, Becomes(Popped(s, draft)),
           Targets => AllFit(s, draft)
    PROVE  \E t : KeyEffect(t)
<1> DEFINE t == Popped(s, draft)
<1>1. draft' = draft /\ created' = created /\ UNCHANGED <<draft, found, lagging>>
  BY DEF Same
<1>2. /\ Pile(showing, t) /\ Last(t).rows = Rows(Last(t), draft)
      /\ \A e : AllFit(s, e) => AllFit(t, e)
  BY PoppedIs
<1> HIDE DEF t
<1>3. Becomes(t)
  BY DEF t
<1>4. Targets => draft \in Documents /\ created \in Nat
  BY KeyIs
<1> QED
  BY <1>1, <1>2, <1>3, <1>4, EditHolds

LEMMA ClosePickHolds ==
    ASSUME EditorInv, ClosePick \/ DiscardPaste
    PROVE  \E s : KeyEffect(s)
<1>1. CASE ClosePick
  <2>1. Key({"pick"}) /\ late' = Covered(showing) /\ Same /\ Quiet
    BY <1>1 DEF ClosePick
  <2>2. Top.kind = "pick" /\ (Targets => AllFit(S, draft))
    BY <2>1, KeyIs
  <2>3. /\ Pile(showing, S) /\ Top = Last(S) /\ ~readOnly /\ Level(Top.kind) = 5
        /\ Pile(showing, Front(S)) /\ (Top.text => Last(Front(S)).kind = "fork")
        /\ \A d : AllFit(S, d) => AllFit(Front(S), d)
    BY <2>1, <2>2, PickIs
  <2>4. CASE Top.text /\ Becomes(Popped(Front(S), draft))
    <3> DEFINE q == Front(S)
    <3>1. Level(Last(q).kind) # 0
      BY <2>3, <2>4, LevelsAre
    <3> HIDE DEF q
    <3>2. Pile(showing, q) /\ Becomes(Popped(q, draft)) /\ (Targets => AllFit(q, draft))
      BY <2>2, <2>3, <2>4 DEF q
    <3> QED
      BY <2>1, <2>3, <3>1, <3>2, ShutHolds
  <2>5. CASE Becomes(Popped(S, draft))
    BY <2>1, <2>2, <2>3, <2>5, ShutHolds
  <2> QED
    BY <1>1, <2>4, <2>5 DEF ClosePick
<1>2. CASE DiscardPaste
  <2> DEFINE q == Front(S)
  <2>1. Key({"discard"}) /\ late' = Covered(showing) /\ Same /\ Quiet /\ Becomes(Popped(q, draft))
    BY <1>2 DEF DiscardPaste
  <2>2. Top.kind = "discard" /\ ~readOnly /\ (Targets => AllFit(S, draft)) /\ Pile(showing, S) /\ Top = Last(S)
    BY <2>1, KeyIs DEF Top
  <2>3. /\ Pile(showing, q) /\ Over(Last(q), Top) /\ \A d : AllFit(S, d) => AllFit(q, d)
    BY <2>2, PilePop, LevelsAre
  <2> HIDE DEF q
  <2>4. Level(Last(q).kind) # 0
    BY <2>2, <2>3, LevelsAre DEF Over
  <2> QED
    BY <2>1, <2>2, <2>3, <2>4, ShutHolds
<1> QED
  BY <1>1, <1>2

LEMMA TypePasteHolds ==
    ASSUME EditorInv, TypePaste
    PROVE  \E s : KeyEffect(s)
<1>1. PICK x \in BOOLEAN : Becomes([S EXCEPT ![Len(S)].text = x])
  BY DEF TypePaste
<1> DEFINE t == [S EXCEPT ![Len(S)].text = x]
<1>2. Key({"paste"}) /\ late' = late /\ Same /\ Quiet
  BY DEF TypePaste
<1>3. /\ Top.kind = "paste" /\ ~readOnly /\ Pile(showing, S) /\ Top = Last(S)
      /\ Targets => /\ AllFit(S, draft) /\ Top.rows = Rows(Top, draft)
                    /\ draft \in Documents /\ created \in Nat
  BY <1>2, KeyIs DEF Top
<1>4. /\ Pile(showing, t) /\ Alike(Last(t), Top) /\ Last(t).rows = Top.rows
      /\ \A e : AllFit(S, e) => AllFit(t, e)
  BY <1>3, TypedIs
<1>5. Becomes(t)
  BY <1>1
<1> HIDE DEF t
<1>6. Rows(Last(t), draft) = Rows(Top, draft)
  BY <1>4, AlikeIs
<1>7. draft' = draft /\ created' = created /\ UNCHANGED <<draft, found, lagging>>
  BY <1>2 DEF Same
<1> QED
  BY <1>2, <1>3, <1>4, <1>5, <1>6, <1>7, EditHolds

LEMMA AddRuleHolds ==
    ASSUME EditorInv, AddRule
    PROVE  \E s : KeyEffect(s)
<1> DEFINE f == Frame("fork")
           k == Frame("pick")
           g == [k EXCEPT !.text = TRUE]
           u == Append(S, f)
           t == Append(u, g)
<1>1. /\ Key({"hub"}) /\ ~readOnly /\ late' = Covered(showing) /\ Same /\ Quiet
      /\ Becomes(S \o <<f, g>>)
  BY DEF AddRule
<1>2. /\ Top.kind = "hub" /\ Pile(showing, S) /\ Top = Last(S)
      /\ Targets => AllFit(S, draft) /\ draft \in Documents /\ created \in Nat
  BY <1>1, KeyIs DEF Top
<1>3. showing = "rules" /\ "fork" \in Kinds(showing) /\ "pick" \in Kinds(showing)
  <2>1. showing = "rules"
    BY <1>1, <1>2, RuleTopIs
  <2> QED
    BY <2>1 DEF Kinds, OfEvents
<1>4. Framed(f) /\ f.kind = "fork" /\ f.rule = 0
  BY FrameIs
<1>5. Framed(k) /\ k.kind = "pick" /\ k.rule = 0 /\ k.rows = {}
  <2>1. k.rows = {}
    BY DEF Frame
  <2> QED
    BY <2>1, FrameIs
<1> HIDE DEF f, k
<1>6. Framed(g) /\ g.kind = "pick" /\ g.rule = 0 /\ g.rows = {} /\ g.text = TRUE
  BY <1>5, TextIs
<1> HIDE DEF g
<1>7. Over(Top, f) /\ Level(Top.kind) < Level(f.kind)
  BY <1>2, <1>4, OverIs, LevelsAre
<1>8. /\ Pile(showing, u) /\ Last(u) = f /\ \A d : AllFit(S, d) /\ Fits(f, d) => AllFit(u, d)
  BY <1>2, <1>3, <1>4, <1>7, PilePush
<1>9. S \o <<f, g>> = t
  <2> DEFINE T == ToSet(S) \cup {f, g}
  <2>1. S \in Seq(T) /\ f \in T /\ g \in T
    BY <1>2 DEF Pile
  <2> HIDE DEF T
  <2>2. S \o <<f, g>> = Append(Append(S, f), g)
    BY <2>1
  <2> QED
    BY <2>2
<1> HIDE DEF u
<1>10. Over(Last(u), g) /\ Level(Last(u).kind) < Level(g.kind)
  <2>1. (Last(u).kind = "fork") = TRUE
    BY <1>4, <1>8
  <2>2. g.text = (Last(u).kind = "fork")
    BY <1>6, <2>1, Zenon
  <2>3. Over(Last(u), g)
    BY <1>4, <1>6, <1>8, <2>2 DEF Over
  <2> QED
    BY <1>4, <1>6, <1>8, <2>3, LevelsAre
<1>11. /\ Pile(showing, t) /\ Last(t) = g /\ \A d : AllFit(u, d) /\ Fits(g, d) => AllFit(t, d)
  BY <1>3, <1>6, <1>8, <1>10, PilePush
<1> HIDE DEF t
<1>12. Becomes(t)
  BY <1>1, <1>9
<1>13. (\A d : Fits(f, d) /\ Fits(g, d)) /\ g.rows = Rows(g, draft)
  <2>1. \A d : Fits(f, d) /\ Fits(g, d)
    BY <1>4, <1>6 DEF Fits, OfRule, OfTest
  <2> QED
    BY <1>6, <2>1, NoRows
<1>14. draft' = draft /\ created' = created /\ UNCHANGED <<draft, found, lagging>>
  BY <1>1 DEF Same
<1>15. Targets => /\ draft' \in Documents /\ created' \in Nat /\ AllFit(t, draft')
                  /\ Last(t).rows = Rows(Last(t), draft')
  BY <1>2, <1>8, <1>11, <1>13, <1>14
<1> QED
  BY <1>1, <1>3, <1>11, <1>12, <1>14, <1>15, EditHolds

LEMMA OpenTestHolds ==
    ASSUME EditorInv, OpenTest \/ AskDeleteTest
    PROVE  \E s : KeyEffect(s)
<1>1. Key({"tests"}) /\ ~readOnly /\ Quiet
  BY DEF OpenTest, AskDeleteTest
<1>2. /\ Top.kind = "tests" /\ Pile(showing, S) /\ Top = Last(S)
      /\ Targets => /\ AllFit(S, draft) /\ draft \in Documents /\ created \in Nat
                    /\ Top.rows = Rows(Top, draft)
  BY <1>1, KeyIs DEF Top
<1>3. CASE AskDeleteTest
  <2>1. PICK r \in Top.rows : r.own /\ Open(OnTest("deleteTest", r.at, r.of)) /\ Same
    BY <1>3 DEF AskDeleteTest
  <2> QED
    BY <1>1, <2>1, OpenOwnHolds
<1>4. CASE OpenTest
  <2> DEFINE New(r) == [id |-> NewId, event |-> draft.rules[r.at].event, expects |-> <<NewId + 1>>]
  <2>1. PICK r \in Top.rows :
           \/ r.own /\ Open(OnTest("editor", r.at, r.of)) /\ Same
           \/ /\ ~r.own /\ Made(2) /\ AppendTest(S, New(r)) /\ late' = Covered(showing)
    BY <1>4 DEF OpenTest
  <2>2. CASE r.own /\ Open(OnTest("editor", r.at, r.of)) /\ Same
    BY <1>1, <2>2, OpenOwnHolds
  <2>3. CASE ~r.own /\ Made(2) /\ AppendTest(S, New(r)) /\ late' = Covered(showing)
    <3> DEFINE q == New(r)
    <3>1. AppendTest(S, q)
      BY <2>3
    <3>2. ASSUME Targets PROVE q \in TestOf /\ created' \in Nat
      <4>1. NewId \in Nat /\ created' \in Nat
        BY <1>2, <2>3, <3>2, EditorAssumption DEF NewId, Made
      <4>2. r.at \in 1..Len(draft.rules)
        BY <1>2, <2>3, <3>2, RowsAre
      <4>3. draft.rules[r.at].event \in Events
        <5>1. draft.rules \in Seq(RuleOf)
          BY <1>2, <3>2, DocumentIs
        <5>2. draft.rules[r.at] \in RuleOf
          BY <4>2, <5>1, ElementOfSeq
        <5> QED
          BY <5>2 DEF RuleOf
      <4>4. <<NewId + 1>> \in Seq(Nat)
        BY <4>1
      <4> QED
        BY <4>1, <4>3, <4>4 DEF TestOf
    <3> HIDE DEF q
    <3>3. showing = "tests" /\ Level(Last(S).kind) < 1
      BY <1>1, <1>2, TestTopIs, LevelsAre
    <3> QED
      BY <1>1, <1>2, <2>3, <3>1, <3>2, <3>3, AppendTestHolds
  <2> QED
    BY <2>1, <2>2, <2>3
<1> QED
  BY <1>3, <1>4

LEMMA SubmitExpectedHolds ==
    ASSUME EditorInv, SubmitExpected
    PROVE  \E s : KeyEffect(s)
<1> DEFINE x == Append(draft.tests[Top.at].expects, NewId)
           d == Expected(draft, Top.at, x)
           t == Popped(S, d)
<1>1. /\ Key({"expect"}) /\ Made(1) /\ late' = Covered(showing) /\ Quiet
      /\ Edited(d) /\ Becomes(t)
  BY DEF SubmitExpected, Expected
<1>2. /\ Top.kind = "expect" /\ ~readOnly /\ Pile(showing, S) /\ Top = Last(S) /\ Level(Top.kind) = 2
      /\ Targets => /\ AllFit(S, draft) /\ draft \in Documents /\ created \in Nat /\ Fits(Top, draft)
  BY <1>1, KeyIs, LevelsAre DEF Top
<1>3. showing = "tests"
  BY <1>1, <1>2, TestTopIs DEF OfTest
<1>4. draft' = d
  BY <1>1 DEF Edited
<1>5. ASSUME Targets PROVE d \in Documents /\ Extends(draft, d) /\ d.rules = draft.rules /\ created' \in Nat
  <2>1. NewId \in Nat /\ created' \in Nat
    BY <1>1, <1>2, <1>5, EditorAssumption DEF NewId, Made
  <2>2. Top.at \in 1..Len(draft.tests)
    BY <1>2, <1>5 DEF Fits, OfTest
  <2>3. draft.tests[Top.at].expects \in Seq(Nat)
    BY <1>2, <1>5, <2>2, RuleTyped
  <2>4. x \in Seq(Nat)
    BY <2>1, <2>3, AppendProperties
  <2> HIDE DEF x
  <2> QED
    BY <1>2, <1>5, <2>1, <2>2, <2>4, ExpectsChanged
<1> HIDE DEF d
<1>6. /\ Pile(showing, t) /\ Last(t).rows = Rows(Last(t), d)
      /\ \A e : AllFit(S, e) => AllFit(t, e)
  BY <1>2, PoppedIs
<1> HIDE DEF t
<1>7. ASSUME Targets PROVE AllFit(t, d)
  BY <1>2, <1>5, <1>6, <1>7, ExtendedFits
<1> QED
  BY <1>1, <1>2, <1>3, <1>4, <1>5, <1>6, <1>7, EditHolds

LEMMA DropExpectedHolds ==
    ASSUME EditorInv, DropExpected
    PROVE  \E s : KeyEffect(s)
<1>1. PICK x \in {<<>>} \cup {RemoveAt(ItemsOf(draft, Top), r.at) : r \in Top.rows} :
         LET d == Expected(draft, Top.at, x) IN Edited(d) /\ Becomes(Resumed(S, d))
  BY DEF DropExpected, Expected
<1> DEFINE d == Expected(draft, Top.at, x)
           t == Resumed(S, d)
<1>2. Key({"editor"}) /\ late' = late /\ created' = created /\ Quiet
  BY DEF DropExpected
<1>3. /\ Top.kind = "editor" /\ ~readOnly /\ Pile(showing, S) /\ Top = Last(S) /\ Level(Top.kind) = 1
      /\ Targets => /\ AllFit(S, draft) /\ draft \in Documents /\ created \in Nat /\ Fits(Top, draft)
                    /\ Top.rows = Rows(Top, draft)
  BY <1>2, KeyIs, LevelsAre DEF Top
<1>4. showing = "tests"
  BY <1>2, <1>3, TestTopIs DEF OfTest
<1>5. draft' = d /\ Edited(d) /\ Becomes(t)
  BY <1>1 DEF Edited
<1>6. ASSUME Targets PROVE d \in Documents /\ Extends(draft, d) /\ d.rules = draft.rules
  <2>1. Top.at \in 1..Len(draft.tests)
    BY <1>3, <1>6 DEF Fits, OfTest
  <2>2. x \in Seq(Nat)
    <3> DEFINE q == ItemsOf(draft, Top)
    <3>1. q \in Seq(Nat) /\ DOMAIN q = 1..Len(q)
      <4>1. draft.tests[Top.at].expects \in Seq(Nat)
        BY <1>3, <1>6, <2>1, RuleTyped
      <4>2. q = draft.tests[Top.at].expects
        BY <1>3 DEF ItemsOf
      <4> QED
        BY <4>1, <4>2
    <3>2. CASE x = <<>>
      BY <3>2
    <3>3. ASSUME NEW r \in Top.rows, x = RemoveAt(q, r.at) PROVE x \in Seq(Nat)
      <4>1. r.at \in DOMAIN q
        BY <1>3, <1>6, RowsAre
      <4> HIDE DEF q
      <4> QED
        BY <3>1, <3>3, <4>1, RemovedIs
    <3> QED
      BY <3>2, <3>3
  <2> QED
    BY <1>3, <1>6, <2>1, <2>2, ExpectsChanged
<1> HIDE DEF d
<1>7. /\ Pile(showing, t) /\ Alike(Last(t), Top) /\ Last(t).rows = Rows(Last(t), d)
      /\ \A e : AllFit(S, e) => AllFit(t, e)
  BY <1>3, ResumedIs
<1> HIDE DEF t
<1>8. ASSUME Targets PROVE AllFit(t, d)
  BY <1>3, <1>6, <1>7, <1>8, ExtendedFits
<1> QED
  BY <1>2, <1>3, <1>4, <1>5, <1>6, <1>7, <1>8, EditHolds

-------------------------------------------------------------------------------
(* Panes, jumps, and what comes from outside.                              *)

(* The document stays, and what is open may be told that it is on top.     *)
Follows(st) ==
    /\ st = [p \in {"rules", "tests"} |-> st[p]]
    /\ \A p \in {"rules", "tests"} :
          /\ Pile(p, st[p]) /\ (readOnly /\ ~unparsed => Viewing(st[p]))
          /\ Targets => AllFit(st[p], draft)

LEMMA FollowHolds ==
    ASSUME EditorInv, UNCHANGED <<draft, found, lagging, readOnly, unparsed, created>>,
           raced' = (raced \/ Races), Follows(stacks'),
           asked' = asked \/ asked'.kind # "drop" \/ (Targets => DropHolds'),
           Targets => RowsAreCurrent' /\ MatchesHold',
           late' = [pane |-> late'.pane, live |-> late'.live, rows |-> late'.rows],
           late'.live \in BOOLEAN, late'.live => late'.pane \in {"rules", "tests"}
    PROVE  EditorInv'
<1>1. /\ Shapes /\ FindingsHold /\ ReadOnlyHolds /\ (raced \/ Targets)
      /\ \A p \in {"rules", "tests"} :
            /\ Pile(p, stacks'[p]) /\ (readOnly /\ ~unparsed => Viewing(stacks'[p]))
            /\ Targets => AllFit(stacks'[p], draft)
      /\ stacks' = [p \in {"rules", "tests"} |-> stacks'[p]]
  BY DEF EditorInv, Follows
<1>2. Shapes'
  BY <1>1 DEF Shapes
<1>3. FindingsHold'
  BY <1>1 DEF FindingsHold
<1>4. ReadOnlyHolds'
  <2> SUFFICES ASSUME readOnly, ~unparsed, NEW p \in {"rules", "tests"}, NEW i \in DOMAIN stacks'[p]
               PROVE  stacks'[p][i].kind \in {"hub", "rule", "tests"}
    <3>1. DOMAIN stacks' = {"rules", "tests"}
      BY <1>1
    <3> QED
      BY <3>1 DEF ReadOnlyHolds
  <2>1. DOMAIN stacks'[p] = 1..Len(stacks'[p])
    BY <1>1 DEF Pile
  <2> QED
    BY <1>1, <2>1 DEF Viewing
<1>5. ASSUME ~raced' PROVE Targets'
  <2>1. Targets
    BY <1>1, <1>5
  <2>2. /\ draft \in Documents /\ created \in Nat /\ DOMAIN found \subseteq Nat \ {0} /\ DropHolds
        /\ RowsAreCurrent' /\ MatchesHold'
    BY <2>1 DEF Targets
  <2>3. DropHolds'
    BY <2>1, <2>2 DEF DropHolds
  <2> QED
    BY <1>1, <2>1, <2>2, <2>3 DEF Targets
<1> QED
  BY <1>2, <1>3, <1>4, <1>5 DEF EditorInv

LEMMA StaysHolds ==
    ASSUME EditorInv
    PROVE  /\ Follows(stacks) /\ late = [pane |-> late.pane, live |-> late.live, rows |-> late.rows]
           /\ late.live \in BOOLEAN /\ (late.live => late.pane \in {"rules", "tests"})
           /\ DOMAIN stacks = {"rules", "tests"}
<1>1. Shapes /\ ReadOnlyHolds
  BY DEF EditorInv
<1>2. DOMAIN stacks = {"rules", "tests"}
  BY <1>1 DEF Shapes
<1>3. ASSUME NEW p \in {"rules", "tests"} PROVE readOnly /\ ~unparsed => Viewing(stacks[p])
  <2>1. DOMAIN stacks[p] = 1..Len(stacks[p])
    BY <1>1 DEF Shapes, Pile
  <2> QED
    BY <1>1, <1>2, <2>1 DEF ReadOnlyHolds, Viewing
<1> QED
  BY <1>1, <1>2, <1>3 DEF Shapes, Follows, Targets

LEMMA ResumeIs ==
    ASSUME EditorInv, NEW p
    PROVE  LET st == Resume(p, stacks)
           IN  /\ Follows(st)
               /\ \A q \in {"rules", "tests"} : Alike(Last(st[q]), Last(stacks[q]))
               /\ p \in {"rules", "tests"} => Last(st[p]).rows = Rows(Last(st[p]), draft)
<1>1. Follows(stacks) /\ DOMAIN stacks = {"rules", "tests"}
  BY StaysHolds
<1>2. ASSUME NEW q \in {"rules", "tests"} PROVE Alike(Last(stacks[q]), Last(stacks[q]))
  <2>1. Framed(Last(stacks[q]))
    BY <1>1, PileTop DEF Follows
  <2> QED
    BY <2>1 DEF Alike
<1>3. CASE p \notin {"rules", "tests"}
  <2>1. Resume(p, stacks) = stacks
    BY <1>1, <1>3 DEF Resume
  <2> QED
    BY <1>1, <1>2, <1>3, <2>1
<1>4. CASE p \in {"rules", "tests"}
  <2> DEFINE t == Resumed(stacks[p], draft)
             st == Resume(p, stacks)
  <2>1. st = [stacks EXCEPT ![p] = t]
    BY <1>1, <1>4 DEF Resume
  <2>2. Pile(p, stacks[p])
    BY <1>1, <1>4 DEF Follows
  <2>3. /\ Pile(p, t) /\ Alike(Last(t), Last(stacks[p])) /\ Last(t).rows = Rows(Last(t), draft)
        /\ \A e : AllFit(stacks[p], e) => AllFit(t, e)
        /\ Len(t) = Len(stacks[p]) /\ (\A i \in 1..Len(stacks[p]) : t[i].kind = stacks[p][i].kind)
    BY <2>2, ResumedIs
  <2> HIDE DEF t, st
  <2>4. /\ st = [q \in {"rules", "tests"} |-> st[q]] /\ st[p] = t
        /\ \A q \in {"rules", "tests"} : q # p => st[q] = stacks[q]
    <3>1. stacks = [q \in {"rules", "tests"} |-> stacks[q]]
      BY <1>1 DEF Follows
    <3> QED
      BY <1>4, <2>1, <3>1
  <2>5. readOnly /\ ~unparsed => Viewing(t)
    BY <1>1, <1>4, <2>3 DEF Follows, Viewing
  <2>6. Targets => AllFit(t, draft)
    BY <1>1, <1>4, <2>3 DEF Follows
  <2>7. Follows(st)
    BY <1>1, <2>3, <2>4, <2>5, <2>6 DEF Follows
  <2> QED
    BY <1>2, <1>4, <2>3, <2>4, <2>7 DEF st
<1> QED
  BY <1>3, <1>4

LEMMA SwitchHolds ==
    ASSUME EditorInv, NEW p, SwitchTo(p, stacks),
           UNCHANGED <<draft, found, lagging, readOnly, unparsed, late, created>>,
           raced' = (raced \/ Races), asked' = asked \/ asked'.kind # "drop"
    PROVE  EditorInv'
<1> DEFINE st == Resume(p, stacks)
<1>1. showing' = p /\ stacks' = st
  BY DEF SwitchTo
<1>2. /\ Follows(st)
      /\ \A q \in {"rules", "tests"} : Alike(Last(st[q]), Last(stacks[q]))
      /\ p \in {"rules", "tests"} => Last(st[p]).rows = Rows(Last(st[p]), draft)
  BY ResumeIs
<1>3. /\ late = [pane |-> late.pane, live |-> late.live, rows |-> late.rows]
      /\ late.live \in BOOLEAN /\ (late.live => late.pane \in {"rules", "tests"})
  BY StaysHolds
<1> HIDE DEF st
<1>4. DOMAIN stacks' = {"rules", "tests"}
  BY <1>1, <1>2 DEF Follows
<1>5. RowsAreCurrent'
  BY <1>1, <1>2, <1>4 DEF RowsAreCurrent, OnScreen, Top, S
<1>6. ASSUME Targets PROVE MatchesHold'
  <2> SUFFICES ASSUME late.live, Last(stacks'[late.pane]).kind \in Listing
               PROVE  late.rows = Rows(Last(stacks'[late.pane]), draft)
    BY DEF MatchesHold
  <2>1. Alike(Last(stacks'[late.pane]), Last(stacks[late.pane]))
    BY <1>1, <1>2, <1>3
  <2>2. /\ Last(stacks[late.pane]).kind \in Listing
        /\ Rows(Last(stacks'[late.pane]), draft) = Rows(Last(stacks[late.pane]), draft)
    BY <2>1, AlikeIs DEF Alike
  <2> QED
    BY <1>6, <2>2 DEF Targets, MatchesHold
<1> QED
  BY <1>1, <1>2, <1>3, <1>5, <1>6, FollowHolds

LEMMA AloneIs ==
    ASSUME NEW p, NEW f, Framed(f), f.kind \in Kinds(p), Level(f.kind) = 0
    PROVE  Pile(p, <<f>>) /\ Last(<<f>>) = f /\ \A d : AllFit(<<f>>, d) <=> Fits(f, d)
<1> DEFINE s == <<f>>
<1>1. Len(s) = 1 /\ s[1] = f /\ s # <<>> /\ s \in Seq({f})
  OBVIOUS
<1> HIDE DEF s
<1>2. s \in Seq(ToSet(s))
  BY <1>1, ListOf
<1>3. \A i \in 1..Len(s) : s[i] = f
  BY <1>1
<1>4. 1..(Len(s) - 1) = {} /\ \A i, j \in 1..Len(s) : ~(i < j)
  BY <1>1
<1>5. Pile(p, s)
  BY <1>1, <1>2, <1>3, <1>4 DEF Pile
<1>6. Last(s) = f
  BY <1>1 DEF Last
<1>7. \A d : AllFit(s, d) <=> Fits(f, d)
  BY <1>1, <1>3 DEF AllFit
<1> QED
  BY <1>5, <1>6, <1>7 DEF s

LEMMA SecondIs ==
    ASSUME NEW V, NEW s \in Seq(V), NEW a, NEW b \in V, Len(s) = 1, s[1] = a
    PROVE  /\ Append(s, b) \in Seq(V) /\ Len(Append(s, b)) = 2
           /\ Append(s, b)[1] = a /\ Append(s, b)[2] = b
<1> DEFINE t == Append(s, b)
           n == Len(s)
<1>1. t \in Seq(V) /\ Len(t) = n + 1 /\ t[n + 1] = b
  BY AppendProperties
<1>2. \A i \in 1..n : t[i] = s[i]
  BY AppendProperties
<1> HIDE DEF t
<1>3. n = 1 /\ 1 \in 1..n /\ n + 1 = 2
  OBVIOUS
<1> HIDE DEF n
<1>4. Len(t) = 2 /\ t[2] = b
  BY <1>1, <1>3
<1>5. t[1] = s[1]
  BY <1>2, <1>3
<1> QED
  BY <1>1, <1>4, <1>5 DEF t

LEMMA TwoAre ==
    ASSUME NEW a, NEW b
    PROVE  Append(<<a>>, b) = <<a, b>>
<1> DEFINE T == {a, b}
           s == <<a>>
           u == <<a, b>>
<1>1. s \in Seq(T) /\ Len(s) = 1 /\ s[1] = a /\ b \in T
  OBVIOUS
<1>2. u \in Seq(T) /\ Len(u) = 2 /\ u[1] = a /\ u[2] = b
  OBVIOUS
<1> HIDE DEF s, u, T
<1>3. Append(s, b) \in Seq(T) /\ Len(Append(s, b)) = 2 /\ Append(s, b)[1] = a /\ Append(s, b)[2] = b
  BY <1>1, SecondIs
<1> DEFINE t == Append(s, b)
<1>4. t \in Seq(T) /\ Len(t) = 2 /\ t[1] = a /\ t[2] = b
  BY <1>3
<1> HIDE DEF t
<1>5. t = u
  BY <1>2, <1>4, SeqEqual
<1> QED
  BY <1>5 DEF s, t, u

LEMMA PutIs ==
    ASSUME NEW s, s \in Seq(ToSet(s)), NEW x
    PROVE  s \o <<>> = s /\ s \o <<x>> = Append(s, x)
<1> DEFINE T == ToSet(s) \cup {x}
<1>1. s \in Seq(T) /\ x \in T
  OBVIOUS
<1> HIDE DEF T
<1> QED
  BY <1>1

(* Only the list of rules is left under the page.                          *)
LEMMA PageIs ==
    ASSUME NEW s, Pile("rules", s), NEW d, NEW page, NEW i, NEW rid, IsOfRule(page, "rule", i, rid)
    PROVE  LET t == <<Synced(s[1], d), page>>
           IN  /\ Pile("rules", t) /\ Last(t) = page /\ Viewing(t)
               /\ \A e : AllFit(s, e) /\ Fits(page, e) => AllFit(t, e)
<1> DEFINE f == s[1]
           g == Synced(f, d)
           b == <<g>>
           t == Append(b, page)
<1>1. Framed(f) /\ f.kind \in Kinds("rules") /\ Level(f.kind) = 0 /\ \A e : AllFit(s, e) => Fits(f, e)
  <2>1. 1 \in 1..Len(s)
    BY PileTop
  <2> QED
    BY <2>1 DEF Pile, AllFit
<1>2. f.kind = "hub"
  BY <1>1, LevelIs, KindsAre DEF Kinds
<1> HIDE DEF f
<1>3. Alike(g, f)
  BY <1>1, SyncedIs
<1>4. \A e : Fits(f, e) => Fits(g, e)
  BY <1>3, AlikeIs
<1> HIDE DEF g
<1>5. Framed(g) /\ g.kind = "hub" /\ g.kind \in Kinds("rules") /\ Level(g.kind) = 0
  BY <1>1, <1>2, <1>3 DEF Alike
<1>6. Pile("rules", b) /\ Last(b) = g /\ \A e : AllFit(b, e) <=> Fits(g, e)
  BY <1>5, AloneIs
<1>7. t = <<g, page>>
  BY TwoAre
<1>8. Framed(page) /\ page.kind = "rule" /\ page.kind \in Kinds("rules")
  BY DEF IsOfRule, Kinds, OfRule
<1> HIDE DEF b
<1>9. Over(Last(b), page) /\ Level(Last(b).kind) < Level(page.kind)
  BY <1>5, <1>6, <1>8, OverIs, LevelsAre
<1>10. /\ Pile("rules", t) /\ Last(t) = page
       /\ \A e : AllFit(b, e) /\ Fits(page, e) => AllFit(t, e)
  BY <1>6, <1>8, <1>9, PilePush
<1> HIDE DEF t
<1>11. Viewing(t)
  BY <1>5, <1>7, <1>8 DEF Viewing
<1>12. \A e : AllFit(s, e) /\ Fits(page, e) => AllFit(t, e)
  BY <1>1, <1>4, <1>6, <1>10
<1> QED
  BY <1>7, <1>10, <1>11, <1>12 DEF f, g

Jumped(t, over, s, d, i, rid, sec) ==
    /\ Pile("rules", t) /\ Last(t).rows = Rows(Last(t), d)
    /\ over = <<>> => Viewing(t) /\ Last(t).kind = "rule"
    /\ (/\ AllFit(s, d) /\ d \in Documents /\ i \in 1..Len(d.rules) /\ d.rules[i].id = rid
        /\ over # <<>> => sec \in Sections) => AllFit(t, d)

(* What a jump opens.                                                      *)
LEMMA JumpOpens ==
    ASSUME NEW s, Pile("rules", s), NEW d, NEW i, NEW rid, NEW sec, NEW over,
           over \in {<<>>, <<Synced(SectionEditor(OnRule("rule", i, rid), sec), d)>>}
    PROVE  Jumped(<<Synced(s[1], d), OnRule("rule", i, rid)>> \o over, over, s, d, i, rid, sec)
<1> DEFINE page == OnRule("rule", i, rid)
           base == <<Synced(s[1], d), page>>
           top == SectionEditor(page, sec)
<1>1. IsOfRule(page, "rule", i, rid) /\ page.rows = {}
  <2>1. page.rows = {}
    BY DEF OnRule, Frame
  <2> QED
    BY <2>1, OnRuleIs
<1> HIDE DEF page
<1>2. page.kind = "rule" /\ page.rule = i /\ page.rid = rid
  BY <1>1 DEF IsOfRule
<1>3. /\ Pile("rules", base) /\ Last(base) = page /\ Viewing(base)
      /\ \A e : AllFit(s, e) /\ Fits(page, e) => AllFit(base, e)
  BY <1>1, PageIs
<1>4. ASSUME AllFit(s, d), d \in Documents, i \in 1..Len(d.rules), d.rules[i].id = rid
      PROVE  AllFit(base, d) /\ Fits(page, d)
  <2>1. Fits(page, d)
    BY <1>1, <1>4, RuleRowFits DEF OfRule
  <2> QED
    BY <1>3, <1>4, <2>1
<1> HIDE DEF base
<1>5. base \in Seq(ToSet(base))
  BY <1>3 DEF Pile
<1>6. CASE over = <<>>
  <2> DEFINE t == base \o <<>>
  <2>1. t = base
    BY <1>5, PutIs
  <2> HIDE DEF t
  <2>2. /\ Pile("rules", t) /\ Viewing(t) /\ Last(t) = page
        /\ AllFit(s, d) /\ d \in Documents /\ i \in 1..Len(d.rules) /\ d.rules[i].id = rid => AllFit(t, d)
    BY <1>3, <1>4, <2>1
  <2>3. Rows(page, d) = {}
    BY <1>2, NoRows
  <2>4. Jumped(t, over, s, d, i, rid, sec)
    BY <1>1, <1>2, <1>6, <2>2, <2>3 DEF Jumped
  <2> QED
    BY <1>6, <2>4 DEF t, base, page
<1>7. CASE over = <<Synced(top, d)>>
  <2> DEFINE x == Synced(top, d)
             t == base \o <<x>>
  <2>1. t = Append(base, x) /\ <<x>> # <<>>
    BY <1>5, PutIs
  <2>2. t = Opened(base, top, d)
    BY <2>1 DEF Opened
  <2>3. /\ Framed(top) /\ top.kind \in {"trigger", "action", "iterHub", "list"}
        /\ top.rule = page.rule /\ top.rid = page.rid /\ (top.kind = "list" /\ sec \in Sections => top.sec \in Lists)
    BY SectionIs
  <2> HIDE DEF top, t
  <2>4. top.kind \in Kinds("rules")
    BY <2>3 DEF Kinds, OfRule
  <2> HIDE DEF x
  <2>5. Over(Last(base), top) /\ Level(Last(base).kind) < Level(top.kind)
    <3>1. Last(base).kind = "rule"
      BY <1>2, <1>3
    <3>2. Over(Last(base), top)
      BY <2>3, OverIs
    <3> QED
      BY <2>3, <3>1, <3>2, LevelsAre
  <2>6. /\ Pile("rules", t) /\ Last(t).rows = Rows(Last(t), d)
        /\ \A e : AllFit(base, e) /\ Fits(top, e) => AllFit(t, e)
    BY <1>3, <2>2, <2>3, <2>4, <2>5, OpenedIs
  <2>7. ASSUME AllFit(s, d), d \in Documents, i \in 1..Len(d.rules), d.rules[i].id = rid, sec \in Sections
        PROVE  AllFit(t, d)
    <3>1. Fits(page, d) /\ AllFit(base, d)
      BY <1>4, <2>7
    <3>2. Fits(top, d)
      <4>1. page.kind \in OfRule /\ top.kind \in OfRule /\ top.kind # "form"
        BY <1>2, <2>3 DEF OfRule
      <4>2. top.rule = page.rule /\ top.rid = page.rid /\ (top.kind = "list" => top.sec \in Lists)
        BY <2>3, <2>7
      <4> QED
        BY <3>1, <4>1, <4>2, SameRule
    <3> QED
      BY <2>6, <3>1, <3>2
  <2>8. over # <<>>
    BY <1>7, <2>1
  <2>9. Jumped(t, over, s, d, i, rid, sec)
    BY <2>6, <2>7, <2>8 DEF Jumped
  <2> QED
    BY <1>7, <2>9 DEF t, x, top, base, page
<1> QED
  BY <1>6, <1>7 DEF top, page

LEMMA InRange ==
    ASSUME NEW n \in Nat, NEW i \in Nat \ {0}
    PROVE  (~(i > n) => i \in 1..n) /\ (i \in 1..n => i <= n)
OBVIOUS

LEMMA GoToHolds ==
    ASSUME EditorInv, NEW j, GoTo(j),
           Targets => /\ j.sec \in Sections \cup {""} /\ j.rule \in Nat \ {0}
                      /\ (j.rule <= Len(draft.rules) => draft.rules[j.rule].id = j.rid),
           UNCHANGED <<draft, found, lagging, readOnly, unparsed, created>>,
           raced' = (raced \/ Races), asked' = asked \/ asked'.kind # "drop"
    PROVE  EditorInv'
<1> DEFINE i == j.rule
           rid == j.rid
           sec == j.sec
           short == readOnly \/ sec = ""
           page == OnRule("rule", i, rid)
           over == IF short THEN <<>> ELSE <<Synced(SectionEditor(page, sec), draft)>>
           t == <<Synced(stacks["rules"][1], draft), page>> \o over
<1>1. /\ showing' = "rules"
      /\ \/ i > Len(draft.rules) /\ stacks' = Resume("rules", stacks) /\ UNCHANGED late
         \/ /\ ~(i > Len(draft.rules))
            /\ stacks' = [stacks EXCEPT !["rules"] = t]
            /\ late' = IF over = <<>> THEN late ELSE Covered("rules")
  BY Zenon DEF GoTo
<1>2. CASE stacks' = Resume("rules", stacks) /\ UNCHANGED late
  BY <1>1, <1>2, SwitchHolds DEF SwitchTo
<1>3. /\ Follows(stacks) /\ DOMAIN stacks = {"rules", "tests"} /\ Pile("rules", stacks["rules"])
      /\ late = [pane |-> late.pane, live |-> late.live, rows |-> late.rows]
      /\ late.live \in BOOLEAN /\ (late.live => late.pane \in {"rules", "tests"})
  BY StaysHolds DEF Follows
<1>4. ASSUME Targets, ~(i > Len(draft.rules))
      PROVE  /\ AllFit(stacks["rules"], draft) /\ draft \in Documents
             /\ i \in 1..Len(draft.rules) /\ draft.rules[i].id = rid
             /\ ~short => sec \in Sections
  <2>1. AllFit(stacks["rules"], draft) /\ draft \in Documents
    BY <1>4 DEF Targets
  <2>2. i \in Nat \ {0} /\ (i <= Len(draft.rules) => draft.rules[i].id = rid)
    BY <1>4
  <2>3. ~short => sec \in Sections
    BY <1>4
  <2>4. Len(draft.rules) \in Nat
    BY <2>1, DocumentIs
  <2> HIDE DEF i, rid
  <2>5. i \in 1..Len(draft.rules)
    BY <1>4, <2>2, <2>4, InRange, Zenon
  <2>6. i <= Len(draft.rules)
    BY <2>2, <2>4, <2>5, InRange, Zenon
  <2> HIDE DEF short, sec
  <2> QED
    BY <2>1, <2>2, <2>3, <2>5, <2>6
<1> HIDE DEF i, rid, sec
<1>5. over \in {<<>>, <<Synced(SectionEditor(page, sec), draft)>>} /\ (short => over = <<>>)
  OBVIOUS
<1> HIDE DEF over
<1>6. Jumped(t, over, stacks["rules"], draft, i, rid, sec)
  <2> DEFINE base == <<Synced(stacks["rules"][1], draft), page>>
             rules == stacks["rules"]
  <2>2. Pile("rules", rules)
    BY <1>3
  <2> HIDE DEF rules
  <2>1. Jumped(<<Synced(rules[1], draft), page>> \o over, over, rules, draft, i, rid, sec)
    BY <2>2, <1>5, JumpOpens
  <2> QED
    BY <2>1 DEF rules
<1>60. /\ Pile("rules", t) /\ Last(t).rows = Rows(Last(t), draft)
       /\ over = <<>> => Viewing(t) /\ Last(t).kind = "rule"
  BY <1>6 DEF Jumped
<1>61. Targets /\ ~(i > Len(draft.rules)) => AllFit(t, draft)
  BY <1>4, <1>5, <1>6 DEF Jumped
<1>62. readOnly => over = <<>>
  BY <1>5
<1> HIDE DEF t
<1>7. CASE /\ ~(i > Len(draft.rules)) /\ stacks' = [stacks EXCEPT !["rules"] = t]
           /\ late' = IF over = <<>> THEN late ELSE Covered("rules")
  <2>1. /\ stacks' = [p \in {"rules", "tests"} |-> stacks'[p]] /\ stacks'["rules"] = t
        /\ stacks'["tests"] = stacks["tests"]
    <3>1. stacks = [p \in {"rules", "tests"} |-> stacks[p]]
      BY <1>3 DEF Follows
    <3> QED
      BY <1>7, <3>1
  <2>2. (readOnly => Viewing(t)) /\ (Targets => AllFit(t, draft))
    BY <1>60, <1>61, <1>62, <1>7
  <2>3. Follows(stacks')
    BY <1>3, <1>60, <2>1, <2>2 DEF Follows
  <2>4. /\ late' = [pane |-> late'.pane, live |-> late'.live, rows |-> late'.rows]
        /\ late'.live \in BOOLEAN /\ (late'.live => late'.pane \in {"rules", "tests"})
        /\ late'.live => late' = late /\ (late.pane = "rules" => Last(t).kind = "rule")
    <3>1. CASE late' = late /\ Last(t).kind = "rule"
      BY <1>3, <3>1
    <3>2. CASE late' = Covered("rules") /\ late.pane # "rules"
      BY <1>3, <3>2 DEF Covered
    <3>3. CASE late' = Covered("rules") /\ late.pane = "rules"
      <4>1. late' = [pane |-> late.pane, live |-> FALSE, rows |-> late.rows]
        BY <1>3, <3>3 DEF Covered
      <4> QED
        BY <4>1
    <3>4. (late' = late /\ Last(t).kind = "rule") \/ late' = Covered("rules")
      BY <1>60, <1>7
    <3> QED
      BY <3>1, <3>2, <3>3, <3>4
  <2>5. RowsAreCurrent'
    <3>1. DOMAIN stacks' = {"rules", "tests"}
      BY <2>1
    <3> QED
      BY <1>1, <1>60, <2>1, <3>1 DEF RowsAreCurrent, OnScreen, Top, S
  <2>6. ASSUME Targets PROVE MatchesHold'
    <3> SUFFICES ASSUME late'.live, Last(stacks'[late'.pane]).kind \in Listing
                 PROVE  late'.rows = Rows(Last(stacks'[late'.pane]), draft')
      BY DEF MatchesHold
    <3>1. late' = late /\ late.live /\ late.pane = "tests"
      BY <1>3, <2>1, <2>4 DEF Listing
    <3> QED
      BY <2>1, <2>6, <3>1 DEF Targets, MatchesHold
  <2> QED
    BY <2>3, <2>4, <2>5, <2>6, FollowHolds
<1> QED
  BY <1>1, <1>2, <1>7

(* Nothing but the question and the notes beside the editors changes.      *)
LEMMA StillHolds ==
    ASSUME EditorInv, UNCHANGED <<draft, found, lagging, readOnly, unparsed, created, stacks, late, showing>>,
           raced' = (raced \/ Races),
           asked' = asked \/ asked'.kind # "drop" \/ (Targets => DropHolds')
    PROVE  EditorInv'
<1>1. /\ Follows(stacks') /\ late' = [pane |-> late'.pane, live |-> late'.live, rows |-> late'.rows]
      /\ late'.live \in BOOLEAN /\ (late'.live => late'.pane \in {"rules", "tests"})
  <2>1. /\ Follows(stacks) /\ late = [pane |-> late.pane, live |-> late.live, rows |-> late.rows]
        /\ late.live \in BOOLEAN /\ (late.live => late.pane \in {"rules", "tests"})
    BY StaysHolds
  <2>2. stacks' = stacks /\ late' = late
    OBVIOUS
  <2> QED
    BY <2>1, <2>2
<1>2. ASSUME Targets PROVE RowsAreCurrent' /\ MatchesHold'
  <2>1. RowsAreCurrent /\ MatchesHold
    BY <1>2 DEF Targets
  <2>2. RowsAreCurrent'
    BY <2>1 DEF RowsAreCurrent, OnScreen, Top, S
  <2>3. MatchesHold'
    BY <2>1 DEF MatchesHold
  <2> QED
    BY <2>2, <2>3
<1> QED
  BY <1>1, <1>2, FollowHolds

LEMMA JumpHolds ==
    ASSUME EditorInv, NEW i, NEW rid, NEW sec, Jump(i, rid, sec),
           Targets => /\ sec \in Sections \cup {""} /\ i \in Nat \ {0}
                      /\ (i <= Len(draft.rules) => draft.rules[i].id = rid),
           UNCHANGED <<draft, found, lagging, readOnly, unparsed, created>>,
           raced' = (raced \/ Races)
    PROVE  EditorInv'
<1> DEFINE j == [kind |-> "drop", rule |-> i, rid |-> rid, sec |-> sec]
<1>1. j.kind = "drop" /\ j.rule = i /\ j.rid = rid /\ j.sec = sec
  OBVIOUS
<1>2. (asked' = j /\ UNCHANGED <<showing, stacks, late>>) \/ (GoTo(j) /\ asked' = asked)
  BY DEF Jump, Asking, Quiet
<1> HIDE DEF j
<1>3. CASE asked' = j /\ UNCHANGED <<showing, stacks, late>>
  <2>1. asked'.rule = i /\ asked'.rid = rid /\ asked'.sec = sec /\ draft' = draft
    BY <1>1, <1>3
  <2>2. Targets => DropHolds'
    BY <2>1 DEF DropHolds
  <2> QED
    BY <1>3, <2>2, StillHolds
<1>4. CASE GoTo(j) /\ asked' = asked
  <2>1. Targets => /\ j.sec \in Sections \cup {""} /\ j.rule \in Nat \ {0}
                   /\ (j.rule <= Len(draft.rules) => draft.rules[j.rule].id = j.rid)
    BY <1>1
  <2> QED
    BY <1>4, <2>1, GoToHolds
<1> QED
  BY <1>2, <1>3, <1>4

LEMMA JumpFromTestHolds ==
    ASSUME EditorInv, JumpFromTest, raced' = (raced \/ Races)
    PROVE  EditorInv'
<1>1. /\ ~unparsed /\ showing = "tests" /\ Top.kind = "tests"
      /\ UNCHANGED <<draft, found, lagging, readOnly, unparsed, created>>
  BY DEF JumpFromTest
<1>2. PICK r \in Top.rows, i \in DOMAIN draft.rules :
         (~r.own => i = r.at) /\ Jump(i, IF r.own THEN draft.rules[i].id ELSE r.of, "")
  BY DEF JumpFromTest
<1> DEFINE rid == IF r.own THEN draft.rules[i].id ELSE r.of
<1>3. ASSUME Targets
      PROVE  "" \in Sections \cup {""} /\ i \in Nat \ {0} /\ draft.rules[i].id = rid
  <2>1. draft \in Documents /\ Top.rows = Rows(Top, draft)
    <3>1. DOMAIN stacks = {"rules", "tests"}
      BY StaysHolds
    <3> QED
      BY <1>1, <1>3, <3>1 DEF Targets, RowsAreCurrent, OnScreen
  <2>2. ~r.own => draft.rules[r.at].id = r.of
    BY <1>1, <2>1, RowsAre
  <2>3. Len(draft.rules) \in Nat /\ DOMAIN draft.rules = 1..Len(draft.rules)
    BY <2>1, DocumentIs
  <2>4. i \in Nat \ {0}
    BY <2>3
  <2> QED
    BY <1>2, <2>2, <2>4
<1>4. Jump(i, rid, "")
  BY <1>2
<1> HIDE DEF rid
<1> QED
  BY <1>1, <1>3, <1>4, JumpHolds

LEMMA JumpFromCheckHolds ==
    ASSUME EditorInv, JumpFromCheck, raced' = (raced \/ Races)
    PROVE  EditorInv'
<1>1. ~unparsed /\ UNCHANGED <<draft, found, lagging, readOnly, unparsed, created>>
  BY DEF JumpFromCheck
<1>2. PICK i \in DOMAIN found, sec \in Sections \cup {""} :
         Jump(i, IF lagging /\ i <= Len(draft.rules) THEN draft.rules[i].id ELSE found[i], sec)
  BY DEF JumpFromCheck
<1> DEFINE rid == IF lagging /\ i <= Len(draft.rules) THEN draft.rules[i].id ELSE found[i]
<1>3. ASSUME Targets
      PROVE  i \in Nat \ {0} /\ (i <= Len(draft.rules) => draft.rules[i].id = rid)
  <2>1. i \in Nat \ {0}
    BY <1>3 DEF Targets
  <2>2. CASE lagging
    BY <2>1, <2>2
  <2>3. CASE ~lagging
    <3>1. found = RuleIds(draft)
      BY <1>1, <2>3 DEF EditorInv, FindingsHold
    <3>2. found[i] = draft.rules[i].id
      BY <3>1 DEF RuleIds
    <3> QED
      BY <2>1, <2>3, <3>2
  <2> QED
    BY <2>2, <2>3
<1>4. Jump(i, rid, sec)
  BY <1>2
<1> HIDE DEF rid
<1> QED
  BY <1>1, <1>3, <1>4, JumpHolds

LEMMA AnswerDropHolds ==
    ASSUME EditorInv, AnswerDrop, raced' = (raced \/ Races)
    PROVE  EditorInv'
<1>1. /\ asked.kind = "drop" /\ asked'.kind # "drop"
      /\ UNCHANGED <<draft, found, lagging, readOnly, unparsed, created>>
  BY DEF AnswerDrop, NoQuestion
<1>2. CASE GoTo(asked)
  <2>1. Targets => /\ asked.sec \in Sections \cup {""} /\ asked.rule \in Nat \ {0}
                   /\ (asked.rule <= Len(draft.rules) => draft.rules[asked.rule].id = asked.rid)
    BY <1>1 DEF Targets, DropHolds
  <2> QED
    BY <1>1, <1>2, <2>1, GoToHolds
<1>3. CASE SwitchTo(showing, stacks) /\ UNCHANGED late
  BY <1>1, <1>3, SwitchHolds
<1> QED
  BY <1>2, <1>3 DEF AnswerDrop

LEMMA LeaveKeysHold ==
    ASSUME EditorInv, QuitKey \/ AnswerLeave \/ (\E p \in Panes : ShowPane(p)), raced' = (raced \/ Races)
    PROVE  EditorInv'
<1>1. CASE QuitKey
  <2>1. asked'.kind # "drop"
    <3>1. asked' = [NoQuestion EXCEPT !.kind = "leave"] \/ asked' = NoQuestion
      BY <1>1, Zenon DEF QuitKey
    <3>2. [NoQuestion EXCEPT !.kind = "leave"].kind = "leave" /\ NoQuestion.kind = "none"
      BY DEF NoQuestion
    <3> QED
      BY <3>1, <3>2
  <2>2. UNCHANGED <<draft, found, lagging, readOnly, unparsed, created, stacks, late, showing>>
    BY <1>1 DEF QuitKey
  <2> QED
    BY <2>1, <2>2, StillHolds
<1>2. CASE AnswerLeave
  <2>1. /\ asked'.kind # "drop" /\ UNCHANGED <<draft, found, lagging, readOnly, unparsed, late, created>>
        /\ (UNCHANGED <<showing, stacks>> \/ SwitchTo(showing, stacks))
    BY <1>2 DEF AnswerLeave, NoQuestion
  <2>2. CASE UNCHANGED <<showing, stacks>>
    BY <2>1, <2>2, StillHolds
  <2>3. CASE SwitchTo(showing, stacks)
    BY <2>1, <2>3, SwitchHolds
  <2> QED
    BY <2>1, <2>2, <2>3
<1>3. CASE \E p \in Panes : ShowPane(p)
  <2>1. PICK p \in Panes : ShowPane(p)
    BY <1>3
  <2>2. /\ SwitchTo(p, stacks) /\ asked' = asked
        /\ UNCHANGED <<draft, found, lagging, readOnly, unparsed, late, created>>
    BY <2>1 DEF ShowPane
  <2> QED
    BY <2>2, SwitchHolds
<1> QED
  BY <1>1, <1>2, <1>3

-------------------------------------------------------------------------------
(* Catching up, reloads and the matches of a filter.                       *)

Refilled(s, x) == [s EXCEPT ![Len(s)] = [Last(s) EXCEPT !.rows = x]]

LEMMA RefilledIs ==
    ASSUME NEW p, NEW s, Pile(p, s), NEW x
    PROVE  LET t == Refilled(s, x)
           IN  /\ Pile(p, t) /\ Alike(Last(t), Last(s)) /\ Last(t).rows = x
               /\ \A e : AllFit(s, e) => AllFit(t, e)
               /\ Holds(s) => Holds(t)
               /\ \A i \in 1..Len(t) : i \in 1..Len(s) /\ t[i].kind = s[i].kind
<1> DEFINE n == Len(s)
           f == [Last(s) EXCEPT !.rows = x]
           t == [s EXCEPT ![n] = f]
<1>1. s \in Seq(ToSet(s)) /\ s # <<>> /\ Framed(Last(s)) /\ n \in 1..n
  BY PileTop DEF Pile
<1>2. Alike(f, Last(s)) /\ f.rows = x /\ f.text = Last(s).text
  <2> DEFINE l == Last(s)
  <2>1. Framed(l)
    BY <1>1
  <2> HIDE DEF l
  <2>2. [l EXCEPT !.rows = x] = [kind |-> l.kind, rule |-> l.rule, rid |-> l.rid, sec |-> l.sec,
                                 at |-> l.at, id |-> l.id, rows |-> x, text |-> l.text]
    BY <2>1 DEF Framed
  <2>3. Alike([l EXCEPT !.rows = x], l)
    BY <2>2 DEF Alike, Framed
  <2> QED
    BY <2>2, <2>3 DEF l
<1> HIDE DEF f
<1> DEFINE T == ToSet(s) \cup {f}
<1>4. s \in Seq(T) /\ f \in T
  BY <1>1
<1> HIDE DEF T
<1>5. t \in Seq(T) /\ Len(t) = n /\ \A j \in 1..n : t[j] = IF j = n THEN f ELSE s[j]
  BY <1>1, <1>4, ExceptSeq
<1> HIDE DEF t
<1>6. t \in Seq(ToSet(t)) /\ t[n] = f /\ \A j \in 1..(n - 1) : t[j] = s[j]
  <2>1. n \in Nat
    BY <1>1
  <2>2. \A j \in 1..(n - 1) : j \in 1..n /\ j # n
    BY <2>1
  <2> QED
    BY <1>1, <1>5, <2>2, ListOf
<1>7. /\ Pile(p, t) /\ Last(t) = f /\ (\A e : AllFit(s, e) => AllFit(t, e)) /\ (Holds(s) => Holds(t))
  <2> HIDE DEF n
  <2>1. Len(t) = Len(s) /\ t[Len(s)] = f /\ \A j \in 1..(Len(s) - 1) : t[j] = s[j]
    BY <1>5, <1>6 DEF n
  <2> QED
    BY <1>2, <1>6, <2>1, Retop
<1>8. s[n].kind = f.kind
  BY <1>2 DEF Alike, Last
<1>9. \A i \in 1..Len(t) : i \in 1..Len(s) /\ t[i].kind = s[i].kind
  BY <1>5, <1>8
<1> QED
  BY <1>2, <1>7, <1>9 DEF t, f, n, Refilled

LEMMA RecheckedHolds ==
    ASSUME EditorInv, Rechecked, raced' = (raced \/ Races)
    PROVE  EditorInv'
<1>1. /\ lagging' = FALSE /\ found' = RuleIds(draft)
      /\ UNCHANGED <<draft, stacks, showing, asked, readOnly, unparsed, late, created>>
  BY DEF Rechecked
<1>2. Shapes /\ ReadOnlyHolds /\ (raced \/ Targets)
  BY DEF EditorInv
<1>3. Shapes'
  BY <1>1, <1>2 DEF Shapes
<1>4. FindingsHold'
  BY <1>1 DEF FindingsHold, RuleIds
<1>5. ReadOnlyHolds'
  BY <1>1, <1>2 DEF ReadOnlyHolds
<1>6. ASSUME ~raced' PROVE Targets'
  <2>1. /\ draft \in Documents /\ created \in Nat /\ RowsAreCurrent /\ DropHolds /\ MatchesHold
        /\ \A p \in {"rules", "tests"} : AllFit(stacks[p], draft)
    BY <1>2, <1>6 DEF Targets
  <2>2. DOMAIN found' \subseteq Nat \ {0}
    <3>1. Len(draft.rules) \in Nat /\ DOMAIN draft.rules = 1..Len(draft.rules)
      BY <2>1, DocumentIs
    <3>2. DOMAIN found' = DOMAIN draft.rules
      BY <1>1 DEF RuleIds
    <3> QED
      BY <3>1, <3>2
  <2>3. RowsAreCurrent'
    BY <1>1, <2>1 DEF RowsAreCurrent, OnScreen, Top, S
  <2>4. DropHolds' /\ MatchesHold'
    BY <1>1, <2>1 DEF DropHolds, MatchesHold
  <2> QED
    BY <1>1, <2>1, <2>2, <2>3, <2>4 DEF Targets
<1> QED
  BY <1>3, <1>4, <1>5, <1>6 DEF EditorInv

LEMMA RebuildBrokenHolds ==
    ASSUME EditorInv, RebuildBroken, raced' = (raced \/ Races)
    PROVE  EditorInv'
<1>1. /\ unparsed' = TRUE /\ showing' = "check" /\ asked' = asked
      /\ UNCHANGED <<draft, stacks, found, late, created>>
  BY DEF RebuildBroken
<1>2. Shapes /\ (raced \/ Targets)
  BY DEF EditorInv
<1>3. Shapes'
  BY <1>1, <1>2 DEF Shapes
<1>4. FindingsHold' /\ ReadOnlyHolds' /\ RowsAreCurrent'
  BY <1>1 DEF FindingsHold, ReadOnlyHolds, RowsAreCurrent
<1>5. ASSUME ~raced' PROVE Targets'
  <2>1. Targets
    BY <1>2, <1>5
  <2>2. DropHolds' /\ MatchesHold'
    BY <1>1, <2>1 DEF Targets, DropHolds, MatchesHold
  <2> QED
    BY <1>1, <1>4, <2>1, <2>2 DEF Targets
<1> QED
  BY <1>3, <1>4, <1>5 DEF EditorInv

(* Both panes of a document just loaded.                                   *)
LEMMA FreshIs ==
    ASSUME NEW d
    PROVE  LET st == Fresh(d)
           IN  /\ st = [p \in {"rules", "tests"} |-> st[p]]
               /\ \A p \in {"rules", "tests"} :
                     /\ Pile(p, st[p]) /\ Viewing(st[p]) /\ AllFit(st[p], d) /\ ~Holds(st[p])
                     /\ Last(st[p]).rows = Rows(Last(st[p]), d)
<1> DEFINE hub == Synced(Frame("hub"), d)
           tests == Synced(Frame("tests"), d)
           st == Fresh(d)
<1>1. /\ Framed(hub) /\ hub.kind = "hub" /\ hub.rule = 0 /\ hub.rows = Rows(hub, d)
      /\ Framed(tests) /\ tests.kind = "tests" /\ tests.rule = 0 /\ tests.rows = Rows(tests, d)
  <2>1. \A k : Framed(Frame(k)) /\ Frame(k).kind = k /\ Frame(k).rule = 0
    BY DEF Frame, Framed
  <2>2. Alike(hub, Frame("hub")) /\ hub.rows = Rows(hub, d)
    BY <2>1, SyncedIs
  <2>3. Alike(tests, Frame("tests")) /\ tests.rows = Rows(tests, d)
    BY <2>1, SyncedIs
  <2> HIDE DEF hub, tests
  <2> QED
    BY <2>1, <2>2, <2>3 DEF Alike
<1>2. st = [rules |-> <<hub>>, tests |-> <<tests>>]
  BY DEF Fresh
<1> HIDE DEF hub, tests
<1> DEFINE a == <<hub>>
           b == <<tests>>
<1>3. Pile("rules", a) /\ Last(a) = hub /\ AllFit(a, d)
  <2>1. hub.kind \in Kinds("rules") /\ Level(hub.kind) = 0 /\ Fits(hub, d)
    BY <1>1, LevelsAre DEF Kinds, Fits, OfRule, OfTest
  <2> QED
    BY <1>1, <2>1, AloneIs
<1>4. Pile("tests", b) /\ Last(b) = tests /\ AllFit(b, d)
  <2>1. tests.kind \in Kinds("tests") /\ Level(tests.kind) = 0 /\ Fits(tests, d)
    BY <1>1, LevelsAre DEF Kinds, Fits, OfRule, OfTest
  <2> QED
    BY <1>1, <2>1, AloneIs
<1>5. Len(a) = 1 /\ a[1] = hub /\ DOMAIN a = 1..1 /\ Len(b) = 1 /\ b[1] = tests /\ DOMAIN b = 1..1
  OBVIOUS
<1> HIDE DEF a, b, st
<1>6. Viewing(a) /\ Viewing(b) /\ ~Holds(a) /\ ~Holds(b)
  BY <1>1, <1>5 DEF Viewing, Holds
<1>7. st = [rules |-> a, tests |-> b]
  BY <1>2 DEF a, b
<1>8. st["rules"] = a /\ st["tests"] = b /\ st = [p \in {"rules", "tests"} |-> st[p]]
  BY <1>7
<1>9. ASSUME NEW p \in {"rules", "tests"}
      PROVE  /\ Pile(p, st[p]) /\ Viewing(st[p]) /\ AllFit(st[p], d) /\ ~Holds(st[p])
             /\ Last(st[p]).rows = Rows(Last(st[p]), d)
  BY <1>1, <1>3, <1>4, <1>6, <1>8
<1> QED
  BY <1>8, <1>9 DEF st

LEMMA RebuildHolds ==
    ASSUME EditorInv, Rebuild, raced' = (raced \/ Races)
    PROVE  EditorInv'
<1>1. PICK d \in Drafts : draft' = d /\ stacks' = Fresh(d) /\ found' = RuleIds(d)
  BY DEF Rebuild
<1>2. asked' = asked /\ asked = NoQuestion /\ created' = created /\ late' = [late EXCEPT !.live = FALSE]
  BY DEF Rebuild
<1>3. Shapes /\ (raced \/ Targets)
  BY DEF EditorInv
<1>4. /\ stacks' = [p \in {"rules", "tests"} |-> stacks'[p]]
      /\ \A p \in {"rules", "tests"} :
            /\ Pile(p, stacks'[p]) /\ Viewing(stacks'[p]) /\ AllFit(stacks'[p], d)
            /\ Last(stacks'[p]).rows = Rows(Last(stacks'[p]), d)
  <2> DEFINE st == Fresh(d)
  <2>1. /\ st = [p \in {"rules", "tests"} |-> st[p]]
        /\ \A p \in {"rules", "tests"} :
              /\ Pile(p, st[p]) /\ Viewing(st[p]) /\ AllFit(st[p], d)
              /\ Last(st[p]).rows = Rows(Last(st[p]), d)
    BY FreshIs
  <2>2. stacks' = st
    BY <1>1 DEF st
  <2> HIDE DEF st
  <2> QED
    BY <2>1, <2>2
<1>5. late'.live = FALSE /\ late' = [pane |-> late'.pane, live |-> late'.live, rows |-> late'.rows]
  <2>1. late = [pane |-> late.pane, live |-> late.live, rows |-> late.rows]
    BY <1>3 DEF Shapes
  <2>2. late' = [pane |-> late.pane, live |-> FALSE, rows |-> late.rows]
    BY <1>2, <2>1
  <2> QED
    BY <2>2
<1>6. Shapes'
  BY <1>4, <1>5 DEF Shapes
<1>7. FindingsHold'
  BY <1>1 DEF FindingsHold
<1>8. ReadOnlyHolds'
  <2> SUFFICES ASSUME NEW p \in {"rules", "tests"}, NEW i \in DOMAIN stacks'[p]
               PROVE  stacks'[p][i].kind \in {"hub", "rule", "tests"}
    <3>1. DOMAIN stacks' = {"rules", "tests"}
      BY <1>4
    <3> QED
      BY <3>1 DEF ReadOnlyHolds
  <2>1. DOMAIN stacks'[p] = 1..Len(stacks'[p])
    BY <1>4 DEF Pile
  <2> QED
    BY <1>4, <2>1 DEF Viewing
<1>9. ASSUME ~raced' PROVE Targets'
  <2>1. draft' \in Documents /\ created' \in Nat
    BY <1>1, <1>2, <1>3, <1>9, EditorAssumption DEF Targets
  <2>2. DOMAIN found' \subseteq Nat \ {0}
    <3>1. Len(d.rules) \in Nat /\ DOMAIN d.rules = 1..Len(d.rules)
      BY <1>1, <2>1, DocumentIs
    <3>2. DOMAIN found' = DOMAIN d.rules
      BY <1>1 DEF RuleIds
    <3> QED
      BY <3>1, <3>2
  <2>3. RowsAreCurrent'
    <3>1. DOMAIN stacks' = {"rules", "tests"}
      BY <1>4
    <3> QED
      BY <1>1, <1>4, <3>1 DEF RowsAreCurrent, OnScreen, Top, S
  <2>4. MatchesHold'
    BY <1>5 DEF MatchesHold
  <2>5. DropHolds'
    BY <1>2 DEF DropHolds, NoQuestion
  <2> QED
    BY <1>1, <1>4, <2>1, <2>2, <2>3, <2>4, <2>5 DEF Targets
<1> QED
  BY <1>6, <1>7, <1>8, <1>9 DEF EditorInv

LEMMA AskMatchesHolds ==
    ASSUME EditorInv, AskMatches, raced' = (raced \/ Races)
    PROVE  EditorInv'
<1>1. /\ Key({"hub", "list", "tests", "pick", "paths"}) /\ asked' = asked
      /\ late' = [pane |-> showing, live |-> TRUE, rows |-> Top.rows]
      /\ UNCHANGED <<draft, found, lagging, created, stacks>>
  BY DEF AskMatches, Same, Quiet
<1>2. showing \in {"rules", "tests"} /\ ~unparsed /\ UNCHANGED <<showing, readOnly, unparsed>>
  BY <1>1, KeyIs
<1>3. Targets => Top.rows = Rows(Top, draft)
  BY <1>1, KeyIs
<1>4. Follows(stacks')
  <2>1. Follows(stacks) /\ stacks' = stacks
    BY <1>1, StaysHolds
  <2> QED
    BY <2>1
<1>5. /\ late' = [pane |-> late'.pane, live |-> late'.live, rows |-> late'.rows]
      /\ late'.live = TRUE /\ late'.pane = showing /\ late'.rows = Top.rows
  BY <1>1
<1>6. ASSUME Targets PROVE RowsAreCurrent' /\ MatchesHold'
  <2>1. RowsAreCurrent'
    BY <1>1, <1>2, <1>6 DEF Targets, RowsAreCurrent, OnScreen, Top, S
  <2>2. MatchesHold'
    BY <1>1, <1>3, <1>5, <1>6 DEF MatchesHold, Top, S
  <2> QED
    BY <2>1, <2>2
<1> QED
  BY <1>1, <1>2, <1>4, <1>5, <1>6, FollowHolds

LEMMA MatchesArriveHolds ==
    ASSUME EditorInv, MatchesArrive, raced' = (raced \/ Races)
    PROVE  EditorInv'
<1> DEFINE p == late.pane
           s == stacks[p]
           x == late.rows
           t == Refilled(s, x)
<1>1. /\ late.live /\ late' = NoMatches
      /\ stacks' = IF Last(s).kind \in Listing THEN [stacks EXCEPT ![p] = t] ELSE stacks
      /\ UNCHANGED <<draft, found, lagging, showing, asked, readOnly, unparsed, created>>
  BY DEF MatchesArrive, Last, Refilled
<1>2. p \in {"rules", "tests"} /\ Follows(stacks) /\ DOMAIN stacks = {"rules", "tests"}
  BY <1>1, StaysHolds
<1> HIDE DEF p
<1>3. Pile(p, s) /\ (readOnly /\ ~unparsed => Viewing(s)) /\ (Targets => AllFit(s, draft))
  BY <1>2 DEF Follows
<1>4. /\ Pile(p, t) /\ Alike(Last(t), Last(s)) /\ Last(t).rows = late.rows
      /\ \A e : AllFit(s, e) => AllFit(t, e)
      /\ \A i \in 1..Len(t) : i \in 1..Len(s) /\ t[i].kind = s[i].kind
  <2>1. Pile(p, s)
    BY <1>3
  <2> HIDE DEF s, x
  <2>2. /\ Pile(p, t) /\ Alike(Last(t), Last(s)) /\ Last(t).rows = x
        /\ \A e : AllFit(s, e) => AllFit(t, e)
        /\ \A i \in 1..Len(t) : i \in 1..Len(s) /\ t[i].kind = s[i].kind
    BY <2>1, RefilledIs
  <2> HIDE DEF t
  <2> QED
    BY <2>2 DEF x
<1> HIDE DEF t
<1>5. late'.live = FALSE /\ late' = [pane |-> late'.pane, live |-> late'.live, rows |-> late'.rows]
  BY <1>1 DEF NoMatches
<1>6. MatchesHold'
  BY <1>5 DEF MatchesHold
<1>7. CASE ~(Last(s).kind \in Listing)
  <2>1. stacks' = stacks
    BY <1>1, <1>7
  <2>2. Follows(stacks')
    BY <1>2, <2>1
  <2>3. Targets => RowsAreCurrent'
    BY <1>1, <2>1 DEF Targets, RowsAreCurrent, OnScreen, Top, S
  <2> QED
    BY <1>1, <1>5, <1>6, <2>2, <2>3, FollowHolds
<1>8. CASE Last(s).kind \in Listing
  <2>1. stacks' = [stacks EXCEPT ![p] = t]
    BY <1>1, <1>8
  <2>2. /\ stacks' = [q \in {"rules", "tests"} |-> stacks'[q]] /\ stacks'[p] = t
        /\ \A q \in {"rules", "tests"} : q # p => stacks'[q] = stacks[q]
    <3>1. stacks = [q \in {"rules", "tests"} |-> stacks[q]]
      BY <1>2 DEF Follows
    <3> QED
      BY <1>2, <2>1, <3>1
  <2>3. (readOnly /\ ~unparsed => Viewing(t)) /\ (Targets => AllFit(t, draft))
    BY <1>3, <1>4 DEF Viewing
  <2>4. Follows(stacks')
    BY <1>2, <1>4, <2>2, <2>3 DEF Follows
  <2>5. ASSUME Targets PROVE RowsAreCurrent'
    <3>1. Last(t).rows = Rows(Last(t), draft)
      <4>1. late.rows = Rows(Last(s), draft)
        BY <1>1, <1>8, <2>5 DEF Targets, MatchesHold, p
      <4>2. Rows(Last(t), draft) = Rows(Last(s), draft)
        BY <1>4, AlikeIs
      <4> QED
        BY <1>4, <4>1, <4>2
    <3>2. DOMAIN stacks' = {"rules", "tests"}
      BY <2>2
    <3> QED
      BY <1>1, <1>2, <2>2, <2>5, <3>1, <3>2 DEF Targets, RowsAreCurrent, OnScreen, Top, S
  <2> HIDE DEF s
  <2> QED
    BY <1>1, <1>5, <1>6, <2>4, <2>5, FollowHolds
<1> QED
  BY <1>7, <1>8

LEMMA EditorInitHolds == EditorInit \/ NothingOpen => EditorInv
<1> SUFFICES ASSUME EditorInit \/ NothingOpen PROVE EditorInv
  OBVIOUS
<1>1. /\ draft \in Documents /\ stacks = Fresh(draft) /\ late = NoMatches /\ asked = NoQuestion
      /\ created = 0 /\ (found = RuleIds(draft) \/ (found = <<>> /\ unparsed))
  <2>1. CASE EditorInit
    BY <2>1, EditorAssumption DEF EditorInit
  <2>2. CASE NothingOpen
    <3>1. [rules |-> <<>>, tests |-> <<>>] \in Documents
      <4>1. <<>> \in Seq(RuleOf) /\ <<>> \in Seq(TestOf)
        OBVIOUS
      <4> QED
        BY <4>1, DocumentIs
    <3> QED
      BY <2>2, <3>1 DEF NothingOpen
  <2> QED
    BY <2>1, <2>2
<1>2. /\ stacks = [p \in {"rules", "tests"} |-> stacks[p]]
      /\ \A p \in {"rules", "tests"} :
            /\ Pile(p, stacks[p]) /\ Viewing(stacks[p]) /\ AllFit(stacks[p], draft)
            /\ Last(stacks[p]).rows = Rows(Last(stacks[p]), draft)
  <2> DEFINE st == Fresh(draft)
  <2>1. /\ st = [p \in {"rules", "tests"} |-> st[p]]
        /\ \A p \in {"rules", "tests"} :
              /\ Pile(p, st[p]) /\ Viewing(st[p]) /\ AllFit(st[p], draft)
              /\ Last(st[p]).rows = Rows(Last(st[p]), draft)
    BY FreshIs
  <2> HIDE DEF st
  <2>2. stacks = st
    BY <1>1 DEF st
  <2> QED
    BY <2>1, <2>2
<1>3. late.live = FALSE /\ late = [pane |-> late.pane, live |-> late.live, rows |-> late.rows]
  BY <1>1 DEF NoMatches
<1>4. Shapes
  BY <1>2, <1>3 DEF Shapes
<1>5. FindingsHold
  BY <1>1 DEF FindingsHold
<1>6. DOMAIN stacks = {"rules", "tests"}
  BY <1>2
<1>7. ReadOnlyHolds
  <2> SUFFICES ASSUME NEW p \in {"rules", "tests"}, NEW i \in DOMAIN stacks[p]
               PROVE  stacks[p][i].kind \in {"hub", "rule", "tests"}
    BY <1>6 DEF ReadOnlyHolds
  <2>1. DOMAIN stacks[p] = 1..Len(stacks[p])
    BY <1>2 DEF Pile
  <2> QED
    BY <1>2, <2>1 DEF Viewing
<1>8. DOMAIN found \subseteq Nat \ {0}
  <2>1. Len(draft.rules) \in Nat /\ DOMAIN draft.rules = 1..Len(draft.rules)
    BY <1>1, DocumentIs
  <2>2. CASE found = RuleIds(draft)
    <3>1. DOMAIN found = DOMAIN draft.rules
      BY <2>2 DEF RuleIds
    <3> QED
      BY <2>1, <3>1
  <2>3. CASE found = <<>>
    BY <2>3
  <2> QED
    BY <1>1, <2>2, <2>3
<1>9. Targets
  <2>1. RowsAreCurrent
    BY <1>2, <1>6 DEF RowsAreCurrent, OnScreen, Top, S
  <2>2. MatchesHold
    BY <1>3 DEF MatchesHold
  <2>3. DropHolds
    BY <1>1 DEF DropHolds, NoQuestion
  <2> QED
    BY <1>1, <1>2, <1>8, <2>1, <2>2, <2>3 DEF Targets
<1> QED
  BY <1>4, <1>5, <1>7, <1>9 DEF EditorInv

-------------------------------------------------------------------------------
(* Every step.                                                             *)

Keyed ==
    \/ Esc \/ TupleForm \/ VarForm \/ FilterForm \/ TriggerForm
    \/ AddRule \/ OpenRule \/ AskDeleteRule \/ DeleteRule \/ OpenSection \/ ChooseAction
    \/ TupleList \/ VarList \/ FilterList \/ OpenPaths \/ ChoosePath
    \/ OpenIterForm \/ OpenIterTuples \/ CloseIterHub \/ TypeSource \/ CloseIterForm
    \/ OpenPick \/ PickFromCatalog \/ OpenPasteOrFile \/ ClosePick
    \/ TypePaste \/ AcceptEvent \/ EscPaste \/ DiscardPaste \/ AcceptRecipe \/ EscRecipe
    \/ OpenTest \/ AskDeleteTest \/ DeleteTest
    \/ OpenTestForm \/ SubmitName \/ SubmitExpected \/ DropExpected \/ ToggleCoverage

LEMMA KeyedIs ==
    ASSUME EditorInv, Keyed
    PROVE  \E s : KeyEffect(s)
<1>1. CASE \/ Esc \/ CloseIterHub \/ ChooseAction \/ ChoosePath \/ SubmitName
  BY <1>1, CloseKeysHold, Zenon
<1>2. CASE TupleForm \/ VarForm \/ FilterForm \/ TriggerForm \/ ToggleCoverage
  BY <1>2, TypeKeysHold, Zenon
<1>3. CASE OpenRule \/ AskDeleteRule \/ OpenSection \/ OpenPaths \/ OpenIterForm \/ OpenIterTuples
  BY <1>3, OpenRuleHolds, OpenSectionHolds, OpenWithinHolds, Zenon
<1>4. CASE TupleList \/ VarList \/ FilterList
  BY <1>4, ListKeysHold, Zenon
<1>5. CASE TypeSource \/ CloseIterForm \/ DeleteRule \/ DeleteTest \/ AddRule
  BY <1>5, TypeSourceHolds, CloseIterFormHolds, DeleteRuleHolds, DeleteTestHolds, AddRuleHolds, Zenon
<1>6. CASE OpenPick \/ OpenPasteOrFile \/ EscPaste
  BY <1>6, OpenEventHolds, CloseKeysHold, Zenon
<1>7. CASE PickFromCatalog \/ ClosePick \/ DiscardPaste \/ TypePaste \/ AcceptEvent
  BY <1>7, PickFromCatalogHolds, ClosePickHolds, TypePasteHolds, AcceptEventHolds, Zenon
<1>8. CASE AcceptRecipe \/ EscRecipe \/ SubmitExpected \/ DropExpected
  BY <1>8, AcceptRecipeHolds, EscRecipeHolds, SubmitExpectedHolds, DropExpectedHolds, Zenon
<1>9. CASE OpenTest \/ AskDeleteTest \/ OpenTestForm
  BY <1>9, OpenTestHolds, OpenTestFormHolds, Zenon
<1> QED
  BY <1>1, <1>2, <1>3, <1>4, <1>5, <1>6, <1>7, <1>8, <1>9, Zenon DEF Keyed

LEMMA StepsAre ==
    Step <=> \/ Keyed \/ JumpFromTest \/ JumpFromCheck \/ AnswerDrop
             \/ QuitKey \/ AnswerLeave \/ (\E p \in Panes : ShowPane(p))
             \/ Rechecked \/ Rebuild \/ RebuildBroken \/ AskMatches \/ MatchesArrive
BY Zenon DEF Step, Keyed

LEMMA EditorStepHolds ==
    ASSUME EditorInv, Step, raced' = (raced \/ Races)
    PROVE  EditorInv'
<1>1. CASE Keyed
  <2>1. PICK s : KeyEffect(s)
    BY <1>1, KeyedIs
  <2> QED
    BY <2>1, KeyHolds
<1>2. CASE JumpFromTest \/ JumpFromCheck \/ AnswerDrop
  BY <1>2, JumpFromTestHolds, JumpFromCheckHolds, AnswerDropHolds, Zenon
<1>3. CASE QuitKey \/ AnswerLeave \/ (\E p \in Panes : ShowPane(p))
  BY <1>3, LeaveKeysHold, Zenon
<1>4. CASE Rechecked \/ Rebuild \/ RebuildBroken
  BY <1>4, RecheckedHolds, RebuildHolds, RebuildBrokenHolds, Zenon
<1>5. CASE AskMatches \/ MatchesArrive
  BY <1>5, AskMatchesHolds, MatchesArriveHolds, Zenon
<1> QED
  BY StepsAre, <1>1, <1>2, <1>3, <1>4, <1>5, Zenon

LEMMA EditorRests == EditorInv /\ UNCHANGED editorVars => EditorInv'
<1> SUFFICES ASSUME EditorInv, UNCHANGED editorVars PROVE EditorInv'
  OBVIOUS
<1>1. UNCHANGED <<draft, stacks, found, lagging, showing, asked, readOnly, unparsed, late, left, raced, created, keys>>
  BY DEF editorVars
<1>2. Shapes' /\ FindingsHold' /\ ReadOnlyHolds' /\ (raced' \/ Targets')
  <2>1. Shapes /\ FindingsHold /\ ReadOnlyHolds /\ (raced \/ Targets)
    BY DEF EditorInv
  <2>2. Shapes'
    BY <1>1, <2>1 DEF Shapes
  <2>3. FindingsHold' /\ ReadOnlyHolds'
    BY <1>1, <2>1 DEF FindingsHold, ReadOnlyHolds
  <2>4. ASSUME Targets PROVE Targets'
    <3>1. RowsAreCurrent'
      BY <1>1, <2>4 DEF Targets, RowsAreCurrent, OnScreen, Top, S
    <3>2. DropHolds' /\ MatchesHold'
      BY <1>1, <2>4 DEF Targets, DropHolds, MatchesHold
    <3> QED
      BY <1>1, <2>4, <3>1, <3>2 DEF Targets
  <2> QED
    BY <1>1, <2>1, <2>2, <2>3, <2>4
<1> QED
  BY <1>2 DEF EditorInv

LEMMA TuiEditor == [TuiNext]_<<vars, editorVars>> => [EditorNext]_editorVars
BY DEF TuiNext

(* The editors' invariant holds of the workspace as a whole.               *)
LEMMA EditorHolds == TuiSpec => []EditorInv
<1>1. TuiInit => EditorInv
  BY EditorInitHolds DEF TuiInit
<1>2. EditorInv /\ [TuiNext]_<<vars, editorVars>> => EditorInv'
  <2> SUFFICES ASSUME EditorInv, [EditorNext]_editorVars PROVE EditorInv'
    BY TuiEditor
  <2>1. CASE EditorNext
    BY <2>1, EditorStepHolds DEF EditorNext
  <2>2. CASE UNCHANGED editorVars
    BY <2>2, EditorRests
  <2> QED
    BY <2>1, <2>2
<1> QED
  BY <1>1, <1>2, PTL DEF TuiSpec

LEMMA PositionsAre ==
    ASSUME Shapes, Targets
    PROVE  PositionsHold
<1> SUFFICES ASSUME NEW p \in DOMAIN stacks, NEW i \in DOMAIN stacks[p]
             PROVE  LET f == stacks[p][i] IN
                    /\ f.rule # 0 => f.rule <= Len(draft.rules) /\ draft.rules[f.rule].id = f.rid
                    /\ f.kind = "form" => f.at <= Len(ItemsOf(draft, f)) /\ ItemsOf(draft, f)[f.at] = f.id
                    /\ f.kind \in {"editor", "name", "expect", "deleteTest"} =>
                          f.at <= Len(draft.tests) /\ draft.tests[f.at].id = f.id
  BY DEF PositionsHold
<1> DEFINE f == stacks[p][i]
<1>1. p \in {"rules", "tests"}
  BY DEF Shapes
<1>2. i \in 1..Len(stacks[p]) /\ f.kind \in Kinds(p)
  BY <1>1 DEF Shapes, Pile
<1>3. Fits(f, draft) /\ draft \in Documents
  BY <1>1, <1>2 DEF Targets, AllFit
<1> HIDE DEF f
<1>4. Len(draft.rules) \in Nat /\ Len(draft.tests) \in Nat
  BY <1>3, DocumentIs
<1>5. f.rule # 0 => f.rule <= Len(draft.rules) /\ draft.rules[f.rule].id = f.rid
  <2>1. f.rule # 0 => f.rule \in 1..Len(draft.rules) /\ draft.rules[f.rule].id = f.rid
    BY <1>3 DEF Fits
  <2> QED
    BY <1>4, <2>1
<1>6. f.kind = "form" => f.at <= Len(ItemsOf(draft, f)) /\ ItemsOf(draft, f)[f.at] = f.id
  <2> SUFFICES ASSUME f.kind = "form"
               PROVE  f.at <= Len(ItemsOf(draft, f)) /\ ItemsOf(draft, f)[f.at] = f.id
    OBVIOUS
  <2> DEFINE s == draft.rules[f.rule].lists[f.sec]
  <2>1. ItemsOf(draft, f) = s
    BY DEF ItemsOf
  <2>2. f.at \in 1..Len(s) /\ s[f.at] = f.id /\ f.sec \in Lists /\ f.rule \in 1..Len(draft.rules)
    BY <1>3 DEF Fits, OfRule
  <2>3. Len(s) \in Nat
    <3>1. s \in Seq(Nat)
      BY <1>3, <2>2, RuleTyped
    <3> HIDE DEF s
    <3> QED
      BY <3>1
  <2> HIDE DEF s
  <2> QED
    BY <2>1, <2>2, <2>3
<1>7. f.kind \in {"editor", "name", "expect", "deleteTest"} =>
         f.at <= Len(draft.tests) /\ draft.tests[f.at].id = f.id
  <2>1. f.kind \in OfTest => f.at \in 1..Len(draft.tests) /\ draft.tests[f.at].id = f.id
    BY <1>3 DEF Fits
  <2> QED
    BY <1>4, <2>1 DEF OfTest
<1> QED
  BY <1>5, <1>6, <1>7 DEF f

(* Whatever keys are pressed and in whatever order panes, jumps, reloads and *)
(* the matches of a filter come, an editor works on the rule, item or test  *)
(* it was opened on, and the rows its keys act on are the document's, until *)
(* matches have raced with an edit.  Check points at the rules there are    *)
(* once the debounce is over, and a read-only file has no editor open.      *)
THEOREM EditsAlwaysHitTheirTarget == TuiSpec => []EditsHitTheirTarget
<1>1. EditorInv => EditsHitTheirTarget
  <2> SUFFICES ASSUME EditorInv PROVE EditsHitTheirTarget
    OBVIOUS
  <2>1. Shapes /\ FindingsHold /\ ReadOnlyHolds /\ (raced \/ Targets)
    BY DEF EditorInv
  <2>2. Targets => PositionsHold /\ RowsAreCurrent
    BY <2>1, PositionsAre DEF Targets
  <2> QED
    BY <2>1, <2>2 DEF EditsHitTheirTarget
<1> QED
  BY <1>1, EditorHolds, PTL

-------------------------------------------------------------------------------
(* What was typed.  No step but those of its own pane's keys takes it off a *)
(* pile, unless it was asked about.                                        *)

Dropped(p) == Holds(stacks[p]) /\ ~unparsed /\ (left' \/ ~Holds(stacks'[p]))
Meant(p) ==
    \/ asked.kind \in {"drop", "leave"}
    \/ stacks' = Fresh(draft')
    \/ ~left' /\ showing = p /\ showing' = p
Kept == \A p \in DOMAIN stacks : Dropped(p) => Meant(p)

LEMMA StaysTyped ==
    ASSUME ~left', \A p \in DOMAIN stacks : Holds(stacks[p]) => Holds(stacks'[p])
    PROVE  Kept
BY Zenon DEF Kept, Dropped

LEMMA KeyedKeeps ==
    ASSUME EditorInv, Keyed
    PROVE  Kept
<1>1. PICK s : KeyEffect(s)
  BY KeyedIs
<1>2. /\ showing \in {"rules", "tests"} /\ ~left /\ showing' = showing /\ left' = left
      /\ stacks' = [stacks EXCEPT ![showing] = s]
  BY <1>1 DEF KeyEffect
<1>3. ASSUME NEW p \in DOMAIN stacks, Dropped(p) PROVE Meant(p)
  <2>1. CASE p = showing
    BY <1>2, <2>1 DEF Meant
  <2>2. CASE p # showing
    <3>1. stacks'[p] = stacks[p]
      BY <1>2, <1>3, <2>2
    <3> QED
      BY <1>2, <1>3, <3>1 DEF Dropped
  <2> QED
    BY <2>1, <2>2
<1> QED
  BY <1>3 DEF Kept

LEMMA ResumeKeeps ==
    ASSUME EditorInv, NEW q, ~left', stacks' = Resume(q, stacks)
    PROVE  Kept
<1>1. Follows(stacks) /\ DOMAIN stacks = {"rules", "tests"}
  BY StaysHolds
<1>2. ASSUME NEW p \in DOMAIN stacks, Holds(stacks[p]) PROVE Holds(stacks'[p])
  <2> DEFINE t == Resumed(stacks[p], draft)
  <2>1. Pile(p, stacks[p])
    BY <1>1 DEF Follows
  <2>2. Holds(t)
    BY <1>2, <2>1, ResumedIs
  <2>3. stacks' = IF q \in DOMAIN stacks THEN [stacks EXCEPT ![q] = Resumed(stacks[q], draft)] ELSE stacks
    BY DEF Resume
  <2>4. stacks'[p] = t \/ stacks'[p] = stacks[p]
    BY <2>3
  <2> QED
    BY <1>2, <2>2, <2>4
<1> QED
  BY <1>2, StaysTyped

LEMMA GoToKeeps ==
    ASSUME EditorInv, NEW j, GoTo(j), ~left', ~Holds(stacks["rules"])
    PROVE  Kept
<1> DEFINE page == OnRule("rule", j.rule, j.rid)
           over == IF readOnly \/ j.sec = "" THEN <<>> ELSE <<Synced(SectionEditor(page, j.sec), draft)>>
           t == <<Synced(stacks["rules"][1], draft), page>> \o over
<1>1. stacks' = Resume("rules", stacks) \/ stacks' = [stacks EXCEPT !["rules"] = t]
  BY Zenon DEF GoTo
<1> HIDE DEF t
<1>2. CASE stacks' = [stacks EXCEPT !["rules"] = t]
  <2>1. ASSUME NEW p \in DOMAIN stacks, Holds(stacks[p]) PROVE Holds(stacks'[p])
    <3>1. p # "rules"
      BY <2>1
    <3>2. stacks'[p] = stacks[p]
      BY <1>2, <3>1
    <3> QED
      BY <2>1, <3>2
  <2> QED
    BY <2>1, StaysTyped
<1> QED
  BY <1>1, <1>2, ResumeKeeps

LEMMA JumpKeeps ==
    ASSUME EditorInv, JumpFromTest \/ JumpFromCheck
    PROVE  Kept
<1>1. ~left'
  BY DEF JumpFromTest, JumpFromCheck, Pressed
<1>2. PICK i, rid, sec : Jump(i, rid, sec)
  BY Zenon DEF JumpFromTest, JumpFromCheck
<1> DEFINE j == [kind |-> "drop", rule |-> i, rid |-> rid, sec |-> sec]
<1>3. (stacks' = stacks) \/ (GoTo(j) /\ ~Holds(stacks["rules"]))
  BY <1>2 DEF Jump
<1> HIDE DEF j
<1>4. CASE stacks' = stacks
  BY <1>1, <1>4, StaysTyped
<1> QED
  BY <1>1, <1>3, <1>4, GoToKeeps

LEMMA QuitKeeps ==
    ASSUME QuitKey
    PROVE  Kept
<1>1. stacks' = stacks /\ ~left
  BY DEF QuitKey, Pressed
<1>2. CASE ~unparsed /\ \E p \in DOMAIN stacks : Holds(stacks[p])
  <2>1. left' = left
    BY <1>2, Zenon DEF QuitKey
  <2> QED
    BY <1>1, <2>1, StaysTyped
<1>3. CASE ~(~unparsed /\ \E p \in DOMAIN stacks : Holds(stacks[p]))
  BY <1>3, Zenon DEF Kept, Dropped
<1> QED
  BY <1>2, <1>3

LEMMA MatchesKeep ==
    ASSUME EditorInv, MatchesArrive
    PROVE  Kept
<1> DEFINE q == late.pane
           s == stacks[q]
           x == late.rows
           t == Refilled(s, x)
<1>1. /\ late.live /\ ~left'
      /\ stacks' = IF Last(s).kind \in Listing THEN [stacks EXCEPT ![q] = t] ELSE stacks
  BY DEF MatchesArrive, Last, Refilled
<1>2. q \in {"rules", "tests"} /\ Follows(stacks)
  BY <1>1, StaysHolds
<1> HIDE DEF q
<1>3. Pile(q, s)
  BY <1>2 DEF Follows
<1>4. Holds(s) => Holds(t)
  <2> HIDE DEF s, x
  <2> QED
    BY <1>3, RefilledIs
<1> HIDE DEF t
<1>5. ASSUME NEW p \in DOMAIN stacks, Holds(stacks[p]) PROVE Holds(stacks'[p])
  <2>1. stacks'[p] = stacks[p] \/ (p = q /\ stacks'[p] = t)
    BY <1>1
  <2> QED
    BY <1>4, <1>5, <2>1
<1> QED
  BY <1>1, <1>5, StaysTyped

LEMMA StepKeeps ==
    ASSUME EditorInv, Step
    PROVE  Kept
<1>1. CASE Keyed
  BY <1>1, KeyedKeeps
<1>2. CASE JumpFromTest \/ JumpFromCheck
  BY <1>2, JumpKeeps
<1>3. CASE AnswerDrop \/ AnswerLeave
  BY <1>3, Zenon DEF AnswerDrop, AnswerLeave, Kept, Meant
<1>4. CASE QuitKey
  BY <1>4, QuitKeeps
<1>5. CASE \E p \in Panes : ShowPane(p)
  <2>1. PICK q \in Panes : ShowPane(q)
    BY <1>5
  <2>2. ~left' /\ stacks' = Resume(q, stacks)
    BY <2>1 DEF ShowPane, SwitchTo, Pressed
  <2> QED
    BY <2>2, ResumeKeeps
<1>6. CASE Rebuild
  <2>1. stacks' = Fresh(draft')
    BY <1>6, Zenon DEF Rebuild
  <2> QED
    BY <2>1, Zenon DEF Kept, Meant
<1>7. CASE Rechecked \/ RebuildBroken \/ AskMatches
  <2>1. stacks' = stacks /\ ~left'
    BY <1>7 DEF Rechecked, RebuildBroken, AskMatches, Key, Pressed
  <2> QED
    BY <2>1, StaysTyped
<1>8. CASE MatchesArrive
  BY <1>8, MatchesKeep
<1> QED
  BY StepsAre, <1>1, <1>2, <1>3, <1>4, <1>5, <1>6, <1>7, <1>8, Zenon

(* No step drops a rule being added or a text pasted, by quitting or by     *)
(* jumping from another pane, unless it answers a question about it.        *)
THEOREM WhatIsTypedIsKept == TuiSpec => TypedIsKept
<1>1. EditorInv /\ [TuiNext]_<<vars, editorVars>>
        => [\A p \in DOMAIN stacks :
              (Holds(stacks[p]) /\ ~unparsed /\ (left' \/ ~Holds(stacks'[p]))) =>
                 \/ asked.kind \in {"drop", "leave"}
                 \/ stacks' = Fresh(draft')
                 \/ ~left' /\ showing = p /\ showing' = p]_editorVars
  <2> SUFFICES ASSUME EditorInv, EditorNext
               PROVE  \A p \in DOMAIN stacks :
                        (Holds(stacks[p]) /\ ~unparsed /\ (left' \/ ~Holds(stacks'[p]))) =>
                           \/ asked.kind \in {"drop", "leave"}
                           \/ stacks' = Fresh(draft')
                           \/ ~left' /\ showing = p /\ showing' = p
    BY TuiEditor, Zenon
  <2>1. Kept
    BY StepKeeps DEF EditorNext
  <2> QED
    BY <2>1, Zenon DEF Kept, Dropped, Meant
<1> QED
  BY <1>1, EditorHolds, PTL DEF TuiSpec, TypedIsKept
===============================================================================
