---------------------------- MODULE SalesMartProofs ----------------------------
(***************************************************************************)
(* Theorems about SalesMart, for any set of lines, lookback and bound, and *)
(* about ProductVersions, whose dim_product fact_sales joins, for any      *)
(* products, attributes and bounds.                                        *)
(***************************************************************************)
EXTENDS SalesMart, ProductVersions, TLAPS, WellFoundedInduction

(* What holds of a fact and rollup pair, live or pending: the rollup never *)
(* has a day the fact lacks, and a day with a sale agrees.                 *)
Agrees(f, r) == \A d \in Day :
  /\ Sold(f[d]) # {} => r[d] = Sold(f[d])
  /\ r[d] # {} => f[d] # NoLines

(* Where the live and the pending fact stand with respect to the files.    *)
FileInv ==
  /\ \A d \in Day \ registered : fact[d] = NoLines
  /\ \A d \in Day \ changed : fact[d] = file[d]

PendingInv ==
  stage = "built" =>
    /\ Agrees(pending.fact, pending.rollup)
    /\ covered \subseteq registered
    /\ \A d \in covered : pending.fact[d] = file[d]
    /\ \A d \in Day \ (covered \cup changed) : pending.fact[d] = fact[d]
    /\ \A d \in Day \ registered : pending.fact[d] = NoLines

(* What a run's fact build does for the days that wait to be loaded.       *)
LoadInv ==
  stage = "built" =>
    /\ restate = {} => \A d \in Day : Waiting(d) => pending.fact[d] # NoLines
    /\ \A d \in Day : fact[d] # NoLines => pending.fact[d] # NoLines
    /\ restate # {} =>
         \A d \in Day : pending.fact[d] # NoLines /\ fact[d] = NoLines => d \in restate

IInv == TypeOK /\ Agrees(fact, rollup) /\ FileInv /\ PendingInv

LEMMA DayFacts == NoLines \in File /\ Generated \in File /\ Sold(NoLines) = {}
BY DEF NoLines, Generated, File, Sold

(* A table keeps its type when days of it are replaced.                    *)
LEMMA ReplacedType ==
  ASSUME NEW S, NEW table \in [Day -> S], NEW query \in [Day -> S],
         NEW window, NEW empty
  PROVE  Replaced(table, window, query, empty) \in [Day -> S]
BY DEF Replaced

LEMMA BuildType ==
  ASSUME TypeOK
  PROVE  /\ PendingFact \in [Day -> File]
         /\ Replaced(rollup, RollupWindow, [d \in Day |-> Sold(PendingFact[d])], {})
              \in [Day -> SUBSET Line]
<1>1. [d \in Day |-> Visible(d)] \in [Day -> File]
  BY DayFacts DEF TypeOK, Visible
<1>2. PendingFact \in [Day -> File]
  BY <1>1, ReplacedType DEF TypeOK, PendingFact
<1>3. [d \in Day |-> Sold(PendingFact[d])] \in [Day -> SUBSET Line]
  BY DEF Sold
<1> QED
  BY <1>2, <1>3, ReplacedType DEF TypeOK

(* The type invariant is inductive. *)
LEMMA TypeStep == TypeOK /\ [Next]_vars => TypeOK'
<1> SUFFICES ASSUME TypeOK, [Next]_vars PROVE TypeOK'
  OBVIOUS
<1>1. ASSUME NEW d \in Day, NEW lines \in File, Correct(d, lines) PROVE TypeOK'
  BY <1>1 DEF TypeOK, Correct, live
<1>2. ASSUME NEW d \in Day, StartDaily(d) PROVE TypeOK'
  BY <1>2, DayFacts DEF TypeOK, StartDaily, live
<1>3. ASSUME NEW from \in Day, NEW to \in Day, StartRestate(from, to) PROVE TypeOK'
  <2>1. from..to \subseteq Day
    BY SalesAssumption DEF Day
  <2> QED
    BY <1>3, <2>1 DEF TypeOK, StartRestate, feeds, live
<1>4. CASE Register
  BY <1>4 DEF TypeOK, Register, live
<1>5. CASE Build
  <2>1. pending' \in [fact : [Day -> File], rollup : [Day -> SUBSET Line]]
    BY <1>5, BuildType DEF Build
  <2>2. covered' \subseteq Day
    BY <1>5 DEF Build, FactWindow, Lookback, TypeOK
  <2> QED
    BY <1>5, <2>1, <2>2 DEF TypeOK, Build, feeds, live
<1>6. CASE Publish
  <2>1. 0 \in Day
    BY SalesAssumption DEF Day
  <2> QED
    BY <1>6, <2>1 DEF TypeOK, Publish, RunEnds, feeds
<1>7. CASE RunFails
  <2>1. 0 \in Day
    BY SalesAssumption DEF Day
  <2> QED
    BY <1>7, <2>1 DEF TypeOK, RunFails, RunEnds, feeds, live
<1>8. CASE UNCHANGED vars
  BY <1>8 DEF TypeOK, vars
<1> QED
  BY <1>1, <1>2, <1>3, <1>5, <1>6, <1>7, <1>8, <1>4 DEF Next

(* A day the fact build replaced lies in the window of the rollup build:   *)
(* the last day of the rollup is never later than that of the fact.        *)
LEMMA RollupCoversFact ==
  ASSUME TypeOK, Agrees(fact, rollup)
  PROVE  FactWindow \subseteq RollupWindow
BY DEF FactWindow, RollupWindow, Lookback, LoadedDays, Agrees

LEMMA BuildAgrees ==
  ASSUME TypeOK, Agrees(fact, rollup)
  PROVE  Agrees(PendingFact,
                Replaced(rollup, RollupWindow, [d \in Day |-> Sold(PendingFact[d])], {}))
<1> DEFINE R == Replaced(rollup, RollupWindow, [d \in Day |-> Sold(PendingFact[d])], {})
<1> SUFFICES ASSUME NEW d \in Day
             PROVE  /\ Sold(PendingFact[d]) # {} => R[d] = Sold(PendingFact[d])
                    /\ R[d] # {} => PendingFact[d] # NoLines
  BY DEF Agrees
<1>1. R[d] = IF d \in RollupWindow /\ Sold(PendingFact[d]) # {}
             THEN Sold(PendingFact[d]) ELSE rollup[d]
  BY DEF Replaced
<1>2. PendingFact[d] = IF d \in FactWindow /\ Visible(d) # NoLines
                       THEN Visible(d) ELSE fact[d]
  BY DEF PendingFact, Replaced
<1>3. Sold(NoLines) = {}
  BY DayFacts
<1>4. /\ Sold(fact[d]) # {} => rollup[d] = Sold(fact[d])
      /\ rollup[d] # {} => fact[d] # NoLines
  BY DEF Agrees
<1>5. CASE d \in RollupWindow
  BY <1>1, <1>2, <1>3, <1>4, <1>5
<1>6. CASE d \notin RollupWindow
  <2>1. d \notin FactWindow
    BY <1>6, RollupCoversFact
  <2> QED
    BY <1>1, <1>2, <1>4, <1>6, <2>1
<1> QED
  BY <1>5, <1>6

LEMMA InvInit == Init => IInv
<1> SUFFICES ASSUME Init PROVE IInv
  OBVIOUS
<1>1. TypeOK
  <2>1. 0 \in Day
    BY SalesAssumption DEF Day
  <2> QED
    BY <2>1, DayFacts DEF Init, TypeOK
<1>2. Agrees(fact, rollup)
  BY DayFacts DEF Init, Agrees
<1>3. FileInv /\ PendingInv
  BY DEF Init, FileInv, PendingInv
<1> QED
  BY <1>1, <1>2, <1>3 DEF IInv

LEMMA InvStep == IInv /\ [Next]_vars => IInv'
<1> SUFFICES ASSUME IInv, [Next]_vars PROVE (Agrees(fact, rollup) /\ FileInv /\ PendingInv)'
  BY TypeStep DEF IInv
<1> USE DEF IInv
<1>1. ASSUME NEW d \in Day, NEW lines \in File, Correct(d, lines)
      PROVE  (Agrees(fact, rollup) /\ FileInv /\ PendingInv)'
  <2>1. /\ fact' = fact /\ rollup' = rollup /\ registered' = registered
        /\ pending' = pending /\ stage' = stage
        /\ changed' = changed \cup {d} /\ covered' = covered \ {d}
        /\ file' = [file EXCEPT ![d] = lines]
    BY <1>1 DEF Correct, live
  <2>3. \A e \in Day : e # d => file'[e] = file[e]
    BY <2>1 DEF TypeOK
  <2>4. Agrees(fact, rollup)'
    BY <2>1 DEF Agrees
  <2>5. FileInv'
    BY <2>1, <2>3 DEF FileInv, TypeOK
  <2>6. PendingInv'
    BY <2>1, <2>3 DEF PendingInv, TypeOK, Agrees
  <2> QED
    BY <2>4, <2>5, <2>6
<1>2. ASSUME NEW d \in Day, StartDaily(d)
      PROVE  (Agrees(fact, rollup) /\ FileInv /\ PendingInv)'
  <2>1. /\ fact' = fact /\ rollup' = rollup /\ registered' = registered
        /\ file' = [file EXCEPT ![d] = Generated] /\ stage' = "started"
        /\ changed' = IF file[d] = Generated THEN changed ELSE changed \cup {d}
    BY <1>2 DEF StartDaily, live
  <2>2. \A e \in Day : e # d => file'[e] = file[e]
    BY <2>1 DEF TypeOK
  <2>3. FileInv'
    <3>1. CASE file[d] = Generated
      <4>1. file' = file
        BY <2>1, <3>1 DEF TypeOK
      <4> QED
        BY <2>1, <3>1, <4>1 DEF FileInv
    <3>2. CASE file[d] # Generated
      BY <2>1, <2>2, <3>2 DEF FileInv, TypeOK
    <3> QED
      BY <3>1, <3>2
  <2> QED
    BY <2>1, <2>3 DEF Agrees, PendingInv
<1>3. ASSUME NEW from \in Day, NEW to \in Day, StartRestate(from, to)
      PROVE  (Agrees(fact, rollup) /\ FileInv /\ PendingInv)'
  BY <1>3 DEF StartRestate, feeds, live, Agrees, FileInv, PendingInv
<1>4. CASE Register
  BY <1>4 DEF Register, live, Agrees, FileInv, PendingInv
<1>5. CASE Build
  <2>1. /\ fact' = fact /\ rollup' = rollup /\ registered' = registered
        /\ file' = file /\ changed' = changed /\ stage' = "built"
        /\ covered' = {d \in FactWindow : Visible(d) # NoLines}
        /\ pending'.fact = PendingFact
        /\ pending'.rollup = Replaced(rollup, RollupWindow, [d \in Day |-> Sold(PendingFact[d])], {})
    BY <1>5 DEF Build, feeds, live
  <2>2. Agrees(pending'.fact, pending'.rollup)
    BY <2>1, BuildAgrees
  <2>3. \A d \in Day : PendingFact[d] = IF d \in FactWindow /\ Visible(d) # NoLines
                                        THEN Visible(d) ELSE fact[d]
    BY DEF PendingFact, Replaced
  <2>4. FactWindow \subseteq Day
    BY DEF FactWindow, Lookback, TypeOK
  <2>5. \A d \in covered' : d \in registered /\ PendingFact[d] = file[d]
    BY <2>1, <2>3, <2>4 DEF Visible
  <2>6. \A d \in Day \ (covered' \cup changed') : PendingFact[d] = fact[d]
    BY <2>1, <2>3
  <2>7. \A d \in Day \ registered : PendingFact[d] = NoLines
    BY <2>3 DEF FileInv, Visible
  <2>8. PendingInv'
    BY <2>1, <2>2, <2>5, <2>6, <2>7 DEF PendingInv, Agrees
  <2> QED
    BY <2>1, <2>8 DEF Agrees, FileInv
<1>6. CASE Publish
  <2>1. /\ stage = "built" /\ stage' = "idle"
        /\ fact' = pending.fact /\ rollup' = pending.rollup
        /\ file' = file /\ registered' = registered
        /\ changed' = changed \ covered
    BY <1>6 DEF Publish, RunEnds, feeds
  <2>2. Agrees(fact, rollup)'
    BY <2>1 DEF PendingInv, Agrees
  <2>3. FileInv'
    BY <2>1 DEF PendingInv, FileInv, TypeOK
  <2> QED
    BY <2>1, <2>2, <2>3 DEF PendingInv
<1>7. CASE RunFails
  BY <1>7 DEF RunFails, RunEnds, feeds, live, Agrees, FileInv, PendingInv
<1>8. CASE UNCHANGED vars
  BY <1>8 DEF vars, Agrees, FileInv, PendingInv
<1> QED
  BY <1>1, <1>2, <1>3, <1>5, <1>6, <1>7, <1>8, <1>4 DEF Next

LEMMA Invariant == Spec => []IInv
BY InvInit, InvStep, PTL DEF Spec

(* The tables, the files and the run keep their types. *)
THEOREM SalesTypeCorrect == Spec => []TypeOK
<1>1. IInv => TypeOK
  BY DEF IInv
<1> QED
  BY <1>1, Invariant, PTL

(* Whatever the lookback and the anchors of the two models, through failed *)
(* runs, restatements and corrections, the live rollup of a day with a     *)
(* sale is the rollup of the live fact.                                    *)
THEOREM RollupTracksFact == Spec => []RollupFollowsFact
<1>1. IInv => RollupFollowsFact
  BY DEF IInv, Agrees, RollupFollowsFact
<1> QED
  BY <1>1, Invariant, PTL

(* A published day holds exactly the lines of its file, unless the file    *)
(* changed after the last published build that covered it.                 *)
THEOREM FactMatchesFiles == Spec => []LoadedLinesMatchFiles
<1>1. IInv => LoadedLinesMatchFiles
  BY DEF IInv, FileInv, LoadedLinesMatchFiles
<1> QED
  BY <1>1, Invariant, PTL

-------------------------------------------------------------------------------
(* No day is forgotten                                                     *)

LEMMA LoadInit == Init => LoadInv
BY DEF Init, LoadInv

LEMMA LoadStep == IInv /\ LoadInv /\ [Next]_vars => LoadInv'
<1> SUFFICES ASSUME IInv, LoadInv, [Next]_vars, stage' = "built" PROVE LoadInv'
  BY DEF LoadInv
<1>1. ASSUME NEW d \in Day, NEW lines \in File, Correct(d, lines) PROVE LoadInv'
  <2>1. /\ fact' = fact /\ registered' = registered /\ restate' = restate
        /\ pending' = pending /\ stage' = stage
        /\ file' = [file EXCEPT ![d] = lines] /\ Lines(file[d]) # {}
    BY <1>1 DEF Correct, live
  <2>2. \A e \in Day : Lines(file'[e]) # {} => Lines(file[e]) # {}
    BY <2>1 DEF IInv, TypeOK
  <2>3. \A e \in Day : Waiting(e)' => Waiting(e)
    BY <2>1, <2>2 DEF Waiting, Lookback, LoadedDays
  <2> QED
    BY <2>1, <2>3 DEF LoadInv
<1>2. CASE Build
  <2>1. /\ fact' = fact /\ registered' = registered /\ file' = file /\ restate' = restate
        /\ pending'.fact = PendingFact
    BY <1>2 DEF Build, feeds, live
  <2>2. \A d \in Day : PendingFact[d] = IF d \in FactWindow /\ Visible(d) # NoLines
                                        THEN Visible(d) ELSE fact[d]
    BY DEF PendingFact, Replaced
  <2>3. \A d \in Day : Waiting(d)' => Waiting(d)
    BY <2>1 DEF Waiting, Lookback, LoadedDays
  <2>4. Lines(NoLines) = {}
    BY DEF Lines, NoLines
  <2>5. ASSUME restate = {}, NEW d \in Day, Waiting(d) PROVE PendingFact[d] # NoLines
    BY <2>2, <2>4, <2>5 DEF Waiting, FactWindow, Visible
  <2>6. \A d \in Day : fact[d] # NoLines => PendingFact[d] # NoLines
    BY <2>2
  <2>7. ASSUME restate # {}, NEW d \in Day, PendingFact[d] # NoLines, fact[d] = NoLines
        PROVE  d \in restate
    BY <2>2, <2>7 DEF FactWindow
  <2> QED
    BY <2>1, <2>3, <2>5, <2>6, <2>7 DEF LoadInv
<1>3. CASE UNCHANGED vars
  BY <1>3 DEF vars, LoadInv, Waiting, Lookback, LoadedDays
<1>4. ASSUME Next, ~Build, ~\E d \in Day, lines \in File : Correct(d, lines) PROVE FALSE
  BY <1>4 DEF Next, StartDaily, StartRestate, Register, Publish, RunFails, RunEnds
<1> QED
  BY <1>1, <1>2, <1>3, <1>4

LEMMA PublishCatchesUp ==
  ASSUME IInv, LoadInv, Publish, NEW d \in Day, Waiting(d), fact'[d] = NoLines,
         \A r \in restate : \E e \in LoadedDays(fact, NoLines) : r <= e
  PROVE  restate # {} /\ Waiting(d)'
<1>1. /\ stage = "built" /\ fact' = pending.fact
      /\ registered' = registered /\ file' = file
  BY DEF Publish, RunEnds, feeds
<1>2. restate # {}
  BY <1>1 DEF LoadInv
<1>3. ASSUME NEW l \in LoadedDays(fact', NoLines) PROVE l <= d + Window
  <2>1. CASE fact[l] # NoLines
    BY <1>3, <2>1 DEF Waiting, Lookback, LoadedDays
  <2>2. CASE fact[l] = NoLines
    <3>1. l \in restate
      BY <1>1, <1>2, <1>3, <2>2 DEF LoadInv, LoadedDays
    <3>2. PICK e \in LoadedDays(fact, NoLines) : l <= e
      BY <3>1
    <3>3. e <= d + Window
      BY DEF Waiting, Lookback
    <3> QED
      BY <1>3, <3>2, <3>3, SalesAssumption DEF LoadedDays, Day
  <2> QED
    BY <2>1, <2>2
<1>4. d \in Lookback(LoadedDays(fact', NoLines))
  BY <1>3 DEF Lookback
<1> QED
  BY <1>1, <1>2, <1>4 DEF Waiting, Lookback, LoadedDays

(* However many runs fail and whatever ranges are restated, a delivered    *)
(* day that the lookback reaches is loaded by the next daily run, and      *)
(* leaves its reach unloaded only when a restatement jumps ahead.          *)
THEOREM NoDayForgotten == Spec => OutageCaughtUp
<1> DEFINE Kept(d) ==
       \/ fact'[d] # NoLines
       \/ Waiting(d)' /\ ~(Publish /\ restate = {})
       \/ Publish /\ \E r \in restate : \A e \in LoadedDays(fact, NoLines) : e < r
<1>1. IInv /\ LoadInv /\ [Next]_vars => [\A d \in Day : Waiting(d) => Kept(d)]_vars
  <2> SUFFICES ASSUME IInv, LoadInv, Next, NEW d \in Day, Waiting(d), fact'[d] = NoLines
               PROVE  Kept(d)
    BY DEF Kept
  <2>1. CASE Publish
    <3>1. CASE \A r \in restate : \E e \in LoadedDays(fact, NoLines) : r <= e
      BY <2>1, <3>1, PublishCatchesUp
    <3>2. CASE ~\A r \in restate : \E e \in LoadedDays(fact, NoLines) : r <= e
      <4>1. PICK r \in restate : \A e \in LoadedDays(fact, NoLines) : ~(r <= e)
        BY <3>2
      <4>2. \A e \in LoadedDays(fact, NoLines) : e < r
        BY <4>1, SalesAssumption DEF LoadedDays, Day, IInv, TypeOK
      <4> QED
        BY <2>1, <4>2
    <3> QED
      BY <3>1, <3>2
  <2>2. CASE ~Publish
    <3>1. fact' = fact /\ registered \subseteq registered'
      BY <2>2 DEF Next, Correct, StartDaily, StartRestate, Register, Build, RunFails, RunEnds,
                  feeds, live
    <3>2. Lines(file'[d]) # {}
      <4>1. Lines(Generated) # {}
        BY SalesAssumption DEF Lines, Generated
      <4> QED
        BY <2>2, <4>1 DEF Next, Correct, StartDaily, StartRestate, Register, Build, RunFails,
                  RunEnds, feeds, Waiting, IInv, TypeOK
    <3> QED
      BY <2>2, <3>1, <3>2 DEF Waiting, Lookback, LoadedDays
  <2> QED
    BY <2>1, <2>2
<1> QED
  BY InvInit, InvStep, LoadInit, LoadStep, <1>1, PTL DEF Spec, OutageCaughtUp

-------------------------------------------------------------------------------
(* ProductVersions                                                         *)

ProductsInv == ProductsTypeOK /\ VersionsTile

(* Every nonempty set of days has a first and a last day. *)
LEMMA DayBounds ==
  ASSUME NEW D \in SUBSET ActivityDay, D # {}
  PROVE  /\ \E d \in D : \A e \in D : d <= e
         /\ \E d \in D : \A e \in D : e <= d
<1>1. ASSUME NEW T \in SUBSET Nat, T # {} PROVE \E x \in T : \A y \in T : ~(y < x)
  <2> DEFINE R == {ss \in Nat \X Nat : ss[1] < ss[2]}
  <2>1. IsWellFoundedOn(R, Nat)
    BY NatLessThanWellFounded DEF OpToRel
  <2>2. \E x \in T : \A y \in T : ~(<<y, x>> \in R)
    <3> HIDE DEF R
    <3> QED
      BY <1>1, <2>1, WFMin
  <2> QED
    BY <2>2
<1>2. D \subseteq Nat
  BY ProductAssumption DEF ActivityDay
<1>3. \E d \in D : \A e \in D : d <= e
  BY <1>1, <1>2
<1>4. \E d \in D : \A e \in D : e <= d
  <2> DEFINE T == {LastDay - d : d \in D}
  <2>1. T \in SUBSET Nat /\ T # {}
    <3>1. \A d \in D : LastDay - d \in Nat
      BY ProductAssumption DEF ActivityDay
    <3> QED
      BY <3>1
  <2>2. PICK x \in T : \A y \in T : ~(y < x)
    BY <2>1, <1>1
  <2>3. PICK d \in D : x = LastDay - d
    BY <2>2
  <2>4. \A e \in D : ~(LastDay - e < LastDay - d)
    BY <2>2, <2>3
  <2>5. \A e \in D : e <= d
    BY <2>4, <1>2, ProductAssumption
  <2> QED
    BY <2>5
<1> QED
  BY <1>3, <1>4

LEMMA SeenDays ==
  ASSUME ProductsTypeOK, NEW p \in Product, activity[p] # {}
  PROVE  FirstSeen(p) \in ActivityDay /\ LastSeen(p) \in ActivityDay
<1>1. activity[p] \in SUBSET ActivityDay
  BY DEF ProductsTypeOK
<1> QED
  BY <1>1, DayBounds DEF FirstSeen, LastSeen

(* The start of a new version is later than that of the one it replaces.   *)
LEMMA NewFromLater ==
  ASSUME ProductsTypeOK, NEW p \in Product, NEW e \in Changed(p)
  PROVE  e \in Version /\ NewFrom(p, e) \in Nat /\ NewFrom(p, e) > e.from
<1>1. activity[p] # {} /\ e \in versions[p]
  BY DEF Changed, Current
<1>2. e \in Version
  BY <1>1 DEF ProductsTypeOK
<1>3. LastSeen(p) \in Nat
  BY <1>1, SeenDays, ProductAssumption DEF ActivityDay
<1> QED
  BY <1>2, <1>3 DEF NewFrom, Version

RunOf(p) == ClosedVersions(p) \cup UnchangedHistory(p) \cup NewAndUpdatedCurrent(p)

LEMMA RunType ==
  ASSUME ProductsTypeOK, NEW p \in Product
  PROVE  RunOf(p) \in SUBSET Version
<1>1. versions[p] \in SUBSET Version /\ master[p] \in Attrs
  BY DEF ProductsTypeOK
<1>2. ClosedVersions(p) \in SUBSET Version
  <2>1. ASSUME NEW e \in Changed(p) PROVE Closed(e, NewFrom(p, e)) \in Version
    BY NewFromLater DEF Closed, Version
  <2> QED
    BY <2>1 DEF ClosedVersions
<1>3. UnchangedHistory(p) \in SUBSET Version
  BY <1>1 DEF UnchangedHistory
<1>4. ASSUME NEW n \in Nat PROVE Opened(p, n) \in Version
  BY <1>1 DEF Opened, Version
<1>5. NewAndUpdatedCurrent(p) \in SUBSET Version
  <2>1. activity[p] # {} => FirstSeen(p) \in Nat
    BY SeenDays, ProductAssumption DEF ActivityDay
  <2> QED
    BY <1>4, <2>1, NewFromLater DEF NewAndUpdatedCurrent
<1> QED
  BY <1>2, <1>3, <1>5 DEF RunOf

(* A product with a history has exactly one current version. *)
LEMMA OneCurrent ==
  ASSUME NEW p \in Product, Tiles(versions[p]), versions[p] # {}
  PROVE  \E c \in versions[p] : Current(p) = {c} /\ c.to = NoEnd
                                /\ \A v \in versions[p] \ {c} : v.from < c.from
BY DEF Tiles, Current

(* A run maps a tiling of the time line to a tiling of the time line.      *)
LEMMA RunTiles ==
  ASSUME ProductsTypeOK, NEW p \in Product, Tiles(versions[p])
  PROVE  Tiles(RunOf(p))
<1> USE DEF NoEnd
<1>1. CASE versions[p] = {}
  <2>1. RunOf(p) = IF activity[p] # {} THEN {Opened(p, FirstSeen(p))} ELSE {}
    BY <1>1 DEF RunOf, ClosedVersions, UnchangedHistory, NewAndUpdatedCurrent, Changed, Current
  <2> DEFINE n == Opened(p, FirstSeen(p))
  <2>2. n.current /\ n.to = NoEnd
    BY DEF Opened
  <2>3. Tiles({n})
    BY <2>2 DEF Tiles
  <2>4. Tiles({})
    BY DEF Tiles
  <2> QED
    BY <2>1, <2>3, <2>4
<1>2. CASE versions[p] # {}
  <2>1. PICK c \in versions[p] : /\ Current(p) = {c} /\ c.to = NoEnd
                                 /\ \A v \in versions[p] \ {c} : v.from < c.from
    BY <1>2, OneCurrent
  <2>2. CASE Changed(p) = {}
    <3>1. RunOf(p) = versions[p]
      BY <2>1, <2>2 DEF RunOf, ClosedVersions, UnchangedHistory, NewAndUpdatedCurrent
    <3> QED
      BY <3>1
  <2>3. CASE Changed(p) # {}
    <3> DEFINE n == Opened(p, NewFrom(p, c))
               k == Closed(c, NewFrom(p, c))
               rest == versions[p] \ {c}
    <3>1. Changed(p) = {c}
      BY <2>1, <2>3 DEF Changed
    <3>2. RunOf(p) = {k} \cup rest \cup {n}
      BY <2>1, <3>1 DEF RunOf, ClosedVersions, UnchangedHistory, NewAndUpdatedCurrent
    <3>3. c \in Version /\ NewFrom(p, c) \in Nat /\ NewFrom(p, c) > c.from
      BY <3>1, NewFromLater
    <3>4. /\ k.from = c.from /\ k.to = NewFrom(p, c) /\ k.current = FALSE
          /\ n.from = NewFrom(p, c) /\ n.to = NoEnd /\ n.current = TRUE
      BY <3>3 DEF Opened, Closed, Version
    <3>5. \A v \in rest : v \in Version /\ ~v.current /\ v.from < c.from
      BY <2>1 DEF ProductsTypeOK, Current
    <3>6. ASSUME NEW v \in rest
          PROVE  /\ v.from \in Nat /\ v.to \in Int /\ v.from < v.to /\ v.to <= c.from
                 /\ \E w \in RunOf(p) : w.from = v.to
      <4>1. v.from \in Nat /\ v.to \in Int
        BY <3>5 DEF Version
      <4>2. v.from < v.to /\ v.to <= c.from /\ \E w \in versions[p] : w.from = v.to
        BY <3>5, <2>1, <1>2 DEF Tiles
      <4> QED
        BY <4>1, <4>2, <3>2, <3>4
    <3>7. \E t \in RunOf(p) : /\ t.current /\ t.to = NoEnd
                              /\ \A v \in RunOf(p) \ {t} : ~v.current /\ v.from < t.from
      <4>1. \A v \in rest : v.from < NewFrom(p, c)
        BY <3>5, <3>6, <3>3 DEF Version
      <4> QED
        BY <4>1, <3>2, <3>3, <3>4, <3>5
    <3>8. \A v \in RunOf(p) : ~v.current => /\ v.from < v.to
                                            /\ \E w \in RunOf(p) : w.from = v.to
      BY <3>2, <3>3, <3>4, <3>6
    <3>9. ASSUME NEW v \in RunOf(p), NEW w \in RunOf(p), v # w
          PROVE  /\ v.from # w.from
                 /\ ~v.current /\ v.from < w.from => v.to <= w.from
      <4>1. CASE v \in rest /\ w \in rest
        BY <4>1, <1>2, <3>9 DEF Tiles
      <4>2. CASE v \in rest /\ w \in {k, n}
        BY <4>2, <3>3, <3>4, <3>5, <3>6 DEF Version
      <4>3. CASE v \in {k, n} /\ w \in rest
        BY <4>3, <3>3, <3>4, <3>5, <3>6 DEF Version
      <4>4. CASE v \in {k, n} /\ w \in {k, n}
        BY <4>4, <3>9, <3>3, <3>4 DEF Version
      <4> QED
        BY <4>1, <4>2, <4>3, <4>4, <3>2
    <3> QED
      BY <3>7, <3>8, <3>9 DEF Tiles
  <2> QED
    BY <2>2, <2>3
<1> QED
  BY <1>1, <1>2

LEMMA ProductsInvInit == ProductsInit => ProductsInv
BY ProductAssumption DEF ProductsInit, ProductsInv, ProductsTypeOK, VersionsTile, Tiles, ActivityDay

LEMMA ProductsInvStep == ProductsInv /\ [ProductsNext]_productVars => ProductsInv'
<1> SUFFICES ASSUME ProductsInv, [ProductsNext]_productVars PROVE ProductsInv'
  OBVIOUS
<1> USE DEF ProductsInv
<1>1. CASE NextDay
  BY <1>1, ProductAssumption DEF NextDay, ProductsTypeOK, VersionsTile, ActivityDay
<1>2. ASSUME NEW p \in Product, NEW a \in Attrs, ChangeMaster(p, a) PROVE ProductsInv'
  BY <1>2 DEF ChangeMaster, ProductsTypeOK, VersionsTile
<1>3. ASSUME NEW p \in Product, NEW d \in ActivityDay, See(p, d) \/ Unsee(p, d) PROVE ProductsInv'
  BY <1>3 DEF See, Unsee, ProductsTypeOK, VersionsTile
<1>4. CASE CatalogRun
  <2>1. versions' = [p \in Product |-> RunOf(p)]
    BY <1>4 DEF CatalogRun, RunOf
  <2>2. ProductsTypeOK'
    BY <1>4, <2>1, RunType DEF CatalogRun, ProductsTypeOK
  <2>3. VersionsTile'
    BY <2>1, RunTiles DEF VersionsTile
  <2> QED
    BY <2>2, <2>3
<1>5. CASE UNCHANGED productVars
  BY <1>5 DEF productVars, ProductsTypeOK, VersionsTile
<1> QED
  BY <1>1, <1>2, <1>3, <1>4, <1>5 DEF ProductsNext

LEMMA ProductsInvariant == ProductsSpec => []ProductsInv
BY ProductsInvInit, ProductsInvStep, PTL DEF ProductsSpec

(* The history, the feeds and the clock keep their types. *)
THEOREM VersionsTypeCorrect == ProductsSpec => []ProductsTypeOK
<1>1. ProductsInv => ProductsTypeOK
  BY DEF ProductsInv
<1> QED
  BY <1>1, ProductsInvariant, PTL

(* However often the master changes, and whatever activity appears late or *)
(* goes away, the versions of every product tile its time line: the SCD2   *)
(* tests of the repository can never fail.                                 *)
THEOREM HistoryTiles == ProductsSpec => []VersionsTile
<1>1. ProductsInv => VersionsTile
  BY DEF ProductsInv
<1> QED
  BY <1>1, ProductsInvariant, PTL

(* No run rewrites the key, the start or the attributes of a version, or   *)
(* touches one that is closed.                                             *)
THEOREM HistoryNeverRewritten == ProductsSpec => HistoryImmutable
<1> DEFINE Kept == \A p \in Product : \A v \in versions[p] :
                     \/ v \in versions'[p]
                     \/ /\ v.current
                        /\ \E w \in versions'[p] : ~w.current /\ w.from = v.from /\ w.hash = v.hash
<1>1. ProductsInv /\ [ProductsNext]_productVars => [Kept]_productVars
  <2> SUFFICES ASSUME ProductsInv, [ProductsNext]_productVars, NEW p \in Product, NEW v \in versions[p],
                      v \notin versions'[p]
               PROVE  v.current /\ \E w \in versions'[p] :
                        ~w.current /\ w.from = v.from /\ w.hash = v.hash
    OBVIOUS
  <2>1. versions' # versions
    OBVIOUS
  <2>2. CatalogRun
    BY <2>1 DEF ProductsNext, NextDay, ChangeMaster, See, Unsee, productVars
  <2>3. versions'[p] = RunOf(p)
    BY <2>2 DEF CatalogRun, RunOf
  <2>4. v \in Changed(p)
    BY <2>3 DEF RunOf, UnchangedHistory
  <2> DEFINE w == Closed(v, NewFrom(p, v))
  <2>5. w \in versions'[p]
    BY <2>3, <2>4 DEF RunOf, ClosedVersions
  <2>6. v \in Version
    BY DEF ProductsInv, ProductsTypeOK
  <2>7. ~w.current /\ w.from = v.from /\ w.hash = v.hash
    BY DEF Closed
  <2> QED
    BY <2>4, <2>5, <2>7 DEF Changed, Current
<1> QED
  BY <1>1, ProductsInvariant, PTL DEF ProductsSpec, HistoryImmutable
===============================================================================
