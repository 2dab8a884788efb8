--------------------------- MODULE WapPublishProofs ---------------------------
(***************************************************************************)
(* Proofs about WapPublish for every set of DAGs, tables and bounds.       *)
(***************************************************************************)
EXTENDS WapPublish, TLAPS

(* Pending table t holds what live holds plus the rows of the current run. *)
Built(d, t) ==
  /\ pending[t].exists
  /\ {x \in pending[t].rows : x.run # run[d]} = live[t].rows
  /\ run[d] \in Runs(pending[t])

(* The current run is live in table t; a leftover pending copy equals it.  *)
Landed(d, t) ==
  /\ live[t].exists
  /\ run[d] \in Runs(live[t])
  /\ pending[t].exists => pending[t].rows = live[t].rows

Publishable(d) == (\A t \in Owned(d) : Built(d, t)) /\ AuditOK(d)
Published(d)   == \A t \in Owned(d) : Landed(d, t)

(* What each step of a run can rely on. *)
StageInv(d) ==
  /\ stage[d] = "clone" =>
       \A t \in Owned(d) \ todo[d] : pending[t].rows = live[t].rows
  /\ stage[d] = "build" =>
       \A t \in Owned(d) : \/ Built(d, t)
                           \/ t \in todo[d] /\ pending[t].rows = live[t].rows
  /\ stage[d] \in {"clone", "build"} =>
       \A t \in Owned(d) : run[d] \notin Runs(live[t])
  /\ stage[d] = "test" => \A t \in Owned(d) : Built(d, t)
  /\ stage[d] = "gate" => Publishable(d)
  /\ stage[d] \in {"preflight", "insert"} => Publishable(d) \/ Published(d)
  /\ stage[d] = "insert" => \A t \in Owned(d) : pending[t].exists
  /\ stage[d] \in {"drop", "report", "after"} => Published(d)
  /\ outcome[d] = "success" => \A t \in Owned(d) : run[d] \in Runs(live[t])
  /\ outcome[d] # "none" => stage[d] = "idle"

(* The open transaction differs from live only in the tables already       *)
(* replaced, which hold the pending rows.                                  *)
TxnInv(d) ==
  \A t \in Owned(d) :
    IF stage[d] = "insert" /\ t \notin todo[d]
    THEN staged[t] = [exists |-> TRUE, rows |-> pending[t].rows]
    ELSE staged[t] = live[t]

LiveInv(d) ==
  \A t \in Owned(d) :
    /\ ~live[t].exists => live[t].rows = {}
    /\ \A x \in live[t].rows : x.good /\ x.run <= run[d]
    /\ \A u \in Owned(d) : Runs(live[t]) = Runs(live[u])

RefInv ==
  \A t \in FactTable : \A x \in live[t].rows \cup pending[t].rows :
    x.ref # 0 => x.ref \in Runs(live[DimTable])

DagInv(d) == todo[d] \subseteq Owned(d) /\ StageInv(d) /\ TxnInv(d) /\ LiveInv(d)

IInv ==
  /\ TypeOK
  /\ \A d \in Dag : DagInv(d)
  /\ RefInv

-------------------------------------------------------------------------------
(* Type correctness                                                        *)

LEMMA TaskTablesType ==
  ASSUME NEW d \in Dag, NEW s
  PROVE  TaskTables(d, s) \in SUBSET Table
BY WapAssumption DEF TaskTables, Owned

LEMMA EnterTaskType ==
  ASSUME TypeOK, NEW d \in Dag, NEW s \in Stage, EnterTask(d, s)
  PROVE  /\ stage' \in [Dag -> Stage]
         /\ todo' \in [Dag -> SUBSET Table]
         /\ tries' \in [Dag -> 0..Retries]
BY TaskTablesType, WapAssumption DEF EnterTask, TypeOK

LEMMA HandledTableType ==
  ASSUME TypeOK, NEW d \in Dag, NEW t \in Table, NEW s \in Stage,
         HandledTable(d, t, s)
  PROVE  /\ stage' \in [Dag -> Stage]
         /\ todo' \in [Dag -> SUBSET Table]
         /\ tries' \in [Dag -> 0..Retries]
<1>1. CASE todo[d] = {t}
  BY <1>1, EnterTaskType DEF HandledTable
<1>2. CASE todo[d] # {t}
  BY <1>2 DEF HandledTable, TypeOK
<1> QED BY <1>1, <1>2

LEMMA AttemptFailsType ==
  ASSUME TypeOK, NEW d \in Dag, AttemptFails(d)
  PROVE  /\ staged' \in [Table -> TableState]
         /\ stage' \in [Dag -> Stage]
         /\ todo' \in [Dag -> SUBSET Table]
         /\ tries' \in [Dag -> 0..Retries]
<1>1. staged' \in [Table -> TableState]
  BY DEF AttemptFails, TypeOK
<1>2. CASE tries[d] < Retries
  <2>1. TaskStart(stage[d]) \in Stage
    BY DEF TaskStart, Stage, TaskSteps, TypeOK
  <2>2. tries[d] + 1 \in 0..Retries
    BY <1>2, WapAssumption DEF TypeOK
  <2>3. tries' = [tries EXCEPT ![d] = tries[d] + 1]
    BY <1>2 DEF AttemptFails
  <2>4. tries' \in [Dag -> 0..Retries]
    BY <2>2, <2>3 DEF TypeOK
  <2>5. /\ stage' \in [Dag -> Stage]
        /\ todo' \in [Dag -> SUBSET Table]
    BY <1>2, <2>1, TaskTablesType DEF AttemptFails, TypeOK
  <2> QED BY <1>1, <2>4, <2>5
<1>3. CASE ~(tries[d] < Retries)
  BY <1>1, <1>3, EnterTaskType DEF AttemptFails, Stage
<1> QED BY <1>2, <1>3

LEMMA TypeInit == Init => TypeOK
<1>1. NoTable \in TableState /\ EmptyTable \in TableState
  BY DEF TableState, NoTable, EmptyTable
<1> SUFFICES ASSUME Init PROVE TypeOK
  OBVIOUS
<1>2. live \in [Table -> TableState] /\ pending \in [Table -> TableState]
  BY <1>1 DEF Init
<1> QED BY <1>2, WapAssumption DEF Init, TypeOK, Stage

LEMMA UseFaultType == ASSUME TypeOK, UseFault PROVE faults' \in 0..MaxFaults
BY WapAssumption DEF TypeOK, UseFault

LEMMA TypeNext == TypeOK /\ [Next]_vars => TypeOK'
<1> SUFFICES ASSUME TypeOK, [Next]_vars PROVE TypeOK'
  OBVIOUS
<1>1. ASSUME NEW d \in Dag, StartRun(d) PROVE TypeOK'
  BY <1>1, EnterTaskType DEF StartRun, TypeOK, tableVars, Stage, TaskSteps
<1>2. ASSUME NEW d \in Dag, AttemptDies(d) PROVE TypeOK'
  <2>1. AttemptFails(d) /\ UseFault
    BY <1>2 DEF AttemptDies
  <2> QED BY <2>1, AttemptFailsType, UseFaultType DEF AttemptFails, TypeOK
<1>3. ASSUME NEW d \in Dag, NEW t \in Table, CloneTable(d, t) PROVE TypeOK'
  <2>1. pending' \in [Table -> TableState]
    BY <1>3 DEF CloneTable, TypeOK, TableState, NoTable
  <2>2. HandledTable(d, t, "build") /\ "build" \in Stage
    BY <1>3 DEF CloneTable, Stage, TaskSteps
  <2> QED BY <1>3, <2>1, <2>2, HandledTableType DEF CloneTable, TypeOK
<1>4. ASSUME NEW d \in Dag, NEW t \in Table, NEW good \in BOOLEAN,
             NEW ref \in 0..MaxRuns, BuildModel(d, t, good, ref)
      PROVE  TypeOK'
  <2>1. [run |-> run[d], good |-> good, ref |-> ref] \in Row
    BY WapAssumption DEF Row, TypeOK
  <2>2. pending' \in [Table -> TableState]
    BY <1>4, <2>1 DEF BuildModel, TypeOK, TableState
  <2>3. HandledTable(d, t, "test") /\ "test" \in Stage
    BY <1>4 DEF BuildModel, Stage, TaskSteps
  <2>4. faults' \in 0..MaxFaults
    BY <1>4, UseFaultType DEF BuildModel, TypeOK
  <2> QED BY <1>4, <2>2, <2>3, <2>4, HandledTableType DEF BuildModel, TypeOK
<1>5. ASSUME NEW d \in Dag, TestsPass(d) PROVE TypeOK'
  <2>1. EnterTask(d, IF d \in GatedDag THEN "gate" ELSE "preflight")
    BY <1>5 DEF TestsPass
  <2> QED BY <1>5, <2>1, EnterTaskType
          DEF TestsPass, TypeOK, tableVars, Stage, TaskSteps
<1>6. ASSUME NEW d \in Dag, TestsFail(d) \/ PreflightAborts(d) PROVE TypeOK'
  <2>1. AttemptFails(d) /\ UNCHANGED faults
    BY <1>6 DEF TestsFail, PreflightAborts
  <2> QED BY <2>1, AttemptFailsType DEF AttemptFails, TypeOK
<1>7. ASSUME NEW d \in Dag, GatePasses(d) PROVE TypeOK'
  BY <1>7, EnterTaskType DEF GatePasses, TypeOK, tableVars, Stage, TaskSteps
<1>8. ASSUME NEW d \in Dag, BeginPublish(d) PROVE TypeOK'
  BY <1>8, WapAssumption
  DEF BeginPublish, TypeOK, tableVars, Stage, TaskSteps, Owned
<1>9. ASSUME NEW d \in Dag, NEW t \in Table, ReplaceTable(d, t) PROVE TypeOK'
  BY <1>9 DEF ReplaceTable, TypeOK, TableState
<1>10. ASSUME NEW d \in Dag, CommitPublish(d) PROVE TypeOK'
  BY <1>10 DEF CommitPublish, TypeOK, Stage, TaskSteps
<1>11. ASSUME NEW d \in Dag, DropPending(d) PROVE TypeOK'
  BY <1>11 DEF DropPending, TypeOK, TableState, NoTable, Stage, TaskSteps
<1>12. ASSUME NEW d \in Dag, DropFails(d) PROVE TypeOK'
  BY <1>12, UseFaultType DEF DropFails, TypeOK, tableVars, Stage, TaskSteps
<1>13. ASSUME NEW d \in Dag, PublishSucceeds(d) PROVE TypeOK'
  BY <1>13, EnterTaskType DEF PublishSucceeds, TypeOK, tableVars, Stage
<1>14. ASSUME NEW d \in Dag, RunSucceeds(d) \/ AfterTaskFails(d) \/ RunFails(d)
       PROVE  TypeOK'
  <2>1. \E state \in {"success", "failed"} : EndRun(d, state)
    BY <1>14 DEF RunSucceeds, AfterTaskFails, RunFails
  <2>2. faults' \in 0..MaxFaults
    BY <1>14, UseFaultType DEF RunSucceeds, AfterTaskFails, RunFails, TypeOK
  <2> QED BY <2>1, <2>2 DEF EndRun, TypeOK, tableVars, Stage
<1>15. CASE UNCHANGED vars
  BY <1>15 DEF vars, tableVars, dagVars, TypeOK
<1> QED
  BY <1>1, <1>2, <1>3, <1>4, <1>5, <1>6, <1>7, <1>8, <1>9, <1>10, <1>11,
     <1>12, <1>13, <1>14, <1>15 DEF Next, TaskStep

(* Every variable keeps its type in every run of the DAGs. *)
THEOREM TypeCorrect == Spec => []TypeOK
<1>1. Init => TypeOK
  BY TypeInit
<1>2. TypeOK /\ [Next]_vars => TypeOK'
  BY TypeNext
<1> QED BY <1>1, <1>2, PTL DEF Spec

-------------------------------------------------------------------------------
(* The inductive invariant                                                 *)

(* A step that changes nothing of DAG e, its tables included. *)
Same(e) ==
  /\ stage'[e] = stage[e] /\ todo'[e] = todo[e]
  /\ run'[e] = run[e] /\ outcome'[e] = outcome[e]
  /\ \A t \in Owned(e) : /\ live'[t] = live[t]
                         /\ pending'[t] = pending[t]
                         /\ staged'[t] = staged[t]

LEMMA Frame ==
  ASSUME NEW e \in Dag, DagInv(e), Same(e)
  PROVE  DagInv(e)'
<1>1. (todo[e] \subseteq Owned(e))'
  BY DEF DagInv, Same, Owned
<1>2. TxnInv(e)'
  BY DEF DagInv, Same, TxnInv, Owned
<1>3. LiveInv(e)'
  BY DEF DagInv, Same, LiveInv, Runs, Owned
<1>5. AuditOK(e)' <=> AuditOK(e)
  BY DEF AuditOK, Same, Owned
<1>6. Publishable(e)' <=> Publishable(e)
  BY <1>5 DEF Publishable, Built, Same, Owned, Runs
<1>7. Published(e)' <=> Published(e)
  BY DEF Published, Landed, Same, Owned, Runs
<1>8. StageInv(e)'
  <2>1. \A t \in Owned(e) : run'[e] \in Runs(live'[t]) <=> run[e] \in Runs(live[t])
    BY DEF Same
  <2>2. StageInv(e)
    BY DEF DagInv
  <2>3. \A t \in Owned(e) : Built(e, t) => Built(e, t)'
    BY DEF Built, Same, Runs
  <2>4. /\ stage'[e] = "clone" =>
             \A t \in Owned(e) \ todo'[e] : pending'[t].rows = live'[t].rows
        /\ stage'[e] \in {"clone", "build"} =>
             \A t \in Owned(e) : run'[e] \notin Runs(live'[t])
        /\ stage'[e] = "insert" => \A t \in Owned(e) : pending'[t].exists
        /\ outcome'[e] = "success" => \A t \in Owned(e) : run'[e] \in Runs(live'[t])
        /\ outcome'[e] # "none" => stage'[e] = "idle"
    BY <2>1, <2>2 DEF StageInv, Same
  <2>5. stage'[e] = "build" =>
          \A t \in Owned(e) : \/ Built(e, t)'
                              \/ t \in todo'[e] /\ pending'[t].rows = live'[t].rows
    BY <2>2, <2>3 DEF StageInv, Same
  <2>6. stage'[e] = "test" => \A t \in Owned(e) : Built(e, t)'
    BY <2>2, <2>3 DEF StageInv, Same
  <2>7. /\ stage'[e] = "gate" => Publishable(e)'
        /\ stage'[e] \in {"preflight", "insert"} => Publishable(e)' \/ Published(e)'
        /\ stage'[e] \in {"drop", "report", "after"} => Published(e)'
    BY <1>6, <1>7, <2>2 DEF StageInv, Same
  <2> QED BY <2>4, <2>5, <2>6, <2>7 DEF StageInv, Owned
<1> QED BY <1>1, <1>2, <1>3, <1>8 DEF DagInv

(* Scopes are disjoint: a step on the tables of d leaves every other DAG.  *)
LEMMA Disjoint ==
  ASSUME NEW d \in Dag, NEW e \in Dag, d # e, NEW t \in Owned(d)
  PROVE  t \notin Owned(e) /\ t \in Table
BY WapAssumption DEF Owned

LEMMA InvInit == Init => IInv
<1> SUFFICES ASSUME Init PROVE IInv
  OBVIOUS
<1>1. TypeOK
  BY TypeInit
<1>2. \A t \in Table : live[t].rows = {} /\ pending[t].rows = {} /\ staged[t] = live[t]
  BY DEF Init, NoTable, EmptyTable
<1>3. RefInv
  BY <1>2, WapAssumption DEF RefInv
<1>4. ASSUME NEW d \in Dag PROVE DagInv(d)
  <2>1. Owned(d) \subseteq Table
    BY WapAssumption DEF Owned
  <2>2. StageInv(d)
    BY DEF Init, StageInv
  <2>3. TxnInv(d)
    BY <1>2, <2>1 DEF TxnInv, Init
  <2>4. LiveInv(d)
    BY <1>2, <2>1 DEF LiveInv, Runs
  <2> QED BY <2>2, <2>3, <2>4 DEF DagInv, Init
<1> QED BY <1>1, <1>3, <1>4 DEF IInv

(* A step of d that changes only d's part keeps IInv if it keeps d's part. *)
LEMMA OneDag ==
  ASSUME IInv, TypeOK', NEW d \in Dag, DagInv(d)', RefInv',
         \A e \in Dag : e # d => Same(e)
  PROVE  IInv'
<1>1. ASSUME NEW e \in Dag, e # d PROVE DagInv(e)'
  BY <1>1, Frame DEF IInv
<1> QED BY <1>1 DEF IInv

(* Facts' references survive a step that leaves Gold and its copies alone, *)
(* or only forgets rows of pending.                                        *)
LEMMA RefFrame ==
  ASSUME RefInv, UNCHANGED live,
         \A t \in Table : pending'[t].rows \subseteq pending[t].rows \cup live[t].rows
  PROVE  RefInv'
BY WapAssumption DEF RefInv, Runs

LEMMA StepStartRun ==
  ASSUME IInv, TypeOK', NEW d \in Dag, StartRun(d) PROVE IInv'
<1>1. \A e \in Dag : e # d => Same(e)
  BY DEF StartRun, EnterTask, Same, tableVars, IInv, TypeOK
<1>2. RefInv'
  BY RefFrame DEF StartRun, tableVars, IInv
<1>3. /\ stage'[d] = "clone" /\ todo'[d] = Owned(d)
      /\ run'[d] = run[d] + 1 /\ outcome'[d] = "none"
  BY DEF StartRun, EnterTask, IInv, TypeOK, TaskTables
<1>4. LiveInv(d)' /\ \A t \in Owned(d) : run'[d] \notin Runs(live'[t])
  <2>1. \A t \in Owned(d) : \A x \in live[t].rows :
          x.run \in Nat /\ x.run <= run[d] /\ run[d] \in Nat
    BY WapAssumption DEF IInv, DagInv, LiveInv, TypeOK, TableState, Row, Owned
  <2>2. live' = live
    BY DEF StartRun, tableVars
  <2>3. \A t \in Owned(d) : \A x \in live[t].rows : x.run < run'[d]
    BY <1>3, <2>1
  <2>4. \A t \in Owned(d) : run'[d] \notin Runs(live'[t])
    <3> SUFFICES ASSUME NEW t \in Owned(d), NEW x \in live[t].rows
                 PROVE  x.run # run'[d]
      BY <2>2 DEF Runs
    <3> QED BY <1>3, <2>1
  <2>5. \A t \in Owned(d) : \A x \in live[t].rows : x.run <= run'[d]
    BY <1>3, <2>1
  <2>6. LiveInv(d)'
    BY <2>2, <2>5 DEF IInv, DagInv, LiveInv, Runs, Owned
  <2> QED BY <2>4, <2>6
<1>5. TxnInv(d)'
  BY <1>3 DEF IInv, DagInv, TxnInv, StartRun, tableVars, Owned
<1>6. StageInv(d)'
  BY <1>3, <1>4 DEF StageInv, Owned
<1> QED BY <1>1, <1>2, <1>3, <1>4, <1>5, <1>6, OneDag DEF DagInv, Owned

LEMMA StepAttemptFails ==
  ASSUME IInv, TypeOK', NEW d \in Dag, AttemptFails(d), stage[d] \in TaskSteps
  PROVE  IInv'
<1> USE DEF AttemptFails
<1>0. \A t \in Owned(d) : t \in Table
  BY WapAssumption DEF Owned
<1>1. \A e \in Dag : e # d => Same(e)
  BY Disjoint, WapAssumption DEF EnterTask, Same, IInv, TypeOK, Owned
<1>2. RefInv'
  BY RefFrame DEF IInv
<1>3. \/ stage'[d] = TaskStart(stage[d]) /\ todo'[d] = TaskTables(d, stage[d])
      \/ stage'[d] = "failed" /\ todo'[d] = {}
  BY DEF EnterTask, IInv, TypeOK, TaskTables
<1>4. LiveInv(d)'
  BY DEF IInv, DagInv, LiveInv, Runs, Owned
<1>5. TxnInv(d)'
  <2>1. \A t \in Owned(d) : staged'[t] = live[t]
    BY <1>0
  <2>2. stage'[d] # "insert"
    BY <1>3 DEF TaskStart
  <2> QED BY <2>1, <2>2 DEF TxnInv, Owned
<1>6. todo'[d] \subseteq Owned(d)
  BY <1>3 DEF TaskTables
<1>7. StageInv(d)'
  <2>1. /\ \A t \in Owned(d) : Built(d, t)' <=> Built(d, t)
        /\ Publishable(d)' <=> Publishable(d)
        /\ Published(d)' <=> Published(d)
    BY DEF Built, Publishable, Published, Landed, AuditOK, Owned, Runs
  <2>2. outcome'[d] = "none"
    BY DEF IInv, DagInv, StageInv, TaskSteps, TypeOK
  <2>3. CASE stage'[d] = "failed"
    BY <2>2, <2>3 DEF StageInv
  <2>4. CASE stage'[d] = TaskStart(stage[d]) /\ todo'[d] = TaskTables(d, stage[d])
    BY <2>1, <2>2, <2>4
    DEF IInv, DagInv, StageInv, TaskSteps, TaskStart, TaskTables, Owned
  <2> QED BY <1>3, <2>3, <2>4
<1> QED BY <1>1, <1>2, <1>4, <1>5, <1>6, <1>7, OneDag DEF DagInv, Owned

LEMMA Entered ==
  ASSUME TypeOK, NEW d \in Dag, NEW s, EnterTask(d, s)
  PROVE  /\ stage'[d] = s /\ todo'[d] = TaskTables(d, s)
         /\ \A e \in Dag : e # d => stage'[e] = stage[e] /\ todo'[e] = todo[e]
BY DEF EnterTask, TypeOK

LEMMA Handled ==
  ASSUME TypeOK, NEW d \in Dag, NEW t, NEW s, HandledTable(d, t, s)
  PROVE  /\ \/ todo[d] = {t} /\ stage'[d] = s /\ todo'[d] = TaskTables(d, s)
            \/ todo[d] # {t} /\ stage'[d] = stage[d] /\ todo'[d] = todo[d] \ {t}
         /\ \A e \in Dag : e # d => stage'[e] = stage[e] /\ todo'[e] = todo[e]
<1>1. CASE todo[d] = {t}
  BY <1>1, Entered DEF HandledTable
<1>2. CASE todo[d] # {t}
  BY <1>2 DEF HandledTable, TypeOK
<1> QED BY <1>1, <1>2

(* The live part of the invariant survives a step that leaves live, the    *)
(* run number and the open transaction alone.                              *)
LEMMA LiveFrame ==
  ASSUME NEW d \in Dag, DagInv(d), UNCHANGED <<live, run>>
  PROVE  LiveInv(d)'
BY DEF DagInv, LiveInv, Runs, Owned

LEMMA TxnFrame ==
  ASSUME NEW d \in Dag, DagInv(d), UNCHANGED <<live, staged>>,
         stage[d] # "insert", stage'[d] # "insert"
  PROVE  TxnInv(d)'
BY DEF DagInv, TxnInv, Owned

LEMMA StepClone ==
  ASSUME IInv, TypeOK', NEW d \in Dag, NEW t \in Table, CloneTable(d, t)
  PROVE  IInv'
<1>1. /\ stage[d] = "clone" /\ t \in todo[d] /\ t \in Owned(d)
      /\ UNCHANGED <<live, staged, run, outcome>>
      /\ HandledTable(d, t, "build") /\ TypeOK
  BY DEF CloneTable, IInv, DagInv
<1>2. /\ pending'[t].rows = live[t].rows
      /\ \A u \in Table : u # t => pending'[u] = pending[u]
  BY <1>1 DEF CloneTable, NoTable, IInv, DagInv, LiveInv, TypeOK
<1>3. \A e \in Dag : e # d => Same(e)
  BY <1>1, <1>2, Handled, Disjoint DEF Same
<1>4. RefInv'
  BY <1>1, <1>2, RefFrame DEF IInv
<1>5. \/ todo[d] = {t} /\ stage'[d] = "build" /\ todo'[d] = Owned(d)
      \/ stage'[d] = "clone" /\ todo'[d] = todo[d] \ {t}
  BY <1>1, Handled DEF TaskTables
<1>6. StageInv(d)'
  <2>1. \A u \in Owned(d) \ todo[d] : pending[u].rows = live[u].rows /\ u \in Table
    BY <1>1, WapAssumption DEF IInv, DagInv, StageInv, Owned
  <2>2. \A u \in Owned(d) : u = t \/ u \notin todo[d] => pending'[u].rows = live'[u].rows
    BY <1>1, <1>2, <2>1
  <2>3. \A u \in Owned(d) : run'[d] \notin Runs(live'[u])
    BY <1>1 DEF IInv, DagInv, StageInv
  <2>4. outcome'[d] = "none"
    BY <1>1 DEF IInv, DagInv, StageInv, TypeOK
  <2> QED BY <1>5, <2>2, <2>3, <2>4 DEF StageInv, Owned
<1>7. TxnInv(d)' /\ LiveInv(d)'
  BY <1>1, <1>5, TxnFrame, LiveFrame DEF IInv
<1> QED BY <1>1, <1>3, <1>4, <1>5, <1>6, <1>7, OneDag DEF DagInv, IInv, Owned

LEMMA StepBuild ==
  ASSUME IInv, TypeOK', NEW d \in Dag, NEW t \in Table, NEW good \in BOOLEAN,
         NEW ref \in 0..MaxRuns, BuildModel(d, t, good, ref)
  PROVE  IInv'
<1> DEFINE new == [run |-> run[d], good |-> good, ref |-> ref]
<1>1. /\ stage[d] = "build" /\ t \in todo[d] /\ t \in Owned(d)
      /\ UNCHANGED <<live, staged, run, outcome>>
      /\ HandledTable(d, t, "test") /\ TypeOK
  BY DEF BuildModel, IInv, DagInv
<1>2. /\ pending'[t].exists
      /\ pending'[t].rows = {x \in pending[t].rows : x.run # run[d]} \cup {new}
      /\ \A u \in Table : u # t => pending'[u] = pending[u]
  BY DEF BuildModel, IInv, TypeOK
<1>3. \A e \in Dag : e # d => Same(e)
  BY <1>1, <1>2, Handled, Disjoint DEF Same
<1>4. RefInv'
  <2> SUFFICES ASSUME NEW u \in FactTable, NEW x \in live'[u].rows \cup pending'[u].rows,
                      x.ref # 0
               PROVE  x.ref \in Runs(live'[DimTable])
    BY DEF RefInv
  <2>1. CASE x \in live[u].rows \cup pending[u].rows
    BY <1>1, <2>1 DEF IInv, RefInv
  <2>2. CASE u = t /\ x = new
    BY <1>1, <2>2 DEF BuildModel, DimRefs
  <2> QED BY <1>1, <1>2, <2>1, <2>2, WapAssumption
<1>5. \/ todo[d] = {t} /\ stage'[d] = "test" /\ todo'[d] = {}
      \/ stage'[d] = "build" /\ todo'[d] = todo[d] \ {t}
  BY <1>1, Handled DEF TaskTables
<1>6. StageInv(d)'
  <2>1. \A u \in Owned(d) : run[d] \notin Runs(live[u])
    BY <1>1 DEF IInv, DagInv, StageInv
  <2>2. {x \in pending[t].rows : x.run # run[d]} = live[t].rows
    <3>1. CASE Built(d, t)
      BY <3>1 DEF Built
    <3>2. CASE pending[t].rows = live[t].rows
      BY <1>1, <2>1, <3>2 DEF Runs
    <3> QED BY <1>1, <3>1, <3>2 DEF IInv, DagInv, StageInv
  <2>3. Built(d, t)'
    <3>1. pending'[t].rows = live[t].rows \cup {new}
      BY <1>2, <2>2
    <3>2. {x \in pending'[t].rows : x.run # run[d]} = live[t].rows
      BY <1>1, <2>1, <3>1 DEF Runs
    <3>3. run[d] \in Runs(pending'[t])
      BY <3>1 DEF Runs
    <3> QED BY <1>1, <1>2, <3>2, <3>3 DEF Built
  <2>4. ASSUME NEW u \in Owned(d), u # t
        PROVE  \/ Built(d, u)'
               \/ u \in todo[d] /\ pending'[u].rows = live'[u].rows
    <3>1. u \in Table
      BY Disjoint, WapAssumption DEF Owned
    <3>2. Built(d, u) \/ (u \in todo[d] /\ pending[u].rows = live[u].rows)
      BY <1>1 DEF IInv, DagInv, StageInv
    <3> QED BY <1>1, <1>2, <2>4, <3>1, <3>2 DEF Built, Runs
  <2>5. outcome'[d] = "none"
    BY <1>1 DEF IInv, DagInv, StageInv, TypeOK
  <2>6. CASE todo[d] = {t} /\ stage'[d] = "test"
    <3>1. \A u \in Owned(d) : Built(d, u)'
      BY <2>3, <2>4, <2>6
    <3> QED BY <2>5, <2>6, <3>1 DEF StageInv, Owned
  <2>7. CASE stage'[d] = "build" /\ todo'[d] = todo[d] \ {t}
    <3>1. \A u \in Owned(d) :
            \/ Built(d, u)'
            \/ u \in todo'[d] /\ pending'[u].rows = live'[u].rows
      BY <2>3, <2>4, <2>7
    <3>2. \A u \in Owned(d) : run'[d] \notin Runs(live'[u])
      BY <1>1, <2>1
    <3> QED BY <2>5, <2>7, <3>1, <3>2 DEF StageInv, Owned
  <2> QED BY <1>5, <2>6, <2>7
<1>7. TxnInv(d)' /\ LiveInv(d)'
  BY <1>1, <1>5, TxnFrame, LiveFrame DEF IInv
<1> QED BY <1>1, <1>3, <1>4, <1>5, <1>6, <1>7, OneDag DEF DagInv, IInv, Owned

(* A step that leaves the tables alone and only moves d to another stage   *)
(* keeps the facts about d's tables.                                       *)
LEMMA TablesFrame ==
  ASSUME NEW d \in Dag, UNCHANGED <<live, pending, run>>
  PROVE  /\ \A t \in Owned(d) : Built(d, t) => Built(d, t)'
         /\ Publishable(d) => Publishable(d)'
         /\ Published(d) => Published(d)'
<1>1. \A t \in Owned(d) : Built(d, t) => Built(d, t)'
  BY DEF Built, Runs
<1>2. Publishable(d) => Publishable(d)'
  BY DEF Built, Publishable, AuditOK, Owned, Runs
<1>3. Published(d) => Published(d)'
  BY DEF Published, Landed, Owned, Runs
<1> QED BY <1>1, <1>2, <1>3

LEMMA StepTestsPass ==
  ASSUME IInv, TypeOK', NEW d \in Dag, TestsPass(d) PROVE IInv'
<1>1. /\ stage[d] = "test" /\ AuditOK(d) /\ TypeOK
      /\ UNCHANGED <<live, pending, staged, run, outcome>>
      /\ EnterTask(d, IF d \in GatedDag THEN "gate" ELSE "preflight")
  BY DEF TestsPass, IInv, tableVars
<1>2. stage'[d] \in {"gate", "preflight"} /\ todo'[d] = {}
  BY <1>1, Entered DEF TaskTables
<1>3. \A e \in Dag : e # d => Same(e)
  BY <1>1, Entered DEF Same
<1>4. RefInv'
  BY <1>1, RefFrame DEF IInv
<1>5. Publishable(d)'
  <2>1. \A t \in Owned(d) : Built(d, t)
    BY <1>1 DEF IInv, DagInv, StageInv
  <2> QED BY <1>1, <2>1, TablesFrame DEF Publishable
<1>6. outcome'[d] = "none"
  BY <1>1 DEF IInv, DagInv, StageInv, TypeOK
<1>7. StageInv(d)'
  BY <1>2, <1>5, <1>6 DEF StageInv
<1>8. TxnInv(d)' /\ LiveInv(d)'
  BY <1>1, <1>2, TxnFrame, LiveFrame DEF IInv
<1> QED BY <1>2, <1>3, <1>4, <1>7, <1>8, OneDag DEF DagInv

LEMMA StepGatePasses ==
  ASSUME IInv, TypeOK', NEW d \in Dag, GatePasses(d) PROVE IInv'
<1>1. /\ stage[d] = "gate" /\ TypeOK
      /\ UNCHANGED <<live, pending, staged, run, outcome>>
      /\ EnterTask(d, "preflight")
  BY DEF GatePasses, IInv, tableVars
<1>2. stage'[d] = "preflight" /\ todo'[d] = {}
  BY <1>1, Entered DEF TaskTables
<1>3. \A e \in Dag : e # d => Same(e)
  BY <1>1, Entered DEF Same
<1>4. RefInv'
  BY <1>1, RefFrame DEF IInv
<1>5. Publishable(d)'
  BY <1>1, TablesFrame DEF IInv, DagInv, StageInv
<1>6. outcome'[d] = "none"
  BY <1>1 DEF IInv, DagInv, StageInv, TypeOK
<1>7. StageInv(d)'
  BY <1>2, <1>5, <1>6 DEF StageInv
<1>8. TxnInv(d)' /\ LiveInv(d)'
  BY <1>1, <1>2, TxnFrame, LiveFrame DEF IInv
<1> QED BY <1>2, <1>3, <1>4, <1>7, <1>8, OneDag DEF DagInv

LEMMA StepBeginPublish ==
  ASSUME IInv, TypeOK', NEW d \in Dag, BeginPublish(d) PROVE IInv'
<1>1. /\ stage[d] = "preflight" /\ TypeOK
      /\ \A t \in Owned(d) : pending[t].exists
      /\ UNCHANGED <<live, pending, staged, run, outcome>>
  BY DEF BeginPublish, PendingMissing, IInv, tableVars
<1>2. stage'[d] = "insert" /\ todo'[d] = Owned(d)
  BY <1>1 DEF BeginPublish, TypeOK
<1>3. \A e \in Dag : e # d => Same(e)
  BY <1>1 DEF BeginPublish, Same, TypeOK
<1>4. RefInv'
  BY <1>1, RefFrame DEF IInv
<1>5. Publishable(d)' \/ Published(d)'
  BY <1>1, TablesFrame DEF IInv, DagInv, StageInv
<1>6. outcome'[d] = "none"
  BY <1>1 DEF IInv, DagInv, StageInv, TypeOK
<1>7. StageInv(d)'
  BY <1>1, <1>2, <1>5, <1>6 DEF StageInv, Owned
<1>8. TxnInv(d)'
  BY <1>1, <1>2 DEF IInv, DagInv, TxnInv, Owned
<1>9. LiveInv(d)'
  BY <1>1, LiveFrame DEF IInv
<1> QED BY <1>2, <1>3, <1>4, <1>7, <1>8, <1>9, OneDag DEF DagInv, Owned

LEMMA StepReplaceTable ==
  ASSUME IInv, TypeOK', NEW d \in Dag, NEW t \in Table, ReplaceTable(d, t)
  PROVE  IInv'
<1>1. /\ stage[d] = "insert" /\ TypeOK /\ t \in todo[d] /\ t \in Owned(d)
      /\ UNCHANGED <<live, pending, stage, run, outcome>>
  BY DEF ReplaceTable, IInv, DagInv
<1>2. /\ todo'[d] = todo[d] \ {t}
      /\ staged'[t] = [exists |-> TRUE, rows |-> pending[t].rows]
      /\ \A u \in Table : u # t => staged'[u] = staged[u]
  BY DEF ReplaceTable, IInv, TypeOK
<1>3. \A e \in Dag : e # d => Same(e)
  BY <1>1, <1>2, Disjoint DEF ReplaceTable, Same, TypeOK
<1>4. RefInv'
  BY <1>1, RefFrame DEF IInv
<1>5. Publishable(d)' \/ Published(d)'
  BY <1>1, TablesFrame DEF IInv, DagInv, StageInv
<1>6. outcome'[d] = "none" /\ stage'[d] = "insert"
      /\ \A u \in Owned(d) : pending'[u].exists
  BY <1>1 DEF IInv, DagInv, StageInv, TypeOK
<1>7. StageInv(d)'
  BY <1>5, <1>6 DEF StageInv, Owned
<1>8. TxnInv(d)'
  <2>1. \A u \in Owned(d) : u \in Table
    BY WapAssumption DEF Owned
  <2> QED BY <1>1, <1>2, <2>1 DEF IInv, DagInv, TxnInv, Owned
<1>9. LiveInv(d)'
  BY <1>1, LiveFrame DEF IInv
<1> QED BY <1>1, <1>2, <1>3, <1>4, <1>7, <1>8, <1>9, OneDag DEF DagInv, Owned, IInv

(* What the commit installs: pending rows, which extend the live ones.     *)
LEMMA CommitInstalls ==
  ASSUME IInv, NEW d \in Dag, CommitPublish(d), NEW t \in Owned(d)
  PROVE  /\ live'[t] = [exists |-> TRUE, rows |-> pending[t].rows]
         /\ live[t].rows \subseteq live'[t].rows
         /\ \A x \in live'[t].rows : x.good /\ x.run \in Nat /\ x.run <= run[d]
         /\ Runs(live'[t]) = Runs(live[t]) \cup {run[d]}
<1>1. /\ stage[d] = "insert" /\ todo[d] = {} /\ t \in Table /\ TypeOK
      /\ live'[t] = staged[t] /\ t \in Owned(d)
  BY WapAssumption DEF CommitPublish, Owned, IInv
<1>2. staged[t] = [exists |-> TRUE, rows |-> pending[t].rows]
  BY <1>1 DEF IInv, DagInv, TxnInv
<1>3. \A x \in live[t].rows \cup pending[t].rows : x.run \in Nat /\ run[d] \in Nat
  BY <1>1 DEF TypeOK, TableState, Row
<1>4. \A x \in live[t].rows : x.good /\ x.run <= run[d]
  BY DEF IInv, DagInv, LiveInv
<1>5. CASE Publishable(d)
  <2>1. Built(d, t) /\ \A x \in pending[t].rows : x.good
    BY <1>5 DEF Publishable, AuditOK
  <2>2. live[t].rows \subseteq pending[t].rows
    BY <2>1 DEF Built
  <2>3. \A x \in pending[t].rows : x.run <= run[d]
    BY <1>3, <1>4, <2>1 DEF Built
  <2>4. Runs(pending[t]) = Runs(live[t]) \cup {run[d]}
    BY <2>1 DEF Built, Runs
  <2> QED BY <1>1, <1>2, <1>3, <2>1, <2>2, <2>3, <2>4 DEF Runs
<1>6. CASE Published(d)
  <2>1. pending[t].rows = live[t].rows /\ run[d] \in Runs(live[t])
    BY <1>1, <1>6 DEF Published, Landed, IInv, DagInv, StageInv
  <2> QED BY <1>1, <1>2, <1>3, <1>4, <2>1 DEF Runs
<1> QED BY <1>1, <1>5, <1>6 DEF IInv, DagInv, StageInv

LEMMA StepCommit ==
  ASSUME IInv, TypeOK', NEW d \in Dag, CommitPublish(d) PROVE IInv'
<1>1. /\ UNCHANGED <<pending, staged, todo, run, outcome>> /\ TypeOK
      /\ \A t \in Table : t \notin Owned(d) => live'[t] = live[t]
      /\ \A t \in Owned(d) : t \in Table /\ live'[t] = staged[t]
      /\ stage'[d] = "drop" /\ todo[d] = {} /\ stage[d] = "insert"
  BY WapAssumption DEF CommitPublish, IInv, TypeOK, Owned
<1>c. ASSUME NEW t \in Owned(d)
      PROVE  /\ live'[t].exists /\ live'[t].rows = pending[t].rows
             /\ live[t].rows \subseteq live'[t].rows
             /\ \A x \in live'[t].rows : x.good /\ x.run <= run[d]
             /\ Runs(live'[t]) = Runs(live[t]) \cup {run[d]}
  <2>1. /\ live'[t] = [exists |-> TRUE, rows |-> pending[t].rows]
        /\ live[t].rows \subseteq live'[t].rows
        /\ \A x \in live'[t].rows : x.good /\ x.run \in Nat /\ x.run <= run[d]
        /\ Runs(live'[t]) = Runs(live[t]) \cup {run[d]}
    BY <1>c, CommitInstalls, Zenon
  <2>2. live'[t].exists
    BY <2>1
  <2>3. live'[t].rows = pending[t].rows
    BY <2>1
  <2> QED BY <2>1, <2>2, <2>3, Zenon
<1>2. \A e \in Dag : e # d => Same(e)
  <2> SUFFICES ASSUME NEW e \in Dag, e # d PROVE Same(e)
    OBVIOUS
  <2>1. \A t \in Owned(e) : live'[t] = live[t]
    BY <1>1, Disjoint
  <2> QED BY <1>1, <2>1 DEF CommitPublish, Same, TypeOK
<1>3. \A t \in Table : Runs(live[t]) \subseteq Runs(live'[t])
  <2> SUFFICES ASSUME NEW t \in Table PROVE Runs(live[t]) \subseteq Runs(live'[t])
    OBVIOUS
  <2>1. CASE t \in Owned(d)
    BY <2>1, <1>c
  <2>2. CASE t \notin Owned(d)
    BY <1>1, <2>2
  <2> QED BY <2>1, <2>2
<1>4. RefInv'
  <2> SUFFICES ASSUME NEW u \in FactTable, NEW x \in live'[u].rows \cup pending'[u].rows,
                      x.ref # 0
               PROVE  x.ref \in Runs(live'[DimTable])
    BY DEF RefInv
  <2>1. u \in Table /\ DimTable \in Table
    BY WapAssumption
  <2>2. x \in live[u].rows \cup pending[u].rows
    <3>1. CASE u \in Owned(d)
      BY <1>1, <3>1, <1>c
    <3>2. CASE u \notin Owned(d)
      BY <1>1, <2>1, <3>2
    <3> QED BY <3>1, <3>2
  <2>3. x.ref \in Runs(live[DimTable])
    BY <2>2 DEF IInv, RefInv
  <2> QED BY <1>3, <2>1, <2>3
<1>5. Published(d)'
  <2>1. ASSUME NEW t \in Owned(d) PROVE Landed(d, t)'
    BY <1>1, <1>c DEF Landed
  <2> QED BY <2>1 DEF Published, Owned
<1>6. outcome'[d] = "none"
  BY <1>1 DEF IInv, DagInv, StageInv, TypeOK
<1>7. StageInv(d)'
  BY <1>1, <1>5, <1>6 DEF StageInv
<1>8. TxnInv(d)'
  BY <1>1 DEF TxnInv, Owned
<1>9. LiveInv(d)'
  <2>1. \A t \in Owned(d) : /\ live'[t].exists
                           /\ \A x \in live'[t].rows : x.good /\ x.run <= run'[d]
    BY <1>1, <1>c
  <2>2. ASSUME NEW t \in Owned(d), NEW u \in Owned(d)
        PROVE  Runs(live'[t]) = Runs(live'[u])
    <3>1. Runs(live[t]) = Runs(live[u])
      BY DEF IInv, DagInv, LiveInv
    <3> QED BY <1>c, <3>1
  <2> QED BY <2>1, <2>2 DEF LiveInv, Owned
<1> QED BY <1>1, <1>2, <1>4, <1>7, <1>8, <1>9, OneDag DEF DagInv, Owned

LEMMA StepDropPending ==
  ASSUME IInv, TypeOK', NEW d \in Dag, DropPending(d) PROVE IInv'
<1>1. /\ stage[d] = "drop" /\ TypeOK
      /\ UNCHANGED <<live, staged, todo, run, outcome>>
      /\ \A t \in Table : /\ t \notin Owned(d) => pending'[t] = pending[t]
                          /\ t \in Owned(d) => pending'[t] = NoTable
  BY DEF DropPending, IInv
<1>2. stage'[d] = "report" /\ \A t \in Owned(d) : t \in Table
  BY <1>1, WapAssumption DEF DropPending, TypeOK, Owned
<1>3. \A e \in Dag : e # d => Same(e)
  <2> SUFFICES ASSUME NEW e \in Dag, e # d PROVE Same(e)
    OBVIOUS
  <2>1. \A t \in Owned(e) : pending'[t] = pending[t]
    BY <1>1, Disjoint
  <2> QED BY <1>1, <2>1 DEF DropPending, Same, TypeOK
<1>4. RefInv'
  <2>1. \A t \in Table : pending'[t].rows \subseteq pending[t].rows
    BY <1>1 DEF NoTable
  <2> QED BY <1>1, <2>1, RefFrame DEF IInv
<1>5. Published(d)'
  <2>1. \A t \in Owned(d) : ~pending'[t].exists
    BY <1>1, <1>2 DEF NoTable
  <2>2. \A t \in Owned(d) : live[t].exists /\ run[d] \in Runs(live[t])
    BY <1>1 DEF IInv, DagInv, StageInv, Published, Landed
  <2> QED BY <1>1, <2>1, <2>2 DEF Published, Landed, Owned, Runs
<1>6. outcome'[d] = "none"
  BY <1>1 DEF IInv, DagInv, StageInv, TypeOK
<1>7. StageInv(d)'
  BY <1>2, <1>5, <1>6 DEF StageInv
<1>8. TxnInv(d)' /\ LiveInv(d)'
  BY <1>1, <1>2, TxnFrame, LiveFrame DEF IInv
<1>9. (todo[d] \subseteq Owned(d))'
  BY <1>1 DEF IInv, DagInv, Owned
<1> QED BY <1>3, <1>4, <1>7, <1>8, <1>9, OneDag DEF DagInv

LEMMA StepDropFails ==
  ASSUME IInv, TypeOK', NEW d \in Dag, DropFails(d) PROVE IInv'
<1>1. /\ stage[d] = "drop" /\ TypeOK
      /\ UNCHANGED <<live, pending, staged, todo, run, outcome>>
  BY DEF DropFails, IInv, tableVars
<1>2. stage'[d] = "report"
  BY <1>1 DEF DropFails, TypeOK
<1>3. \A e \in Dag : e # d => Same(e)
  BY <1>1 DEF DropFails, Same, TypeOK
<1>4. RefInv'
  BY <1>1, RefFrame DEF IInv
<1>5. Published(d)'
  BY <1>1, TablesFrame DEF IInv, DagInv, StageInv
<1>6. outcome'[d] = "none"
  BY <1>1 DEF IInv, DagInv, StageInv, TypeOK
<1>7. StageInv(d)'
  BY <1>2, <1>5, <1>6 DEF StageInv
<1>8. TxnInv(d)' /\ LiveInv(d)'
  BY <1>1, <1>2, TxnFrame, LiveFrame DEF IInv
<1>9. (todo[d] \subseteq Owned(d))'
  BY <1>1 DEF IInv, DagInv, Owned
<1> QED BY <1>3, <1>4, <1>7, <1>8, <1>9, OneDag DEF DagInv

LEMMA StepPublishSucceeds ==
  ASSUME IInv, TypeOK', NEW d \in Dag, PublishSucceeds(d) PROVE IInv'
<1>1. /\ stage[d] = "report" /\ TypeOK /\ EnterTask(d, "after")
      /\ UNCHANGED <<live, pending, staged, run, outcome>>
  BY DEF PublishSucceeds, IInv, tableVars
<1>2. stage'[d] = "after" /\ todo'[d] = {}
  BY <1>1, Entered DEF TaskTables
<1>3. \A e \in Dag : e # d => Same(e)
  BY <1>1, Entered DEF Same
<1>4. RefInv'
  BY <1>1, RefFrame DEF IInv
<1>5. Published(d)'
  BY <1>1, TablesFrame DEF IInv, DagInv, StageInv
<1>6. outcome'[d] = "none"
  BY <1>1 DEF IInv, DagInv, StageInv, TypeOK
<1>7. StageInv(d)'
  BY <1>2, <1>5, <1>6 DEF StageInv
<1>8. TxnInv(d)' /\ LiveInv(d)'
  BY <1>1, <1>2, TxnFrame, LiveFrame DEF IInv
<1> QED BY <1>2, <1>3, <1>4, <1>7, <1>8, OneDag DEF DagInv

LEMMA StepEndRun ==
  ASSUME IInv, TypeOK', NEW d \in Dag, NEW state \in {"success", "failed"},
         EndRun(d, state), stage[d] \in {"after", "failed"},
         state = "success" => stage[d] = "after"
  PROVE  IInv'
<1>1. /\ TypeOK /\ stage'[d] = "idle" /\ outcome'[d] = state
      /\ UNCHANGED <<live, pending, staged, todo, run>>
  BY DEF EndRun, IInv, TypeOK, tableVars
<1>2. \A e \in Dag : e # d => Same(e)
  BY <1>1 DEF EndRun, Same, TypeOK
<1>3. RefInv'
  BY <1>1, RefFrame DEF IInv
<1>4. state = "success" => \A t \in Owned(d) : run'[d] \in Runs(live'[t])
  BY <1>1 DEF IInv, DagInv, StageInv, Published, Landed
<1>5. StageInv(d)'
  BY <1>1, <1>4 DEF StageInv, Owned
<1>6. TxnInv(d)' /\ LiveInv(d)'
  BY <1>1, TxnFrame, LiveFrame DEF IInv
<1>7. (todo[d] \subseteq Owned(d))'
  BY <1>1 DEF IInv, DagInv, Owned
<1> QED BY <1>2, <1>3, <1>5, <1>6, <1>7, OneDag DEF DagInv

LEMMA InvNext == IInv /\ [Next]_vars => IInv'
<1> SUFFICES ASSUME IInv, [Next]_vars PROVE IInv'
  OBVIOUS
<1>0. TypeOK'
  BY TypeNext DEF IInv
<1>1. CASE UNCHANGED vars
  <2>1. \A e \in Dag : Same(e)
    BY <1>1 DEF Same, vars, tableVars, dagVars
  <2>2. RefInv'
    BY <1>1, RefFrame DEF vars, tableVars, IInv
  <2> QED BY <1>0, <2>1, <2>2, Frame DEF IInv
<1>2. ASSUME NEW d \in Dag, StartRun(d) PROVE IInv'
  BY <1>0, <1>2, StepStartRun
<1>3. ASSUME NEW d \in Dag, TaskStep(d) PROVE IInv'
  <2>1. CASE \E t \in Table : CloneTable(d, t)
    BY <1>0, <2>1, StepClone
  <2>2. CASE \E t \in Table : ReplaceTable(d, t)
    BY <1>0, <2>2, StepReplaceTable
  <2>3. CASE \E t \in Table, good \in BOOLEAN, ref \in 0..MaxRuns :
               BuildModel(d, t, good, ref)
    BY <1>0, <2>3, StepBuild
  <2>4. CASE TestsPass(d) \/ GatePasses(d) \/ BeginPublish(d)
    BY <1>0, <2>4, StepTestsPass, StepGatePasses, StepBeginPublish
  <2>5. CASE TestsFail(d) \/ PreflightAborts(d) \/ AttemptDies(d)
    <3>1. AttemptFails(d) /\ stage[d] \in TaskSteps
      BY <2>5 DEF TestsFail, PreflightAborts, AttemptDies, TaskSteps
    <3> QED BY <1>0, <3>1, StepAttemptFails
  <2>6. CASE CommitPublish(d) \/ DropPending(d) \/ DropFails(d) \/ PublishSucceeds(d)
    BY <1>0, <2>6, StepCommit, StepDropPending, StepDropFails, StepPublishSucceeds
  <2>7. CASE RunSucceeds(d) \/ AfterTaskFails(d) \/ RunFails(d)
    <3>1. \E state \in {"success", "failed"} :
            /\ EndRun(d, state)
            /\ stage[d] \in {"after", "failed"}
            /\ state = "success" => stage[d] = "after"
      BY <2>7 DEF RunSucceeds, AfterTaskFails, RunFails
    <3> QED BY <1>0, <3>1, StepEndRun
  <2> QED BY <1>3, <2>1, <2>2, <2>3, <2>4, <2>5, <2>6, <2>7 DEF TaskStep
<1> QED BY <1>1, <1>2, <1>3 DEF Next

LEMMA Invariance == Spec => []IInv
<1> QED BY InvInit, InvNext, PTL DEF Spec

-------------------------------------------------------------------------------
(* What readers of live Gold can rely on                                   *)

(* Two tables of one DAG never show different publishes. *)
THEOREM AtomicScope == Spec => []ScopePublishedTogether
<1>1. IInv => ScopePublishedTogether
  BY DEF IInv, DagInv, LiveInv, ScopePublishedTogether
<1> QED BY <1>1, Invariance, PTL

(* No row the audit rejects is ever visible. *)
THEOREM AuditedOnly == Spec => []OnlyAuditedLive
<1>1. IInv => OnlyAuditedLive
  <2> SUFFICES ASSUME IInv, NEW t \in Table, NEW x \in live[t].rows PROVE x.good
    BY DEF OnlyAuditedLive
  <2>1. PICK d \in Dag : t \in Owned(d)
    BY WapAssumption DEF Owned
  <2> QED BY <2>1 DEF IInv, DagInv, LiveInv
<1> QED BY <1>1, Invariance, PTL

(* Facts refer to dim_product versions that live dim_product has. *)
THEOREM RefsResolve == Spec => []FactRefsResolve
<1>1. IInv => FactRefsResolve
  BY DEF IInv, RefInv, FactRefsResolve
<1> QED BY <1>1, Invariance, PTL

(* A run Airflow calls successful has published all its tables. *)
THEOREM SuccessPublishes == Spec => []SuccessMeansPublished
<1>1. IInv => SuccessMeansPublished
  BY DEF IInv, DagInv, StageInv, SuccessMeansPublished
<1> QED BY <1>1, Invariance, PTL

(* The only step that changes live is a commit, and it keeps every row.    *)
LEMMA LiveChanges ==
  ASSUME IInv, [Next]_vars, live' # live
  PROVE  \E d \in Dag : CommitPublish(d)
<1> SUFFICES ASSUME NEW d \in Dag, StartRun(d) \/ TaskStep(d) PROVE CommitPublish(d)
  BY DEF Next, vars, tableVars
<1> QED BY DEF StartRun, TaskStep, CloneTable, ReplaceTable, BuildModel, TestsPass,
               TestsFail, GatePasses, PreflightAborts, BeginPublish, DropPending,
               DropFails, PublishSucceeds, RunSucceeds, AfterTaskFails, RunFails,
               AttemptDies, AttemptFails, EndRun, tableVars

LEMMA RowsKept ==
  IInv /\ [Next]_vars => [\A t \in Table : live[t].rows \subseteq live'[t].rows]_vars
<1> SUFFICES ASSUME IInv, [Next]_vars, NEW t \in Table
             PROVE  live[t].rows \subseteq live'[t].rows
  OBVIOUS
<1>1. CASE live' = live
  BY <1>1
<1>2. ASSUME NEW d \in Dag, CommitPublish(d) PROVE live[t].rows \subseteq live'[t].rows
  <2>1. CASE t \in Owned(d)
    BY <1>2, <2>1, CommitInstalls
  <2>2. CASE t \notin Owned(d)
    BY <1>2, <2>2 DEF CommitPublish
  <2> QED BY <2>1, <2>2
<1> QED BY <1>1, <1>2, LiveChanges

(* No publish takes away a row readers already had. *)
THEOREM HistorySurvives == Spec => HistoryKept
<1> QED BY Invariance, RowsKept, PTL DEF Spec, HistoryKept

-------------------------------------------------------------------------------
(* Write-Audit-Publish implements AtomicGold                               *)

RunBound ==
  \A d \in Dag : run[d] \in 0..MaxRuns /\ (stage[d] # "idle" => run[d] # 0)

LEMMA RunBoundNext == TypeOK /\ RunBound /\ [Next]_vars => RunBound'
<1> SUFFICES ASSUME TypeOK, RunBound, [Next]_vars PROVE RunBound'
  OBVIOUS
<1>1. CASE UNCHANGED vars
  BY <1>1 DEF RunBound, vars, dagVars
<1>2. ASSUME NEW d \in Dag, StartRun(d) PROVE RunBound'
  BY <1>2, WapAssumption DEF StartRun, EnterTask, RunBound, TypeOK
<1>3. ASSUME NEW d \in Dag, TaskStep(d) PROVE RunBound'
  <2>1. run' = run
    BY <1>3 DEF TaskStep, CloneTable, ReplaceTable, BuildModel, TestsPass,
                TestsFail, GatePasses, PreflightAborts, BeginPublish,
                CommitPublish, DropPending, DropFails, PublishSucceeds,
                RunSucceeds, AfterTaskFails, RunFails, AttemptDies,
                AttemptFails, EndRun
  <2>2. stage[d] # "idle"
    BY <1>3 DEF TaskStep, CloneTable, ReplaceTable, BuildModel, TestsPass,
                TestsFail, GatePasses, PreflightAborts, BeginPublish,
                CommitPublish, DropPending, DropFails, PublishSucceeds,
                RunSucceeds, AfterTaskFails, RunFails, AttemptDies, TaskSteps
  <2>3. \A e \in Dag : e # d => stage'[e] = stage[e]
    BY <1>3 DEF TaskStep, CloneTable, ReplaceTable, BuildModel, TestsPass,
                TestsFail, GatePasses, PreflightAborts, BeginPublish,
                CommitPublish, DropPending, DropFails, PublishSucceeds,
                RunSucceeds, AfterTaskFails, RunFails, AttemptDies,
                AttemptFails, EndRun, HandledTable, EnterTask, TypeOK
  <2> QED BY <2>1, <2>2, <2>3 DEF RunBound
<1> QED BY <1>1, <1>2, <1>3 DEF Next

LEMMA RunBounded == Spec => []RunBound
<1>1. Init => RunBound
  BY WapAssumption DEF Init, RunBound
<1> QED BY <1>1, RunBoundNext, TypeCorrect, PTL DEF Spec

(* The view of live that AtomicGold is about. *)
LEMMA StepRefines ==
  IInv /\ RunBound /\ [Next]_vars => [Abstract!Next]_([t \in Table |-> Runs(live[t])])
<1> DEFINE shown == [t \in Table |-> Runs(live[t])]
<1> SUFFICES ASSUME IInv, RunBound, [Next]_vars, shown' # shown
             PROVE  Abstract!Next
  OBVIOUS
<1>1. live' # live
  OBVIOUS
<1>2. PICK d \in Dag : CommitPublish(d)
  BY <1>1, LiveChanges
<1>3. /\ stage[d] = "insert" /\ run[d] \in 1..MaxRuns /\ TypeOK
      /\ Owned(d) \subseteq Table
  BY <1>2, WapAssumption DEF CommitPublish, RunBound, IInv, TypeOK, Owned
<1>4. ASSUME NEW t \in Owned(d)
      PROVE  Runs(live'[t]) = Runs(live[t]) \cup {run[d]}
  BY <1>2, CommitInstalls, Zenon
<1>5. \A t \in Table : t \notin Owned(d) => Runs(live'[t]) = Runs(live[t])
  BY <1>2 DEF CommitPublish
<1>6. CASE Published(d)
  <2>1. \A t \in Owned(d) : Runs(live'[t]) = Runs(live[t])
    BY <1>4, <1>6 DEF Published, Landed
  <2> QED BY <1>5, <2>1
<1>7. CASE Publishable(d)
  <2>1. ASSUME NEW t \in Owned(d), NEW q \in Runs(live[t]) PROVE q < run[d]
    <3>1. PICK x \in live[t].rows : x.run = q
      BY DEF Runs
    <3>2. x.run \in Nat /\ run[d] \in Nat
      BY <1>3 DEF TypeOK, TableState, Row
    <3>3. x.run <= run[d]
      BY DEF IInv, DagInv, LiveInv
    <3>4. x.run # run[d]
      BY <1>7 DEF Publishable, Built
    <3> QED BY <3>1, <3>2, <3>3, <3>4
  <2>2. \A t \in Scope[d] : \A q \in shown[t] : q < run[d]
    BY <1>3, <2>1 DEF Owned
  <2>3. shown' = [t \in Table |-> IF t \in Scope[d] THEN shown[t] \cup {run[d]}
                                                   ELSE shown[t]]
    BY <1>3, <1>4, <1>5 DEF Owned
  <2>4. Abstract!Publish(d, run[d])
    BY <2>2, <2>3 DEF Abstract!Publish
  <2> QED BY <1>3, <2>4 DEF Abstract!Next
<1> QED BY <1>3, <1>6, <1>7 DEF IInv, DagInv, StageInv

(* Every behaviour of the pipeline is, to the readers of live, a behaviour *)
(* of AtomicGold.                                                          *)
THEOREM Implements == Spec => ImplementsAtomicGold
<1>1. Init => Abstract!Init
  <2> SUFFICES ASSUME Init, NEW t \in Table PROVE Runs(live[t]) = {}
    BY DEF Abstract!Init
  <2> QED BY DEF Init, NoTable, EmptyTable, Runs
<1> QED BY <1>1, Invariance, RunBounded, StepRefines, PTL
        DEF Spec, ImplementsAtomicGold, Abstract!Spec
===============================================================================
