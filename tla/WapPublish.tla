------------------------------ MODULE WapPublish ------------------------------
(***************************************************************************)
(* Write-Audit-Publish of the Gold marts: the clone, dbt build, dbt test,  *)
(* row-count gate and publish tasks of the three publishing DAGs           *)
(* (orchestration/airflow/dags/{warehouse_daily_batch_pipeline,            *)
(* marketing_hourly_customer_360_pipeline,                                 *)
(* catalog_bihourly_product_scd2_refresh}.py) over the Redshift tables     *)
(* that plugins/wap_publish.py copies, builds and replaces.                *)
(*                                                                         *)
(* The DAGs run concurrently; one DAG has one active run.  A task attempt  *)
(* may die anywhere (exception, timeout, lost worker); Airflow repeats the *)
(* whole task a bounded number of times and then fails the run.            *)
(***************************************************************************)
EXTENDS Naturals, FiniteSets

CONSTANTS
  Dag,          \* the publishing DAGs
  Table,        \* the tables of WAP_TABLES
  Scope,        \* Scope[d]: the tables DAG d clones, builds and publishes
  OutcomeDag,   \* DAGs that end in require_publish_succeeded (warehouse)
  GatedDag,     \* DAGs with the row-count gate before publish (warehouse)
  LeafDag,      \* DAGs whose last task comes after publish and decides the
                \* run (marketing: the serving refresh)
  DimTable,     \* dim_product, read live by other DAGs (wap_live_ref)
  FactTable,    \* tables whose models join live dim_product
  Retries,      \* "retries" of the DAG's default_args
  MaxRuns,      \* bound: runs of one DAG
  MaxFaults     \* bound: attempts that die, bad builds and failed drops

ASSUME WapAssumption ==
  /\ Scope \in [Dag -> SUBSET Table]
  /\ \A d \in Dag : Scope[d] # {}
  /\ \A d, e \in Dag : d # e => Scope[d] \cap Scope[e] = {}
  /\ Table = UNION {Scope[d] : d \in Dag}
  /\ OutcomeDag \subseteq Dag /\ GatedDag \subseteq Dag /\ LeafDag \subseteq Dag
  /\ FactTable \subseteq Table
  /\ FactTable # {} => DimTable \in Table
  /\ Retries \in Nat /\ MaxRuns \in Nat /\ MaxFaults \in Nat

VARIABLES
  live,      \* committed live tables, what every reader sees
  pending,   \* committed *_pending tables
  staged,    \* live tables as the open publish transaction sees them
  stage,     \* the task (or step of the publish task) DAG d is in
  todo,      \* tables the current attempt of the task still has to handle
  tries,     \* attempts of the current task that failed
  run,       \* number of the current (or last) run
  outcome,   \* Airflow's state of the current (or last) run
  faults     \* faults used so far, at most MaxFaults

tableVars == <<live, pending, staged>>
dagVars   == <<stage, todo, tries, run, outcome>>
vars      == <<tableVars, dagVars, faults>>

-------------------------------------------------------------------------------
(* A table's content is abstracted to one element per run: the unique keys *)
(* that run wrote.  It carries the verdict the dbt tests give those rows   *)
(* and, for a fact, the catalog run whose dim_product versions they joined *)
(* (0: none).  Every mart is incremental with delete+insert, so a run      *)
(* replaces what it wrote before and keeps the keys of other runs.         *)
Row        == [run : Nat, good : BOOLEAN, ref : Nat]
TableState == [exists : BOOLEAN, rows : SUBSET Row]
NoTable    == [exists |-> FALSE, rows |-> {}]
EmptyTable == [exists |-> TRUE, rows |-> {}]

Runs(table) == {x.run : x \in table.rows}

Owned(d) == Scope[d]

TaskSteps == {"clone", "build", "test", "gate",
              "preflight", "insert", "drop", "report"}
Stage     == TaskSteps \cup {"idle", "after", "failed"}

(* The first step of the task a step belongs to: where a retry starts. *)
TaskStart(s) == IF s \in {"insert", "drop", "report"} THEN "preflight" ELSE s

(* A retried task starts over on every table it handles. *)
TaskTables(d, s) == IF s \in {"clone", "build"} THEN Owned(d) ELSE {}

-------------------------------------------------------------------------------
TypeOK ==
  /\ live \in [Table -> TableState]
  /\ pending \in [Table -> TableState]
  /\ staged \in [Table -> TableState]
  /\ stage \in [Dag -> Stage]
  /\ todo \in [Dag -> SUBSET Table]
  /\ tries \in [Dag -> 0..Retries]
  /\ run \in [Dag -> Nat]
  /\ outcome \in [Dag -> {"none", "success", "failed"}]
  /\ faults \in 0..MaxFaults

(* A live table may not exist yet (fresh environment) or be an empty one   *)
(* the hand-written DDL created.                                           *)
Init ==
  /\ live \in [Table -> {NoTable, EmptyTable}]
  /\ pending = [t \in Table |-> NoTable]
  /\ staged = live
  /\ stage = [d \in Dag |-> "idle"]
  /\ todo = [d \in Dag |-> {}]
  /\ tries = [d \in Dag |-> 0]
  /\ run = [d \in Dag |-> 0]
  /\ outcome = [d \in Dag |-> "none"]
  /\ faults = 0

-------------------------------------------------------------------------------
(* Task control                                                            *)

EnterTask(d, s) ==
  /\ stage' = [stage EXCEPT ![d] = s]
  /\ todo' = [todo EXCEPT ![d] = TaskTables(d, s)]
  /\ tries' = [tries EXCEPT ![d] = 0]

(* Mutant: the exit code of a partial dbt run is lost, so the task succeeds  *)
(* with the first table it handles.                                        *)
HandledTableExitLost(d, t, next) == EnterTask(d, next)

(* The attempt has handled table t; the task succeeds with the last one.   *)
HandledTable(d, t, next) ==
  IF todo[d] = {t}
  THEN EnterTask(d, next)
  ELSE /\ todo' = [todo EXCEPT ![d] = @ \ {t}]
       /\ UNCHANGED <<stage, tries>>

(* Mutants: a retry too many, and retries without end. *)
AttemptFailsOffByOne(d) ==
  /\ staged' = [t \in Table |-> IF t \in Owned(d) THEN live[t] ELSE staged[t]]
  /\ IF tries[d] <= Retries
     THEN /\ tries' = [tries EXCEPT ![d] = @ + 1]
          /\ stage' = [stage EXCEPT ![d] = TaskStart(stage[d])]
          /\ todo' = [todo EXCEPT ![d] = TaskTables(d, stage[d])]
     ELSE EnterTask(d, "failed")
  /\ UNCHANGED <<live, pending, run, outcome>>

AttemptFailsForever(d) ==
  /\ staged' = [t \in Table |-> IF t \in Owned(d) THEN live[t] ELSE staged[t]]
  /\ stage' = [stage EXCEPT ![d] = TaskStart(stage[d])]
  /\ todo' = [todo EXCEPT ![d] = TaskTables(d, stage[d])]
  /\ UNCHANGED <<live, pending, tries, run, outcome>>

(* An attempt failed: its open transaction is rolled back, and the task    *)
(* starts over or, with no retry left, fails the run.                      *)
AttemptFails(d) ==
  /\ staged' = [t \in Table |-> IF t \in Owned(d) THEN live[t] ELSE staged[t]]
  /\ IF tries[d] < Retries
     THEN /\ tries' = [tries EXCEPT ![d] = @ + 1]
          /\ stage' = [stage EXCEPT ![d] = TaskStart(stage[d])]
          /\ todo' = [todo EXCEPT ![d] = TaskTables(d, stage[d])]
     ELSE EnterTask(d, "failed")
  /\ UNCHANGED <<live, pending, run, outcome>>

UseFault ==
  /\ faults < MaxFaults
  /\ faults' = faults + 1

(* The scheduler starts the next run; max_active_runs=1 keeps it from      *)
(* overlapping the previous one.                                           *)
StartRun(d) ==
  /\ stage[d] = "idle"
  /\ run[d] < MaxRuns
  /\ run' = [run EXCEPT ![d] = @ + 1]
  /\ outcome' = [outcome EXCEPT ![d] = "none"]
  /\ EnterTask(d, "clone")
  /\ UNCHANGED <<tableVars, faults>>

(* The worker dies, a statement raises or the task times out.              *)
AttemptDies(d) ==
  /\ stage[d] \in TaskSteps
  /\ UseFault
  /\ AttemptFails(d)

-------------------------------------------------------------------------------
(* Mutants: pending starts empty, and a stale pending table is kept. *)
CloneTableEmpty(d, t) ==
  /\ stage[d] = "clone"
  /\ t \in todo[d]
  /\ pending' = [pending EXCEPT ![t] = NoTable]
  /\ HandledTable(d, t, "build")
  /\ UNCHANGED <<live, staged, run, outcome, faults>>

CloneTableIfMissing(d, t) ==
  /\ stage[d] = "clone"
  /\ t \in todo[d]
  /\ pending' = [pending EXCEPT ![t] =
       IF live[t].exists /\ ~pending[t].exists THEN live[t] ELSE pending[t]]
  /\ HandledTable(d, t, "build")
  /\ UNCHANGED <<live, staged, run, outcome, faults>>

(* Clone: one transaction per table drops the stale pending table and      *)
(* copies live over it; a missing live table leaves pending absent.        *)
CloneTable(d, t) ==
  /\ stage[d] = "clone"
  /\ t \in todo[d]
  /\ pending' = [pending EXCEPT ![t] = IF live[t].exists THEN live[t] ELSE NoTable]
  /\ HandledTable(d, t, "build")
  /\ UNCHANGED <<live, staged, run, outcome, faults>>

(* The dim_product versions a fact can refer to: the current version of a  *)
(* product is the work of any published catalog run; a product the catalog *)
(* has not published yet gives no reference.                               *)
DimRefs(t) == IF t \in FactTable THEN {0} \cup Runs(live[DimTable]) ELSE {0}

(* dbt run with wap_phase='pending' builds one model.  An existing pending *)
(* relation takes the incremental branch: the rows of this run replace     *)
(* those an earlier attempt of the run left.  An absent one is built from  *)
(* scratch.                                                                *)
BuildModel(d, t, good, ref) ==
  /\ stage[d] = "build"
  /\ t \in todo[d]
  /\ ref \in DimRefs(t)
  /\ pending' = [pending EXCEPT ![t] =
       [exists |-> TRUE,
        rows   |-> {x \in pending[t].rows : x.run # run[d]}
                     \cup {[run |-> run[d], good |-> good, ref |-> ref]}]]
  /\ HandledTable(d, t, "test")
  /\ IF good THEN UNCHANGED faults ELSE UseFault
  /\ UNCHANGED <<live, staged, run, outcome>>

(* Mutant: the tests resolve to the live schema. *)
AuditLive(d) == \A t \in Owned(d) : \A x \in live[t].rows : x.good

(* dbt test reads the pending tables the DAG owns. *)
AuditOK(d) == \A t \in Owned(d) : \A x \in pending[t].rows : x.good

TestsPass(d) ==
  /\ stage[d] = "test"
  /\ AuditOK(d)
  /\ EnterTask(d, IF d \in GatedDag THEN "gate" ELSE "preflight")
  /\ UNCHANGED <<tableVars, run, outcome, faults>>

TestsFail(d) ==
  /\ stage[d] = "test"
  /\ ~AuditOK(d)
  /\ AttemptFails(d)
  /\ UNCHANGED faults

(* The gate's own arithmetic is in RowCountGate; a blocked gate is an      *)
(* attempt that dies.                                                      *)
GatePasses(d) ==
  /\ stage[d] = "gate"
  /\ EnterTask(d, "preflight")
  /\ UNCHANGED <<tableVars, run, outcome, faults>>

-------------------------------------------------------------------------------
(* Publish                                                                 *)

PendingMissing(d) == \E t \in Owned(d) : ~pending[t].exists

PreflightAborts(d) ==
  /\ stage[d] = "preflight"
  /\ PendingMissing(d)
  /\ AttemptFails(d)
  /\ UNCHANGED faults

BeginPublish(d) ==
  /\ stage[d] = "preflight"
  /\ ~PendingMissing(d)
  /\ stage' = [stage EXCEPT ![d] = "insert"]
  /\ todo' = [todo EXCEPT ![d] = Owned(d)]
  /\ UNCHANGED <<tableVars, tries, run, outcome, faults>>

(* Mutant: every statement commits on its own. *)
ReplaceTableAutocommit(d, t) ==
  /\ stage[d] = "insert"
  /\ t \in todo[d]
  /\ staged' = [staged EXCEPT ![t] = [exists |-> TRUE, rows |-> pending[t].rows]]
  /\ live' = [live EXCEPT ![t] = [exists |-> TRUE, rows |-> pending[t].rows]]
  /\ todo' = [todo EXCEPT ![d] = @ \ {t}]
  /\ UNCHANGED <<pending, stage, tries, run, outcome, faults>>

(* DELETE (or CREATE LIKE) and INSERT ... SELECT for one table, inside the *)
(* open transaction.                                                       *)
ReplaceTable(d, t) ==
  /\ stage[d] = "insert"
  /\ t \in todo[d]
  /\ staged' = [staged EXCEPT ![t] = [exists |-> TRUE, rows |-> pending[t].rows]]
  /\ todo' = [todo EXCEPT ![d] = @ \ {t}]
  /\ UNCHANGED <<live, pending, stage, tries, run, outcome, faults>>

CommitPublish(d) ==
  /\ stage[d] = "insert"
  /\ todo[d] = {}
  /\ live' = [t \in Table |-> IF t \in Owned(d) THEN staged[t] ELSE live[t]]
  /\ stage' = [stage EXCEPT ![d] = "drop"]
  /\ UNCHANGED <<pending, staged, todo, tries, run, outcome, faults>>

(* The pending copies are dropped in a transaction of their own; a failure *)
(* to drop them is logged and forgotten.                                   *)
DropPending(d) ==
  /\ stage[d] = "drop"
  /\ pending' = [t \in Table |-> IF t \in Owned(d) THEN NoTable ELSE pending[t]]
  /\ stage' = [stage EXCEPT ![d] = "report"]
  /\ UNCHANGED <<live, staged, todo, tries, run, outcome, faults>>

DropFails(d) ==
  /\ stage[d] = "drop"
  /\ UseFault
  /\ stage' = [stage EXCEPT ![d] = "report"]
  /\ UNCHANGED <<tableVars, todo, tries, run, outcome>>

(* publish_gold returned; the attempt ends when Airflow records success.   *)
PublishSucceeds(d) ==
  /\ stage[d] = "report"
  /\ EnterTask(d, "after")
  /\ UNCHANGED <<tableVars, run, outcome, faults>>

-------------------------------------------------------------------------------
(* The end of a run                                                        *)

EndRun(d, state) ==
  /\ stage' = [stage EXCEPT ![d] = "idle"]
  /\ outcome' = [outcome EXCEPT ![d] = state]
  /\ UNCHANGED <<tableVars, todo, tries, run>>

RunSucceeds(d) ==
  /\ stage[d] = "after"
  /\ EndRun(d, "success")
  /\ UNCHANGED faults

(* A task after publish fails for good.  With require_publish_succeeded as *)
(* the last task the run still succeeds.                                   *)
AfterTaskFails(d) ==
  /\ stage[d] = "after"
  /\ d \in OutcomeDag \cup LeafDag
  /\ UseFault
  /\ EndRun(d, IF d \in OutcomeDag THEN "success" ELSE "failed")

(* Mutant: the final task does not look at the publish task's state. *)
RunFailsUnchecked(d) ==
  /\ stage[d] = "failed"
  /\ EndRun(d, IF d \in OutcomeDag THEN "success" ELSE "failed")
  /\ UNCHANGED faults

RunFails(d) ==
  /\ stage[d] = "failed"
  /\ EndRun(d, "failed")
  /\ UNCHANGED faults

-------------------------------------------------------------------------------
TaskStep(d) ==
  \/ \E t \in Table : CloneTable(d, t) \/ ReplaceTable(d, t)
  \/ \E t \in Table, good \in BOOLEAN, ref \in 0..MaxRuns :
       BuildModel(d, t, good, ref)
  \/ TestsPass(d) \/ TestsFail(d) \/ GatePasses(d)
  \/ PreflightAborts(d) \/ BeginPublish(d) \/ CommitPublish(d)
  \/ DropPending(d) \/ DropFails(d) \/ PublishSucceeds(d)
  \/ RunSucceeds(d) \/ AfterTaskFails(d) \/ RunFails(d)
  \/ AttemptDies(d)

Next == \E d \in Dag : StartRun(d) \/ TaskStep(d)

Spec == Init /\ [][Next]_vars

(* A task that is running goes on: it finishes, fails or times out         *)
(* (execution_timeout), and the scheduler starts the task after it.        *)
FairSpec == Spec /\ \A d \in Dag : WF_vars(TaskStep(d))

-------------------------------------------------------------------------------
(* Properties                                                              *)

(* Readers never see two tables of one DAG at different publishes: "the    *)
(* whole owned set commits once" (publish_gold).                           *)
ScopePublishedTogether ==
  \A d \in Dag : \A t, u \in Owned(d) : Runs(live[t]) = Runs(live[u])

(* A failing audit never touches live: no row the dbt tests reject is ever *)
(* visible, whatever attempts, retries and leftovers preceded it.          *)
OnlyAuditedLive == \A t \in Table : \A x \in live[t].rows : x.good

(* History survives: a publish never takes away rows readers already had   *)
(* (the reason the clone phase exists; SCD2 history lives only in the      *)
(* table).                                                                 *)
HistoryKept == [][\A t \in Table : live[t].rows \subseteq live'[t].rows]_vars

(* Facts only refer to dim_product versions that live dim_product has,     *)
(* though the catalog DAG publishes at any moment of a warehouse run.      *)
FactRefsResolve ==
  \A t \in FactTable : \A x \in live[t].rows :
    x.ref # 0 => x.ref \in Runs(live[DimTable])

(* A run Airflow calls successful has published every table it owns.       *)
SuccessMeansPublished ==
  \A d \in Dag : outcome[d] = "success" =>
    \A t \in Owned(d) : run[d] \in Runs(live[t])

(* Every run ends, whatever dies on the way.                               *)
RunsEnd == \A d \in Dag : stage[d] = "clone" ~> stage[d] = "idle"

(* Nothing an aborted run left behind stops a later one: once faults are   *)
(* over, a run that starts goes live.                                      *)
RecoversOnceFaultsStop ==
  \A d \in Dag :
    (stage[d] = "clone" /\ faults = MaxFaults)
      ~> (outcome[d] = "success" /\ \A t \in Owned(d) : run[d] \in Runs(live[t]))

(* Live Gold seen as the runs each table shows.                            *)
Abstract == INSTANCE AtomicGold
              WITH gold <- [t \in Table |-> Runs(live[t])],
                   RunNumber <- 1..MaxRuns

(* Write-Audit-Publish implements the atomic publish it promises.          *)
ImplementsAtomicGold == Abstract!Spec
===============================================================================
