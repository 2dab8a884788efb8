--------------------------- MODULE MetadataObserver ---------------------------
(***************************************************************************)
(* The operational metadata database (ADR-008): what                       *)
(* scripts/common/metadata_observer.py and plugins/metadata_airflow.py     *)
(* write to meta.* while the DAGs run.  Every statement commits by itself, *)
(* the DAGs write side by side, and whatever fails is logged and given up: *)
(* fail-open.  meta.layer_catalog stands for meta.metric_catalog too,      *)
(* which seed_catalogs fills by the same loop.                             *)
(***************************************************************************)
EXTENDS Integers, FiniteSets

CONSTANTS
  Dag,          \* DAGs that start with metadata_start
  Quality,      \* those of them that measure freshness
  Gated,        \* those with a row-count gate
  Object,       \* objects a catalog YAML may list
  CliAttempts,  \* attempts of _with_retries, 3 in the code
  MaxRuns,      \* bound: runs of a DAG
  MaxTries,     \* bound: tries of all tasks
  MaxFaults,    \* bound: statements that fail
  MaxDeploys    \* bound: deployed versions of the YAML

ASSUME ObserverAssumption ==
  /\ Quality \subseteq Dag /\ Gated \subseteq Dag
  /\ CliAttempts \in Nat \ {0}
  /\ {MaxRuns, MaxTries, MaxFaults, MaxDeploys} \subseteq Nat

(* execution_id_for_context: uuid5 of dag_id:run_id                        *)
Run == Dag \X (1..MaxRuns)

(* What bash tasks file under when metadata_start left no XCom: Jinja      *)
(* renders it as "None", for every DAG alike.                              *)
NoId == <<>>

(* Tasks that write to meta, in the order of their DAGs.  The quality      *)
(* DAG's two run side by side, in tables of their own.                     *)
Task == {"dbt", "gate", "publish", "ge", "freshness"}
Bash == {"dbt", "ge"}
TasksOf(d) ==
  IF d \in Quality THEN {"ge", "freshness"}
  ELSE {"dbt", "publish"} \cup {t \in {"gate"} : d \in Gated}
Needs(d, t) ==
  IF t = "gate" THEN {"dbt"} ELSE IF t = "publish" THEN TasksOf(d) \ {t} ELSE {}

(* The checks one try of a task records.                                   *)
ChecksOf(t) ==
  IF t = "dbt" THEN {"model", "test"} ELSE IF t = "freshness" THEN {} ELSE {t}

VARIABLES
  listed, version,   \* the deployed YAML: its objects, and which version it is
  catalog,           \* meta.layer_catalog: rows [object, version, by]
  runs,              \* meta.pipeline_run: execution id -> status
  dq,                \* meta.dq_check_result
  fresh,             \* meta.table_freshness
  run,               \* number of the DAG's run; 0: none yet
  pc,                \* the statement the DAG is at
  xcom,              \* metadata_execution_id was pushed
  plan,              \* the YAML the seed read
  left, item,        \* what the loop has still to write, and what it is at
  task, try, cli,    \* task running, its try, attempt of _with_retries
  result,            \* of the try
  done, failed,      \* tasks of the run that are over
  faults, tries,     \* counters
  alone,             \* history: no other seed has run since this one began
  gaveUp,            \* history: this try has given a record up
  found, foundEver   \* history: breaches measured by this try, by this run

yamlVars == <<listed, version>>
metaVars == <<catalog, runs, dq, fresh>>
loopVars == <<left, item>>
tryVars  == <<task, try, cli, result, gaveUp, found, foundEver>>
runVars  == <<run, xcom, plan, done, failed, alone>>
countVars == <<faults, tries>>
vars == <<yamlVars, metaVars, loopVars, tryVars, runVars, countVars, pc>>

Id(d) == <<d, run[d]>>
Nothing == "nothing"
NoPlan == [objects |-> {}, version |-> 0]

Status == {"none", "RUNNING", "SUCCESS", "FAILED"}
Sla == {"breach", "none"}  \* none: ok, warn or unknown
Result == [id : Run \cup {NoId}, check : UNION {ChecksOf(t) : t \in Task},
           run : Run, try : 1..MaxTries]
CatalogRow == [object : Object, version : 0..MaxDeploys, by : Run]
FreshRow == [run : Run, object : Object, status : Sla]

Seeding == {"delete_object", "insert_object", "delete_absent"}
Recording == {"delete", "insert"}
Measuring == {"probe", "insert_fresh", "breaches"}

TypeOK ==
  /\ listed \subseteq Object /\ version \in 0..MaxDeploys
  /\ catalog \subseteq CatalogRow /\ runs \in [Run -> Status]
  /\ dq \subseteq Result /\ fresh \subseteq FreshRow
  /\ run \in [Dag -> 0..MaxRuns] /\ try \in [Dag -> 0..MaxTries]
  /\ \A d \in Dag :
       /\ pc[d] \in {"idle", "delete_run", "insert_run", "tasks", "verdict"}
                    \cup Seeding \cup Recording \cup Measuring
       /\ pc[d] # "idle" => run[d] > 0
       /\ plan[d].objects \subseteq Object /\ plan[d].version \in 0..MaxDeploys
       /\ pc[d] \in Recording => task[d] \in Task /\ left[d] \subseteq ChecksOf(task[d])
       /\ pc[d] \in Measuring => task[d] = "freshness" /\ left[d] \subseteq Object
       /\ cli[d] \in 0..CliAttempts
       /\ done[d] \cup failed[d] \subseteq TasksOf(d)
       /\ found[d] \subseteq foundEver[d] /\ foundEver[d] \subseteq Object
  /\ faults \in 0..MaxFaults /\ tries \in 0..MaxTries

Init ==
  /\ listed = Object /\ version = 0
  /\ catalog = {} /\ runs = [r \in Run |-> "none"] /\ dq = {} /\ fresh = {}
  /\ run = [d \in Dag |-> 0] /\ pc = [d \in Dag |-> "idle"]
  /\ xcom = [d \in Dag |-> FALSE] /\ plan = [d \in Dag |-> NoPlan]
  /\ left = [d \in Dag |-> {}] /\ item = [d \in Dag |-> Nothing]
  /\ task = [d \in Dag |-> Nothing] /\ result = [d \in Dag |-> Nothing]
  /\ try = [d \in Dag |-> 0] /\ cli = [d \in Dag |-> 0]
  /\ done = [d \in Dag |-> {}] /\ failed = [d \in Dag |-> {}]
  /\ alone = [d \in Dag |-> FALSE] /\ gaveUp = [d \in Dag |-> FALSE]
  /\ found = [d \in Dag |-> {}] /\ foundEver = [d \in Dag |-> {}]
  /\ faults = 0 /\ tries = 0

Go(d, at) == pc' = [pc EXCEPT ![d] = at]
Loop(d, over) == left' = [left EXCEPT ![d] = over] /\ item' = [item EXCEPT ![d] = Nothing]

Fault == faults < MaxFaults /\ faults' = faults + 1 /\ UNCHANGED tries

(* A release with another catalog.                                         *)
Deploy(objects) ==
  /\ version < MaxDeploys /\ objects # listed
  /\ listed' = objects /\ version' = version + 1
  /\ UNCHANGED <<metaVars, loopVars, tryVars, runVars, pc, countVars>>

-------------------------------------------------------------------------------
(* metadata_start: start_pipeline_run, then seed_catalogs                  *)

(* The next run of the DAG, or the last one cleared and run again.         *)
StartRun(d, r) ==
  /\ pc[d] = "idle"
  /\ r \in {run[d], run[d] + 1} \cap 1..MaxRuns
  /\ Go(d, "delete_run")
  /\ run' = [run EXCEPT ![d] = r]
  /\ xcom' = [xcom EXCEPT ![d] = FALSE]
  /\ done' = [done EXCEPT ![d] = {}] /\ failed' = [failed EXCEPT ![d] = {}]
  /\ foundEver' = [foundEver EXCEPT ![d] = IF r = run[d] THEN @ ELSE {}]
  /\ UNCHANGED <<yamlVars, metaVars, loopVars, plan, alone, countVars,
                 task, try, cli, result, gaveUp, found>>

(* Or only tasks of it are cleared, with those downstream of them.         *)
ClearTasks(d, ts) ==
  /\ pc[d] = "idle" /\ tries < MaxTries
  /\ ts # {} /\ ts \subseteq done[d] \cup failed[d]
  /\ done' = [done EXCEPT ![d] = {t \in @ \ ts : Needs(d, t) \cap ts = {}}]
  /\ failed' = [failed EXCEPT ![d] = {t \in @ \ ts : Needs(d, t) \cap ts = {}}]
  /\ Go(d, "tasks")
  /\ UNCHANGED <<yamlVars, metaVars, loopVars, tryVars, countVars, run, xcom, plan, alone>>

DeleteRun(d) ==
  /\ pc[d] = "delete_run"
  /\ runs' = [runs EXCEPT ![Id(d)] = "none"]
  /\ Go(d, "insert_run")
  /\ UNCHANGED <<yamlVars, catalog, dq, fresh, loopVars, tryVars, runVars, countVars>>

(* The row, the XCom, and the YAML files the seed loads.                   *)
InsertRun(d) ==
  /\ pc[d] = "insert_run"
  /\ runs' = [runs EXCEPT ![Id(d)] = "RUNNING"]
  /\ xcom' = [xcom EXCEPT ![d] = TRUE]
  /\ plan' = [plan EXCEPT ![d] = [objects |-> listed, version |-> version]]
  /\ alone' = [e \in Dag |-> e = d /\ \A f \in Dag : pc[f] \notin Seeding]
  /\ Loop(d, listed)
  /\ Go(d, "delete_object")
  /\ UNCHANGED <<yamlVars, catalog, dq, fresh, tryVars, run, done, failed, countVars>>

DeleteObject(d, o) ==
  /\ pc[d] = "delete_object" /\ o \in left[d]
  /\ catalog' = {r \in catalog : r.object # o}
  /\ item' = [item EXCEPT ![d] = o]
  /\ Go(d, "insert_object")
  /\ UNCHANGED <<yamlVars, runs, dq, fresh, left, tryVars, runVars, countVars>>

SeedRow(d, o) == [object |-> o, version |-> plan[d].version, by |-> Id(d)]

InsertObject(d) ==
  /\ pc[d] = "insert_object"
  /\ catalog' = catalog \cup {SeedRow(d, item[d])}
  /\ Loop(d, left[d] \ {item[d]})
  /\ Go(d, IF left[d] = {item[d]} THEN "delete_absent" ELSE "delete_object")
  /\ UNCHANGED <<yamlVars, runs, dq, fresh, tryVars, runVars, countVars>>

(* Mutant: retired objects stay. *)
DeleteAbsentNothing(d) ==
  /\ pc[d] = "delete_absent"
  /\ Go(d, "tasks")
  /\ plan' = [plan EXCEPT ![d] = NoPlan] /\ alone' = [alone EXCEPT ![d] = FALSE]
  /\ UNCHANGED <<yamlVars, metaVars, loopVars, tryVars, run, xcom, done, failed, countVars>>

(* _delete_absent, the seed's last statement.                              *)
DeleteAbsent(d) ==
  /\ pc[d] = "delete_absent"
  /\ catalog' = {r \in catalog : r.object \in plan[d].objects}
  /\ Go(d, "tasks")
  /\ plan' = [plan EXCEPT ![d] = NoPlan] /\ alone' = [alone EXCEPT ![d] = FALSE]
  /\ UNCHANGED <<yamlVars, runs, dq, fresh, loopVars, tryVars, run, xcom, done, failed, countVars>>

(* The task is killed, and its retry starts from the beginning.            *)
StartKilled(d) ==
  /\ pc[d] \in {"delete_run", "insert_run"} \cup Seeding
  /\ Fault
  /\ Go(d, "delete_run") /\ Loop(d, {})
  /\ xcom' = [xcom EXCEPT ![d] = FALSE]
  /\ plan' = [plan EXCEPT ![d] = NoPlan] /\ alone' = [alone EXCEPT ![d] = FALSE]
  /\ UNCHANGED <<yamlVars, metaVars, tryVars, run, done, failed>>

(* on_dag_start logs the error and ends well; what is written stays.       *)
StartFails(d) ==
  /\ pc[d] \in {"delete_run", "insert_run"} \cup Seeding
  /\ Fault
  /\ Go(d, "tasks") /\ Loop(d, {})
  /\ plan' = [plan EXCEPT ![d] = NoPlan] /\ alone' = [alone EXCEPT ![d] = FALSE]
  /\ UNCHANGED <<yamlVars, metaVars, tryVars, run, xcom, done, failed>>

-------------------------------------------------------------------------------
(* Tasks that record results: dbt_task_bash, ge_bash_with_metadata, and    *)
(* _emit_metadata of the row-count gate and of the publish                 *)

Startable(d) == {t \in TasksOf(d) \ (done[d] \cup failed[d]) : Needs(d, t) \subseteq done[d]}

BeginTry(d, t) ==
  /\ pc[d] = "tasks" /\ t \in Startable(d) /\ tries < MaxTries
  /\ task' = [task EXCEPT ![d] = t]
  /\ tries' = tries + 1 /\ UNCHANGED faults
  /\ try' = [try EXCEPT ![d] = tries']

(* The try does its work and turns to the records; a publish that fails    *)
(* raises before it has any.                                               *)
StartTry(d, t, r) ==
  /\ t # "freshness"
  /\ BeginTry(d, t)
  /\ result' = [result EXCEPT ![d] = r]
  /\ cli' = [cli EXCEPT ![d] = 1]
  /\ IF t = "publish" /\ r = "fail"
     THEN Go(d, "verdict") /\ UNCHANGED loopVars /\ gaveUp' = [gaveUp EXCEPT ![d] = TRUE]
     ELSE Go(d, "delete") /\ Loop(d, ChecksOf(t)) /\ UNCHANGED gaveUp
  /\ UNCHANGED <<yamlVars, metaVars, runVars, found, foundEver>>

FileId(d) == IF task[d] \in Bash /\ ~xcom[d] THEN NoId ELSE Id(d)

(* Mutant: rows of the check are kept when it is recorded again. *)
DeleteResultNone(d, c) ==
  /\ pc[d] = "delete" /\ c \in left[d]
  /\ item' = [item EXCEPT ![d] = c]
  /\ Go(d, "insert")
  /\ UNCHANGED <<yamlVars, metaVars, left, tryVars, runVars, countVars>>

DeleteResult(d, c) ==
  /\ pc[d] = "delete" /\ c \in left[d]
  /\ dq' = {x \in dq : x.id # FileId(d) \/ x.check # c}
  /\ item' = [item EXCEPT ![d] = c]
  /\ Go(d, "insert")
  /\ UNCHANGED <<yamlVars, catalog, runs, fresh, left, tryVars, runVars, countVars>>

ResultRow(d, id, c) ==
  [id |-> id, check |-> c, run |-> Id(d), try |-> try[d]]

InsertResult(d) ==
  /\ pc[d] = "insert"
  /\ dq' = dq \cup {ResultRow(d, FileId(d), item[d])}
  /\ Loop(d, left[d] \ {item[d]})
  /\ Go(d, IF left[d] = {item[d]} THEN "verdict" ELSE "delete")
  /\ UNCHANGED <<yamlVars, catalog, runs, fresh, tryVars, runVars, countVars>>

(* Mutant: one attempt too many. *)
CliRetriesOnce(d) ==
  /\ pc[d] \in Recording /\ task[d] \in Bash /\ cli[d] <= CliAttempts
  /\ Fault
  /\ cli' = [cli EXCEPT ![d] = @ + 1]
  /\ Loop(d, ChecksOf(task[d])) /\ Go(d, "delete")
  /\ UNCHANGED <<yamlVars, metaVars, runVars, task, try, result, gaveUp, found, foundEver>>

(* _with_retries runs the whole command again.                             *)
CliRetries(d) ==
  /\ pc[d] \in Recording /\ task[d] \in Bash /\ cli[d] < CliAttempts
  /\ Fault
  /\ cli' = [cli EXCEPT ![d] = @ + 1]
  /\ Loop(d, ChecksOf(task[d])) /\ Go(d, "delete")
  /\ UNCHANGED <<yamlVars, metaVars, runVars, task, try, result, gaveUp, found, foundEver>>

(* "|| true", except Exception; or the try is killed.                      *)
RecordFails(d, r) ==
  /\ pc[d] \in Recording /\ r \in {result[d], "killed"}
  /\ r = result[d] => task[d] \notin Bash \/ cli[d] = CliAttempts
  /\ Fault
  /\ result' = [result EXCEPT ![d] = r]
  /\ gaveUp' = [gaveUp EXCEPT ![d] = TRUE]
  /\ Loop(d, {}) /\ Go(d, "verdict")
  /\ UNCHANGED <<yamlVars, metaVars, runVars, task, try, cli, found, foundEver>>

-------------------------------------------------------------------------------
(* collect_freshness_task                                                  *)

StartFreshness(d) ==
  /\ BeginTry(d, "freshness")
  /\ Loop(d, listed)
  /\ Go(d, "probe")
  /\ UNCHANGED <<yamlVars, metaVars, runVars, cli, result, gaveUp, found, foundEver>>

(* Probe one table and delete the run's row of it.                         *)
Probe(d, o, s) ==
  /\ pc[d] = "probe" /\ o \in left[d]
  /\ fresh' = {x \in fresh : x.run # Id(d) \/ x.object # o}
  /\ item' = [item EXCEPT ![d] = [object |-> o, status |-> s]]
  /\ IF s # "breach" THEN UNCHANGED <<found, foundEver>>
     ELSE /\ found' = [found EXCEPT ![d] = @ \cup {o}]
          /\ foundEver' = [foundEver EXCEPT ![d] = @ \cup {o}]
  /\ Go(d, "insert_fresh")
  /\ UNCHANGED <<yamlVars, catalog, runs, dq, left, runVars, countVars,
                 task, try, cli, result, gaveUp>>

InsertFresh(d) ==
  /\ pc[d] = "insert_fresh"
  /\ fresh' = fresh \cup {[run |-> Id(d), object |-> item[d].object, status |-> item[d].status]}
  /\ Loop(d, left[d] \ {item[d].object})
  /\ Go(d, IF left[d] = {item[d].object} THEN "breaches" ELSE "probe")
  /\ UNCHANGED <<yamlVars, catalog, runs, dq, tryVars, runVars, countVars>>

(* freshness_breaches *)
Breaches(d) == {x \in fresh : x.run = Id(d) /\ x.status = "breach"}

(* A breach raises.                                                        *)
ReadBreaches(d) ==
  /\ pc[d] = "breaches"
  /\ result' = [result EXCEPT ![d] = IF Breaches(d) = {} THEN "pass" ELSE "fail"]
  /\ Go(d, "verdict")
  /\ UNCHANGED <<yamlVars, metaVars, loopVars, runVars, countVars,
                 task, try, cli, gaveUp, found, foundEver>>

(* Mutant: fail-closed. *)
FreshnessFailsClosed(d, r) ==
  /\ pc[d] \in Measuring /\ r \in {"fail", "killed"}
  /\ Fault
  /\ result' = [result EXCEPT ![d] = r]
  /\ gaveUp' = [gaveUp EXCEPT ![d] = TRUE]
  /\ Loop(d, {}) /\ Go(d, "verdict")
  /\ UNCHANGED <<yamlVars, metaVars, runVars, task, try, cli, found, foundEver>>

(* "return 0": no breach is reported, measured or not; or it is killed.    *)
FreshnessFails(d, r) ==
  /\ pc[d] \in Measuring /\ r \in {"pass", "killed"}
  /\ Fault
  /\ result' = [result EXCEPT ![d] = r]
  /\ gaveUp' = [gaveUp EXCEPT ![d] = TRUE]
  /\ Loop(d, {}) /\ Go(d, "verdict")
  /\ UNCHANGED <<yamlVars, metaVars, runVars, task, try, cli, found, foundEver>>

-------------------------------------------------------------------------------
(* The end of a try and of a run                                           *)

(* The task is over, or Airflow has a retry left for it.                   *)
EndTry(d, again) ==
  /\ pc[d] = "verdict"
  /\ again => result[d] # "pass"
  /\ done' = [done EXCEPT ![d] = IF result[d] = "pass" THEN @ \cup {task[d]} ELSE @]
  /\ failed' = [failed EXCEPT ![d] = IF result[d] # "pass" /\ ~again THEN @ \cup {task[d]} ELSE @]
  /\ task' = [task EXCEPT ![d] = Nothing] /\ result' = [result EXCEPT ![d] = Nothing]
  /\ try' = [try EXCEPT ![d] = 0] /\ cli' = [cli EXCEPT ![d] = 0] /\ gaveUp' = [gaveUp EXCEPT ![d] = FALSE]
  /\ found' = [found EXCEPT ![d] = {}]
  /\ Go(d, "tasks")
  /\ UNCHANGED <<yamlVars, metaVars, loopVars, run, xcom, plan, alone, countVars, foundEver>>

RunOver(d) == pc[d] = "tasks" /\ Startable(d) = {}

(* on_dag_success or on_dag_failure: an UPDATE, of no row if the start     *)
(* was not recorded.                                                       *)
Finalize(d) ==
  /\ RunOver(d)
  /\ runs' = [runs EXCEPT ![Id(d)] =
                IF @ = "none" THEN @ ELSE IF failed[d] = {} THEN "SUCCESS" ELSE "FAILED"]
  /\ Go(d, "idle")
  /\ UNCHANGED <<yamlVars, catalog, dq, fresh, loopVars, tryVars, runVars, countVars>>

FinalizeFails(d) ==
  /\ RunOver(d)
  /\ Fault
  /\ Go(d, "idle")
  /\ UNCHANGED <<yamlVars, metaVars, loopVars, tryVars, runVars>>

StartStep(d) ==
  \/ \E r \in 1..MaxRuns : StartRun(d, r)
  \/ \E ts \in SUBSET (done[d] \cup failed[d]) : ClearTasks(d, ts)
  \/ DeleteRun(d) \/ InsertRun(d)
  \/ \E o \in Object : DeleteObject(d, o)
  \/ InsertObject(d) \/ DeleteAbsent(d) \/ StartKilled(d) \/ StartFails(d)

RecordStep(d) ==
  \/ \E t \in Task, r \in {"pass", "fail"} : StartTry(d, t, r)
  \/ \E c \in left[d] : DeleteResult(d, c)
  \/ InsertResult(d) \/ CliRetries(d)
  \/ \E r \in {"pass", "fail", "killed"} : RecordFails(d, r)

FreshnessStep(d) ==
  \/ StartFreshness(d)
  \/ \E o \in Object, s \in Sla : Probe(d, o, s)
  \/ InsertFresh(d) \/ ReadBreaches(d)
  \/ \E r \in {"pass", "fail", "killed"} : FreshnessFails(d, r)

EndStep(d) ==
  \/ \E again \in BOOLEAN : EndTry(d, again)
  \/ Finalize(d) \/ FinalizeFails(d)

Next ==
  \/ \E objects \in (SUBSET Object) \ {{}} : Deploy(objects)
  \/ \E d \in Dag : StartStep(d) \/ RecordStep(d) \/ FreshnessStep(d) \/ EndStep(d)

Spec == Init /\ [][Next]_vars

-------------------------------------------------------------------------------
(* Properties                                                              *)

(* A seed no other seed overlapped leaves one row of every object in its   *)
(* YAML and nothing else, whatever crashed, doubled or older seeds left:   *)
(* "idempotent upserts" (01_meta_schema.sql).                              *)
CatalogRestored ==
  [][\A d \in Dag :
       pc[d] = "delete_absent" /\ pc'[d] = "tasks" /\ faults' = faults /\ alone[d]
       => catalog' = {SeedRow(d, o) : o \in plan[d].objects}]_vars

(* A try that could record leaves exactly its own result of each of its    *)
(* checks under its run, over earlier tries, cleared runs, broken loops    *)
(* and the runs of other DAGs.                                             *)
ResultsCurrent ==
  \A d \in Dag :
    pc[d] = "verdict" /\ task[d] # "freshness" /\ ~gaveUp[d] /\ FileId(d) = Id(d) =>
      \A c \in ChecksOf(task[d]) :
        {x \in dq : x.id = Id(d) /\ x.check = c} = {ResultRow(d, Id(d), c)}

(* The freshness task raises only for a breach its run has measured, and   *)
(* does raise for one this try has measured unless the metadata database   *)
(* failed it.                                                              *)
BreachRaises ==
  \A d \in Dag :
    pc[d] = "verdict" /\ task[d] = "freshness" =>
      /\ result[d] = "fail" => foundEver[d] # {}
      /\ found[d] # {} /\ ~gaveUp[d] => result[d] = "fail"

(* The id a dbt or GE task files under joins the row of its run.           *)
JoinsRun ==
  \A d \in Dag :
    pc[d] \in Recording /\ task[d] \in Bash /\ FileId(d) # NoId => runs[FileId(d)] # "none"

(* What meta and Airflow say of a try is what that try did.                *)
TriesTold == ResultsCurrent /\ BreachRaises /\ JoinsRun
===============================================================================
