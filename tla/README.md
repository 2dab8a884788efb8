# Verification of the global retail analytics platform

TLA+ models of the parts of this repository that keep state and can go wrong in
ways its tests hardly reach, model-checked with TLC and, where it matters most,
proved with TLAPS.

## 1. The system

Three feeds (daily POS files, an inventory stream, a clickstream) end in Gold
tables on Redshift that dashboards and analysts read.

| # | Component | Code | State it keeps | Operations |
|---|---|---|---|---|
| 1 | Write-Audit-Publish | `orchestration/airflow/plugins/wap_publish.py` and the three publishing DAGs | live and pending Gold tables, the open publish transaction, task and run states | clone, build, test, publish, retry, end of run |
| 2 | Row-count gate | `plugins/row_count_reconciliation.py` | baseline Variable, the run's candidate | count, reconcile, block, save baseline |
| 3 | Consumer exports | `spark/identity_resolution/consumer_exports.py` and its callers | run directories and one manifest per export | write run, replace manifest, prune; read through a manifest |
| 4 | Inventory lambda | Bronze ledger job, `inventory_silver_job.py`, `canonical_events.py`, `int_inventory_*` models | Kafka log, Bronze records, Flink windows, Spark canonical events | capture, aggregate, rebuild, combine |
| 5 | Canonical events | `spark/identity_resolution/canonical_events.py`, `event_contract.py` | canonical, quarantine and duplicate tables | validate, deduplicate, promote |
| 6 | Identity resolution | `graph_logic.py`, `identity_resolution_job.py`, `int_identity_*`, `identity_graph` | identity graph, customer keys | build edges, connected components, assign keys |
| 7 | Product SCD2 | `dim_product.sql`, `int_product_catalog.sql` | versions of each product | close, open, backfill versions |
| 8 | Sales mart and restatement | `fact_sales.sql`, `sales_daily_store.sql`, `pos_restatement.{py,sql}` | sales rows per day | daily load with lookback, restatement |
| 9 | Inventory marts | `fact_inventory_snapshot.sql`, `inventory_position_daily.sql`, `inventory_current_position.sql` | running balances | recompute, carry forward, serve |
| 10 | Sessions, RFM, consent, customer dimension | `int_session_reconstruction.sql`, `int_rfm_scoring.sql`, `int_customer_consent.sql`, `dim_customer.sql`, `fact_customer_session.sql` | sessions, scores, consent | incremental rebuild |
| 11 | Metadata observer | `scripts/common/metadata_observer.py`, `plugins/metadata_airflow.py` | `meta.*`: run rows, catalogs, DQ results, freshness | start, seed, record, measure, finish |
| 12 | Alerting | `plugins/alerting.py` | none | publish to SNS |
| 13 | Producers and generators | `ingestion/` | none after a run | simulate feeds |
| 14 | Flink job control | `streaming_manual_flink_jobs.py`, `submit_flink_job.sh` | running jobs | submit, cancel, restore |
| 15 | Iceberg maintenance, quality checkpoint | `iceberg_maintenance.py`, the two DAGs | snapshots and files | expire, compact, validate |
| 16 | Dashboard, semantic layer | `dashboard/`, `generate_semantic_queries.py` | cached queries | read |
| 17 | Infrastructure and deployment | `infra/`, `scripts/cloud`, `.github/workflows` | cloud resources | provision, deploy |

How the parts interact. Producers write to Kafka; the Bronze jobs copy Kafka to
an Iceberg ledger, `inventory_silver_job.py` aggregates the same topic by hour.
The hourly marketing DAG starts one EMR Spark job that rebuilds canonical
events, resolves identities and publishes plain-Parquet exports behind
manifests; Redshift Spectrum reads those manifests. The daily warehouse DAG, the
hourly marketing DAG and the two-hourly catalog DAG each build their own marts
in `*_pending` schemas, test them and publish them (Write-Audit-Publish). They
share nothing but live Gold: warehouse facts join the `dim_product` the catalog
DAG publishes. Every DAG has `max_active_runs=1`, repeats a failed task
(`retries` in `DEFAULT_ARGS`) and has an execution timeout.

### What each part has to get right, and what makes it hard

1. **Write-Audit-Publish.** State: live tables, pending tables, the publish
   transaction, the task a run is in. Correct when readers only ever see whole
   publishes of tested rows, when a publish never loses rows, when facts only
   refer to published product versions and when Airflow's "success" means
   published. Hard: attempts die anywhere, also between commit and report;
   pending tables of failed runs are still there; other DAGs publish meanwhile.
2. **Row-count gate.** State: the baseline Variable, the candidate passed
   between tasks. Correct when no run takes a mart below the baseline by more
   than the threshold and the baseline only becomes counts that are live. Hard:
   publish and save are separate tasks, counts may be unreadable or zero,
   retries.
3. **Consumer exports.** State: run directories and a manifest per export.
   Correct when a manifest always lists a complete run, a scan keeps its files
   long enough and an audited build used one run. Hard: no transaction spans the
   object store, the job dies anywhere, a reader opens manifests one by one.
4. **Inventory lambda** and 5. **canonical events.** State: Kafka offsets, the
   Bronze ledger, the pinned snapshot; the Flink job's windows and watermark, its
   snapshots and the hours it committed. Correct when every row is accounted for
   once, when an hour with lost records stays provisional, when a correction
   never counts an event in a later final hour, when Flink counts an event once in
   its hour, and when what it does not count has a reason the reconciliation can
   name. Hard: partitions advance independently or fall idle, restarts replay,
   retention loses, copies conflict and claim times that have not come.
6. **Identity resolution.** State: the graph, the forest of the union-find, the
   customer keys. Correct when classes are the connected components, keys only
   move to stabler identifiers and every published identifier leads to a
   published customer. Hard: `find` rewrites what it walks; everything is
   re-resolved every hour while published rows keep older keys.
7. **Product SCD2.** State: versions per product. Correct when versions tile the
   time line and history is never rewritten. Hard: feeds are corrected after
   versions were made from them.
8. **Sales mart and restatement.** State: fact and rollup by day, the files,
   the run's window. Correct when a published day is its file's lines and the
   rollup agrees. Hard: two models with lookbacks of their own, files corrected
   between build and audit, failed runs, restatements.
9. **Inventory marts.** State: one row per moved hour with a running balance,
   dense daily positions, the serving view. Correct when upserting what differs
   leaves what a rebuild would. Hard: hours vanish or change after they were
   published, products are published in the middle of a run.
10. **Sessions, RFM, consent, customer dimension.** State: `dim_customer` and
    sessions. Correct when the latest opt-out is what counts. Hard: rows of
    superseded keys stay.
11. **Metadata observer.** State: the run rows, catalogs, DQ results and
    freshness of `meta`, and what the task writing them is at. Correct when what
    is recorded of a try is what that try did, when the freshness task fails for
    measured breaches and nothing else, and when a seed restores the catalog.
    Hard: every statement commits by itself and may fail, all failures are
    swallowed, DAGs seed the same tables at once, tries and runs repeat.
14. **Flink job control.** State: the running YARN application, the checkpoint and
    savepoint directories, the group's committed offsets. Correct when a job that
    is killed, restarted or stopped and resubmitted from its newest snapshot
    neither counts a scan twice nor forgets one. Hard: a snapshot completes before
    its rows are committed, and the job may die in between; the listing of the
    snapshots may be incomplete.

Parts 12, 13, 15, 16 and 17 keep no state of the platform's own; PROJECT.json
gives the reason for each.

## 2. Plan

Done, in this order, the most important behaviour first:

| Module | Models | Composed with |
|---|---|---|
| `WapPublish` | three DAGs' publish protocol | implements `AtomicGold` |
| `AtomicGold` | abstract: each DAG's tables move as one unit | instantiated by `WapPublish` |
| `RowCountGate` | the gate and its baseline | the arithmetic behind `WapPublish`'s gate task |
| `ConsumerExports` | exports, manifests, their readers | |
| `InventoryCoverage` | Kafka, Bronze, canonical rebuild, final hours | |
| `InventorySpeed` | the Flink silver job, its snapshots and submission, the reconciliation | reads the topic of `InventoryCoverage`; its hours are the provisional ones of `InventoryMarts` |
| `ProductVersions` | `dim_product` | its versions are what `FactTable`s and `InventoryMarts` join |
| `SalesMart` | `fact_sales`, `sales_daily_store`, restatement | one run of `WapPublish` in four steps |
| `UnionFind` | `_UnionFind`, `assign_resolution` | `Components` states what it computes |
| `CustomerMarts` | Spark resolution, `dim_customer`, `identity_graph` | uses `Components` for GraphFrames |
| `InventoryMarts` | fact, position, rollup, serving view | reads what `InventoryCoverage` decides |
| `MetadataObserver` | `meta.*` as the DAGs write it | its `publish` and `gate` tasks are those of `WapPublish` and `RowCountGate` |

Left:

1. Sessions and RFM: the two-hour cutoff of `int_session_reconstruction.sql` and
   the lookback of `fact_customer_session.sql` (sections 7 and 8 say what reading
   them showed).
2. Proofs: every safety property of the passing runs is proved; the liveness
   properties stay with TLC (section 6). What could still be stated is a composed
   specification of `InventoryCoverage`, `InventorySpeed` and `InventoryMarts`, in
   which the hours of one are the inputs of the next.

## 3. Modules, state and actions

Every module names the files it translates in its header, and PROJECT.json maps
each definition to lines. Definitions marked `Mutant:` are the same operation
with a plausible bug; they are used by no specification and are there to show
that a property notices.

**WapPublish.** A table's content is one element per run that wrote to it, with
the verdict the dbt tests give those rows and the catalog run they refer to.
`live`, `pending` and `staged` (live as the open transaction sees it) are the
tables; `stage`, `todo`, `tries`, `run`, `outcome` are the task instance.
`CloneTable` is one table of `clone_live_to_pending`; `BuildModel` one model of
`dbt run`; `TestsPass/TestsFail` `dbt test` on pending; `GatePasses` the gate;
`PreflightAborts/BeginPublish`, `ReplaceTable`, `CommitPublish`, `DropPending`,
`DropFails` and `PublishSucceeds` are `publish_gold`; `RunSucceeds`,
`AfterTaskFails`, `RunFails` are the end of a run with and without
`require_publish_succeeded`. `AttemptDies` is any death at any step: the
transaction rolls back, the task starts over or the run fails. A task is never a
single step: tables are handled one by one, in any order.

**AtomicGold.** `gold[t]` is the set of runs a reader of `t` sees; `Publish`
adds one run to all tables of a DAG. `WapPublish` implements it under
`gold <- [t |-> Runs(live[t])]`: only `CommitPublish` of a run that was not live
yet is a step, everything else stutters.

**RowCountGate.** `phase` is the task, `todo` the marts an attempt has not
counted, `current` its counts, `candidate` the XCom, `baseline` the Variable.
The two comparisons are exact fractions. `CountMart` takes the pending copy of
an owned mart and the live one of any other, or -1. `AttemptDies` covers a
death after the commit: the retry may find the pending tables (their drop
failed) and publish again.

**ConsumerExports.** `CreateRunDir`, `FinishWrite`, `ReplaceManifest`,
`DeleteFiles`, `DeleteDir` and `NextExport` are `publish()` for each export in
the job's order; `complete` is the directories all of whose files are there.
`StartQuery`, `OpenManifest`, `ScanEnds/ScanFails` are a query that resolves
each manifest at its own moment; `AuditPasses/AuditFails` the dbt test on
`export_run_id`.

**InventoryCoverage.** `log[p]` is a Kafka partition, `next[p]` the offset
Bronze reads next, `bronze` its committed rows, `pinned` the snapshot of the
last rebuild. `Produce` makes first scans, retries and conflicting copies, the
last up to `Ahead` after their scan and so possibly ahead of the clock;
`Capture`, `Lose`, `Replay` are the Bronze job, `Rebuild` the Spark job.
`Canonical`, `Duplicates`, `OffsetGaps`, `GapHours`, `CoveredHours`,
`FinalHours` are the queries, as operators on `pinned`.

**InventorySpeed.** The job never looks at a clock, so the topic is chosen at the
start: a record not read yet may as well not be produced yet. The application's
memory is `next` (offsets), `high` and `idle` per partition, `watermark`, `kept`
(what the open windows hold) and `files` (rows of closed windows since the last
snapshot); `retained` is the newest snapshot of each kind on S3 with the rows it
still has to commit, `latest` the kind of the newest, `own` that of the
application's last, `group` the offsets of the consumer group, `silver` a bag of
rows, since an append could repeat one. `Read` is one record through the rowtime, the late drop
and `ROW_NUMBER`; `MarkIdle` the idle timeout; `Advance` the watermark with the
windows it closes. `Checkpoint` and `StopWithSavepoint` take a snapshot, `Notify`
is its completion told later: the Iceberg commit, the offset commit (which Kafka
may refuse), and the end of a job that was stopping. `SubmitNewest` is
`submit_flink_job.sh` by an EMR step; `SubmitPartly` the same when prefixes were
deleted or S3 did not list one; `Restart` Flink's own restart, `Die` the loss of
the application. `LateDropped`, `ExpectedQty` and `UnexplainedQty` are
`int_inventory_reconciliation_hourly`. `held`, `behind`, `overtaken`, `forgotten`
and `stale` are history variables: what the windows held when the group's offsets
were committed, which partitions the watermark may have passed while they counted
as idle, which records were dropped for that, which records of `held` a start
without state forgot (those whose event the table does not have by then), and
whether a start used less than the newest snapshot.

**ProductVersions.** `versions[p]` is the published history. `CatalogRun` is the
whole model `dim_product.sql` with its four unions; `ChangeMaster`, `See` and
`Unsee` change what the next run reads.

**SalesMart.** `file[d]` is the POS file of a day, `fact` and `rollup` live
tables by day, `pending` the run's. `StartDaily` regenerates the file of its day,
`StartRestate` takes any range of days (the code refuses none), `Register` makes
the partitions visible, `Build` is both models with
their windows, `Publish` requires the reconciliation, `Correct` changes a file
at any moment. `covered` and `changed` are history variables: which days the
published build replaced and which files changed since.

**UnionFind.** One action per iteration of the loops of `find`
(`Climb`, `Compress`) and per call it returns to (`FirstFound`, `Union`,
`MemberFound`). `rep` is a history variable, the root of each node. `edges` is
what the iterable has yielded, in any order.

**Sums.** `Total(f)`, the sum of the values of a function: `sum()` over rows, when
the function gives each row its quantity. The balances of `InventoryMarts` and the
quantities `InventorySpeed` compares are such sums.

**Components.** What connected components are: two nodes no edge-closed set
tells apart.

**CustomerMarts.** `Observe` and `Sell` are the feeds, `StartJob` the moment
the Spark job reads them, `JobDone` its `assign_resolution`, `Publish` the two
incremental models and their publish. Components are those of `Components`
(GraphFrames is external).

**InventoryMarts.** `hourly` is the run's `int_inventory_hourly`, any table
`Movement` allows, independent of the one before. `BuildFact`, `BuildPosition`
and `BuildRollup` are the three models, in any order the dbt graph permits;
`AttemptFails` repeats `dbt_mart_models` on what it left in pending;
`CatalogPublishes` moves live `dim_product` at any step. The serving view is the
operator `CurrentOnHand`, a query over live and any Flink hours `speed`. `read`
is a history variable: the table the last published run read.

**MetadataObserver.** `catalog`, `runs`, `dq` and `fresh` are tables of `meta`,
sets of rows, so that a failed delete or two interleaved seeds leave what they
would. Each DAG is at the statement `pc[d]`. `StartRun`, `DeleteRun` and
`InsertRun` are `on_dag_start` up to the XCom, `DeleteObject`, `InsertObject` and
`DeleteAbsent` its seed; `StartFails` is the exception it logs, `StartKilled` the
death of the task. `StartTry` is the work of a dbt, gate, publish or checkpoint
task, `DeleteResult` and `InsertResult` each pair of statements of
`record_dq_results`, `CliRetries` the repetition in `_with_retries`, `RecordFails`
giving up or dying. `StartFreshness`, `Probe`, `InsertFresh`, `ReadBreaches` and
`FreshnessFails` are `collect_freshness_task`. `EndTry` is Airflow's retry or
verdict, `Finalize` and `FinalizeFails` the DAG callbacks, `StartRun` and
`ClearTasks` also what an operator clears, `Deploy` a release with another YAML.
`alone`, `gaveUp`, `found` and `foundEver` are history variables: whether another
seed overlapped this one, whether the try gave a record up, what it and its run
have measured. The objects of the catalog stand for the metrics too: both are
seeded by the same loop.

## 4. What the runs check

Deadlock is checked unless the model really may stop: bounded runs, jobs and
feeds end, so the WAP, export, coverage, speed, product, union-find, inventory
and metadata runs say `CHECK_DEADLOCK FALSE`.

| Run | Shows | Instance |
|---|---|---|
| `wap_safety` | `ScopePublishedTogether`, `OnlyAuditedLive`, `FactRefsResolve`, `SuccessMeansPublished`, `HistoryKept`, the refinement `ImplementsAtomicGold`; every run ends (`RunsEnd`), and with no faults left a started run goes live over whatever was left behind (`RecoversOnceFaultsStop`) | warehouse with two tables and catalog with `dim_product`; 2 runs each, 1 retry, 3 faults |
| `rowcount_gate` | `LiveHoldsBaseline`, `SavedCountsAreLive` | an owned mart and one of another DAG; counts 0, 4, 5, 7, threshold 20% |
| `exports_safety` | `ManifestResolves`, `OpenRunKept`, `RowsFromOneRun` | the three exports the inventory build reads, 4 jobs |
| `inventory_coverage` | `RebuildReconciles`, `LostRecordsStayEstimated`, `CorrectionsMoveBack` | 2 partitions, 2 events, 4 records, 1 lost or replayed record, 4 ticks, conflicts up to 1 tick later |
| `inventory_speed` | `CountedOnce`, `ShortfallExplained`, `UnexplainedNamesTrouble` | 6 topics over 2 partitions of up to 3 records, hours of 2 ticks, delay of 1, conflicts up to 2 ticks later, 1 fault |
| `product_versions` | `VersionsTile`, `HistoryImmutable` | 1 product, 3 master states, 4 days |
| `sales_mart` | `RollupFollowsFact`, `LoadedLinesMatchFiles`, `OutageCaughtUp` | 1 line, 4 days, lookback of 1 |
| `union_find` | `ClassesAreComponents`, `AssignmentEnds` | 7 nodes, any subset of 8 edges in any order |
| `customer_marts` | `GraphKeysResolve`, `OptOutHeld`, `KeysOnlyImprove` | 1 device, 3 identifiers, 3 events, threshold 3 |
| `customer_optout` | `OptOutRevokes` fails (section 7) | same |
| `inventory_marts` | `BalancesFollowSource`, `OneRowPerHour`, `RollupsFollowFact`, `CurrentCountsOnce` | 2 products, hours 1 and 4 with 2 hours a day, 2 versions |
| `metadata_observer` | `CatalogRestored`, `TriesTold` | a publishing DAG and the quality DAG, 2 objects, one release, 2 tries of any tasks, 2 faults, 2 attempts of the command |

`inventory_coverage`, `inventory_speed`, `customer_marts`, `inventory_marts`
(`MartsTypeOK`) and `metadata_observer` also check the module's type invariant;
those of all modules are proved (section 6).

Why the bounds are enough for the cases that matter:

- **WAP.** Two runs let a run meet what a failed or published one left; one
  retry with three faults lets an attempt die, its retry die, and the next run
  suffer one more. Two tables in a scope are what a torn publish needs; DAGs do
  not interact except through `dim_product`, so two at a time suffice. Scopes
  are disjoint in the code (`WAP_SCOPES`). `LeafDag` is empty here: what is special
  about marketing (a run that fails in a task after the publish) is one more task
  in a chain, and the proofs cover it for any set of such DAGs.
- **Gate.** 5 to 4 is exactly the threshold, 7 to 5 and 5 to 7 beyond it in
  both directions; 0 has no percentage.
- **Exports.** Four jobs are needed before a run a reader holds is pruned twice
  over; three exports put a run id boundary between and after the two whose rows
  are compared.
- **Coverage.** Two partitions for uneven progress, two events for a copy beside
  another event, four records for a gap with a neighbour on both sides plus one;
  the clock spans four hours with `Delay`, `MaxLateness` and `Ahead` of one, so
  that a conflicting copy may be an hour ahead of the clock. Partitions and events
  are symmetric.
- **Speed.** Each topic is a case: a retry and a later hour that closes the
  first; a record late on the boundary the reconciliation predicts; one out of
  order that the delay still admits; a partition that is quiet while the other
  moves on; conflicting copies within an hour; a conflicting copy ahead of the
  clock that closes an hour too soon. Nothing bounds checkpoints, stops and
  resubmissions, so every topic meets every order of them; the one fault is a
  restart, a death or an incomplete listing, at any step.
- **Product.** Products are built apart. Four days allow two versions and a
  third squeezed in on the day after; `MaxFrom` leaves room for starts pushed
  past the last day.
- **Sales.** A lookback of one within four days leaves days outside the window;
  totals of one line are present or not, and lines are summed independently.
- **Union-find.** The eight edges join three devices to two customers and each
  customer to a loyalty id, so every shape from isolated nodes to one component
  is reached, with paths of length three.
- **Customer marts.** With three events one device reaches the threshold, two
  customers merge, and an opt-out follows the merge.
- **Inventory marts.** The two hours are in different days with a day without
  movement between; one product has an opening count, one has none; rows come
  estimated or final with different deltas and may vanish.
- **Metadata.** Two faults exhaust the two attempts of a command, or leave two
  broken records for a retry to meet; two tries let a retry, a cleared task or a
  cleared run write over them. Two DAGs suffice for seeds that overlap, since a
  third only adds rows of the same kind. Two objects let a release retire one
  while another stays; the first YAML lists both. The publishing DAG has no
  row-count gate (`Gated` is empty): its task would record like the publish task
  and only lengthen the chain. The runs of a DAG share
  nothing but the catalog, in which a cleared run already acts as a second one.

## 5. Fairness

`WapPublish!FairSpec`, which `wap_safety` checks, asks weak fairness of each DAG's task steps and nothing of
the scheduler starting runs. The code justifies it: every task has an
`execution_timeout`, so a running attempt ends, and Airflow schedules what is
downstream of an ended task. Faults are bounded by `MaxFaults`; `RunsEnd` does
not depend on that bound because `retries` ends each task by itself.
`UnionFind!FairForestSpec` asks that a sequential program takes its next step. All
other properties are safety and assume no fairness. In particular nothing promises
that a Flink hour is ever written: an hour closes only with later events, and a
topic that falls silent leaves its last windows open for as long as it is silent.

## 6. What is proved

tlapm checks every theorem below for all values of the constants under the named
assumptions of each module (`WapAssumption`, `GateAssumption`,
`ExportAssumption`, `CoverageAssumption`, `SpeedAssumption`, `ProductAssumption`,
`SalesAssumption`, `NodeAssumption`, `PairAssumption`, `ObserverAssumption`, the two
`MartsAssumption`s): numbers are natural, hours have a length, partitions and hours
are finitely many, and what a topic may hold is what the producers can send. The
bounds on runs, jobs, faults and versions are constants too, so the theorems hold
for any number of them. Every invariant and every action property of the passing
runs is stated by a theorem.

- **WapPublishProofs.** `TypeCorrect`, `AtomicScope`, `AuditedOnly`,
  `RefsResolve`, `SuccessPublishes`, `HistorySurvives`, `Implements`. The
  properties are not inductive: that publishing loses nothing depends on pending
  holding live plus this run. `IInv` is `TypeOK`, per DAG `StageInv` (what each
  task finds: pending built, audited, or already landed from an attempt that
  died after its commit), `TxnInv` (the open transaction differs from live only
  in the tables replaced) and `LiveInv`, and `RefInv`. `Frame` and `OneDag`
  reduce a step to the DAG that takes it, because scopes are disjoint.
  `Implements` maps `CommitPublish` to `Publish` or, for a run already live, to a
  stutter.
- **GateAndExportsProofs**, the gate: `GateTypeCorrect`, `GateHoldsBaseline`,
  `BaselineFollowsLive`. `IInv` adds what each phase knows: counted marts equal
  pending, past the gate pending holds the baseline and equals the candidate,
  past the commit live equals pending.
- **GateAndExportsProofs**, the exports: `ExportTypeCorrect`, `ManifestsResolve`,
  `ScansKeepTheirRun`, `AuditedRowsShareRun`. `DirsInv` says no directory is newer
  than the job, `JobInv` what the job has finished at each step, `OpenInv` that what
  a reader opened was listed once. The lemma `TwoNewerSurvive` is why keeping two
  directories is enough.
- **SalesMartProofs**, the products: `VersionsTypeCorrect`, `HistoryTiles`,
  `HistoryNeverRewritten`. Tiling is inductive with the type invariant; the
  argument is that `NewFrom` is after the start of the version it closes
  (`NewFromLater`).
- **SalesMartProofs**, the sales: `SalesTypeCorrect`, `RollupTracksFact`,
  `FactMatchesFiles`, `NoDayForgotten` (the action property `OutageCaughtUp`).
  `Agrees` strengthens the rollup property by "no rollup day without a fact day",
  from which the rollup's lookback covers the fact's (`RollupCoversFact`);
  `FileInv` and `PendingInv` relate facts to files by way of `changed` and
  `covered`. `LoadInv` says what a built run holds for the days that wait: a daily
  build has loaded each, and only a restatement's own days are new. With it
  `PublishCatchesUp` shows that a publish either loads a waiting day, leaves it
  within reach, or restated a day past the last one loaded.
- **IdentityProofs**, the union-find: `ForestTypeCorrect`, `ComponentsCorrect`.
  `ForestInv` says links go to smaller nodes and `rep` is the root; `FindInv` what
  the locals hold; `EdgesInv` that merged edges have equal roots; `ClosedInv` that no
  edge-closed set separates a node from its root; `MemberInv` the lists.
- **IdentityProofs**, the customer marts: `GraphResolves`, `OptOutIsHeld`, from both
  properties together with `RunInv`; `CustomerTypeCorrect` and `KeysImprove` (the
  action property `KeysOnlyImprove`) from `KeyInv`: for some set of loyalty ids the
  last published run read, every key of the published graph is the key of a node in
  the component of its identifier. Components only grow (`ComponentsGrow`), so the
  least node of the next run's component is no worse than the old key. That a
  component has a least node at all (`LeastExists`, `RepNodeLeads`) rests on the
  well-foundedness of the natural numbers, not on induction over a model's data.
- **InventoryBatchProofs**, the coverage: `CoverageTypeCorrect`,
  `RebuildsReconcile`, `LostRecordsKeepTheHour`, `CorrectionsOnlyMoveBack`.
  `CoverageInv` adds `LogInv` (a partition is in the order Kafka took it and no
  record is older than the lateness allows), `BronzeInv` (Bronze has the copies 1 to
  n of a record, n bounded by the replays) and `PinInv` (a snapshot with any copy of
  a record has the first). Reconciling counts rows, so the proof maps the rows of
  each record to a first copy; that each event has one winner is a least element
  (`WinnerExists`, `WinnerIsOnly`). A lost record lies between two captured ones
  (`GapAround`), whose times hold its hour open. A rebuild moves an event back only,
  because a snapshot grows and the earliest copy wins (`EarliestWins`).
- **InventoryBatchProofs**, the marts: `HoursOnce`, `BalancesRebuilt` from `FactInv`:
  stored rows have one key per hour that is published (`Keyed`), and a built pending
  fact is that of the hours read (`Follows`); what delete+insert leaves is exactly
  what the query computes (`UpsertIsRebuild`). `MartsTypeCorrect` and `RollupsAgree`
  need `ServingInv` as well: the position has a row for every pair and day between
  the first and the last of the fact (`Grid`), with the balance the day ends with
  and the hours it was out of stock, and the rollup the newest and the least of each
  key. Live marts keep this although a build only inserts rows that are new or differ,
  because hours of a fact are never taken back (`HoursStay`, `GridGrows`). The
  stockout hours are sums over the segments between movements; `SegmentOfHour` and
  `SegmentsApart` show that the segments share the hours of a day out among
  themselves (`StockoutIs`). `CurrentAddsUp` gives the view's sum for any quantities
  Flink may have served, `CurrentCountedOnce` in particular: hours between a pair's
  newest row and the newest hour of the fact have no movement, or they would have a row.
- **InventorySpeedProofs.** `SpeedTypeCorrect`, `HoursCountedOnce`, `LossesExplained`,
  `SettledHoursWhole`, `UnexplainedIsTrouble`. `SpeedInv` has four parts beside the
  types. `WindowInv`: rows, in the table, a snapshot or the job, are of windows the
  watermark that goes with them has passed, and open windows are those it has not.
  `LossInv`: every record before the offsets of the job, of a snapshot or of the group is
  in what goes with those offsets or in the table, or its loss has a cause.
  `PlaceInv`: the watermark is held back by a record read from every partition it
  has not passed while idle, so a record that comes late is predicted or was hurried
  (`LateIsExcused`). `TableInv`, without a stale start: the table has the hours up to
  the newest snapshot's watermark, the job those after it. A restart moves the job
  back to a snapshot, which satisfies the same invariants. For
  `UnexplainedIsTrouble` both sums are compared by mapping events: each expected
  one to its record in the table (`NothingMissing`), each record in the table to the
  first copy of its event (`NothingTwice`), which is before the newest snapshot's
  offsets by `ReadInv`.
- **MetadataObserverProofs.** `ObserverTypeCorrect`, `TriesAreTold`,
  `SeedRestoresCatalog` (the action property `CatalogRestored`). Per DAG, `SeedInv`
  says that a seed no other has overlapped leaves its own row of every object its
  loop has passed, `ResultInv` that a try has recorded the checks its loop has
  passed, `FreshInv` that breaches on record were measured and those measured are on
  record or about to be, `VerdictInv` what the verdict rests on, `RowInv` that a
  pushed id has a run row. A step of one DAG keeps the invariant of another because
  rows carry the run's id, and those of the catalog because `alone` is lost to
  whoever starts a seed.
- **SumsProofs.** What the sums above rest on: `Total` is a fold the community module
  defines by recursion, and `AddsExists` shows that a function satisfying its
  equations exists, by taking the least size of set for which none does.
  From there on facts about sums (`TotalRemove`, `TotalSplit`, `TotalZero`,
  `TotalOfParts`) are proved by a smallest counterexample (`SmallestSet`), which is
  how all of the project does induction: the library's induction theorems take an
  operator as parameter and no installed prover can instantiate one. `TotalOfParts`
  says that a sum over parts is at least the size of their union, and equal to it
  when they are disjoint.

Only model-checked: liveness (`RunsEnd`, `RecoversOnceFaultsStop`,
`AssignmentEnds`), which the prover does not do; and the counterexample of
`customer_optout`.

## 7. Where code and documentation differ

Shown by a run:

- `customer_optout`: `dim_customer.sql:22-23` says an opt-out revokes on the next
  run; the row of a key that lost its identifiers in a merge keeps
  `marketing_consent`. `OptOutHeld` is what does hold, for the current key.

Met while modelling, without a run of their own (paths under `src/`):

- `sales_daily_store.sql:16-18` says a store-day whose lines all became voided is
  deleted; the query returns no row for it, delete+insert deletes nothing, and it
  keeps its totals. `RollupFollowsFact` is what does hold, for days with sales.
- `metadata_airflow.py:285` and `:304` file results under the run id when
  `metadata_start` left no execution id; Jinja renders a missing XCom as `None`,
  which is not empty, so the results of every such run of every DAG share the id
  `None` (`NoId` in the model) and replace each other.
- `ADR-008-metadata-database.md:55` calls freshness and DQ rows append-only; both
  are deleted and inserted under the same execution id by a retry. `TriesTold`
  is about what that leaves.
- `01_meta_schema.sql:42` says one row per execution or attempt of a pipeline; the
  id depends on the run only, so a cleared run deletes the row of its earlier
  attempt.
- `metadata_airflow.py:177` says a measured breach raises; when a later statement
  of the same task fails, it returns 0. `BreachRaises` states what holds.
- `identity_graph.sql:16-18` says public devices are excluded; a device
  published before it reached the threshold stays, with its old key, because its
  row is neither selected nor deleted.
- `wap_publish.py:516` says a run succeeds exactly when Gold was published; an
  attempt that commits and then dies, with no retry left, leaves a failed run
  with published Gold. `SuccessMeansPublished` states the direction that holds.
- `row_count_reconciliation.py:10` promises to notice a dimension frozen at 0
  rows; a previous count of zero has no percentage and neither blocks nor warns.
- `row_count_reconciliation.py:38-40` says an owned table that shrank by more than
  the threshold fails the task; after a warned growth the baseline stays behind
  what is live, so a table may shrink back to it unnoticed. `LiveHoldsBaseline`
  states the guarantee against the baseline, not against live.
- `consumer_exports.py:13-14` says the previous run is kept for queries still
  scanning it; unfinished directories of dead jobs count among the two kept, so
  the previous complete run can go earlier. `OpenRunKept` states the guarantee
  with directories, not runs.
- `inventory_hourly_uses_one_export_run.sql:2` says the fact is built from one
  run's exports; the test sees the run ids in the rows, not the run of the
  offset gaps, which may be another.
- `int_inventory_batch_coverage.sql:6` says hours are fully covered; the bound is
  the newest timestamp over all partitions, so an hour can be final while a
  slower partition's scans of it are not in Bronze yet. A later rebuild adds
  them.
- `dim_product.yml:62` says the first version starts at the earliest activity;
  activity that arrives later with an earlier date does not move it.
- `pos_restatement.py:6` calls a run without a range the daily load of `ds`; a
  cleared run of an old date regenerates its file, but the window counts from
  the newest day, so an old day may not be loaded.
- `01_meta_schema.sql:9` calls the seeding of the catalogs idempotent upserts;
  they are autocommitted deletes and inserts on tables whose primary keys
  Redshift does not enforce, and two DAGs that seed at once can leave two rows.
- `pos_restatement.py:32` accepts any range. One past the last loaded day moves
  the newest loaded day, from which the lookback counts, so a delivered day in
  between is never loaded by a daily run again. `OutageCaughtUp` names that as the
  only way a day is forgotten.
- `streaming_manual_flink_jobs.py:28-30` says a job without a checkpoint resumes
  from its committed offsets instead of skipping or replaying data. The windows
  that were open are not in those offsets: their records are read no more. And
  Kafka may have refused the last commit, so that others are read again. In
  `InventorySpeed` those are `forgotten` and `stale`.
- `submit_flink_job.sh:57` reads a prefix S3 did not list as an empty one. The job
  then starts from an older snapshot, or from none, and appends hours again that
  were already committed; `CountedOnce` excludes exactly these starts.
- `submit_flink_job.sh:2` says at most once; at line 50 a YARN listing that fails
  reads as one without the application (`2>/dev/null`).
- `inventory_silver_job.py:185-186` says the window of an unparseable time closed
  long ago; that is so only once a watermark exists. In the first records after a
  start without state it opens a window of 1970, which the next watermark closes
  and writes.
- `int_inventory_reconciliation_hourly.sql:19-20` calls Kafka's append time a proxy
  with boundary noise. By default a topic keeps the time its producer set, and the
  noise is not only at the boundary: a conflicting copy up to 120 seconds ahead
  (`inventory_producer.py:82`) outruns the delay of 60, closes windows early for
  the whole job, and what is dropped for it was not predicted; nor is what the
  watermark passed while a partition counted as idle. `UnexplainedNamesTrouble`
  states what a negative or non-zero `unexplained_qty` still tells.
- `flink-operations.md:19` says YARN Per-Job mode; the script submits in
  application mode.
- `tests/intermediate.yml:49-51` and `fact_customer_session.sql:15` say one row per
  `session_id`. A producer's session idle for more than 30 minutes, or two
  interleaved on one client, gives several rows of one `session_id`
  (`max(session_id)` at `int_session_reconstruction.sql:110`). Within a run the
  test notices; a later run that rebuilds only the last part deletes and inserts
  by `session_id` and drops the earlier one silently.
- `int_session_reconstruction.sql:7-8` says sessions that ended within 30 minutes
  are re-read; the boundary at line 86 is `datediff('minute')`, which counts minute
  boundaries, so a gap of almost 31 minutes may still extend a session
  that was not re-read.
- `inventory_current_position.sql:11-16`: a pair whose product the catalog has
  not published has no fact row, and its hours up to the newest published hour
  are in neither part of the sum. `CurrentCountsOnce` is about published pairs.

## 8. Assumptions and abstractions

- Airflow repeats an attempt only after the earlier one stopped, and
  `max_active_runs=1` holds; the laptop CLI of `wap_publish.py` is not run beside
  a DAG.
- The operator does not edit the baseline Variable by hand; there is one Spark
  job at a time (EMR steps are serial).
- Kafka's timestamps grow within a partition, an event is produced at most
  `inventory_max_event_lateness_seconds` late, and copies of an event keep its
  store and product, hence its partition.
- A POS file holds lines of its own date, all of one price.
- Speed layer: EMR runs the steps of a cluster one at a time, so YARN's list and the
  submission are one step. `event_ts_sql` keeps whole seconds, so a tick is a
  second. The sink commits a snapshot's rows once however often it is restored
  (Iceberg's commit carries the checkpoint id), and the window operators restore
  their watermark with their state. A prefix keeps its newest snapshot; older ones
  are never chosen.
- Sessions, which no module models: with the cutoff two hours before the newest
  session's end, an event older than that joins no rebuilt session, unless its
  client has a session that ended within 30 minutes of the cutoff and began before
  the event. `fact_customer_session` looks back 150 minutes from the newest
  session's *start*, which is never later than its end, so it takes up every
  session that was rebuilt.
- `customer_key` is injective (it is an md5 prefix modulo 1e8), clickstream
  events arrive in event-time order, and consent statements carry a customer id.
- `dim_date` has every day and `dim_store` every store; the store of a balance is
  fixed, and pairs differ by product only.
- Statements on `meta` take effect one at a time: one that Redshift aborts for a
  conflict is a failed statement. The callbacks of a DAG run end before the run
  is cleared. The two tasks of the quality DAG run one after the other in the
  model; they write different tables.
- Attributes, prices, confidence scores, resolution methods, logging and alert
  texts are left out; no property is about them.

## 9. Not modelled

PROJECT.json lists each part with its reason: alerting (stateless), Iceberg
maintenance and the quality checkpoint (Iceberg's own procedures, reads), the
dashboard and semantic layer (reads), infrastructure (Terraform's state machine).
Sessions, RFM and `customer_360_view` are not modelled either: they read the
resolution and the feeds, and no modelled table reads them. Of the modelled parts,
the field validation of `event_contract.py` (a pure function of one record), the
discovery of new Kafka partitions, the clickstream side of the streaming jobs
(the same code without hours) and the laptop's variants are left out.
