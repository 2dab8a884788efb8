---------------------------- MODULE ConsumerExports ----------------------------
(***************************************************************************)
(* The plain-Parquet exports of the Spark job                              *)
(* (spark/identity_resolution/consumer_exports.py) and the inventory build *)
(* that reads them through Spectrum.                                       *)
(*                                                                         *)
(* One Spark job runs at a time.  It takes a run id and publishes its      *)
(* exports one after the other: a fresh run directory, then the manifest   *)
(* object, then the deletion of old run directories.  The job may die at   *)
(* any point; the next one starts over with a newer run id.  A reader      *)
(* resolves each manifest when its query gets to that table and scans the  *)
(* listed files for as long as the query takes.                            *)
(***************************************************************************)
EXTENDS Naturals, Sequences

CONSTANTS
  Export,        \* the exports of a job
  Order,         \* the sequence in which the job publishes them
  RowRunExport,  \* exports whose rows carry export_run_id into
                 \* int_inventory_hourly
  MaxJobs        \* bound: Spark jobs started

ASSUME ExportAssumption ==
  /\ Order \in Seq(Export)
  /\ Len(Order) > 0
  /\ RowRunExport \subseteq Export
  /\ MaxJobs \in Nat

VARIABLES
  job,       \* run id of the latest job; ids are start times, so they grow
  step,      \* what that job is doing
  pos,       \* position in Order of the export it is publishing
  dirs,      \* run directories in the store, per export
  complete,  \* those with every file the manifest lists for them
  manifest,  \* the run each manifest lists (0: no manifest yet)
  query,     \* the state of the inventory build
  opened,    \* the run its query resolved for each export (0: not yet)
  fact       \* the runs the last audited build was made from

jobVars  == <<job, step, pos, dirs, complete, manifest>>
readVars == <<query, opened, fact>>
exportVars == <<jobVars, readVars>>

Run == 1..MaxJobs
NotOpened == [e \in Export |-> 0]

ExportsTypeOK ==
  /\ job \in 0..MaxJobs
  /\ step \in {"idle", "write", "list", "prune"}
  /\ pos \in 1..Len(Order)
  /\ dirs \in [Export -> SUBSET Run]
  /\ complete \in [Export -> SUBSET Run]
  /\ manifest \in [Export -> 0..MaxJobs]
  /\ query \in {"idle", "scan", "audit"}
  /\ opened \in [Export -> 0..MaxJobs]
  /\ fact \in [Export -> 0..MaxJobs]

ExportsInit ==
  /\ job = 0 /\ step = "idle" /\ pos = 1
  /\ dirs = [e \in Export |-> {}]
  /\ complete = [e \in Export |-> {}]
  /\ manifest = [e \in Export |-> 0]
  /\ query = "idle"
  /\ opened = NotOpened
  /\ fact = [e \in Export |-> 0]

-------------------------------------------------------------------------------
(* The Spark job                                                           *)

Current == Order[pos]

StartJob ==
  /\ step = "idle"
  /\ job < MaxJobs
  /\ job' = job + 1
  /\ step' = "write"
  /\ pos' = 1
  /\ UNCHANGED <<dirs, complete, manifest, readVars>>

(* The Parquet write creates the directory before all its files are there. *)
CreateRunDir ==
  /\ step = "write"
  /\ job \notin dirs[Current]
  /\ dirs' = [dirs EXCEPT ![Current] = @ \cup {job}]
  /\ UNCHANGED <<job, step, pos, complete, manifest, readVars>>

FinishWrite ==
  /\ step = "write"
  /\ job \in dirs[Current]
  /\ complete' = [complete EXCEPT ![Current] = @ \cup {job}]
  /\ step' = "list"
  /\ UNCHANGED <<job, pos, dirs, manifest, readVars>>

(* One object write replaces the manifest. *)
ReplaceManifest ==
  /\ step = "list"
  /\ manifest' = [manifest EXCEPT ![Current] = job]
  /\ step' = "prune"
  /\ UNCHANGED <<job, pos, dirs, complete, readVars>>

(* Mutants: the slice keeps one run, and it keeps none. *)
OldKeepOne(e) == {r \in dirs[e] : \E p \in dirs[e] : r < p}
OldKeepNone(e) == dirs[e]

(* runs[:-KEEP_RUNS] with KEEP_RUNS = 2: every listed directory but the    *)
(* newest two, finished or not.                                            *)
Old(e) == {r \in dirs[e] : \E p, q \in dirs[e] : r < p /\ p < q}

(* A recursive delete removes file after file, then the directory is gone. *)
DeleteFiles(r) ==
  /\ step = "prune"
  /\ r \in Old(Current)
  /\ complete' = [complete EXCEPT ![Current] = @ \ {r}]
  /\ UNCHANGED <<job, step, pos, dirs, manifest, readVars>>

DeleteDir(r) ==
  /\ step = "prune"
  /\ r \in Old(Current) \ complete[Current]
  /\ dirs' = [dirs EXCEPT ![Current] = @ \ {r}]
  /\ UNCHANGED <<job, step, pos, complete, manifest, readVars>>

(* Mutant: the loop over the exports runs once too often. *)
NextExportPastEnd ==
  /\ step = "prune"
  /\ Old(Current) = {}
  /\ IF pos <= Len(Order) THEN pos' = pos + 1 /\ step' = "write"
                          ELSE pos' = 1 /\ step' = "idle"
  /\ UNCHANGED <<job, dirs, complete, manifest, readVars>>

NextExport ==
  /\ step = "prune"
  /\ Old(Current) = {}
  /\ IF pos < Len(Order) THEN pos' = pos + 1 /\ step' = "write"
                         ELSE pos' = 1 /\ step' = "idle"
  /\ UNCHANGED <<job, dirs, complete, manifest, readVars>>

JobDies ==
  /\ step # "idle"
  /\ step' = "idle"
  /\ pos' = 1
  /\ UNCHANGED <<job, dirs, complete, manifest, readVars>>

-------------------------------------------------------------------------------
(* The inventory build: one query over every export (int_inventory_hourly),*)
(* then the audit of the rows it kept.                                     *)

StartQuery ==
  /\ query = "idle"
  /\ query' = "scan"
  /\ opened' = NotOpened
  /\ UNCHANGED <<jobVars, fact>>

OpenManifest(e) ==
  /\ query = "scan"
  /\ opened[e] = 0
  /\ manifest[e] # 0
  /\ opened' = [opened EXCEPT ![e] = manifest[e]]
  /\ UNCHANGED <<jobVars, query, fact>>

(* Every listed file is mandatory: a missing one fails the query, and the  *)
(* build starts over.                                                      *)
ScanFails ==
  /\ query = "scan"
  /\ \E e \in Export : opened[e] # 0 /\ opened[e] \notin complete[e]
  /\ query' = "idle"
  /\ UNCHANGED <<jobVars, opened, fact>>

ScanEnds ==
  /\ query = "scan"
  /\ \A e \in Export : opened[e] # 0 /\ opened[e] \in complete[e]
  /\ query' = "audit"
  /\ UNCHANGED <<jobVars, opened, fact>>

(* Mutant: the test is left out. *)
OneRunIdSkipped == TRUE

(* The test inventory_hourly_uses_one_export_run: one run id in the rows.  *)
OneRunId == \A e, f \in RowRunExport : opened[e] = opened[f]

AuditPasses ==
  /\ query = "audit"
  /\ OneRunId
  /\ query' = "idle"
  /\ fact' = opened
  /\ UNCHANGED <<jobVars, opened>>

AuditFails ==
  /\ query = "audit"
  /\ ~OneRunId
  /\ query' = "idle"
  /\ UNCHANGED <<jobVars, opened, fact>>

-------------------------------------------------------------------------------
ExportsNext ==
  \/ StartJob \/ CreateRunDir \/ FinishWrite \/ ReplaceManifest
  \/ \E r \in Run : DeleteFiles(r) \/ DeleteDir(r)
  \/ NextExport \/ JobDies
  \/ StartQuery \/ (\E e \in Export : OpenManifest(e))
  \/ ScanFails \/ ScanEnds \/ AuditPasses \/ AuditFails

ExportsSpec == ExportsInit /\ [][ExportsNext]_exportVars

-------------------------------------------------------------------------------
(* Properties                                                              *)

(* "A query sees the previous run or the new one, never a partial or empty *)
(* directory": what a manifest lists is there, whole, whenever a job died. *)
ManifestResolves ==
  \A e \in Export : manifest[e] # 0 => manifest[e] \in complete[e]

(* A query keeps its files until two newer run directories exist, however  *)
(* the writers that made them ended.                                       *)
OpenRunKept ==
  query = "scan" =>
    \A e \in Export :
      \/ opened[e] = 0
      \/ opened[e] \in complete[e]
      \/ \E p, q \in dirs[e] : opened[e] < p /\ p < q

(* The rows of an audited fact come from one Spark run.                    *)
RowsFromOneRun == \A e, f \in RowRunExport : fact[e] = fact[f]
===============================================================================
