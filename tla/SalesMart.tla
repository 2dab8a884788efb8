------------------------------- MODULE SalesMart -------------------------------
(***************************************************************************)
(* finance.fact_sales and summary.sales_daily_store: two incremental       *)
(* models (delete+insert by date_key) that warehouse_daily_batch_pipeline  *)
(* builds in pending from the POS files of the registered dt= partitions,  *)
(* reconciles against those files and publishes together.  A run is the    *)
(* load of its day ds, over a lookback, or the restatement of a range.     *)
(* Files are corrected in place at any moment, also between build and      *)
(* audit.  Runs never overlap (max_active_runs=1).                         *)
(***************************************************************************)
EXTENDS Integers, FiniteSets

CONSTANTS
  Line,     \* the line items a day's file may hold, all of one price
  Window,   \* pos_restatement_days
  MaxDay    \* bound: the last day

ASSUME SalesAssumption ==
  Window \in Nat /\ MaxDay \in Nat /\ IsFiniteSet(Line) /\ Line # {}

Day  == 0..MaxDay
File == [Line -> {"absent", "sold", "voided"}]

NoLines   == [l \in Line |-> "absent"]
(* What generate_pos_parquet writes for a day, the same on every call. *)
Generated == [l \in Line |-> "sold"]

Lines(file) == {l \in Line : file[l] # "absent"}
Sold(file)  == {l \in Line : file[l] = "sold"}

VARIABLES
  file,        \* file[d]: what the partition dt=d holds in S3
  registered,  \* the partitions Spectrum knows
  fact,        \* live fact_sales, by date_key
  rollup,      \* live sales_daily_store: the lines its totals sum up
  stage,       \* the run: idle, started, registered or built
  ds,          \* its logical date, of a daily load
  restate,     \* the days it restates; {} for the daily load
  pending,     \* its fact and rollup in the pending schemas
  covered,     \* history: the days its fact build replaced
  changed      \* history: days whose file changed since the build of the
               \* last published run that covered them

vars == <<file, registered, fact, rollup, stage, ds, restate, pending, covered,
          changed>>
feeds == <<file, registered>>
live  == <<fact, rollup>>
run   == <<stage, ds, restate, pending, covered>>

TypeOK ==
  /\ file \in [Day -> File]
  /\ registered \subseteq Day
  /\ fact \in [Day -> File]
  /\ rollup \in [Day -> SUBSET Line]
  /\ stage \in {"idle", "started", "registered", "built"}
  /\ ds \in Day
  /\ restate \subseteq Day
  /\ pending \in [fact : [Day -> File], rollup : [Day -> SUBSET Line]]
  /\ covered \subseteq Day
  /\ changed \subseteq Day

Init ==
  /\ file = [d \in Day |-> NoLines]
  /\ registered = {}
  /\ fact = [d \in Day |-> NoLines]
  /\ rollup = [d \in Day |-> {}]
  /\ stage = "idle" /\ ds = 0 /\ restate = {}
  /\ pending = [fact |-> fact, rollup |-> rollup]
  /\ covered = {}
  /\ changed = {}

-------------------------------------------------------------------------------
(* The files                                                               *)

(* A corrected file of a delivered day: never empty. *)
Correct(d, lines) ==
  /\ Lines(file[d]) # {} /\ Lines(lines) # {} /\ file[d] # lines
  /\ file' = [file EXCEPT ![d] = lines]
  /\ changed' = changed \cup {d}
  /\ covered' = covered \ {d}
  /\ UNCHANGED <<registered, live, stage, ds, restate, pending>>

-------------------------------------------------------------------------------
(* The run                                                                 *)

(* generate_pos_parquet of the load of d. *)
StartDaily(d) ==
  /\ stage = "idle"
  /\ stage' = "started" /\ ds' = d
  /\ file' = [file EXCEPT ![d] = Generated]
  /\ changed' = IF file[d] = Generated THEN changed ELSE changed \cup {d}
  /\ UNCHANGED <<registered, live, restate, pending, covered>>

(* A restatement of any range leaves the files alone. *)
StartRestate(from, to) ==
  /\ stage = "idle"
  /\ from <= to
  /\ stage' = "started" /\ restate' = from..to
  /\ UNCHANGED <<feeds, live, ds, pending, covered, changed>>

(* register_pos_spectrum_partition: pos_partition_dates *)
Register ==
  /\ stage = "started"
  /\ stage' = "registered"
  /\ registered' = registered \cup (IF restate # {} THEN restate ELSE {ds})
  /\ UNCHANGED <<file, live, ds, restate, pending, covered, changed>>

(* The days of a table that are not empty, and those within the lookback   *)
(* from its last one.                                                      *)
LoadedDays(table, empty) == {d \in Day : table[d] # empty}
Lookback(loaded) == {d \in Day : \A e \in loaded : e <= d + Window}

(* Mutant: the lookback counts from the run's own day. *)
FactWindowFromDs ==
  IF restate # {} THEN restate ELSE {d \in Day : ds <= d + Window}

(* Mutant: only days after the last one in the rollup. *)
RollupWindowNewDays ==
  IF restate # {} THEN restate
  ELSE {d \in Day : \A e \in LoadedDays(rollup, {}) : e < d}

FactWindow   == IF restate # {} THEN restate ELSE Lookback(LoadedDays(fact, NoLines))
RollupWindow == IF restate # {} THEN restate ELSE Lookback(LoadedDays(rollup, {}))

Visible(d) == IF d \in registered THEN file[d] ELSE NoLines

(* Mutant: a day already in the table is not deleted first. *)
ReplacedNewOnly(table, window, query, empty) ==
  [d \in Day |-> IF d \in window /\ query[d] # empty /\ table[d] = empty
                 THEN query[d] ELSE table[d]]

(* delete+insert by date_key: a day the query returns is replaced whole, a *)
(* day it returns nothing for keeps what it had.                           *)
Replaced(table, window, query, empty) ==
  [d \in Day |-> IF d \in window /\ query[d] # empty THEN query[d] ELSE table[d]]

PendingFact == Replaced(fact, FactWindow, [d \in Day |-> Visible(d)], NoLines)

(* wap_clone_live_to_pending and dbt_mart_models. *)
Build ==
  /\ stage = "registered"
  /\ stage' = "built"
  /\ pending' = [fact |-> PendingFact,
                 rollup |-> Replaced(rollup, RollupWindow,
                                     [d \in Day |-> Sold(PendingFact[d])], {})]
  /\ covered' = {d \in FactWindow : Visible(d) # NoLines}
  /\ UNCHANGED <<feeds, live, ds, restate, changed>>

(* pos_revenue_reconciles_through_gold: counts and totals per day, over    *)
(* the range or a lookback from the last day of the pending fact.          *)
AuditWindow ==
  IF restate # {} THEN restate ELSE Lookback(LoadedDays(pending.fact, NoLines))

AuditPasses == \A d \in AuditWindow :
  /\ Cardinality(Lines(Visible(d))) = Cardinality(Lines(pending.fact[d]))
  /\ Cardinality(Sold(pending.fact[d])) = Cardinality(pending.rollup[d])

(* Nothing of a run outlives it: the next clone drops its pending tables.  *)
RunEnds ==
  /\ stage' = "idle" /\ ds' = 0 /\ restate' = {} /\ covered' = {}
  /\ pending' = [fact |-> fact', rollup |-> rollup']
  /\ UNCHANGED feeds

Publish ==
  /\ stage = "built" /\ AuditPasses
  /\ fact' = pending.fact /\ rollup' = pending.rollup
  /\ changed' = changed \ covered
  /\ RunEnds

(* The audit, the row-count gate or any task of the run fails. *)
RunFails ==
  /\ stage # "idle"
  /\ UNCHANGED <<live, changed>>
  /\ RunEnds

Next ==
  \/ \E d \in Day, lines \in File : Correct(d, lines)
  \/ \E d \in Day : StartDaily(d)
  \/ \E from, to \in Day : StartRestate(from, to)
  \/ Register
  \/ Build
  \/ Publish
  \/ RunFails

Spec == Init /\ [][Next]_vars

-------------------------------------------------------------------------------
(* Properties                                                              *)

(* Although each model takes its lookback from its own last day, the live  *)
(* rollup of a day that has a sale never disagrees with the live fact      *)
(* (sales_daily_store is a rollup "from finance.fact_sales only").         *)
RollupFollowsFact ==
  \A d \in Day : Sold(fact[d]) # {} => rollup[d] = Sold(fact[d])

(* A day of the fact holds the lines of its file, each replaced day whole, *)
(* unless the file changed after the last published build that covered it  *)
(* (fact_sales: "every reprocessed day is replaced whole").                *)
LoadedLinesMatchFiles ==
  \A d \in Day \ changed : fact[d] = file[d]

(* A delivered day that is not loaded, and that the lookback still reaches.*)
Waiting(d) ==
  /\ d \in registered /\ Lines(file[d]) # {}
  /\ fact[d] = NoLines /\ d \in Lookback(LoadedDays(fact, NoLines))

(* However many runs failed before, the next daily run to publish loads    *)
(* every delivered day the lookback reaches, and no day drops out of its   *)
(* reach unloaded but by a restatement past the last loaded day.           *)
OutageCaughtUp ==
  [][\A d \in Day : Waiting(d) =>
       \/ fact'[d] # NoLines
       \/ Waiting(d)' /\ ~(Publish /\ restate = {})
       \/ Publish /\ \E r \in restate : \A e \in LoadedDays(fact, NoLines) : e < r]_vars
===============================================================================
