----------------------------- MODULE RowCountGate -----------------------------
(***************************************************************************)
(* The row-count gate of the warehouse DAG                                 *)
(* (orchestration/airflow/plugins/row_count_reconciliation.py): one run    *)
(* builds the pending marts, counts every Gold mart, compares the counts   *)
(* with the baseline Variable, publishes, and saves the counts as the new  *)
(* baseline in a task of its own.  Other DAGs publish their marts at any   *)
(* moment; any task attempt may die and is repeated or ends the run.       *)
(***************************************************************************)
EXTENDS Integers

CONSTANTS
  Mart,          \* GOLD_MARTS
  OwnedMart,     \* pending_tables: the marts the calling DAG builds
  Count,         \* the row counts a mart can have
  ThresholdPct   \* row_count_delta_threshold, in percent

ASSUME GateAssumption ==
  /\ OwnedMart \subseteq Mart
  /\ Count \subseteq Nat
  /\ ThresholdPct \in 0..100

Unreadable == -1

(* A map with no counts: the default of the Variable, and the candidate of *)
(* a warned run.                                                           *)
NoCounts == [m \in {} |-> Unreadable]

Reading == Count \cup {Unreadable}
Counts  == [Mart -> Reading] \cup {NoCounts}

VARIABLES
  live,       \* rows of each live mart; Unreadable: not created yet
  pending,    \* rows of the pending copy of each owned mart
  baseline,   \* the Variable gold_row_counts_baseline
  phase,      \* the task of the run
  todo,       \* marts the current gate attempt has not counted
  current,    \* the counts of the current gate attempt
  candidate,  \* baseline_candidate of the gate attempt that passed (XCom)
  warned      \* marts the gate of this run alerted on

vars == <<live, pending, baseline, phase, todo, current, candidate, warned>>

TypeOK ==
  /\ live \in [Mart -> Reading]
  /\ pending \in [OwnedMart -> Count]
  /\ baseline \in Counts
  /\ phase \in {"idle", "gate", "publish", "drop", "save"}
  /\ todo \subseteq Mart
  /\ current \in [Mart -> Reading]
  /\ candidate \in Counts
  /\ warned \subseteq Mart

Init ==
  /\ live \in [Mart -> Reading]
  /\ pending \in [OwnedMart -> Count]
  /\ baseline = NoCounts
  /\ phase = "idle"
  /\ todo = {}
  /\ current = [m \in Mart |-> Unreadable]
  /\ candidate = NoCounts
  /\ warned = {}

-------------------------------------------------------------------------------
(* The arithmetic of _delta_pct and of the two comparisons, as exact       *)
(* fractions: (now - prev) / prev against the threshold.                   *)
FallsBeyond(prev, now) == (now - prev) * 100 < -(ThresholdPct * prev)
GrowsBeyond(prev, now) == (now - prev) * 100 > ThresholdPct * prev

(* _delta_pct is None without a positive previous and a readable count.    *)
Comparable(m) ==
  /\ m \in DOMAIN baseline
  /\ baseline[m] > 0
  /\ current[m] >= 0

(* Mutant: the sign of the delta is lost, so growth blocks and loss passes. *)
BlockedGrowth ==
  {m \in OwnedMart :
     \/ current[m] < 0
     \/ Comparable(m) /\ GrowsBeyond(baseline[m], current[m])}

Blocked ==
  {m \in OwnedMart :
     \/ current[m] < 0
     \/ Comparable(m) /\ FallsBeyond(baseline[m], current[m])}

Warned ==
  {m \in Mart :
     /\ Comparable(m)
     /\ \/ FallsBeyond(baseline[m], current[m])
        \/ GrowsBeyond(baseline[m], current[m])}

-------------------------------------------------------------------------------
EnterGate ==
  /\ phase' = "gate"
  /\ todo' = Mart

EndRun ==
  /\ phase' = "idle"
  /\ todo' = {}

(* A run up to its audited pending build; the feeds decide the counts.     *)
BuildPending(rows) ==
  /\ phase = "idle"
  /\ pending' = rows
  /\ EnterGate
  /\ candidate' = NoCounts
  /\ warned' = {}
  /\ UNCHANGED <<live, baseline, current>>

(* Mutant: the counts of a repeated attempt are added up. *)
CountMartAdds(m, readable) ==
  /\ phase = "gate"
  /\ m \in todo
  /\ current' = [current EXCEPT ![m] =
       IF ~readable THEN Unreadable
       ELSE @ + (IF m \in OwnedMart THEN pending[m] ELSE live[m])]
  /\ todo' = todo \ {m}
  /\ UNCHANGED <<live, pending, baseline, phase, candidate, warned>>

(* One COUNT query: the pending copy of an owned mart, the live table of   *)
(* any other; a query that fails is recorded as -1.                        *)
CountMart(m, readable) ==
  /\ phase = "gate"
  /\ m \in todo
  /\ current' = [current EXCEPT ![m] =
       IF ~readable THEN Unreadable
       ELSE IF m \in OwnedMart THEN pending[m] ELSE live[m]]
  /\ todo' = todo \ {m}
  /\ UNCHANGED <<live, pending, baseline, phase, candidate, warned>>

(* Mutant: the gate saves the baseline itself (save_baseline=True).        *)
GatePassesSaving ==
  /\ phase = "gate"
  /\ todo = {}
  /\ Blocked = {}
  /\ phase' = "publish"
  /\ warned' = Warned
  /\ baseline' = IF Warned = {} THEN current ELSE baseline
  /\ candidate' = NoCounts
  /\ UNCHANGED <<live, pending, todo, current>>

GatePasses ==
  /\ phase = "gate"
  /\ todo = {}
  /\ Blocked = {}
  /\ phase' = "publish"
  /\ warned' = Warned
  /\ candidate' = IF Warned = {} THEN current ELSE NoCounts
  /\ UNCHANGED <<live, pending, baseline, todo, current>>

(* A blocked gate raises; Airflow repeats the task or fails the run.       *)
GateBlocks ==
  /\ phase = "gate"
  /\ todo = {}
  /\ Blocked # {}
  /\ EnterGate \/ EndRun
  /\ UNCHANGED <<live, pending, baseline, current, candidate, warned>>

(* Any other end of an attempt.  A repeated publish finds the pending      *)
(* copies only if the committed attempt could not drop them.               *)
AttemptDies ==
  /\ \/ phase = "gate" /\ EnterGate
     \/ phase = "drop" /\ phase' = "publish" /\ UNCHANGED todo
     \/ phase # "idle" /\ EndRun
  /\ UNCHANGED <<live, pending, baseline, current, candidate, warned>>

(* wap_publish_gold commits: the pending rows of every owned mart replace  *)
(* the live ones.  A death before the task reports loses the run, not the  *)
(* rows.                                                                   *)
Publish ==
  /\ phase = "publish"
  /\ live' = [m \in Mart |-> IF m \in OwnedMart THEN pending[m] ELSE live[m]]
  /\ phase' = "drop"
  /\ UNCHANGED <<pending, baseline, todo, current, candidate, warned>>

PublishSucceeds ==
  /\ phase = "drop"
  /\ phase' = "save"
  /\ UNCHANGED <<live, pending, baseline, todo, current, candidate, warned>>

(* save_row_count_baseline pulls the candidate; without one it leaves the  *)
(* baseline alone.                                                         *)
SaveBaseline ==
  /\ phase = "save"
  /\ baseline' = IF candidate = NoCounts THEN baseline ELSE candidate
  /\ phase' = "idle"
  /\ UNCHANGED <<live, pending, todo, current, candidate, warned>>

(* Another DAG publishes a mart of its own.                                *)
OtherDagPublishes(m, rows) ==
  /\ m \notin OwnedMart
  /\ live' = [live EXCEPT ![m] = rows]
  /\ UNCHANGED <<pending, baseline, phase, todo, current, candidate, warned>>

Next ==
  \/ \E rows \in [OwnedMart -> Count] : BuildPending(rows)
  \/ \E m \in Mart, readable \in BOOLEAN : CountMart(m, readable)
  \/ GatePasses \/ GateBlocks \/ AttemptDies
  \/ Publish \/ PublishSucceeds \/ SaveBaseline
  \/ \E m \in Mart, rows \in Count : OtherDagPublishes(m, rows)

Spec == Init /\ [][Next]_vars

-------------------------------------------------------------------------------
(* Properties                                                              *)

(* No run, retried or not, takes live below the baseline by more than the  *)
(* threshold: "an owned table that shrank by more than the threshold fails *)
(* the task so live keeps the last good publish".                          *)
LiveHoldsBaseline ==
  \A m \in OwnedMart :
    m \in DOMAIN baseline =>
      live[m] >= 0 /\ ~FallsBeyond(baseline[m], live[m])

(* The baseline only moves to counts that are live at that moment, so a    *)
(* failed publish never advances it (save_baseline=False in the DAG).      *)
SavedCountsAreLive ==
  [][baseline' # baseline => \A m \in OwnedMart : baseline'[m] = live[m]]_vars
===============================================================================
