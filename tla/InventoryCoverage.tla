--------------------------- MODULE InventoryCoverage ---------------------------
(***************************************************************************)
(* Which inventory hours Gold takes from Spark (ADR-012).                  *)
(*                                                                         *)
(* Producers append scans to the partitions of inventory.events.v1.  The   *)
(* raw Bronze job (streaming/flink_jobs/raw_bronze.py) commits them to an  *)
(* Iceberg ledger, each partition at its own pace.  The Spark job pins a   *)
(* Bronze snapshot and rebuilds the canonical events and the offset gaps   *)
(* (spark/identity_resolution/canonical_events.py).  The dbt models        *)
(* int_inventory_batch_coverage, int_inventory_coverage_gaps and           *)
(* int_inventory_hourly then decide hour by hour: final, from Spark, or    *)
(* is_estimated, from Flink.                                               *)
(***************************************************************************)
EXTENDS Integers, Sequences, FiniteSetsExt

CONSTANTS
  Partition,    \* partitions of the topic; store:product picks one
  Event,        \* event ids
  HourLen,      \* ticks of the clock in an hour
  Delay,        \* inventory_silver_watermark_delay_seconds
  MaxLateness,  \* inventory_max_event_lateness_seconds
  Ahead,        \* conflicting_copy: how far a conflict is after its scan
  MaxTime,      \* bound: the last tick of the clock
  MaxRecords,   \* bound: records in all partitions
  MaxFaults     \* bound: records Bronze skips or reads again

ASSUME CoverageAssumption ==
  /\ HourLen \in Nat \ {0}
  /\ {Delay, MaxLateness, Ahead, MaxTime, MaxRecords, MaxFaults} \subseteq Nat

VARIABLES
  now,      \* the clock of the producers and of Kafka
  log,      \* log[p]: the records of partition p, by offset
  next,     \* next[p]: the offset the Bronze job reads next
  bronze,   \* rows of the committed Bronze table
  lost,     \* number of records skipped
  replays,  \* number of records read again
  pinned    \* the Bronze snapshot of the latest Spark rebuild

vars == <<now, log, next, bronze, lost, replays, pinned>>

Record == [id : Event, time : 0..MaxTime, at : 0..MaxTime]
Row == [partition : Partition, offset : 1..MaxRecords, copy : 1..(MaxFaults + 1)]

TypeOK ==
  /\ now \in 0..MaxTime
  /\ log \in [Partition -> Seq(Record)]
  /\ next \in [Partition -> 1..(MaxRecords + 1)]
  /\ bronze \subseteq Row
  /\ lost \in 0..MaxFaults
  /\ replays \in 0..MaxFaults
  /\ pinned \subseteq Row

Init ==
  /\ now = 0
  /\ log = [p \in Partition |-> <<>>]
  /\ next = [p \in Partition |-> 1]
  /\ bronze = {} /\ pinned = {}
  /\ lost = 0 /\ replays = 0

-------------------------------------------------------------------------------
(* Kafka and the Bronze job                                                *)

Tick ==
  /\ now < MaxTime
  /\ now' = now + 1
  /\ UNCHANGED <<log, next, bronze, lost, replays, pinned>>

Logged == UNION {{<<p, o>> : o \in DOMAIN log[p]} : p \in Partition}

(* A scan, a retry of one (same id and time) or a conflicting copy (same   *)
(* id, other time, possibly ahead of the clock).  Copies keep the store    *)
(* and the product, so they go to the same partition.                      *)
Produce(p, e, t) ==
  /\ Cardinality(Logged) < MaxRecords
  /\ \/ now - t \in 0..MaxLateness
     \/ t > now /\ \E o \in DOMAIN log[p] : log[p][o].id = e /\ t - log[p][o].time \in 1..Ahead
  /\ \A q \in Partition \ {p} : \A o \in DOMAIN log[q] : log[q][o].id # e
  /\ log' = [log EXCEPT ![p] = Append(@, [id |-> e, time |-> t, at |-> now])]
  /\ UNCHANGED <<now, next, bronze, lost, replays, pinned>>

(* A checkpoint commits whatever each partition's reader has got to; with  *)
(* one record and one partition per step every such mix is reached.        *)
Capture(p) ==
  LET o == next[p]
      c == 1 + Cardinality({r \in bronze : r.partition = p /\ r.offset = o})
  IN  /\ o \in DOMAIN log[p]
      /\ bronze' = bronze \cup {[partition |-> p, offset |-> o, copy |-> c]}
      /\ next' = [next EXCEPT ![p] = @ + 1]
      /\ UNCHANGED <<now, log, lost, replays, pinned>>

(* Retention removed the record before the job was back.                   *)
Lose(p) ==
  /\ next[p] \in DOMAIN log[p]
  /\ lost + replays < MaxFaults
  /\ next' = [next EXCEPT ![p] = @ + 1]
  /\ lost' = lost + 1
  /\ UNCHANGED <<now, log, bronze, replays, pinned>>

(* Mutant: the restart goes one offset too far back. *)
ReplayPastStart(p) ==
  /\ next[p] >= 1
  /\ lost + replays < MaxFaults
  /\ next' = [next EXCEPT ![p] = @ - 1]
  /\ replays' = replays + 1
  /\ UNCHANGED <<now, log, bronze, lost, pinned>>

(* A start from the committed group offsets, which lag the committed rows. *)
Replay(p) ==
  /\ next[p] > 1
  /\ lost + replays < MaxFaults
  /\ next' = [next EXCEPT ![p] = @ - 1]
  /\ replays' = replays + 1
  /\ UNCHANGED <<now, log, bronze, lost, pinned>>

(* promote_events: pin the newest snapshot and rebuild everything from it. *)
Rebuild ==
  /\ pinned # bronze
  /\ pinned' = bronze
  /\ UNCHANGED <<now, log, next, bronze, lost, replays>>

Next ==
  \/ Tick
  \/ \E p \in Partition :
       \/ \E e \in Event, t \in 0..MaxTime : Produce(p, e, t)
       \/ Capture(p) \/ Lose(p) \/ Replay(p)
  \/ Rebuild

Spec == Init /\ [][Next]_vars

-------------------------------------------------------------------------------
(* canonicalize and offset_gaps on the pinned snapshot                     *)

HourOf(t) == t \div HourLen
At(r) == log[r.partition][r.offset]
SameRecord(r, q) == r.partition = q.partition /\ r.offset = q.offset

(* Mutant: the same record counts as often as Bronze holds it. *)
UniqueRecordsAll == pinned

(* _transport_rank = 1 *)
UniqueRecords == {r \in pinned : \A q \in pinned : SameRecord(r, q) => r.copy <= q.copy}

(* Mutant: the latest copy of an event wins. *)
PrecedesLatest(r, q) ==
  \/ At(r).time > At(q).time
  \/ At(r).time = At(q).time /\ r.offset > q.offset

(* event_order: event time, then Kafka time, then transport *)
Precedes(r, q) ==
  \/ At(r).time < At(q).time
  \/ At(r).time = At(q).time /\ At(r).at < At(q).at
  \/ At(r).time = At(q).time /\ At(r).at = At(q).at /\ r.offset < q.offset

(* _event_rank = 1 *)
Canonical ==
  LET unique == UniqueRecords
  IN  {r \in unique : \A q \in unique \ {r} : At(q).id = At(r).id => Precedes(r, q)}

(* business_copies, and the transport copies joined to a winner *)
Duplicates ==
  LET unique == UniqueRecords
      winners == Canonical
  IN  (unique \ winners) \cup
      {r \in pinned \ unique : \E w \in winners : At(w).id = At(r).id}

(* Neighbouring offsets of a partition with something missing between.     *)
OffsetGaps ==
  {g \in pinned \X pinned :
     /\ g[1].partition = g[2].partition
     /\ g[2].offset - g[1].offset > 1
     /\ ~\E m \in pinned : /\ m.partition = g[1].partition
                           /\ g[1].offset < m.offset /\ m.offset < g[2].offset}

(* Mutant: the gap is not widened by the event lateness. *)
GapHoursNarrow ==
  UNION {HourOf(At(g[1]).at)..HourOf(At(g[2]).at) : g \in OffsetGaps}

(* int_inventory_coverage_gaps *)
GapHours ==
  UNION {HourOf(At(g[1]).at - MaxLateness)..HourOf(At(g[2]).at) : g \in OffsetGaps}

(* int_inventory_batch_coverage: [batch_start_hour_key, batch_end_hour_key) *)
CoveredHours ==
  LET times == {At(r).at : r \in Canonical}
  IN  IF times = {} THEN {}
      ELSE HourOf(Min(times))..(HourOf(Max(times) - Delay) - 1)

(* int_inventory_hourly: is_estimated is false for these hours only.       *)
FinalHours == CoveredHours \ GapHours

-------------------------------------------------------------------------------
(* Properties                                                              *)

Captured(p) == {r.offset : r \in {q \in pinned : q.partition = p}}

(* A record of Kafka that Bronze lost between two records it has keeps its *)
(* hour provisional: "those hours stay on Flink" (ADR-012).  Only a        *)
(* conflicting copy ahead of the clock may not: it is no scan of its hour. *)
LostRecordsStayEstimated ==
  LET final == FinalHours IN
  \A p \in Partition : \A o \in DOMAIN log[p] :
    /\ o \notin Captured(p)
    /\ log[p][o].time <= log[p][o].at
    /\ \E a, b \in Captured(p) : a < o /\ o < b
    => HourOf(log[p][o].time) \notin final

(* "input_rows != sum(counts)" never raises: every pinned row is canonical *)
(* or a duplicate, none is both, and every captured event has one winner.  *)
RebuildReconciles ==
  LET canonical == Canonical IN
  /\ Cardinality(pinned) = Cardinality(canonical) + Cardinality(Duplicates)
  /\ \A r \in pinned :
       Cardinality({w \in canonical : At(w).id = At(r).id}) = 1

(* The final hour each event is counted in. *)
FinalEvents ==
  LET final == FinalHours
  IN  {<<At(w).id, HourOf(At(w).time)>> : w \in {r \in Canonical : HourOf(At(r).time) \in final}}

(* A rebuild never moves an event out of a final hour into a later one     *)
(* that is final too, however late its copies and their replays are read.  *)
CorrectionsMoveBack ==
  [][pinned' # pinned =>
       LET earlier == FinalEvents
           later == FinalEvents'
       IN  \A x \in earlier, y \in later : x[1] = y[1] => y[2] <= x[2]]_vars
===============================================================================
