----------------------------- MODULE InventorySpeed -----------------------------
(***************************************************************************)
(* The speed layer of the inventory lambda (ADR-012): the Flink job        *)
(* streaming/flink_jobs/inventory_silver_job.py, which sums the scans of   *)
(* inventory.events.v1 by event-time hour into silver.inventory_hourly,    *)
(* how it is stopped, killed and resubmitted                               *)
(* (streaming_manual_flink_jobs.py, streaming/bin/submit_flink_job.sh),    *)
(* and the model that compares its hours with Spark's                      *)
(* (int_inventory_reconciliation_hourly.sql).                              *)
(*                                                                         *)
(* The job never looks at a clock, so what the topic will hold is chosen   *)
(* at the start: a record not read yet may as well not be produced yet.    *)
(* A tick is a second.  event_ts_sql keeps whole seconds, so the window    *)
(* whose last millisecond the watermark has reached is one whose end it    *)
(* has reached.  A quantity is one per event.                              *)
(***************************************************************************)
EXTENDS Integers, Sequences, FiniteSetsExt, Bags, Sums

CONSTANTS
  Partition,    \* partitions of the topic
  Event,        \* event ids
  HourLen,      \* ticks of event time in a window
  Delay,        \* inventory_silver_watermark_delay_seconds
  Ahead,        \* conflicting_copy: how far a conflict is after its scan
  MaxTime,      \* bound: the last tick
  Topics,       \* the contents the topic may have
  MaxFaults     \* bound: failures of the job or the script

(* at is Kafka's timestamp, taken to grow along a partition.  A scan's key  *)
(* keeps its copies in one partition.  A scan or a retry of it is sent no   *)
(* earlier than it happened; a conflicting copy claims a time up to Ahead   *)
(* after the scan, which may not have come yet.                            *)
Record == [id : Event, time : 0..MaxTime, at : 0..MaxTime]
IsTopic(l) ==
  /\ l \in [Partition -> Seq(Record)]
  /\ \A p \in Partition : \A i \in 2..Len(l[p]) : l[p][i - 1].at <= l[p][i].at
  /\ \A p, q \in Partition : \A i \in DOMAIN l[p], j \in DOMAIN l[q] :
       l[p][i].id = l[q][j].id => p = q
  /\ \A p \in Partition : \A i \in DOMAIN l[p] :
       \/ l[p][i].time <= l[p][i].at
       \/ \E j \in 1..(i - 1) : /\ l[p][j].id = l[p][i].id
                               /\ l[p][i].time - l[p][j].time \in 0..Ahead

ASSUME SpeedAssumption ==
  /\ IsFiniteSet(Partition)
  /\ HourLen \in Nat \ {0}
  /\ {Delay, Ahead, MaxTime, MaxFaults} \subseteq Nat
  /\ \A l \in Topics : IsTopic(l)

VARIABLES
  log,        \* log[p]: the records of partition p, by offset
  group,      \* group[p]: the offset the consumer group has committed
  held,       \* history: records the windows held at those offsets
  silver,     \* silver.inventory_hourly: a bag of rows
  retained,   \* retained[k]: the newest snapshot of kind k on S3
  latest,     \* kind of the newest of them, or "none"
  running,    \* does YARN run the application?
  own,        \* kind of the application's last snapshot, or "none"
  next,       \* next[p]: the offset the source reads next
  high,       \* high[p]: newest event time the source saw in p, or -1
  idle,       \* partitions the source counts as idle
  watermark,  \* watermark of the window operators
  kept,       \* records the open windows hold
  files,      \* rows of closed windows since the last snapshot
  told,       \* has the job been told that its last snapshot completed?
  faults,     \* faults used so far
  behind,     \* history: partitions the watermark may have passed while idle
  overtaken,  \* history: records dropped while their partition was behind
  forgotten,  \* history: records in windows a start without state forgot
  stale       \* history: was there a start from less than the newest snapshot?

jobVars == <<next, high, idle, watermark, kept, files, behind>>
historyVars == <<overtaken, forgotten, stale>>
groupVars == <<group, held>>
snapshotVars == <<retained, latest>>
vars == <<log, groupVars, silver, snapshotVars, running, own, told, faults,
          jobVars, historyVars>>

-------------------------------------------------------------------------------
Logged == UNION {{[partition |-> p, offset |-> o] : o \in DOMAIN log[p]} : p \in Partition}
At(r) == log[r.partition][r.offset]

Offsets == [Partition -> Nat \ {0}]
Hours == 0..(MaxTime \div HourLen)
HourOf(r) == At(r).time \div HourLen
WindowEnd(h) == (h + 1) * HourLen
SameEvent(r, q) == At(r).id = At(q).id /\ HourOf(r) = HourOf(q)

Kinds == {"checkpoint", "savepoint"}
Row == [hour : Hours, records : SUBSET Logged]
Snapshot == [next : Offsets, watermark : 0..MaxTime,
             kept : SUBSET Logged, files : SUBSET Row, committed : BOOLEAN,
             behind : SUBSET Partition]

TypeOK ==
  /\ log \in Topics
  /\ group \in Offsets /\ next \in Offsets /\ held \subseteq Logged
  /\ IsABag(silver) /\ BagToSet(silver) \subseteq Row
  /\ DOMAIN retained \subseteq Kinds /\ \A k \in DOMAIN retained : retained[k] \in Snapshot
  /\ IF DOMAIN retained = {} THEN latest = "none" ELSE latest \in DOMAIN retained
  /\ {running, told, stale} \subseteq BOOLEAN
  /\ own \in Kinds \cup {"none"}
  /\ high \in [Partition -> -1..MaxTime]
  /\ idle \subseteq Partition /\ behind \subseteq Partition
  /\ watermark \in 0..MaxTime
  /\ kept \subseteq Logged /\ files \subseteq Row
  /\ overtaken \subseteq Logged /\ forgotten \subseteq Logged
  /\ faults \in 0..MaxFaults

Init ==
  /\ log \in Topics
  /\ group = [p \in Partition |-> 1] /\ held = {}
  /\ silver = EmptyBag
  /\ retained = <<>> /\ latest = "none"
  /\ running = FALSE /\ own = "none" /\ told = TRUE
  /\ next = [p \in Partition |-> 1]
  /\ high = [p \in Partition |-> -1]
  /\ idle = {} /\ behind = {}
  /\ watermark = 0
  /\ kept = {} /\ files = {}
  /\ overtaken = {} /\ forgotten = {} /\ stale = FALSE
  /\ faults = 0

UseFault ==
  /\ faults < MaxFaults
  /\ faults' = faults + 1

-------------------------------------------------------------------------------
(* Submission                                                              *)

Rows == BagToSet(silver)
Newest == retained[latest]

(* Of the snapshots below the listed prefixes, the newest (sort | tail -n 1) *)
Found(listed) == listed \cap DOMAIN retained
Chosen(listed) == IF latest \in listed THEN latest ELSE CHOOSE k \in Found(listed) : TRUE

(* The sources and operators start; splits have seen nothing yet.          *)
Load(from, mark, windows, passed) ==
  /\ next' = from
  /\ watermark' = mark
  /\ kept' = windows
  /\ behind' = passed
  /\ files' = {}
  /\ high' = [p \in Partition |-> -1]
  /\ idle' = {}

(* Restored from a snapshot: the sink commits the snapshot's files unless  *)
(* the table already has them.                                             *)
Restore(k) ==
  LET s == retained[k]
  IN  /\ Load(s.next, s.watermark, s.kept, s.behind)
      /\ silver' = IF s.committed THEN silver ELSE silver (+) SetToBag(s.files)
      /\ retained' = [retained EXCEPT ![k] = [s EXCEPT !.committed = TRUE]]
      /\ told' = TRUE
      /\ UNCHANGED <<groupVars, latest, overtaken, forgotten>>

(* Without state: scan.startup.mode = group-offsets.  What the windows held *)
(* at those offsets, and the table does not have by now, is read no more.  *)
StartFresh ==
  /\ Load(group, 0, {}, {})
  /\ told' = TRUE
  /\ forgotten' = forgotten \cup
       {r \in held : \A row \in Rows : \A q \in row.records : ~SameEvent(q, r)}
  /\ UNCHANGED <<groupVars, silver, snapshotVars, overtaken>>

StartFrom(listed) ==
  IF Found(listed) = {} THEN StartFresh ELSE Restore(Chosen(listed))

(* The job of an EMR step, unless YARN already lists the application.  The  *)
(* cluster runs its steps one at a time, so nothing comes between the list  *)
(* and the submission.  The newest snapshot of the listed prefixes is       *)
(* passed on (sort | tail -n 1).                                           *)
Submit(listed) ==
  /\ ~running
  /\ running' = TRUE
  /\ own' = IF Found(listed) = {} THEN "none" ELSE Chosen(listed)
  /\ StartFrom(listed)
  /\ stale' = (stale \/ (latest # "none" /\ latest \notin listed))
  /\ UNCHANGED log

(* Mutant: the listing leaves out the savepoints. *)
SubmitNewestCheckpoint ==
  /\ ~running
  /\ running' = TRUE
  /\ own' = IF Found({"checkpoint"}) = {} THEN "none" ELSE "checkpoint"
  /\ StartFrom({"checkpoint"})
  /\ UNCHANGED <<log, stale, faults>>

SubmitNewest ==
  /\ Submit(Kinds)
  /\ UNCHANGED faults

(* An operator deleted the prefixes to start fresh, or S3 did not answer:  *)
(* "aws s3 ls ... || true" reads either as a prefix without snapshots.     *)
SubmitPartly ==
  /\ latest # "none"
  /\ UseFault
  /\ \E listed \in (SUBSET Kinds) \ {Kinds} : Submit(listed)

(* A container is lost; Flink restarts the job from the last snapshot it   *)
(* took or was given.                                                      *)
Restart ==
  /\ running
  /\ UseFault
  /\ StartFrom({own})
  /\ UNCHANGED <<log, running, own, stale>>

(* The application's memory is gone. *)
Ended ==
  /\ running' = FALSE
  /\ own' = "none"
  /\ told' = TRUE
  /\ Load([p \in Partition |-> 1], 0, {}, {})

(* The application is killed or the cluster is gone.                       *)
Die ==
  /\ running
  /\ UseFault
  /\ Ended
  /\ UNCHANGED <<log, groupVars, silver, snapshotVars, historyVars>>

-------------------------------------------------------------------------------
(* The job                                                                 *)

(* Mutant: no deduplication. *)
DeduplicatedNot(r) == kept \cup {r}

(* ROW_NUMBER() = 1 per window and event_id, ordered by event_ts           *)
Deduplicated(r) ==
  LET copies == {q \in kept : SameEvent(q, r)}
  IN  IF \A q \in copies : At(r).time < At(q).time
      THEN (kept \ copies) \cup {r}
      ELSE kept

Working == running /\ (~told => latest = "checkpoint")

Read(p) ==
  LET r == [partition |-> p, offset |-> next[p]]
      newest == Max({high[p], At(r).time})
      late == WindowEnd(HourOf(r)) <= watermark
  IN  /\ Working
      /\ next[p] \in DOMAIN log[p]
      /\ next' = [next EXCEPT ![p] = @ + 1]
      /\ high' = [high EXCEPT ![p] = newest]
      /\ idle' = idle \ {p}
      /\ kept' = IF late THEN kept ELSE Deduplicated(r)
      /\ overtaken' = IF late /\ p \in behind THEN overtaken \cup {r} ELSE overtaken
      /\ behind' = IF newest - Delay >= watermark THEN behind \ {p} ELSE behind
      /\ UNCHANGED <<log, groupVars, silver, snapshotVars, running, own, told, faults,
                     watermark, files, forgotten, stale>>

(* No record for source_idle_timeout: the partition is quiet, or its       *)
(* broker does not answer.                                                 *)
MarkIdle(p) ==
  /\ Working
  /\ p \notin idle
  /\ idle' = idle \cup {p}
  /\ behind' = behind \cup {p}
  /\ UNCHANGED <<log, groupVars, silver, snapshotVars, running, own, told, faults,
                 next, high, watermark, kept, files, historyVars>>

(* Mutant: the watermark is not held back. *)
SourceWatermarkEager == Min({high[p] : p \in Partition \ idle})

(* The minimum over the partitions that are not idle, Delay behind the     *)
(* newest event each has seen                                              *)
SourceWatermark == Min({high[p] : p \in Partition \ idle}) - Delay

(* Windows the watermark passes close with one row each.                   *)
Advance ==
  /\ Working
  /\ Partition \ idle # {}
  /\ SourceWatermark > watermark
  /\ watermark' = SourceWatermark
  /\ LET closed == {r \in kept : WindowEnd(HourOf(r)) <= SourceWatermark}
     IN  /\ files' = files \cup {[hour |-> h, records |-> {r \in closed : HourOf(r) = h}] :
                                   h \in {HourOf(r) : r \in closed}}
         /\ kept' = kept \ closed
  /\ UNCHANGED <<log, groupVars, silver, snapshotVars, running, own, told, faults,
                 next, high, idle, behind, historyVars>>

SnapshotTaken ==
  [next |-> next, watermark |-> watermark, kept |-> kept, files |-> files,
   committed |-> FALSE, behind |-> behind]

(* Mutant: a listing does not find the newest snapshot last. *)
RetainUnsorted(kind) ==
  /\ retained' = [k \in DOMAIN retained \cup {kind} |->
                    IF k = kind THEN SnapshotTaken ELSE retained[k]]
  /\ UNCHANGED latest

(* Each prefix keeps its newest snapshot; older ones are never chosen.     *)
Retain(kind) ==
  /\ retained' = [k \in DOMAIN retained \cup {kind} |->
                    IF k = kind THEN SnapshotTaken ELSE retained[k]]
  /\ latest' = kind

(* A snapshot is complete with its _metadata; the job is told later.       *)
Take(kind) ==
  /\ running /\ told
  /\ Retain(kind)
  /\ files' = {}
  /\ own' = kind
  /\ told' = FALSE
  /\ UNCHANGED <<log, groupVars, silver, running, faults,
                 next, high, idle, watermark, kept, behind, historyVars>>

Checkpoint == Take("checkpoint")

(* flink stop --savepointPath: nothing is read after the savepoint.        *)
StopWithSavepoint == Take("savepoint")

(* notifyCheckpointComplete: the Iceberg sink commits the rows, the source *)
(* the offsets, which Kafka may refuse without the job noticing.  A job    *)
(* that is stopping ends with it.                                          *)
Notify ==
  /\ running /\ ~told
  /\ silver' = silver (+) SetToBag(Newest.files)
  /\ retained' = [retained EXCEPT ![latest] = [@ EXCEPT !.committed = TRUE]]
  /\ \/ group' = Newest.next /\ held' = Newest.kept
     \/ UNCHANGED groupVars
  /\ IF latest = "savepoint"
     THEN Ended
     ELSE told' = TRUE /\ UNCHANGED <<running, own, jobVars>>
  /\ UNCHANGED <<log, latest, faults, historyVars>>

Next ==
  \/ SubmitNewest \/ SubmitPartly
  \/ Restart \/ Die
  \/ \E p \in Partition : Read(p) \/ MarkIdle(p)
  \/ Advance
  \/ Checkpoint \/ Notify \/ StopWithSavepoint

Spec == Init /\ [][Next]_vars

-------------------------------------------------------------------------------
(* int_inventory_reconciliation_hourly, counting events for quantities      *)

(* Mutant: a record that arrives with the end of the delay is expected. *)
LateDroppedAfter(r) == At(r).at > WindowEnd(HourOf(r)) + Delay

(* is_late_dropped *)
LateDropped(r) == At(r).at >= WindowEnd(HourOf(r)) + Delay

(* silver.inventory_events: the earliest copy of each event *)
Precedes(r, q) ==
  \/ At(r).time < At(q).time
  \/ At(r).time = At(q).time /\ r.offset < q.offset

CanonicalOf(records) ==
  {r \in records : \A q \in records \ {r} : At(q).id = At(r).id => Precedes(r, q)}

ExpectedQty(h, records) ==
  Cardinality({r \in CanonicalOf(records) : HourOf(r) = h /\ ~LateDropped(r)})

SilverQty(h) ==
  Total([row \in {r \in Rows : r.hour = h} |-> silver[row] * Cardinality(row.records)])

UnexplainedQty(h, records) == SilverQty(h) - ExpectedQty(h, records)

-------------------------------------------------------------------------------
(* Properties                                                              *)

(* What the newest snapshot has behind it                                  *)
Processed ==
  IF latest = "none" THEN {} ELSE {r \in Logged : r.offset < Newest.next[r.partition]}

(* What the table holds, or the newest snapshot will still add to it       *)
Durable ==
  (UNION {row.records : row \in Rows}) \cup
  IF latest = "none" THEN {}
  ELSE Newest.kept \cup UNION {row.records : row \in Newest.files}

(* However the job is killed, restarted from a checkpoint or stopped and   *)
(* resubmitted, each hour has one row and counts each event once.  Only a  *)
(* start without state may count again what was not committed to the       *)
(* group.                                                                  *)
CountedOnce ==
  ~stale =>
    /\ \A row \in Rows : silver[row] = 1
    /\ \A a, b \in Rows : a # b => a.hour # b.hour
    /\ \A row \in Rows : \A r, q \in row.records : SameEvent(r, q) => r = q

(* A conflicting copy ahead of the clock, read before r, lets r's window   *)
(* close before its time.                                                  *)
Hurried(r) ==
  \E o \in 1..(r.offset - 1) :
    LET q == log[r.partition][o]
    IN  q.time > q.at /\ q.time - Delay >= WindowEnd(HourOf(r))

(* A record the job is done with is counted, or one of its copies is, or   *)
(* it is one int_inventory_reconciliation_hourly predicts as dropped, or   *)
(* the watermark passed it while its partition counted as idle or because  *)
(* of a conflicting copy ahead of the clock, or it was in a window a start *)
(* without state forgot: nothing else loses a scan.                        *)
ShortfallExplained ==
  \A r \in Processed :
    \/ \E q \in Durable \cup forgotten : SameEvent(r, q)
    \/ LateDropped(r)
    \/ r \in overtaken
    \/ Hurried(r)

(* An hour is settled when its window has closed and its row is committed. *)
Settled(h) == latest # "none" /\ Newest.committed /\ WindowEnd(h) <= Newest.watermark

(* What unexplained_qty tells (int_inventory_reconciliation_hourly:14-18): *)
(* it is negative for a settled hour only if one of the losses above hit   *)
(* the hour, and without such a loss, a replay, a predicted drop or a  *)
(* conflicting copy it is zero.                                            *)
UnexplainedNamesTrouble ==
  \A h \in Hours :
    LET Conflicts(r) == \E q \in Processed : At(q).id = At(r).id /\ At(q).time # At(r).time
        lost == {r \in Logged : HourOf(r) = h /\ (r \in overtaken \cup forgotten \/ Hurried(r))}
        doubtful == {r \in Processed : HourOf(r) = h /\ (LateDropped(r) \/ Conflicts(r))}
        unexplained == UnexplainedQty(h, Processed)
    IN  Settled(h) /\ lost = {} =>
          /\ unexplained >= 0
          /\ doubtful = {} /\ ~stale => unexplained = 0
===============================================================================
