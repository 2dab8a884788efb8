--------------------------- MODULE InventorySpeedProofs ---------------------------
(***************************************************************************)
(* The speed layer for any partitions, events, topics, delays and hour     *)
(* lengths, and any number of failures.                                    *)
(*                                                                         *)
(* Three arguments.  A row of the table, of a snapshot or of the job has   *)
(* the records of a window the watermark has passed, and open windows are  *)
(* those it has not, so a job and the snapshots it descends from never     *)
(* have rows of the same hour (WindowInv, TableInv).  Every record before  *)
(* the offsets of the job, of a snapshot or of the consumer group is in    *)
(* the table, in the windows that go with those offsets, or its loss has a *)
(* cause (LossInv).  And the watermark is held back by a record read from  *)
(* every partition it has not passed while idle (PlaceInv).                *)
(*                                                                         *)
(* What reconciliation compares follows by mapping events: each expected   *)
(* one to its record in the table, which no loss has removed, and each     *)
(* record in the table to the first copy Bronze has of it, which is before *)
(* the offsets of the newest snapshot (ReadInv).                           *)
(***************************************************************************)
EXTENDS InventorySpeed, SumsProofs

(* A job is told about the newest snapshot, which is its own.              *)
ToldInv == ~told => running /\ latest # "none" /\ ~Newest.committed

(* A record with the end of its time reached the watermark at every        *)
(* partition that is not in passed.                                        *)
HeldBack(from, mark, passed) ==
  \A p \in Partition \ passed : mark > 0 =>
    \E o \in DOMAIN log[p] : o < from[p] /\ log[p][o].time - Delay >= mark

PlaceInv ==
  /\ idle \subseteq behind
  /\ \A p \in Partition : high[p] # -1 =>
       \E o \in DOMAIN log[p] : o < next[p] /\ log[p][o].time = high[p]
  /\ HeldBack(next, watermark, behind)
  /\ \A k \in DOMAIN retained :
       HeldBack(retained[k].next, retained[k].watermark, retained[k].behind)

Single(records) == \A r, q \in records : SameEvent(r, q) => r = q

OfHour(row) == \A r \in row.records : HourOf(r) = row.hour

(* Rows are of windows closed at mark, windows with records are open.      *)
Closed(rows, windows, mark) ==
  /\ \A row \in rows : WindowEnd(row.hour) <= mark /\ Single(row.records) /\ OfHour(row)
  /\ \A a, b \in rows : a.hour = b.hour => a = b
  /\ Single(windows) /\ \A r \in windows : WindowEnd(HourOf(r)) > mark

WindowInv ==
  /\ \A row \in Rows : OfHour(row)
  /\ Closed(files, kept, watermark)
  /\ \A k \in DOMAIN retained :
       Closed(retained[k].files, retained[k].kept, retained[k].watermark)

InRows(rows) == UNION {row.records : row \in rows}
Excused(r) == LateDropped(r) \/ r \in overtaken \/ Hurried(r)

(* The records before from are in S, but for those whose loss has a cause. *)
Covered(from, S) ==
  \A r \in Logged : r.offset < from[r.partition] => Excused(r) \/ \E q \in S : SameEvent(r, q)

Tabled == InRows(Rows) \cup forgotten
Pending == IF told THEN {} ELSE InRows(Newest.files)

LossInv ==
  /\ Covered(group, Tabled \cup held)
  /\ Covered(next, Tabled \cup kept \cup InRows(files) \cup Pending)
  /\ \A k \in DOMAIN retained :
       /\ Covered(retained[k].next, Tabled \cup retained[k].kept \cup InRows(retained[k].files))
       /\ retained[k].committed => retained[k].files \subseteq Rows

(* Without a stale start the job, its newest snapshot and the table are    *)
(* one line: the table has the hours up to the snapshot's watermark, the   *)
(* job those after it.                                                     *)
Mark == IF latest = "none" THEN 0 ELSE Newest.watermark

TableInv ==
  /\ \A row \in Rows : silver[row] = 1 /\ Single(row.records) /\ WindowEnd(row.hour) <= Mark
  /\ \A a, b \in Rows : a.hour = b.hour => a = b
  /\ latest # "none" /\ ~Newest.committed =>
       \A row \in Newest.files, a \in Rows : row.hour # a.hour
  /\ running => /\ own = latest /\ watermark >= Mark
                /\ \A row \in files : WindowEnd(row.hour) > Mark
                /\ told /\ latest # "none" => Newest.committed

SpeedInv ==
  /\ TypeOK /\ ToldInv /\ PlaceInv /\ WindowInv /\ LossInv
  /\ ~stale => TableInv

-------------------------------------------------------------------------------
(* The topic, numbers and bags *)

LEMMA Topic ==
  ASSUME TypeOK, NEW p \in Partition
  PROVE  /\ log \in [Partition -> Seq(Record)] /\ IsTopic(log)
         /\ Len(log[p]) \in Nat /\ DOMAIN log[p] = 1..Len(log[p])
         /\ \A o \in DOMAIN log[p] : /\ o \in Nat /\ log[p][o] \in Record
                                     /\ log[p][o].time \in Nat /\ log[p][o].at \in Nat
                                     /\ log[p][o].time <= MaxTime
<1>1. IsTopic(log)
  BY SpeedAssumption DEF TypeOK
<1>2. log \in [Partition -> Seq(Record)]
  BY <1>1 DEF IsTopic
<1>3. Len(log[p]) \in Nat /\ DOMAIN log[p] = 1..Len(log[p])
  BY <1>2
<1>4. ASSUME NEW o \in DOMAIN log[p]
      PROVE  /\ o \in Nat /\ log[p][o] \in Record
             /\ log[p][o].time \in Nat /\ log[p][o].at \in Nat /\ log[p][o].time <= MaxTime
  <2>1. o \in Nat /\ log[p][o] \in Record
    BY <1>2, <1>3
  <2>2. log[p][o].time \in 0..MaxTime /\ log[p][o].at \in 0..MaxTime
    BY <2>1 DEF Record
  <2>3. MaxTime \in Nat
    BY SpeedAssumption
  <2> QED BY <2>1, <2>2, <2>3
<1> QED BY <1>1, <1>2, <1>3, <1>4

(* Kafka's timestamps grow along a partition. *)
LEMMA InOrder ==
  ASSUME TypeOK, NEW p \in Partition, NEW i \in DOMAIN log[p], NEW j \in DOMAIN log[p], i <= j
  PROVE  log[p][i].at <= log[p][j].at
<1> SUFFICES ASSUME log[p][j].at < log[p][i].at PROVE FALSE
  BY Topic
<1> DEFINE T == {k \in DOMAIN log[p] : i <= k /\ log[p][k].at < log[p][i].at}
<1>1. T \in SUBSET Nat /\ j \in T
  BY Topic
<1>2. \E k \in T : \A m \in T : k <= m
  <2> HIDE DEF T
  <2> QED BY <1>1, LeastNat
<1>3. PICK k \in T : \A m \in T : k <= m
  BY <1>2
<1>4. k \in Nat /\ i \in Nat /\ i # k /\ k - 1 \in DOMAIN log[p] /\ k \in 2..Len(log[p]) /\ i <= k - 1
  BY Topic
<1>5. log[p][k - 1].at <= log[p][k].at
  BY <1>4, Topic DEF IsTopic
<1>6. log[p][k - 1].at < log[p][i].at
  BY <1>4, <1>5, Topic
<1>7. k - 1 \in T
  BY <1>4, <1>6
<1> QED BY <1>3, <1>4, <1>7

LEMMA LoggedRecord ==
  ASSUME TypeOK, NEW r \in Logged
  PROVE  /\ r.partition \in Partition /\ r.offset \in DOMAIN log[r.partition] /\ r.offset \in Nat
         /\ r = [partition |-> r.partition, offset |-> r.offset]
         /\ At(r) = log[r.partition][r.offset]
         /\ At(r).time \in Nat /\ At(r).at \in Nat /\ At(r).time <= MaxTime
<1>1. PICK p \in Partition : \E o \in DOMAIN log[p] : r = [partition |-> p, offset |-> o]
  BY DEF Logged
<1>2. PICK o \in DOMAIN log[p] : r = [partition |-> p, offset |-> o]
  BY <1>1
<1> QED BY <1>2, Topic DEF At

LEMMA HourBounds ==
  ASSUME TypeOK, NEW r \in Logged
  PROVE  HourOf(r) \in Hours /\ HourOf(r) \in Nat
<1>1. At(r).time \in Nat /\ At(r).time <= MaxTime /\ MaxTime \in Nat /\ HourLen \in Nat \ {0}
  BY LoggedRecord, SpeedAssumption
<1>2. \A t \in Nat : t <= MaxTime => t \div HourLen \in 0..(MaxTime \div HourLen)
  BY <1>1
<1> QED BY <1>1, <1>2 DEF HourOf, Hours

LEMMA WindowEndType ==
  ASSUME NEW h \in Nat
  PROVE  WindowEnd(h) \in Nat
BY SpeedAssumption DEF WindowEnd

LEMMA HourType == Hours \subseteq Nat
BY SpeedAssumption DEF Hours

(* The topic does not change, and what is said of its records neither. *)
LEMMA SameLog ==
  ASSUME log' = log
  PROVE  /\ Logged' = Logged
         /\ \A r : At(r)' = At(r) /\ HourOf(r)' = HourOf(r)
         /\ \A r, q : SameEvent(r, q)' <=> SameEvent(r, q)
         /\ \A r : (LateDropped(r)' <=> LateDropped(r)) /\ (Hurried(r)' <=> Hurried(r))
<1>1. Logged' = Logged
  BY DEF Logged
<1>2. \A r : At(r)' = At(r) /\ HourOf(r)' = HourOf(r)
  BY DEF At, HourOf
<1>3. \A r, q : SameEvent(r, q)' <=> SameEvent(r, q)
  BY <1>2 DEF SameEvent
<1>4. \A r : LateDropped(r)' <=> LateDropped(r)
  BY <1>2 DEF LateDropped
<1>5. \A r : Hurried(r)' <=> Hurried(r)
  BY <1>2 DEF Hurried
<1> QED BY <1>1, <1>2, <1>3, <1>4, <1>5

LEMMA SameEventSteps ==
  /\ \A r : SameEvent(r, r)
  /\ \A r, q : SameEvent(r, q) => SameEvent(q, r)
  /\ \A r, q, s : SameEvent(r, q) /\ SameEvent(q, s) => SameEvent(r, s)
BY DEF SameEvent

(* The source's watermark is Delay behind one of the partitions that are   *)
(* not idle, and no less behind any other.                                 *)
LEMMA WatermarkBounds ==
  ASSUME TypeOK, Partition \ idle # {}
  PROVE  /\ SourceWatermark \in Int /\ SourceWatermark <= MaxTime
         /\ \A p \in Partition \ idle : SourceWatermark <= high[p] - Delay
<1> DEFINE S == {high[p] : p \in Partition \ idle}
<1>1. Delay \in Nat /\ MaxTime \in Nat
  BY SpeedAssumption
<1>2. S # {} /\ \A x \in S : x \in Int /\ -1 <= x /\ x <= MaxTime
  BY <1>1 DEF TypeOK
<1> HIDE DEF S
<1>3. \E x \in S : \A y \in S : x <= y
  <2> DEFINE T == {x + 1 : x \in S}
  <2>1. T \in SUBSET Nat /\ T # {}
    BY <1>2
  <2>2. \E x \in T : \A y \in T : x <= y
    <3> HIDE DEF T
    <3> QED BY <2>1, LeastNat
  <2>3. PICK x \in S : \A y \in S : x + 1 <= y + 1
    BY <2>2
  <2> QED BY <1>2, <2>3
<1>4. Min(S) \in S /\ \A y \in S : Min(S) <= y
  BY <1>3 DEF Min
<1>5. SourceWatermark = Min(S) - Delay
  BY DEF SourceWatermark, S
<1>6. Min(S) \in Int /\ Min(S) <= MaxTime
  BY <1>2, <1>4
<1>7. \A p \in Partition \ idle : high[p] \in S /\ high[p] \in Int
  BY <1>2 DEF S
<1> HIDE DEF S
<1> QED BY <1>1, <1>4, <1>5, <1>6, <1>7

LEMMA LargerOfTwo ==
  ASSUME NEW a \in Int, NEW b \in Int
  PROVE  /\ Max({a, b}) \in {a, b} /\ a <= Max({a, b}) /\ b <= Max({a, b})
<1>1. \E x \in {a, b} : \A y \in {a, b} : x >= y
  OBVIOUS
<1>2. Max({a, b}) \in {a, b} /\ \A y \in {a, b} : Max({a, b}) >= y
  BY <1>1 DEF Max
<1> QED BY <1>2

(* Committing rows adds one copy of each. *)
LEMMA CommitRows ==
  ASSUME IsABag(silver), NEW F
  PROVE  /\ IsABag(silver (+) SetToBag(F))
         /\ BagToSet(silver (+) SetToBag(F)) = Rows \cup F
         /\ \A row \in Rows \ F : (silver (+) SetToBag(F))[row] = silver[row]
         /\ \A row \in F \ Rows : (silver (+) SetToBag(F))[row] = 1
<1>1. silver \in [DOMAIN silver -> {n \in Nat : n > 0}]
  BY DEF IsABag
<1> QED BY <1>1 DEF IsABag, SetToBag, BagToSet, (+), Rows

-------------------------------------------------------------------------------
(* Types *)

LEMMA SpeedTypes ==
  ASSUME TypeOK
  PROVE  /\ running \in BOOLEAN /\ told \in BOOLEAN /\ stale \in BOOLEAN
         /\ watermark \in Nat /\ watermark <= MaxTime /\ MaxTime \in Nat /\ Delay \in Nat
         /\ \A p \in Partition : group[p] \in Nat \ {0} /\ next[p] \in Nat \ {0} /\ high[p] \in Int
         /\ DOMAIN retained \subseteq {"checkpoint", "savepoint"}
         /\ \A k \in DOMAIN retained :
              /\ retained[k] \in Snapshot
              /\ retained[k].next \in Offsets /\ retained[k].watermark \in Nat
              /\ retained[k].watermark \in 0..MaxTime
              /\ retained[k].kept \subseteq Logged /\ retained[k].files \subseteq Row
              /\ retained[k].committed \in BOOLEAN /\ retained[k].behind \subseteq Partition
         /\ latest # "none" => latest \in DOMAIN retained
         /\ latest = "none" => DOMAIN retained = {}
<1>1. MaxTime \in Nat /\ Delay \in Nat
  BY SpeedAssumption
<1>2. running \in BOOLEAN /\ told \in BOOLEAN /\ stale \in BOOLEAN
  BY Zenon DEF TypeOK
<1>3. watermark \in Nat /\ watermark <= MaxTime
  BY <1>1 DEF TypeOK
<1>4. \A p \in Partition : group[p] \in Nat \ {0} /\ next[p] \in Nat \ {0} /\ high[p] \in Int
  <2>1. group \in Offsets /\ next \in Offsets /\ high \in [Partition -> -1..MaxTime]
    BY DEF TypeOK
  <2> QED BY <1>1, <2>1 DEF Offsets
<1>5. DOMAIN retained \subseteq {"checkpoint", "savepoint"}
  BY DEF TypeOK, Kinds
<1>6. ASSUME NEW k \in DOMAIN retained
      PROVE  /\ retained[k] \in Snapshot
             /\ retained[k].next \in Offsets /\ retained[k].watermark \in Nat
             /\ retained[k].watermark \in 0..MaxTime
             /\ retained[k].kept \subseteq Logged /\ retained[k].files \subseteq Row
             /\ retained[k].committed \in BOOLEAN /\ retained[k].behind \subseteq Partition
  <2>1. retained[k] \in Snapshot
    BY DEF TypeOK
  <2>2. /\ retained[k].next \in Offsets /\ retained[k].watermark \in 0..MaxTime
        /\ retained[k].kept \subseteq Logged /\ retained[k].files \subseteq Row
        /\ retained[k].committed \in BOOLEAN /\ retained[k].behind \subseteq Partition
    BY <2>1 DEF Snapshot
  <2> QED BY <1>1, <2>1, <2>2
<1>7. (latest # "none" => latest \in DOMAIN retained) /\ (latest = "none" => DOMAIN retained = {})
  <2>1. IF DOMAIN retained = {} THEN latest = "none" ELSE latest \in DOMAIN retained
    BY DEF TypeOK
  <2>2. latest = "none" => latest \notin DOMAIN retained
    BY <1>5
  <2> QED BY <2>1, <2>2
<1> QED BY <1>1, <1>2, <1>3, <1>4, <1>5, <1>6, <1>7

(* A type-correct start of the operators from state of any kind. *)
LEMMA LoadTypes ==
  ASSUME NEW from, NEW mark, NEW windows, NEW passed,
         from \in Offsets, mark \in 0..MaxTime, windows \subseteq Logged, passed \subseteq Partition,
         Load(from, mark, windows, passed)
  PROVE  /\ next' = from /\ watermark' = mark /\ kept' = windows /\ behind' = passed
         /\ files' = {} /\ idle' = {} /\ (\A p \in Partition : high'[p] = -1)
         /\ next' \in Offsets /\ high' \in [Partition -> -1..MaxTime] /\ watermark' \in 0..MaxTime
         /\ kept' \subseteq Logged /\ behind' \subseteq Partition
<1>1. -1 \in -1..MaxTime
  BY SpeedAssumption
<1> QED BY <1>1 DEF Load

LEMMA FirstOffsets == [p \in Partition |-> 1] \in Offsets
BY DEF Offsets

LEMMA StartFreshTypes ==
  ASSUME TypeOK, log' = log, StartFresh
  PROVE  /\ next' = group /\ watermark' = 0 /\ kept' = {} /\ behind' = {}
         /\ files' = {} /\ idle' = {} /\ (\A p \in Partition : high'[p] = -1)
         /\ next' \in Offsets /\ high' \in [Partition -> -1..MaxTime] /\ watermark' \in 0..MaxTime
         /\ forgotten \subseteq forgotten' /\ forgotten' \subseteq Logged
<1>1. group \in Offsets /\ 0 \in 0..MaxTime /\ forgotten \subseteq Logged /\ held \subseteq Logged
  BY SpeedAssumption DEF TypeOK
<1>2. Load(group, 0, {}, {})
  BY DEF StartFresh
<1>3. forgotten \subseteq forgotten' /\ forgotten' \subseteq Logged
  BY <1>1 DEF StartFresh
<1>4. {} \subseteq Logged /\ {} \subseteq Partition
  OBVIOUS
<1> QED BY <1>1, <1>2, <1>3, <1>4, LoadTypes

LEMMA RestoreTypes ==
  ASSUME TypeOK, log' = log, NEW k \in DOMAIN retained, Restore(k)
  PROVE  LET s == retained[k] IN
         /\ next' = s.next /\ watermark' = s.watermark /\ kept' = s.kept /\ behind' = s.behind
         /\ files' = {} /\ idle' = {} /\ (\A p \in Partition : high'[p] = -1)
         /\ next' \in Offsets /\ high' \in [Partition -> -1..MaxTime] /\ watermark' \in 0..MaxTime
         /\ kept' \subseteq Logged /\ behind' \subseteq Partition
         /\ IsABag(silver') /\ BagToSet(silver') = Rows \cup (IF s.committed THEN {} ELSE s.files)
         /\ BagToSet(silver') \subseteq Row
         /\ retained' = [retained EXCEPT ![k] = [s EXCEPT !.committed = TRUE]]
         /\ DOMAIN retained' = DOMAIN retained /\ \A j \in DOMAIN retained : retained'[j] \in Snapshot
<1> DEFINE s == retained[k]
<1>1. s.next \in Offsets /\ s.watermark \in 0..MaxTime /\ s.kept \subseteq Logged /\ s.behind \subseteq Partition
      /\ s \in Snapshot /\ s.files \subseteq Row
  BY SpeedTypes
<1>2. Load(s.next, s.watermark, s.kept, s.behind)
  BY DEF Restore
<1>3. IsABag(silver) /\ BagToSet(silver) \subseteq Row /\ Rows = BagToSet(silver)
  BY DEF TypeOK, Rows
<1>4. silver' = IF s.committed THEN silver ELSE silver (+) SetToBag(s.files)
  BY DEF Restore
<1>5. IsABag(silver') /\ BagToSet(silver') = Rows \cup (IF s.committed THEN {} ELSE s.files)
  <2>1. CASE s.committed
    BY <1>3, <1>4, <2>1
  <2>2. CASE ~s.committed
    BY <1>3, <1>4, <2>2, CommitRows
  <2> QED BY <2>1, <2>2
<1>6. retained' = [retained EXCEPT ![k] = [s EXCEPT !.committed = TRUE]]
  BY DEF Restore
<1>7. [s EXCEPT !.committed = TRUE] \in Snapshot
  BY <1>1 DEF Snapshot
<1>8. DOMAIN retained' = DOMAIN retained /\ \A j \in DOMAIN retained : retained'[j] \in Snapshot
  <2>1. \A j \in DOMAIN retained : retained[j] \in Snapshot
    BY DEF TypeOK
  <2> HIDE DEF s
  <2> QED BY <1>6, <1>7, <2>1
<1>9. BagToSet(silver') \subseteq Row
  BY <1>1, <1>3, <1>5
<1>10. /\ next' = s.next /\ watermark' = s.watermark /\ kept' = s.kept /\ behind' = s.behind
       /\ files' = {} /\ idle' = {} /\ (\A p \in Partition : high'[p] = -1)
       /\ next' \in Offsets /\ high' \in [Partition -> -1..MaxTime] /\ watermark' \in 0..MaxTime
       /\ kept' \subseteq Logged /\ behind' \subseteq Partition
  <2> HIDE DEF s
  <2> QED BY <1>1, <1>2, LoadTypes
<1> QED BY <1>5, <1>6, <1>8, <1>9, <1>10

LEMMA StartCases ==
  ASSUME TypeOK, NEW listed, StartFrom(listed)
  PROVE  \/ Found(listed) = {} /\ StartFresh
         \/ Found(listed) # {} /\ Chosen(listed) \in DOMAIN retained /\ Restore(Chosen(listed))
<1>1. CASE Found(listed) = {}
  BY <1>1 DEF StartFrom
<1>2. CASE Found(listed) # {}
  <2>1. Chosen(listed) \in DOMAIN retained
    <3>1. CASE latest \in listed /\ latest # "none"
      BY <3>1, SpeedTypes DEF Chosen
    <3>2. CASE latest = "none"
      BY <1>2, <3>2, SpeedTypes DEF Found
    <3>3. CASE latest \notin listed
      <4>1. (CHOOSE k \in Found(listed) : TRUE) \in Found(listed)
        BY <1>2
      <4> QED BY <3>3, <4>1 DEF Chosen, Found
    <3> QED BY <3>1, <3>2, <3>3
  <2> QED BY <1>2, <2>1 DEF StartFrom
<1> QED BY <1>1, <1>2

(* Of a start, whichever it is. *)
LEMMA StartTypes ==
  ASSUME TypeOK, log' = log, NEW listed, StartFrom(listed),
         running' \in BOOLEAN, stale' \in BOOLEAN, own' \in Kinds \cup {"none"}, faults' \in 0..MaxFaults
  PROVE  TypeOK'
<1>1. Logged' = Logged /\ (Row' = Row) /\ (Snapshot' = Snapshot)
  <2>1. Logged' = Logged
    BY SameLog
  <2>2. Row' = Row
    BY <2>1 DEF Row
  <2> QED BY <2>1, <2>2 DEF Snapshot
<1>2. /\ log' \in Topics /\ group \in Offsets /\ held \subseteq Logged /\ overtaken \subseteq Logged
      /\ forgotten \subseteq Logged /\ IsABag(silver) /\ BagToSet(silver) \subseteq Row
      /\ DOMAIN retained \subseteq Kinds /\ (\A k \in DOMAIN retained : retained[k] \in Snapshot)
      /\ IF DOMAIN retained = {} THEN latest = "none" ELSE latest \in DOMAIN retained
  BY DEF TypeOK
<1>3. told' = TRUE /\ group' = group /\ held' = held /\ latest' = latest /\ overtaken' = overtaken
  BY StartCases DEF StartFresh, Restore, groupVars, snapshotVars
<1>4. /\ next' \in Offsets /\ high' \in [Partition -> -1..MaxTime] /\ watermark' \in 0..MaxTime
      /\ kept' \subseteq Logged /\ behind' \subseteq Partition /\ files' = {} /\ idle' = {}
      /\ IsABag(silver') /\ BagToSet(silver') \subseteq Row /\ forgotten' \subseteq Logged
      /\ DOMAIN retained' = DOMAIN retained /\ \A k \in DOMAIN retained' : retained'[k] \in Snapshot
  <2>1. CASE StartFresh
    <3>1. silver' = silver /\ retained' = retained
      BY <2>1 DEF StartFresh, snapshotVars
    <3> QED BY <1>2, <2>1, <3>1, StartFreshTypes
  <2>2. CASE Found(listed) # {} /\ Chosen(listed) \in DOMAIN retained /\ Restore(Chosen(listed))
    <3>1. forgotten' = forgotten
      BY <2>2 DEF Restore
    <3> QED BY <1>2, <2>2, <3>1, RestoreTypes
  <2> QED BY <2>1, <2>2, StartCases
<1>5. {running', told', stale'} \subseteq BOOLEAN
  BY <1>3, Zenon
<1>6. {running, told, stale}' \subseteq BOOLEAN
  BY <1>5
<1> QED BY <1>1, <1>2, <1>3, <1>4, <1>6 DEF TypeOK

-------------------------------------------------------------------------------
(* The initial states *)

LEMMA SpeedInit == Init => SpeedInv
<1> SUFFICES ASSUME Init PROVE SpeedInv
  OBVIOUS
<1>1. TypeOK
  <2>1. IsABag(silver) /\ BagToSet(silver) = {}
    BY DEF Init, EmptyBag, SetToBag, IsABag, BagToSet
  <2>2. {running, told, stale} \subseteq BOOLEAN
    BY DEF Init
  <2>3. DOMAIN retained = {}
    BY DEF Init
  <2>4. 0 \in 0..MaxTime /\ 0 \in 0..MaxFaults /\ -1 \in -1..MaxTime
    BY SpeedAssumption
  <2> QED BY <2>1, <2>2, <2>3, <2>4, FirstOffsets DEF Init, TypeOK
<1>2. ToldInv
  BY DEF Init, ToldInv
<1>3. DOMAIN retained = {} /\ kept = {} /\ files = {} /\ Rows = {} /\ ~running /\ told
  BY DEF Init, Rows, BagToSet, EmptyBag, SetToBag
<1>4. PlaceInv
  BY <1>3 DEF Init, PlaceInv, HeldBack
<1>5. WindowInv
  BY <1>3 DEF WindowInv, Closed, Single, OfHour
<1>6. LossInv
  <2>1. \A r \in Logged : ~(r.offset < group[r.partition]) /\ ~(r.offset < next[r.partition])
    <3> SUFFICES ASSUME NEW r \in Logged PROVE ~(r.offset < group[r.partition]) /\ ~(r.offset < next[r.partition])
      OBVIOUS
    <3>1. r.partition \in Partition /\ r.offset \in DOMAIN log[r.partition] /\ DOMAIN log[r.partition] = 1..Len(log[r.partition])
      BY <1>1, LoggedRecord, Topic
    <3>2. group[r.partition] = 1 /\ next[r.partition] = 1
      BY <3>1 DEF Init
    <3> QED BY <1>1, <3>1, <3>2, Topic
  <2> QED BY <1>3, <2>1 DEF LossInv, Covered
<1>7. TableInv
  BY <1>3 DEF Init, TableInv
<1> QED BY <1>1, <1>2, <1>4, <1>5, <1>6, <1>7 DEF SpeedInv

-------------------------------------------------------------------------------
(* Starts *)

(* A commit changes of the snapshots only that one is committed. *)
LEMMA CommitFields ==
  ASSUME TypeOK, NEW k \in DOMAIN retained,
         retained' = [retained EXCEPT ![k] = [retained[k] EXCEPT !.committed = TRUE]]
  PROVE  /\ DOMAIN retained' = DOMAIN retained
         /\ \A j \in DOMAIN retained :
              /\ retained'[j].next = retained[j].next /\ retained'[j].watermark = retained[j].watermark
              /\ retained'[j].kept = retained[j].kept /\ retained'[j].files = retained[j].files
              /\ retained'[j].behind = retained[j].behind
              /\ j # k => retained'[j] = retained[j]
              /\ retained'[j] \in Snapshot
         /\ retained'[k].committed = TRUE
<1>1. \A j \in DOMAIN retained : j # k => retained'[j] = retained[j]
  OBVIOUS
<1>2. retained'[k] = [retained[k] EXCEPT !.committed = TRUE]
  OBVIOUS
<1>3. retained[k] \in Snapshot /\ \A j \in DOMAIN retained : retained[j] \in Snapshot
  BY SpeedTypes
<1>4. /\ retained'[k].next = retained[k].next /\ retained'[k].watermark = retained[k].watermark
      /\ retained'[k].kept = retained[k].kept /\ retained'[k].files = retained[k].files
      /\ retained'[k].behind = retained[k].behind /\ retained'[k].committed = TRUE
      /\ retained'[k] \in Snapshot
  BY <1>2, <1>3 DEF Snapshot
<1>5. DOMAIN retained' = DOMAIN retained
  OBVIOUS
<1> QED BY <1>1, <1>3, <1>4, <1>5

LEMMA RestoreFields ==
  ASSUME TypeOK, log' = log, NEW k \in DOMAIN retained, Restore(k)
  PROVE  /\ DOMAIN retained' = DOMAIN retained
         /\ \A j \in DOMAIN retained :
              /\ retained'[j].next = retained[j].next /\ retained'[j].watermark = retained[j].watermark
              /\ retained'[j].kept = retained[j].kept /\ retained'[j].files = retained[j].files
              /\ retained'[j].behind = retained[j].behind
              /\ j # k => retained'[j] = retained[j]
         /\ retained'[k].committed = TRUE
<1>1. retained' = [retained EXCEPT ![k] = [retained[k] EXCEPT !.committed = TRUE]]
  BY RestoreTypes
<1> QED BY <1>1, CommitFields

LEMMA StartPlace ==
  ASSUME TypeOK, PlaceInv, log' = log, NEW listed, StartFrom(listed)
  PROVE  PlaceInv'
<1>1. CASE StartFresh
  <2>1. retained' = retained
    BY <1>1 DEF StartFresh, snapshotVars
  <2>2. HeldBack(next, watermark, behind)'
    BY <1>1, StartFreshTypes DEF HeldBack
  <2>3. \A k \in DOMAIN retained' :
          HeldBack(retained[k].next, retained[k].watermark, retained[k].behind)'
    BY <2>1 DEF PlaceInv, HeldBack
  <2>4. idle' \subseteq behind' /\ \A p \in Partition : high'[p] = -1
    BY <1>1, StartFreshTypes
  <2> QED BY <2>2, <2>3, <2>4 DEF PlaceInv, HeldBack
<1>2. ASSUME NEW k \in DOMAIN retained, Restore(k) PROVE PlaceInv'
  <2>1. HeldBack(next, watermark, behind)'
    <3>1. /\ next' = retained[k].next /\ watermark' = retained[k].watermark
          /\ behind' = retained[k].behind
      BY <1>2, RestoreTypes
    <3> QED BY <3>1 DEF PlaceInv, HeldBack
  <2>2. ASSUME NEW j \in DOMAIN retained'
        PROVE  HeldBack(retained[j].next, retained[j].watermark, retained[j].behind)'
    <3>1. /\ j \in DOMAIN retained
          /\ retained'[j].next = retained[j].next /\ retained'[j].watermark = retained[j].watermark
          /\ retained'[j].behind = retained[j].behind
      BY <1>2, RestoreFields
    <3>2. HeldBack(retained[j].next, retained[j].watermark, retained[j].behind)
      BY <3>1 DEF PlaceInv
    <3> QED BY <3>1, <3>2 DEF HeldBack
  <2>3. idle' \subseteq behind' /\ \A p \in Partition : high'[p] = -1
    BY <1>2, RestoreTypes
  <2> QED BY <2>1, <2>2, <2>3 DEF PlaceInv, HeldBack
<1> QED BY <1>1, <1>2, StartCases

LEMMA StartWindow ==
  ASSUME TypeOK, WindowInv, log' = log, NEW listed, StartFrom(listed)
  PROVE  WindowInv'
<1>0. /\ \A r : HourOf(r)' = HourOf(r) /\ \A q : SameEvent(r, q)' <=> SameEvent(r, q)
  BY SameLog
<1>1. CASE StartFresh
  <2>1. retained' = retained
    BY <1>1 DEF StartFresh, snapshotVars
  <2>2. files' = {} /\ kept' = {}
    BY <1>1, StartFreshTypes
  <2>3. Rows' = Rows
    BY <1>1 DEF StartFresh, Rows
  <2> QED BY <1>0, <2>1, <2>2, <2>3 DEF WindowInv, Closed, Single, OfHour
<1>2. ASSUME NEW k \in DOMAIN retained, Restore(k) PROVE WindowInv'
  <2>1. files' = {} /\ kept' = retained[k].kept /\ watermark' = retained[k].watermark
    BY <1>2, RestoreTypes
  <2>2. Closed(files, kept, watermark)'
    BY <1>0, <2>1 DEF WindowInv, Closed, Single, OfHour
  <2>3. \A j \in DOMAIN retained' :
          Closed(retained[j].files, retained[j].kept, retained[j].watermark)'
    BY <1>0, <1>2, RestoreFields DEF WindowInv, Closed, Single, OfHour
  <2>4. \A row \in Rows' : OfHour(row)'
    <3>1. Rows' = Rows \cup (IF retained[k].committed THEN {} ELSE retained[k].files)
      BY <1>2, RestoreTypes DEF Rows
    <3>2. \A row \in Rows \cup retained[k].files : OfHour(row)
      BY DEF WindowInv, Closed
    <3> QED BY <1>0, <3>1, <3>2 DEF OfHour
  <2> QED BY <2>2, <2>3, <2>4 DEF WindowInv
<1> QED BY <1>1, <1>2, StartCases

(* What was explained stays explained while the table, the dropped and the *)
(* forgotten records only grow.                                            *)
LEMMA CoverGrows ==
  ASSUME log' = log, overtaken \subseteq overtaken',
         NEW from, NEW S, NEW T, Covered(from, S),
         \A q \in S : q \in T \/ \E x \in T : SameEvent(q, x)
  PROVE  \A r \in Logged : r.offset < from[r.partition] =>
           Excused(r)' \/ \E q \in T : SameEvent(r, q)'
<1>1. \A r, q : SameEvent(r, q)' <=> SameEvent(r, q)
  BY SameLog
<1>2. \A r : Excused(r) => Excused(r)'
  BY SameLog DEF Excused
<1>3. \A r : (\E q \in S : SameEvent(r, q)) => \E q \in T : SameEvent(r, q)
  BY SameEventSteps
<1> QED BY <1>1, <1>2, <1>3 DEF Covered

LEMMA SnapshotCovers ==
  ASSUME log' = log, overtaken \subseteq overtaken', Tabled \subseteq Tabled', LossInv,
         NEW k \in DOMAIN retained,
         retained'[k].next = retained[k].next, retained'[k].kept = retained[k].kept,
         retained'[k].files = retained[k].files
  PROVE  Covered(retained[k].next, Tabled \cup retained[k].kept \cup InRows(retained[k].files))'
<1> DEFINE from == retained[k].next
           W == retained[k].kept \cup InRows(retained[k].files)
           S == Tabled \cup W
           T == Tabled' \cup W
<1>1. Covered(from, S)
  <2>1. S = Tabled \cup retained[k].kept \cup InRows(retained[k].files)
    OBVIOUS
  <2>2. Covered(retained[k].next, Tabled \cup retained[k].kept \cup InRows(retained[k].files))
    BY DEF LossInv
  <2> HIDE DEF S
  <2> QED BY <2>1, <2>2
<1>2. \A q \in S : q \in T \/ \E x \in T : SameEvent(q, x)
  OBVIOUS
<1>3. \A r \in Logged : r.offset < from[r.partition] =>
        Excused(r)' \/ \E q \in T : SameEvent(r, q)'
  <2> HIDE DEF S, T, from
  <2> QED BY <1>1, <1>2, CoverGrows
<1>4. (retained[k].next)' = from /\ T = (Tabled \cup retained[k].kept \cup InRows(retained[k].files))'
  BY DEF InRows
<1>5. Logged' = Logged
  BY SameLog
<1> HIDE DEF S, T, from
<1> QED BY <1>3, <1>4, <1>5 DEF Covered

LEMMA GroupCovers ==
  ASSUME log' = log, overtaken \subseteq overtaken', Tabled \subseteq Tabled', LossInv,
         group' = group, held' = held
  PROVE  Covered(group, Tabled \cup held)'
<1> DEFINE S == Tabled \cup held
           T == Tabled' \cup held
<1>1. Covered(group, S) /\ \A q \in S : q \in T \/ \E x \in T : SameEvent(q, x)
  BY DEF LossInv
<1>2. \A r \in Logged : r.offset < group[r.partition] =>
        Excused(r)' \/ \E q \in T : SameEvent(r, q)'
  <2> HIDE DEF S, T
  <2> QED BY <1>1, CoverGrows
<1>3. Logged' = Logged
  BY SameLog
<1> QED BY <1>2, <1>3 DEF Covered

(* The job's records, if those of S are explained and S is part of what it *)
(* or the table has next.                                                  *)
LEMMA JobCovers ==
  ASSUME log' = log, overtaken \subseteq overtaken', NEW from, NEW S, Covered(from, S), next' = from,
         \A q \in S : \/ q \in (Tabled \cup kept \cup InRows(files) \cup Pending)'
                      \/ \E x \in (Tabled \cup kept \cup InRows(files) \cup Pending)' : SameEvent(q, x)
  PROVE  Covered(next, Tabled \cup kept \cup InRows(files) \cup Pending)'
<1> DEFINE T == (Tabled \cup kept \cup InRows(files) \cup Pending)'
<1>1. \A q \in S : q \in T \/ \E x \in T : SameEvent(q, x)
  OBVIOUS
<1>2. \A r \in Logged : r.offset < from[r.partition] =>
        Excused(r)' \/ \E q \in T : SameEvent(r, q)'
  <2> HIDE DEF T
  <2> QED BY <1>1, CoverGrows
<1>3. Logged' = Logged
  BY SameLog
<1>4. T = (Tabled \cup kept \cup InRows(files) \cup Pending)'
  OBVIOUS
<1> HIDE DEF T
<1> QED BY <1>2, <1>3, <1>4 DEF Covered

LEMMA StartLoss ==
  ASSUME TypeOK, LossInv, log' = log, NEW listed, StartFrom(listed)
  PROVE  LossInv'
<1>1. told' = TRUE /\ group' = group /\ held' = held /\ overtaken' = overtaken
  BY StartCases DEF StartFresh, Restore, groupVars, snapshotVars
<1>2. CASE StartFresh
  <2>1. /\ retained' = retained /\ Rows' = Rows /\ next' = group /\ kept' = {} /\ files' = {}
        /\ forgotten \subseteq forgotten'
    BY <1>2, StartFreshTypes DEF StartFresh, snapshotVars, Rows
  <2>2. Tabled \subseteq Tabled'
    BY <2>1 DEF Tabled, InRows
  <2>3. \A q \in held : \E x \in Tabled' : SameEvent(q, x)
    <3> SUFFICES ASSUME NEW q \in held, \A row \in Rows : \A x \in row.records : ~SameEvent(q, x)
                 PROVE  \E x \in Tabled' : SameEvent(q, x)
      BY <2>2 DEF Tabled, InRows
    <3>1. q \in forgotten'
      BY <1>2, SameEventSteps DEF StartFresh
    <3> QED BY <3>1, SameEventSteps DEF Tabled
  <2>4. Covered(next, Tabled \cup kept \cup InRows(files) \cup Pending)'
    <3> DEFINE S == Tabled \cup held
    <3>1. Covered(group, S)
      BY DEF LossInv
    <3>2. \A q \in S : \/ q \in (Tabled \cup kept \cup InRows(files) \cup Pending)'
                       \/ \E x \in (Tabled \cup kept \cup InRows(files) \cup Pending)' : SameEvent(q, x)
      BY <2>2, <2>3
    <3> HIDE DEF S
    <3> QED BY <1>1, <2>1, <3>1, <3>2, JobCovers
  <2>5. \A k \in DOMAIN retained :
          Covered(retained[k].next, Tabled \cup retained[k].kept \cup InRows(retained[k].files))'
    BY <1>1, <2>1, <2>2, SnapshotCovers
  <2>6. \A k \in DOMAIN retained' : retained'[k].committed => retained'[k].files \subseteq Rows'
    BY <2>1 DEF LossInv
  <2>7. DOMAIN retained' = DOMAIN retained
    BY <2>1
  <2>8. Covered(group, Tabled \cup held)'
    BY <1>1, <2>2, GroupCovers
  <2> QED BY <2>4, <2>5, <2>6, <2>7, <2>8 DEF LossInv
<1>3. ASSUME NEW k \in DOMAIN retained, Restore(k) PROVE LossInv'
  <2>1. /\ Rows' = Rows \cup (IF retained[k].committed THEN {} ELSE retained[k].files)
        /\ next' = retained[k].next /\ kept' = retained[k].kept /\ files' = {} /\ forgotten' = forgotten
    BY <1>3, RestoreTypes DEF Restore, Rows
  <2>2. Rows \subseteq Rows' /\ retained[k].files \subseteq Rows'
    BY <2>1 DEF LossInv
  <2>3. Tabled \subseteq Tabled' /\ InRows(retained[k].files) \subseteq Tabled'
    BY <2>1, <2>2 DEF Tabled, InRows
  <2>4. Covered(next, Tabled \cup kept \cup InRows(files) \cup Pending)'
    <3> DEFINE S == Tabled \cup retained[k].kept \cup InRows(retained[k].files)
    <3>1. Covered(retained[k].next, S)
      BY DEF LossInv
    <3>2. \A q \in S : \/ q \in (Tabled \cup kept \cup InRows(files) \cup Pending)'
                       \/ \E x \in (Tabled \cup kept \cup InRows(files) \cup Pending)' : SameEvent(q, x)
      BY <2>1, <2>3
    <3> HIDE DEF S
    <3> QED BY <1>1, <2>1, <3>1, <3>2, JobCovers
  <2>5. \A j \in DOMAIN retained :
          Covered(retained[j].next, Tabled \cup retained[j].kept \cup InRows(retained[j].files))'
    BY <1>1, <1>3, <2>3, RestoreFields, SnapshotCovers
  <2>6. ASSUME NEW j \in DOMAIN retained' PROVE retained'[j].committed => retained'[j].files \subseteq Rows'
    <3>1. CASE j = k
      BY <1>3, <2>2, <3>1, RestoreFields
    <3>2. CASE j # k
      BY <1>3, <2>2, <3>2, RestoreFields DEF LossInv
    <3> QED BY <3>1, <3>2
  <2>7. DOMAIN retained' = DOMAIN retained
    BY <1>3, RestoreFields
  <2>8. Covered(group, Tabled \cup held)'
    BY <1>1, <2>3, GroupCovers
  <2> QED BY <2>4, <2>5, <2>6, <2>7, <2>8 DEF LossInv
<1> QED BY <1>2, <1>3, StartCases

(* A start from the newest snapshot, or the first one, continues the line. *)
LEMMA StartTable ==
  ASSUME TypeOK, WindowInv, TableInv, log' = log, NEW listed, StartFrom(listed),
         latest = "none" \/ latest \in listed, running', own' = latest
  PROVE  TableInv'
<1>0. \A r, q : SameEvent(r, q)' <=> SameEvent(r, q)
  BY SameLog
<1>1. latest' = latest
  BY StartCases DEF StartFresh, Restore, snapshotVars
<1>2. CASE latest = "none"
  <2>1. Found(listed) = {} /\ StartFresh
    BY <1>2, SpeedTypes, StartCases DEF Found
  <2>2. silver' = silver /\ Rows' = Rows /\ watermark' = 0 /\ files' = {}
    BY <2>1, StartFreshTypes DEF StartFresh, Rows
  <2> QED BY <1>0, <1>1, <1>2, <2>2 DEF TableInv, Mark, Single
<1>3. CASE latest # "none"
  <2>1. latest \in DOMAIN retained /\ Found(listed) # {} /\ Chosen(listed) = latest
    BY <1>3, SpeedTypes DEF Found, Chosen
  <2>2. Restore(latest)
    BY <2>1 DEF StartFrom
  <2> DEFINE s == retained[latest]
  <2>3. /\ retained'[latest].watermark = s.watermark /\ retained'[latest].files = s.files
        /\ retained'[latest].committed = TRUE
    BY <2>1, <2>2, RestoreFields
  <2>4. Mark' = s.watermark /\ Mark = s.watermark /\ Newest'.committed
    BY <1>1, <1>3, <2>3 DEF Mark, Newest
  <2>5. watermark' = s.watermark /\ files' = {} /\ s.watermark \in Nat
    BY <2>1, <2>2, RestoreTypes, SpeedTypes
  <2>6. CASE s.committed
    <3>1. silver' = silver /\ Rows' = Rows
      BY <2>2, <2>6 DEF Restore, Rows
    <3> HIDE DEF s
    <3> QED BY <1>0, <1>1, <2>4, <2>5, <3>1 DEF TableInv, Single
  <2>7. CASE ~s.committed
    <3>1. silver' = silver (+) SetToBag(s.files)
      BY <2>2, <2>7 DEF Restore
    <3>2. IsABag(silver)
      BY DEF TypeOK
    <3>3. /\ Rows' = Rows \cup s.files
          /\ \A row \in Rows \ s.files : silver'[row] = silver[row]
          /\ \A row \in s.files \ Rows : silver'[row] = 1
      BY <3>1, <3>2, CommitRows DEF Rows
    <3>4. \A row \in s.files, a \in Rows : row.hour # a.hour
      BY <1>3, <2>7 DEF TableInv, Newest
    <3>5. /\ \A row \in s.files : Single(row.records) /\ WindowEnd(row.hour) <= s.watermark
          /\ \A a, b \in s.files : a.hour = b.hour => a = b
      BY <2>1 DEF WindowInv, Closed
    <3> HIDE DEF s
    <3>6. \A row \in Rows' : silver'[row] = 1 /\ Single(row.records) /\ WindowEnd(row.hour) <= s.watermark
      BY <2>4, <3>3, <3>4, <3>5 DEF TableInv
    <3>7. \A a, b \in Rows' : a.hour = b.hour => a = b
      BY <3>3, <3>4, <3>5 DEF TableInv
    <3> QED BY <1>0, <1>1, <2>4, <2>5, <3>6, <3>7 DEF TableInv, Single
  <2> QED BY <2>6, <2>7
<1> QED BY <1>2, <1>3


LEMMA StartKeeps ==
  ASSUME SpeedInv, log' = log, NEW listed, StartFrom(listed),
         running' = TRUE, stale' \in BOOLEAN, own' \in Kinds \cup {"none"}, faults' \in 0..MaxFaults,
         ~stale' => ~stale /\ (latest = "none" \/ latest \in listed) /\ own' = latest
  PROVE  SpeedInv'
<1>1. TypeOK /\ PlaceInv /\ WindowInv /\ LossInv /\ (~stale => TableInv)
  BY DEF SpeedInv
<1>2. running' \in BOOLEAN
  BY Zenon
<1>3. TypeOK'
  BY <1>1, <1>2, StartTypes
<1>4. ToldInv'
  BY StartCases, <1>1 DEF StartFresh, Restore, ToldInv
<1>5. PlaceInv' /\ WindowInv' /\ LossInv'
  BY <1>1, StartPlace, StartWindow, StartLoss
<1>6. ~stale' => TableInv'
  BY <1>1, StartTable
<1> QED BY <1>3, <1>4, <1>5, <1>6 DEF SpeedInv

LEMMA SubmitKeeps ==
  ASSUME SpeedInv, NEW listed, Submit(listed), faults' \in 0..MaxFaults
  PROVE  SpeedInv'
<1>1. TypeOK
  BY DEF SpeedInv
<1>2. /\ log' = log /\ running' = TRUE /\ StartFrom(listed)
      /\ own' = IF Found(listed) = {} THEN "none" ELSE Chosen(listed)
      /\ stale' = (stale \/ (latest # "none" /\ latest \notin listed))
  BY DEF Submit
<1>3. own' \in Kinds \cup {"none"}
  <2>1. CASE Found(listed) = {}
    BY <1>2, <2>1
  <2>2. CASE Found(listed) # {}
    <3>1. Chosen(listed) \in DOMAIN retained
      BY <1>1, <1>2, <2>2, StartCases
    <3> QED BY <1>1, <1>2, <2>2, <3>1, SpeedTypes DEF Kinds
  <2> QED BY <2>1, <2>2
<1>4. stale' \in BOOLEAN
  BY <1>2, Zenon
<1>5. ~stale' => ~stale /\ (latest = "none" \/ latest \in listed) /\ own' = latest
  <2> SUFFICES ASSUME ~stale' PROVE ~stale /\ (latest = "none" \/ latest \in listed) /\ own' = latest
    OBVIOUS
  <2>1. ~stale /\ (latest = "none" \/ latest \in listed)
    BY <1>2
  <2>2. CASE latest = "none"
    <3>1. Found(listed) = {}
      BY <1>1, <2>2, SpeedTypes DEF Found
    <3> QED BY <1>2, <2>1, <2>2, <3>1
  <2>3. CASE latest # "none"
    <3>1. latest \in Found(listed) /\ Chosen(listed) = latest
      BY <1>1, <2>1, <2>3, SpeedTypes DEF Found, Chosen
    <3> QED BY <1>2, <2>1, <3>1
  <2> QED BY <2>2, <2>3
<1> QED BY <1>2, <1>3, <1>4, <1>5, StartKeeps

LEMMA FaultTypes ==
  ASSUME TypeOK
  PROVE  UseFault \/ faults' = faults => faults' \in 0..MaxFaults
<1>1. MaxFaults \in Nat /\ faults \in 0..MaxFaults
  BY SpeedAssumption DEF TypeOK
<1> QED BY <1>1 DEF UseFault

LEMMA RestartKeeps == SpeedInv /\ Restart => SpeedInv'
<1> SUFFICES ASSUME SpeedInv, Restart PROVE SpeedInv'
  OBVIOUS
<1>1. TypeOK /\ ToldInv /\ (~stale => TableInv)
  BY DEF SpeedInv
<1>2. /\ running /\ StartFrom({own}) /\ log' = log /\ running' = running /\ own' = own /\ stale' = stale
      /\ faults' \in 0..MaxFaults
  BY <1>1, FaultTypes DEF Restart
<1>3. running' = TRUE
  <2>1. running \in BOOLEAN
    BY <1>1, SpeedTypes
  <2> QED BY <1>2, <2>1, Zenon
<1>4. own' \in Kinds \cup {"none"} /\ stale' \in BOOLEAN
  BY <1>1, <1>2, SpeedTypes DEF TypeOK
<1>5. ~stale' => ~stale /\ (latest = "none" \/ latest \in {own}) /\ own' = latest
  BY <1>1, <1>2 DEF TableInv
<1> QED BY <1>2, <1>3, <1>4, <1>5, StartKeeps

-------------------------------------------------------------------------------
(* The end of an application *)

LEMMA EndedTypes ==
  ASSUME TypeOK, Ended
  PROVE  /\ next' = [p \in Partition |-> 1] /\ watermark' = 0 /\ kept' = {} /\ behind' = {}
         /\ files' = {} /\ idle' = {} /\ (\A p \in Partition : high'[p] = -1)
         /\ next' \in Offsets /\ high' \in [Partition -> -1..MaxTime] /\ watermark' \in 0..MaxTime
         /\ running' = FALSE /\ told' = TRUE /\ own' = "none"
<1>1. 0 \in 0..MaxTime /\ {} \subseteq Logged /\ {} \subseteq Partition
  BY SpeedAssumption
<1>2. Load([p \in Partition |-> 1], 0, {}, {})
  BY DEF Ended
<1> QED BY <1>1, <1>2, FirstOffsets, LoadTypes DEF Ended

(* What the job says of itself: nothing is read, nothing is open. *)
LEMMA EndedHolds ==
  ASSUME TypeOK, Ended, log' = log
  PROVE  /\ (idle \subseteq behind)'
         /\ \A p \in Partition : high'[p] = -1
         /\ HeldBack(next, watermark, behind)'
         /\ Closed(files, kept, watermark)'
         /\ Covered(next, Tabled \cup kept \cup InRows(files) \cup Pending)'
<1>1. /\ next' = [p \in Partition |-> 1] /\ watermark' = 0 /\ kept' = {} /\ behind' = {}
      /\ files' = {} /\ idle' = {} /\ (\A p \in Partition : high'[p] = -1)
  BY EndedTypes
<1>2. HeldBack(next, watermark, behind)'
  BY <1>1 DEF HeldBack
<1>3. Closed(files, kept, watermark)'
  BY <1>1 DEF Closed, Single, OfHour
<1>4. \A r \in Logged : ~(r.offset < next'[r.partition])
  <2> SUFFICES ASSUME NEW r \in Logged PROVE ~(r.offset < next'[r.partition])
    OBVIOUS
  <2>1. r.partition \in Partition /\ r.offset \in DOMAIN log[r.partition]
        /\ DOMAIN log[r.partition] = 1..Len(log[r.partition]) /\ Len(log[r.partition]) \in Nat
    BY LoggedRecord, Topic
  <2>2. next'[r.partition] = 1 /\ r.offset \in Nat /\ r.offset >= 1
    BY <1>1, <2>1
  <2> QED BY <2>2
<1>5. Logged' = Logged
  BY SameLog
<1>6. Covered(next, Tabled \cup kept \cup InRows(files) \cup Pending)'
  BY <1>4, <1>5 DEF Covered
<1> QED BY <1>1, <1>2, <1>3, <1>6

LEMMA DieKeeps == SpeedInv /\ Die => SpeedInv'
<1> SUFFICES ASSUME SpeedInv, Die PROVE SpeedInv'
  OBVIOUS
<1>1. TypeOK /\ PlaceInv /\ WindowInv /\ LossInv /\ (~stale => TableInv)
  BY DEF SpeedInv
<1>2. /\ Ended /\ log' = log /\ group' = group /\ held' = held /\ silver' = silver
      /\ retained' = retained /\ latest' = latest /\ overtaken' = overtaken
      /\ forgotten' = forgotten /\ stale' = stale
      /\ faults' \in 0..MaxFaults
  BY <1>1, FaultTypes DEF Die, groupVars, snapshotVars, historyVars
<1>3. Logged' = Logged /\ Row' = Row /\ Snapshot' = Snapshot
  <2>1. Logged' = Logged
    BY <1>2, SameLog
  <2>2. Row' = Row
    BY <2>1 DEF Row
  <2> QED BY <2>1, <2>2 DEF Snapshot
<1>4. TypeOK'
  <2>1. {running, told, stale}' \subseteq BOOLEAN
    <3>1. running' \in BOOLEAN /\ told' \in BOOLEAN /\ stale' \in BOOLEAN
      BY <1>1, <1>2, EndedTypes, SpeedTypes, Zenon
    <3> QED BY <3>1
  <2>2. /\ next' \in Offsets /\ high' \in [Partition -> -1..MaxTime] /\ watermark' \in 0..MaxTime
        /\ kept' = {} /\ files' = {} /\ idle' = {} /\ behind' = {} /\ own' = "none"
    BY <1>1, <1>2, EndedTypes
  <2> QED BY <1>1, <1>2, <1>3, <2>1, <2>2 DEF TypeOK
<1>5. ToldInv'
  BY <1>1, <1>2, EndedTypes DEF ToldInv
<1>6. PlaceInv'
  <2>1. \A k \in DOMAIN retained' :
          HeldBack(retained[k].next, retained[k].watermark, retained[k].behind)'
    BY <1>1, <1>2 DEF PlaceInv, HeldBack
  <2> QED BY <1>1, <1>2, <2>1, EndedHolds DEF PlaceInv
<1>7. WindowInv'
  <2>1. \A k \in DOMAIN retained' :
          Closed(retained[k].files, retained[k].kept, retained[k].watermark)'
    BY <1>1, <1>2, SameLog DEF WindowInv, Closed, Single, OfHour
  <2>2. \A row \in Rows' : OfHour(row)'
    BY <1>1, <1>2, SameLog DEF WindowInv, OfHour, Rows
  <2> QED BY <1>1, <1>2, <2>1, <2>2, EndedHolds DEF WindowInv
<1>8. LossInv'
  <2>1. Tabled' = Tabled /\ Rows' = Rows
    BY <1>2 DEF Tabled, Rows, InRows
  <2>2. Covered(group, Tabled \cup held)'
    BY <1>1, <1>2, <2>1, GroupCovers
  <2>3. \A k \in DOMAIN retained' :
          Covered(retained[k].next, Tabled \cup retained[k].kept \cup InRows(retained[k].files))'
    BY <1>1, <1>2, <2>1, SnapshotCovers
  <2> QED BY <1>1, <1>2, <2>1, <2>2, <2>3, EndedHolds DEF LossInv
<1>9. ~stale' => TableInv'
  <2>1. Rows' = Rows /\ Mark' = Mark
    BY <1>2 DEF Mark, Newest, Rows
  <2>2. ~running'
    BY <1>1, <1>2, EndedTypes
  <2>3. \A records : Single(records)' <=> Single(records)
    BY <1>2, SameLog DEF Single
  <2> QED BY <1>1, <1>2, <2>1, <2>2, <2>3 DEF TableInv, Newest
<1> QED BY <1>4, <1>5, <1>6, <1>7, <1>8, <1>9 DEF SpeedInv

-------------------------------------------------------------------------------
(* The job between snapshots *)

(* A step of the operators, which changes neither the table, the snapshots *)
(* nor the group: it must keep what is said of the job's own state.        *)
LEMMA JobStep ==
  ASSUME SpeedInv,
         UNCHANGED <<log, groupVars, silver, snapshotVars, running, own, told, faults, forgotten, stale>>,
         next' \in Offsets, high' \in [Partition -> -1..MaxTime], watermark' \in 0..MaxTime,
         idle' \subseteq Partition, behind' \subseteq Partition,
         kept' \subseteq Logged, files' \subseteq Row,
         overtaken \subseteq overtaken', overtaken' \subseteq Logged,
         (idle \subseteq behind)',
         \A p \in Partition : high'[p] # -1 =>
           \E o \in DOMAIN log[p] : o < next'[p] /\ log[p][o].time = high'[p],
         HeldBack(next, watermark, behind)',
         Closed(files, kept, watermark)',
         Covered(next, Tabled \cup kept \cup InRows(files) \cup Pending)',
         watermark <= watermark',
         \A row \in files' : row \in files \/ WindowEnd(row.hour) > watermark
  PROVE  SpeedInv'
<1>1. TypeOK /\ ToldInv /\ PlaceInv /\ WindowInv /\ LossInv /\ (~stale => TableInv)
  BY DEF SpeedInv
<1>2. /\ log' = log /\ group' = group /\ held' = held /\ silver' = silver
      /\ retained' = retained /\ latest' = latest /\ running' = running /\ own' = own
      /\ told' = told /\ faults' = faults /\ forgotten' = forgotten /\ stale' = stale
  BY DEF groupVars, snapshotVars
<1>3. Logged' = Logged /\ Row' = Row /\ Snapshot' = Snapshot
  <2>1. Logged' = Logged
    BY <1>2, SameLog
  <2>2. Row' = Row
    BY <2>1 DEF Row
  <2> QED BY <2>1, <2>2 DEF Snapshot
<1>4. TypeOK'
  BY <1>1, <1>2, <1>3 DEF TypeOK
<1>5. ToldInv'
  BY <1>1, <1>2 DEF ToldInv, Newest
<1>6. PlaceInv'
  <2>1. \A k \in DOMAIN retained' :
          HeldBack(retained[k].next, retained[k].watermark, retained[k].behind)'
    BY <1>1, <1>2 DEF PlaceInv, HeldBack
  <2> QED BY <1>2, <2>1 DEF PlaceInv
<1>7. WindowInv'
  <2>1. \A k \in DOMAIN retained' :
          Closed(retained[k].files, retained[k].kept, retained[k].watermark)'
    BY <1>1, <1>2, SameLog DEF WindowInv, Closed, Single, OfHour
  <2>2. \A row \in Rows' : OfHour(row)'
    BY <1>1, <1>2, SameLog DEF WindowInv, OfHour, Rows
  <2> QED BY <2>1, <2>2 DEF WindowInv
<1>8. LossInv'
  <2>1. Tabled' = Tabled /\ Rows' = Rows
    BY <1>2 DEF Tabled, Rows, InRows
  <2>2. Covered(group, Tabled \cup held)'
    BY <1>1, <1>2, <2>1, GroupCovers
  <2>3. \A k \in DOMAIN retained' :
          Covered(retained[k].next, Tabled \cup retained[k].kept \cup InRows(retained[k].files))'
    BY <1>1, <1>2, <2>1, SnapshotCovers
  <2> QED BY <1>1, <1>2, <2>1, <2>2, <2>3 DEF LossInv
<1>9. ~stale' => TableInv'
  <2> SUFFICES ASSUME ~stale PROVE TableInv'
    BY <1>2
  <2>1. Rows' = Rows /\ Mark' = Mark
    BY <1>2 DEF Mark, Newest, Rows
  <2>2. \A records : Single(records)' <=> Single(records)
    BY <1>2, SameLog DEF Single
  <2>3. TableInv
    BY <1>1
  <2>4. ASSUME running
        PROVE  watermark' >= Mark /\ \A row \in files' : WindowEnd(row.hour) > Mark
    <3>1. watermark \in Nat /\ watermark' \in Nat /\ Mark \in Nat /\ watermark >= Mark
      BY <1>1, <2>3, <2>4, SpeedTypes DEF Mark, Newest, TableInv
    <3>2. ASSUME NEW row \in files' PROVE WindowEnd(row.hour) > Mark
      <4>1. CASE row \in files
        BY <2>3, <2>4, <4>1 DEF TableInv
      <4>2. CASE WindowEnd(row.hour) > watermark
        <5>1. row.hour \in Nat
          BY HourType DEF Row
        <5>2. WindowEnd(row.hour) \in Nat
          BY <5>1, WindowEndType
        <5> QED BY <3>1, <4>2, <5>2
      <4> QED BY <4>1, <4>2
    <3> QED BY <3>1, <3>2
  <2> QED BY <1>2, <2>1, <2>2, <2>3, <2>4 DEF TableInv, Newest
<1> QED BY <1>4, <1>5, <1>6, <1>7, <1>8, <1>9 DEF SpeedInv

(* A late record whose partition the watermark waited for is predicted as  *)
(* dropped, or a conflicting copy hurried the watermark.                   *)
LEMMA LateIsExcused ==
  ASSUME TypeOK, PlaceInv, NEW r \in Logged, r.offset = next[r.partition],
         r.partition \notin behind, WindowEnd(HourOf(r)) <= watermark
  PROVE  LateDropped(r) \/ Hurried(r)
<1> DEFINE p == r.partition
<1>1. p \in Partition /\ r.offset \in DOMAIN log[p] /\ At(r) = log[p][r.offset] /\ r.offset \in Nat
      /\ At(r).at \in Nat
  BY LoggedRecord
<1>2. WindowEnd(HourOf(r)) \in Nat /\ WindowEnd(HourOf(r)) > 0 /\ watermark \in Nat /\ Delay \in Nat
  <2>1. HourOf(r) \in Nat /\ HourLen \in Nat \ {0}
    BY HourBounds, SpeedAssumption
  <2>2. \A h \in Nat : (h + 1) * HourLen > 0 /\ (h + 1) * HourLen \in Nat
    BY <2>1
  <2>3. WindowEnd(HourOf(r)) \in Nat /\ WindowEnd(HourOf(r)) > 0
    BY <2>1, <2>2 DEF WindowEnd
  <2> QED BY <2>3, SpeedTypes
<1>3. watermark > 0
  BY <1>2
<1>4. PICK o \in DOMAIN log[p] : o < next[p] /\ log[p][o].time - Delay >= watermark
  BY <1>1, <1>3 DEF PlaceInv, HeldBack
<1>5. /\ log[p][o].time \in Nat /\ log[p][o].at \in Nat /\ o \in Nat /\ o \in 1..(r.offset - 1)
      /\ o < r.offset
  BY <1>1, <1>4, Topic
<1>6. log[p][o].time - Delay >= WindowEnd(HourOf(r))
  BY <1>2, <1>4, <1>5
<1>7. CASE log[p][o].time > log[p][o].at
  BY <1>5, <1>6, <1>7 DEF Hurried
<1>8. CASE log[p][o].time <= log[p][o].at
  <2>1. o <= r.offset
    BY <1>1, <1>5
  <2>2. log[p][o].at <= At(r).at
    BY <1>1, <2>1, InOrder
  <2>3. At(r).at >= WindowEnd(HourOf(r)) + Delay
    BY <1>1, <1>2, <1>5, <1>6, <1>8, <2>2
  <2> QED BY <2>3 DEF LateDropped
<1> QED BY <1>5, <1>7, <1>8

LEMMA DeduplicatedHolds ==
  ASSUME TypeOK, NEW r \in Logged, Single(kept), WindowEnd(HourOf(r)) > watermark,
         \A q \in kept : WindowEnd(HourOf(q)) > watermark
  PROVE  /\ Deduplicated(r) \subseteq Logged
         /\ Single(Deduplicated(r)) /\ \A q \in Deduplicated(r) : WindowEnd(HourOf(q)) > watermark
         /\ \A q \in kept \cup {r} : \E x \in Deduplicated(r) : SameEvent(q, x)
<1> DEFINE copies == {q \in kept : SameEvent(q, r)}
<1>1. kept \subseteq Logged
  BY DEF TypeOK
<1>2. CASE \A q \in copies : At(r).time < At(q).time
  <2>1. Deduplicated(r) = (kept \ copies) \cup {r}
    BY <1>2 DEF Deduplicated
  <2>2. \A q \in kept \ copies : ~SameEvent(q, r) /\ ~SameEvent(r, q)
    BY SameEventSteps
  <2>3. Single(Deduplicated(r))
    BY <2>1, <2>2 DEF Single
  <2>4. \A q \in kept \cup {r} : \E x \in Deduplicated(r) : SameEvent(q, x)
    BY <2>1, SameEventSteps
  <2> QED BY <1>1, <2>1, <2>3, <2>4
<1>3. CASE ~(\A q \in copies : At(r).time < At(q).time)
  <2>1. Deduplicated(r) = kept
    BY <1>3 DEF Deduplicated
  <2>2. \E q \in kept : SameEvent(r, q)
    BY <1>3, SameEventSteps
  <2> QED BY <1>1, <2>1, <2>2, SameEventSteps
<1> QED BY <1>2, <1>3

LEMMA ReadKeeps ==
  ASSUME NEW p \in Partition
  PROVE  SpeedInv /\ Read(p) => SpeedInv'
<1> SUFFICES ASSUME SpeedInv, Read(p) PROVE SpeedInv'
  OBVIOUS
<1>0. PICK r : r = [partition |-> p, offset |-> next[p]]
  OBVIOUS
<1> DEFINE newest == Max({high[p], At(r).time})
           late == WindowEnd(HourOf(r)) <= watermark
<1>1. TypeOK /\ PlaceInv /\ WindowInv /\ LossInv
  BY DEF SpeedInv
<1>2. /\ next[p] \in DOMAIN log[p]
      /\ next' = [next EXCEPT ![p] = @ + 1]
      /\ high' = [high EXCEPT ![p] = newest]
      /\ idle' = idle \ {p}
      /\ kept' = IF late THEN kept ELSE Deduplicated(r)
      /\ overtaken' = IF late /\ p \in behind THEN overtaken \cup {r} ELSE overtaken
      /\ behind' = IF newest - Delay >= watermark THEN behind \ {p} ELSE behind
      /\ UNCHANGED <<log, groupVars, silver, snapshotVars, running, own, told, faults,
                     watermark, files, forgotten, stale>>
  BY <1>0 DEF Read
<1>3. r \in Logged /\ r.partition = p /\ r.offset = next[p]
  BY <1>0, <1>2 DEF Logged
<1>4. At(r).time \in Nat /\ At(r).time <= MaxTime /\ At(r) = log[p][next[p]] /\ high[p] \in Int
      /\ WindowEnd(HourOf(r)) \in Nat /\ watermark \in Nat /\ Delay \in Nat /\ MaxTime \in Nat
  <2>1. At(r).time \in Nat /\ At(r).time <= MaxTime
    BY <1>1, <1>3, LoggedRecord
  <2>2. At(r) = log[p][next[p]]
    BY <1>3 DEF At
  <2>3. WindowEnd(HourOf(r)) \in Nat
    BY <1>1, <1>3, HourBounds, WindowEndType
  <2> QED BY <1>1, <2>1, <2>2, <2>3, SpeedTypes
<1>5. newest \in {high[p], At(r).time} /\ high[p] <= newest /\ At(r).time <= newest
  <2> DEFINE t == At(r).time
  <2>1. t \in Int /\ high[p] \in Int
    BY <1>4
  <2> HIDE DEF t
  <2>2. /\ Max({high[p], t}) \in {high[p], t} /\ high[p] <= Max({high[p], t})
        /\ t <= Max({high[p], t})
    BY <2>1, LargerOfTwo
  <2> QED BY <2>2 DEF t
<1>6. high \in [Partition -> -1..MaxTime] /\ next \in [Partition -> Nat \ {0}] /\ next[p] \in Nat \ {0}
  BY <1>1 DEF TypeOK, Offsets
<1>7. newest \in 0..MaxTime /\ newest \in Nat
  BY <1>4, <1>5, <1>6
<1> HIDE DEF newest
<1>8. next' \in Offsets /\ high' \in [Partition -> -1..MaxTime] /\ \A q \in Partition : next[q] <= next'[q]
  BY <1>2, <1>4, <1>6, <1>7 DEF Offsets
<1>9. high'[p] = newest /\ next'[p] = next[p] + 1
      /\ \A q \in Partition : q # p => high'[q] = high[q] /\ next'[q] = next[q]
  BY <1>2, <1>6
<1>10. \A q \in Partition : high'[q] # -1 =>
         \E o \in DOMAIN log[q] : o < next'[q] /\ log[q][o].time = high'[q]
  <2>1. \A q \in Partition : high[q] # -1 =>
          \E o \in DOMAIN log[q] : o < next[q] /\ log[q][o].time = high[q]
    BY <1>1 DEF PlaceInv
  <2>2. CASE newest = At(r).time
    <3>1. next[p] < next'[p] /\ log[p][next[p]].time = high'[p]
      BY <1>4, <1>6, <1>9, <2>2
    <3> QED BY <1>2, <1>9, <2>1, <3>1
  <2>3. CASE newest = high[p]
    <3>1. high'[p] # -1 => \E o \in DOMAIN log[p] : o < next'[p] /\ log[p][o].time = high'[p]
      <4>1. high[p] # -1
        BY <1>7, <2>3
      <4>2. PICK o \in DOMAIN log[p] : o < next[p] /\ log[p][o].time = high[p]
        BY <2>1, <4>1
      <4>3. o \in Nat
        BY <1>1, Topic
      <4>4. o < next'[p]
        BY <1>6, <1>9, <4>2, <4>3
      <4> QED BY <1>9, <2>3, <4>2, <4>4
    <3> QED BY <1>9, <2>1, <3>1
  <2> QED BY <1>5, <2>2, <2>3
<1>11. HeldBack(next, watermark, behind)'
  <2> SUFFICES ASSUME NEW q \in Partition \ behind', watermark > 0
               PROVE  \E o \in DOMAIN log[q] : o < next'[q] /\ log[q][o].time - Delay >= watermark
    BY <1>2 DEF HeldBack
  <2>1. CASE q \notin behind
    <3>1. PICK o \in DOMAIN log[q] : o < next[q] /\ log[q][o].time - Delay >= watermark
      BY <1>1, <2>1 DEF PlaceInv, HeldBack
    <3>2. o \in Nat /\ next[q] \in Nat /\ next'[q] \in Nat /\ next[q] <= next'[q]
      BY <1>1, <1>6, <1>8, Topic DEF Offsets
    <3>3. o < next'[q]
      BY <3>1, <3>2
    <3> QED BY <3>1, <3>3
  <2>2. CASE q \in behind
    <3>1. q = p /\ newest - Delay >= watermark
      BY <1>2, <2>2
    <3>2. newest # -1
      BY <1>7
    <3>3. PICK o \in DOMAIN log[p] : o < next'[p] /\ log[p][o].time = high'[p]
      BY <1>9, <1>10, <3>2
    <3> QED BY <1>9, <3>1, <3>3
  <2> QED BY <2>1, <2>2
<1>12. /\ kept' \subseteq Logged /\ Single(kept') /\ \A q \in kept' : WindowEnd(HourOf(q)) > watermark
       /\ \A q \in kept : \E x \in kept' : SameEvent(q, x)
       /\ ~late => \E x \in kept' : SameEvent(r, x)
  <2>1. kept \subseteq Logged /\ Single(kept) /\ \A q \in kept : WindowEnd(HourOf(q)) > watermark
    BY <1>1 DEF TypeOK, WindowInv, Closed
  <2>2. CASE late
    BY <1>2, <2>1, <2>2, SameEventSteps
  <2>3. CASE ~late
    <3>1. kept' = Deduplicated(r)
      BY <1>2, <2>3
    <3>2. WindowEnd(HourOf(r)) > watermark
      BY <1>4, <2>3
    <3> QED BY <1>1, <1>3, <2>1, <3>1, <3>2, DeduplicatedHolds
  <2> QED BY <2>2, <2>3
<1>13. overtaken \subseteq overtaken' /\ overtaken' \subseteq Logged
  BY <1>1, <1>2, <1>3 DEF TypeOK
<1>14. Closed(files, kept, watermark)'
  BY <1>1, <1>2, <1>12, SameLog DEF WindowInv, Closed, Single, OfHour
<1>15. late => Excused(r)'
  <2> SUFFICES ASSUME late PROVE Excused(r)'
    OBVIOUS
  <2>1. CASE p \in behind
    BY <1>2, <2>1 DEF Excused
  <2>2. CASE p \notin behind
    <3>1. LateDropped(r) \/ Hurried(r)
      BY <1>1, <1>3, <2>2, LateIsExcused
    <3> QED BY <1>2, <3>1, SameLog DEF Excused
  <2> QED BY <2>1, <2>2
<1> HIDE DEF late
<1>16. Covered(next, Tabled \cup kept \cup InRows(files) \cup Pending)'
  <2> DEFINE S == Tabled \cup kept \cup InRows(files) \cup Pending
             T == (Tabled \cup kept \cup InRows(files) \cup Pending)'
  <2>1. Covered(next, S)
    BY <1>1 DEF LossInv
  <2>2. Tabled' = Tabled /\ InRows(files)' = InRows(files) /\ Pending' = Pending
    BY <1>2 DEF Tabled, InRows, Pending, Newest, Rows, snapshotVars
  <2>3. \A q \in S : q \in T \/ \E x \in T : SameEvent(q, x)
    BY <1>12, <2>2
  <2>4. \A q \in kept' : q \in T
    OBVIOUS
  <2> HIDE DEF S, T
  <2>5. \A q \in Logged : q.offset < next[q.partition] =>
          Excused(q)' \/ \E x \in T : SameEvent(q, x)'
    BY <1>2, <1>13, <2>1, <2>3, CoverGrows
  <2>6. Excused(r)' \/ \E x \in T : SameEvent(r, x)'
    BY <1>2, <1>12, <1>15, <2>4, SameLog
  <2>7. ASSUME NEW q \in Logged, q.offset < next'[q.partition]
        PROVE  q.offset < next[q.partition] \/ q = r
    <3>1. /\ q.partition \in Partition /\ q.offset \in Nat
          /\ q = [partition |-> q.partition, offset |-> q.offset]
      BY <1>1, LoggedRecord
    <3>2. CASE q.partition # p
      BY <1>9, <2>7, <3>1, <3>2
    <3>3. CASE q.partition = p
      <4>1. q.offset < next[p] \/ q.offset = next[p]
        BY <1>6, <1>9, <2>7, <3>1, <3>3
      <4> QED BY <1>0, <3>1, <3>3, <4>1
    <3> QED BY <3>2, <3>3
  <2>8. Logged' = Logged
    BY <1>2, SameLog
  <2>9. \A q \in Logged' : q.offset < next'[q.partition] => Excused(q)' \/ \E x \in T : SameEvent(q, x)'
    BY <2>5, <2>6, <2>7, <2>8
  <2>10. T = (Tabled \cup kept \cup InRows(files) \cup Pending)'
    BY DEF T
  <2> QED BY <2>9, <2>10 DEF Covered
<1>17. idle' \subseteq Partition /\ behind' \subseteq Partition /\ (idle \subseteq behind)'
       /\ files' \subseteq Row /\ watermark' \in 0..MaxTime /\ watermark <= watermark'
  BY <1>1, <1>2, <1>4 DEF TypeOK, PlaceInv
<1>18. \A row \in files' : row \in files \/ WindowEnd(row.hour) > watermark
  BY <1>2
<1> QED BY <1>2, <1>8, <1>10, <1>11, <1>12, <1>13, <1>14, <1>16, <1>17, <1>18, JobStep

LEMMA MarkIdleKeeps ==
  ASSUME NEW p \in Partition
  PROVE  SpeedInv /\ MarkIdle(p) => SpeedInv'
<1> SUFFICES ASSUME SpeedInv, MarkIdle(p) PROVE SpeedInv'
  OBVIOUS
<1>1. TypeOK /\ PlaceInv /\ WindowInv /\ LossInv
  BY DEF SpeedInv
<1>2. /\ idle' = idle \cup {p} /\ behind' = behind \cup {p}
      /\ next' = next /\ high' = high /\ watermark' = watermark /\ kept' = kept /\ files' = files
      /\ overtaken' = overtaken
      /\ UNCHANGED <<log, groupVars, silver, snapshotVars, running, own, told, faults, forgotten, stale>>
  BY DEF MarkIdle, historyVars
<1>3. HeldBack(next, watermark, behind)'
  BY <1>1, <1>2 DEF PlaceInv, HeldBack
<1>4. Closed(files, kept, watermark)'
  BY <1>1, <1>2, SameLog DEF WindowInv, Closed, Single, OfHour
<1>5. Covered(next, Tabled \cup kept \cup InRows(files) \cup Pending)'
  <2> DEFINE S == Tabled \cup kept \cup InRows(files) \cup Pending
             T == (Tabled \cup kept \cup InRows(files) \cup Pending)'
  <2>1. Covered(next, S)
    BY <1>1 DEF LossInv
  <2>2. S = T
    BY <1>2 DEF Tabled, InRows, Pending, Newest, Rows, snapshotVars
  <2>3. \A q \in S : q \in T \/ \E x \in T : SameEvent(q, x)
    BY <2>2
  <2> HIDE DEF S
  <2> QED BY <1>2, <2>1, <2>3, JobCovers
<1>6. /\ next' \in Offsets /\ high' \in [Partition -> -1..MaxTime] /\ watermark' \in 0..MaxTime
      /\ idle' \subseteq Partition /\ behind' \subseteq Partition
      /\ kept' \subseteq Logged /\ files' \subseteq Row
      /\ overtaken \subseteq overtaken' /\ overtaken' \subseteq Logged
  BY <1>1, <1>2 DEF TypeOK
<1>7. (idle \subseteq behind)'
      /\ \A q \in Partition : high'[q] # -1 =>
           \E o \in DOMAIN log[q] : o < next'[q] /\ log[q][o].time = high'[q]
  BY <1>1, <1>2 DEF PlaceInv
<1>8. watermark <= watermark' /\ \A row \in files' : row \in files \/ WindowEnd(row.hour) > watermark
  BY <1>1, <1>2, SpeedTypes
<1> QED BY <1>2, <1>3, <1>4, <1>5, <1>6, <1>7, <1>8, JobStep

LEMMA AdvanceKeeps == SpeedInv /\ Advance => SpeedInv'
<1> SUFFICES ASSUME SpeedInv, Advance PROVE SpeedInv'
  OBVIOUS
<1> DEFINE mark == SourceWatermark
           closed == {r \in kept : WindowEnd(HourOf(r)) <= mark}
           RowOf(h) == [hour |-> h, records |-> {r \in closed : HourOf(r) = h}]
           New == {RowOf(h) : h \in {HourOf(r) : r \in closed}}
<1>1. TypeOK /\ PlaceInv /\ WindowInv /\ LossInv
  BY DEF SpeedInv
<1>2. /\ Partition \ idle # {} /\ mark > watermark /\ watermark' = mark
      /\ files' = files \cup New /\ kept' = kept \ closed
      /\ next' = next /\ high' = high /\ idle' = idle /\ behind' = behind /\ overtaken' = overtaken
      /\ UNCHANGED <<log, groupVars, silver, snapshotVars, running, own, told, faults, forgotten, stale>>
  BY DEF Advance, historyVars
<1>3. /\ mark \in Int /\ mark <= MaxTime /\ watermark \in Nat /\ MaxTime \in Nat /\ Delay \in Nat
      /\ \A p \in Partition \ idle : mark <= high[p] - Delay
  <2>1. /\ mark \in Int /\ mark <= MaxTime
        /\ \A p \in Partition \ idle : mark <= high[p] - Delay
    BY <1>1, <1>2, WatermarkBounds
  <2> QED BY <1>1, <2>1, SpeedTypes
<1> HIDE DEF mark
<1>4. mark > 0 /\ mark \in 0..MaxTime
  BY <1>2, <1>3
<1>5. HeldBack(next, watermark, behind)'
  <2> SUFFICES ASSUME NEW p \in Partition \ behind
               PROVE  \E o \in DOMAIN log[p] : o < next[p] /\ log[p][o].time - Delay >= mark
    BY <1>2 DEF HeldBack
  <2>1. p \in Partition \ idle
    BY <1>1 DEF PlaceInv
  <2>2. mark <= high[p] - Delay /\ high[p] \in Int
    BY <1>1, <1>3, <2>1, SpeedTypes
  <2>3. high[p] # -1
    BY <1>3, <1>4, <2>2
  <2>4. PICK o \in DOMAIN log[p] : o < next[p] /\ log[p][o].time = high[p]
    BY <1>1, <2>3 DEF PlaceInv
  <2>5. log[p][o].time - Delay >= mark
    BY <1>3, <2>2, <2>4
  <2> QED BY <2>4, <2>5
<1>6. /\ kept \subseteq Logged /\ files \subseteq Row /\ closed \subseteq kept
      /\ Single(kept) /\ \A r \in kept : WindowEnd(HourOf(r)) > watermark
      /\ \A row \in files : WindowEnd(row.hour) <= watermark /\ Single(row.records) /\ OfHour(row)
      /\ \A a, b \in files : a.hour = b.hour => a = b
  BY <1>1 DEF TypeOK, WindowInv, Closed
<1>7. \A r \in kept : HourOf(r) \in Hours /\ WindowEnd(HourOf(r)) \in Nat
  BY <1>1, <1>6, HourBounds, WindowEndType
<1>8. ASSUME NEW row \in New
      PROVE  \E h \in Hours : /\ row = RowOf(h) /\ WindowEnd(h) > watermark /\ WindowEnd(h) <= mark
                              /\ row.hour = h /\ row.records \subseteq closed
  <2>1. PICK r \in closed : row = RowOf(HourOf(r))
    OBVIOUS
  <2> QED BY <1>6, <1>7, <2>1
<1>9. New \subseteq Row
  <2> SUFFICES ASSUME NEW row \in New PROVE row \in Row
    OBVIOUS
  <2>1. PICK h \in Hours : row = RowOf(h) /\ row.records \subseteq closed
    BY <1>8
  <2>2. {r \in closed : HourOf(r) = h} \in SUBSET Logged
    BY <1>6
  <2> HIDE DEF closed
  <2> QED BY <2>1, <2>2 DEF Row
<1>10. \A row \in New : /\ WindowEnd(row.hour) > watermark /\ WindowEnd(row.hour) <= mark
                        /\ Single(row.records) /\ OfHour(row) /\ row = RowOf(row.hour)
  <2> SUFFICES ASSUME NEW row \in New
               PROVE  /\ WindowEnd(row.hour) > watermark /\ WindowEnd(row.hour) <= mark
                      /\ Single(row.records) /\ OfHour(row) /\ row = RowOf(row.hour)
    OBVIOUS
  <2>1. PICK h \in Hours : /\ row = RowOf(h) /\ WindowEnd(h) > watermark /\ WindowEnd(h) <= mark
                           /\ row.hour = h /\ row.records \subseteq closed
    BY <1>8
  <2>2. Single(row.records)
    BY <1>6, <2>1 DEF Single
  <2>3. OfHour(row)
    BY <2>1 DEF OfHour
  <2> HIDE DEF RowOf
  <2> QED BY <2>1, <2>2, <2>3
<1>11. \A q \in closed : \E row \in New : q \in row.records
  <2> SUFFICES ASSUME NEW q \in closed PROVE \E row \in New : q \in row.records
    OBVIOUS
  <2>1. RowOf(HourOf(q)) \in New /\ q \in RowOf(HourOf(q)).records
    OBVIOUS
  <2> QED BY <2>1
<1>12. \A r \in kept \ closed : WindowEnd(HourOf(r)) > mark
  BY <1>3, <1>7
<1> HIDE DEF closed, RowOf, New
<1>13. Closed(files, kept, watermark)'
  <2>1. \A row \in files' : WindowEnd(row.hour) <= mark /\ Single(row.records) /\ OfHour(row)
    <3>1. ASSUME NEW row \in files PROVE WindowEnd(row.hour) <= mark
      <4>1. WindowEnd(row.hour) \in Nat
        BY <1>6, HourType, WindowEndType DEF Row
      <4> QED BY <1>2, <1>3, <1>6, <4>1
    <3> QED BY <1>2, <1>6, <1>10, <3>1
  <2>2. ASSUME NEW a \in files', NEW b \in files', a.hour = b.hour PROVE a = b
    <3>1. CASE a \in files /\ b \in files
      BY <1>6, <2>2, <3>1
    <3>2. CASE a \in New /\ b \in New
      BY <1>10, <2>2, <3>2
    <3>3. ASSUME NEW c \in files, NEW d \in New PROVE c.hour # d.hour
      <4>1. WindowEnd(c.hour) \in Nat /\ WindowEnd(c.hour) <= watermark
        BY <1>6, HourType, WindowEndType DEF Row
      <4>2. WindowEnd(d.hour) > watermark
        BY <1>10
      <4> QED BY <1>3, <4>1, <4>2
    <3> QED BY <1>2, <2>2, <3>1, <3>2, <3>3
  <2>3. Single(kept') /\ \A r \in kept' : WindowEnd(HourOf(r)) > mark
    BY <1>2, <1>6, <1>12 DEF Single
  <2> QED BY <1>2, <2>1, <2>2, <2>3, SameLog DEF Closed, Single, OfHour
<1>14. Covered(next, Tabled \cup kept \cup InRows(files) \cup Pending)'
  <2> DEFINE S == Tabled \cup kept \cup InRows(files) \cup Pending
             T == (Tabled \cup kept \cup InRows(files) \cup Pending)'
  <2>1. Covered(next, S)
    BY <1>1 DEF LossInv
  <2>2. Tabled' = Tabled /\ Pending' = Pending
    BY <1>2 DEF Tabled, InRows, Pending, Newest, Rows, snapshotVars
  <2>3. InRows(files) \subseteq InRows(files)' /\ closed \subseteq InRows(files)'
    BY <1>2, <1>11 DEF InRows
  <2>4. S \subseteq T
    BY <1>2, <2>2, <2>3
  <2>5. \A q \in S : q \in T \/ \E x \in T : SameEvent(q, x)
    BY <2>4
  <2> HIDE DEF S
  <2> QED BY <1>2, <2>1, <2>5, JobCovers
<1>15. /\ next' \in Offsets /\ high' \in [Partition -> -1..MaxTime] /\ watermark' \in 0..MaxTime
       /\ idle' \subseteq Partition /\ behind' \subseteq Partition
       /\ kept' \subseteq Logged /\ files' \subseteq Row
       /\ overtaken \subseteq overtaken' /\ overtaken' \subseteq Logged
  BY <1>1, <1>2, <1>4, <1>6, <1>9 DEF TypeOK
<1>16. (idle \subseteq behind)'
       /\ \A q \in Partition : high'[q] # -1 =>
            \E o \in DOMAIN log[q] : o < next'[q] /\ log[q][o].time = high'[q]
  BY <1>1, <1>2 DEF PlaceInv
<1>17. watermark <= watermark' /\ \A row \in files' : row \in files \/ WindowEnd(row.hour) > watermark
  BY <1>2, <1>3, <1>10
<1> QED BY <1>2, <1>5, <1>13, <1>14, <1>15, <1>16, <1>17, JobStep

-------------------------------------------------------------------------------
(* Snapshots *)

LEMMA TakeKeeps ==
  ASSUME NEW kind \in Kinds
  PROVE  SpeedInv /\ Take(kind) => SpeedInv'
<1> SUFFICES ASSUME SpeedInv, Take(kind) PROVE SpeedInv'
  OBVIOUS
<1>1. TypeOK /\ PlaceInv /\ WindowInv /\ LossInv /\ (~stale => TableInv)
  BY DEF SpeedInv
<1>2. /\ running /\ told /\ files' = {} /\ own' = kind /\ told' = FALSE
      /\ log' = log /\ group' = group /\ held' = held /\ silver' = silver /\ running' = running
      /\ faults' = faults /\ next' = next /\ high' = high /\ idle' = idle /\ watermark' = watermark
      /\ kept' = kept /\ behind' = behind /\ overtaken' = overtaken /\ forgotten' = forgotten
      /\ stale' = stale /\ latest' = kind
  BY DEF Take, Retain, groupVars, historyVars
<1>3. /\ DOMAIN retained' = DOMAIN retained \cup {kind} /\ retained'[kind] = SnapshotTaken
      /\ \A j \in DOMAIN retained : j # kind => retained'[j] = retained[j]
  BY DEF Take, Retain
<1>4. /\ Newest' = retained'[kind] /\ retained'[kind].next = next /\ retained'[kind].watermark = watermark
      /\ retained'[kind].kept = kept /\ retained'[kind].files = files
      /\ retained'[kind].committed = FALSE /\ retained'[kind].behind = behind
  BY <1>2, <1>3 DEF Newest, SnapshotTaken
<1>5. kind # "none"
  BY DEF Kinds
<1>6. /\ Logged' = Logged /\ (Row' = Row) /\ (Snapshot' = Snapshot)
      /\ Tabled' = Tabled /\ Rows' = Rows
      /\ \A records : Single(records)' <=> Single(records)
      /\ \A row : OfHour(row)' <=> OfHour(row)
  <2>1. /\ Logged' = Logged /\ \A records : Single(records)' <=> Single(records)
        /\ \A row : OfHour(row)' <=> OfHour(row)
    BY <1>2, SameLog DEF Single, OfHour
  <2>2. Row' = Row
    BY <2>1 DEF Row
  <2>3. Snapshot' = Snapshot
    BY <2>1, <2>2 DEF Snapshot
  <2> QED BY <1>2, <2>1, <2>2, <2>3 DEF Tabled, Rows, InRows
<1>7. TypeOK'
  <2>1. {running, told, stale}' \subseteq BOOLEAN
    <3>1. running' \in BOOLEAN /\ told' \in BOOLEAN /\ stale' \in BOOLEAN
      BY <1>1, <1>2, SpeedTypes, Zenon
    <3> QED BY <3>1
  <2>2. SnapshotTaken \in Snapshot
    BY <1>1 DEF TypeOK, SnapshotTaken, Snapshot
  <2>3. DOMAIN retained' \subseteq Kinds /\ \A k \in DOMAIN retained' : retained'[k] \in Snapshot'
    BY <1>1, <1>3, <1>6, <2>2 DEF TypeOK
  <2>4. IF DOMAIN retained' = {} THEN latest' = "none" ELSE latest' \in DOMAIN retained'
    BY <1>2, <1>3
  <2> QED BY <1>1, <1>2, <1>6, <2>1, <2>3, <2>4 DEF TypeOK
<1>8. ToldInv'
  BY <1>2, <1>4, <1>5 DEF ToldInv
<1>9. PlaceInv'
  <2>1. HeldBack(next, watermark, behind)'
    BY <1>1, <1>2 DEF PlaceInv, HeldBack
  <2>2. ASSUME NEW k \in DOMAIN retained'
        PROVE  HeldBack(retained[k].next, retained[k].watermark, retained[k].behind)'
    <3>1. CASE k = kind
      <4>1. HeldBack(next, watermark, behind)
        BY <1>1 DEF PlaceInv
      <4> QED BY <1>2, <1>4, <3>1, <4>1 DEF HeldBack
    <3>2. CASE k # kind
      <4>1. k \in DOMAIN retained /\ retained'[k] = retained[k]
        BY <1>3, <3>2
      <4>2. HeldBack(retained[k].next, retained[k].watermark, retained[k].behind)
        BY <1>1, <4>1 DEF PlaceInv
      <4> QED BY <1>2, <4>1, <4>2 DEF HeldBack
    <3> QED BY <3>1, <3>2
  <2> QED BY <1>1, <1>2, <2>1, <2>2 DEF PlaceInv
<1>10. WindowInv'
  <2>1. Closed(files, kept, watermark)'
    BY <1>1, <1>2, <1>6, SameLog DEF WindowInv, Closed
  <2>2. ASSUME NEW k \in DOMAIN retained'
        PROVE  Closed(retained[k].files, retained[k].kept, retained[k].watermark)'
    <3>1. CASE k = kind
      <4>1. Closed(files, kept, watermark)
        BY <1>1 DEF WindowInv
      <4> QED BY <1>2, <1>4, <1>6, <3>1, <4>1, SameLog DEF Closed
    <3>2. CASE k # kind
      <4>1. k \in DOMAIN retained /\ retained'[k] = retained[k]
        BY <1>3, <3>2
      <4>2. Closed(retained[k].files, retained[k].kept, retained[k].watermark)
        BY <1>1, <4>1 DEF WindowInv
      <4> QED BY <1>2, <1>6, <4>1, <4>2, SameLog DEF Closed
    <3> QED BY <3>1, <3>2
  <2> QED BY <1>1, <1>6, <2>1, <2>2 DEF WindowInv
<1>11. LossInv'
  <2> DEFINE S == Tabled \cup kept \cup InRows(files)
  <2>1. Covered(next, S)
    <3>1. Pending = {} /\ S \cup {} = S
      BY <1>2 DEF Pending
    <3>2. Covered(next, Tabled \cup kept \cup InRows(files) \cup Pending)
      BY <1>1 DEF LossInv
    <3> QED BY <3>1, <3>2
  <2>2. Covered(next, Tabled \cup kept \cup InRows(files) \cup Pending)'
    <3>1. Pending' = InRows(files)
      BY <1>2, <1>4 DEF Pending, InRows
    <3>2. \A q \in S : \/ q \in (Tabled \cup kept \cup InRows(files) \cup Pending)'
                       \/ \E x \in (Tabled \cup kept \cup InRows(files) \cup Pending)' : SameEvent(q, x)
      BY <1>2, <1>6, <3>1
    <3> HIDE DEF S
    <3> QED BY <1>2, <2>1, <3>2, JobCovers
  <2>3. Covered(group, Tabled \cup held)'
    BY <1>1, <1>2, <1>6, GroupCovers
  <2>4. ASSUME NEW k \in DOMAIN retained'
        PROVE  Covered(retained[k].next, Tabled \cup retained[k].kept \cup InRows(retained[k].files))'
    <3>1. CASE k = kind
      <4> DEFINE T == (Tabled \cup retained[k].kept \cup InRows(retained[k].files))'
      <4>1. S = T
        BY <1>4, <1>6, <3>1 DEF InRows
      <4>2. \A q \in S : q \in T \/ \E x \in T : SameEvent(q, x)
        BY <4>1
      <4>3. T = (Tabled \cup retained[k].kept \cup InRows(retained[k].files))'
        OBVIOUS
      <4> HIDE DEF S, T
      <4>4. \A r \in Logged : r.offset < next[r.partition] => Excused(r)' \/ \E q \in T : SameEvent(r, q)'
        BY <1>2, <2>1, <4>2, CoverGrows
      <4>5. (retained[k].next)' = next
        BY <1>4, <3>1
      <4> QED BY <1>6, <4>3, <4>4, <4>5 DEF Covered
    <3>2. CASE k # kind
      <4>1. k \in DOMAIN retained /\ retained'[k] = retained[k]
        BY <1>3, <3>2
      <4> QED BY <1>1, <1>2, <1>6, <4>1, SnapshotCovers
    <3> QED BY <3>1, <3>2
  <2>5. \A k \in DOMAIN retained' : retained'[k].committed => retained'[k].files \subseteq Rows'
    BY <1>1, <1>3, <1>4, <1>6 DEF LossInv
  <2> QED BY <2>2, <2>3, <2>4, <2>5 DEF LossInv
<1>12. ~stale' => TableInv'
  <2> SUFFICES ASSUME ~stale PROVE TableInv'
    BY <1>2
  <2>1. TableInv /\ watermark >= Mark /\ watermark \in Nat /\ Mark \in Nat
    BY <1>1, <1>2, SpeedTypes DEF TableInv, Mark, Newest
  <2>2. Mark' = watermark
    BY <1>2, <1>4, <1>5 DEF Mark
  <2>3. \A row \in Rows : WindowEnd(row.hour) \in Nat /\ WindowEnd(row.hour) <= Mark
    <3>1. \A row \in Rows : row.hour \in Nat
      BY <1>1, HourType DEF TypeOK, Row, Rows
    <3> QED BY <2>1, <3>1, WindowEndType DEF TableInv
  <2>4. \A row \in Rows : WindowEnd(row.hour) <= watermark
    BY <2>1, <2>3
  <2>5. \A row \in files, a \in Rows : row.hour # a.hour
    <3> SUFFICES ASSUME NEW row \in files, NEW a \in Rows, row.hour = a.hour PROVE FALSE
      OBVIOUS
    <3>1. WindowEnd(row.hour) > Mark
      BY <1>2, <2>1 DEF TableInv
    <3>2. WindowEnd(row.hour) = WindowEnd(a.hour)
      OBVIOUS
    <3> QED BY <2>1, <2>3, <3>1, <3>2
  <2> QED BY <1>2, <1>4, <1>6, <2>1, <2>2, <2>4, <2>5 DEF TableInv
<1> QED BY <1>7, <1>8, <1>9, <1>10, <1>11, <1>12 DEF SpeedInv

LEMMA NotifyKeeps == SpeedInv /\ Notify => SpeedInv'
<1> SUFFICES ASSUME SpeedInv, Notify PROVE SpeedInv'
  OBVIOUS
<1> DEFINE s == retained[latest]
<1>1. TypeOK /\ ToldInv /\ PlaceInv /\ WindowInv /\ LossInv /\ (~stale => TableInv)
  BY DEF SpeedInv
<1>2. /\ running /\ ~told /\ latest # "none" /\ latest \in DOMAIN retained /\ ~s.committed
  BY <1>1, SpeedTypes DEF Notify, ToldInv, Newest
<1>3. /\ silver' = silver (+) SetToBag(s.files)
      /\ retained' = [retained EXCEPT ![latest] = [retained[latest] EXCEPT !.committed = TRUE]]
      /\ (group' = s.next /\ held' = s.kept) \/ (group' = group /\ held' = held)
      /\ log' = log /\ latest' = latest /\ faults' = faults
      /\ overtaken' = overtaken /\ forgotten' = forgotten /\ stale' = stale
  <2>1. /\ silver' = silver (+) SetToBag(s.files)
        /\ retained' = [retained EXCEPT ![latest] = [@ EXCEPT !.committed = TRUE]]
        /\ (group' = s.next /\ held' = s.kept) \/ UNCHANGED groupVars
        /\ log' = log /\ latest' = latest /\ faults' = faults /\ UNCHANGED historyVars
    BY DEF Notify, Newest
  <2>2. retained' = [retained EXCEPT ![latest] = [retained[latest] EXCEPT !.committed = TRUE]]
    BY <2>1
  <2>3. (group' = s.next /\ held' = s.kept) \/ (group' = group /\ held' = held)
    BY <2>1 DEF groupVars
  <2>4. overtaken' = overtaken /\ forgotten' = forgotten /\ stale' = stale
    BY <2>1 DEF historyVars
  <2> HIDE DEF s
  <2> QED BY <2>1, <2>2, <2>3, <2>4
<1>4. told' = TRUE
  BY DEF Notify, Ended
<1>5. \/ Ended
      \/ /\ running' = running /\ own' = own /\ next' = next /\ high' = high /\ idle' = idle
         /\ watermark' = watermark /\ kept' = kept /\ files' = files /\ behind' = behind
  BY DEF Notify, jobVars
<1>6. /\ DOMAIN retained' = DOMAIN retained
      /\ \A j \in DOMAIN retained :
           /\ retained'[j].next = retained[j].next /\ retained'[j].watermark = retained[j].watermark
           /\ retained'[j].kept = retained[j].kept /\ retained'[j].files = retained[j].files
           /\ retained'[j].behind = retained[j].behind
           /\ j # latest => retained'[j] = retained[j]
           /\ retained'[j] \in Snapshot
      /\ retained'[latest].committed = TRUE
  BY <1>1, <1>2, <1>3, CommitFields
<1>7. s.files \subseteq Row /\ s.next \in Offsets /\ s.kept \subseteq Logged
  BY <1>1, <1>2, SpeedTypes
<1>8. /\ IsABag(silver') /\ Rows' = Rows \cup s.files
      /\ \A row \in Rows \ s.files : silver'[row] = silver[row]
      /\ \A row \in s.files \ Rows : silver'[row] = 1
  <2>1. IsABag(silver)
    BY <1>1 DEF TypeOK
  <2> HIDE DEF s
  <2> QED BY <1>3, <2>1, CommitRows DEF Rows
<1>9. /\ Logged' = Logged /\ (Row' = Row) /\ (Snapshot' = Snapshot)
      /\ \A records : Single(records)' <=> Single(records)
      /\ \A row : OfHour(row)' <=> OfHour(row)
  <2>1. /\ Logged' = Logged /\ \A records : Single(records)' <=> Single(records)
        /\ \A row : OfHour(row)' <=> OfHour(row)
    BY <1>3, SameLog DEF Single, OfHour
  <2>2. Row' = Row
    BY <2>1 DEF Row
  <2>3. Snapshot' = Snapshot
    BY <2>1, <2>2 DEF Snapshot
  <2> QED BY <2>1, <2>2, <2>3
<1>10. TypeOK'
  <2>1. /\ running' \in BOOLEAN /\ own' \in Kinds \cup {"none"} /\ next' \in Offsets
        /\ high' \in [Partition -> -1..MaxTime] /\ watermark' \in 0..MaxTime
        /\ idle' \subseteq Partition /\ behind' \subseteq Partition
        /\ kept' \subseteq Logged /\ files' \subseteq Row
    <3>1. CASE Ended
      <4>1. running' \in BOOLEAN
        BY <1>1, <3>1, EndedTypes, Zenon
      <4> QED BY <1>1, <3>1, <4>1, EndedTypes
    <3>2. CASE ~Ended
      <4>1. running' \in BOOLEAN
        BY <1>1, <1>5, <3>2, SpeedTypes, Zenon
      <4> QED BY <1>1, <1>5, <3>2, <4>1 DEF TypeOK
    <3> QED BY <3>1, <3>2
  <2>2. {running, told, stale}' \subseteq BOOLEAN
    <3>1. stale' \in BOOLEAN /\ told' \in BOOLEAN
      BY <1>1, <1>3, <1>4, SpeedTypes, Zenon
    <3> QED BY <2>1, <3>1
  <2>3. BagToSet(silver') \subseteq Row /\ group' \in Offsets /\ held' \subseteq Logged
    BY <1>1, <1>3, <1>7, <1>8 DEF TypeOK, Rows
  <2>4. DOMAIN retained' \subseteq Kinds /\ \A k \in DOMAIN retained' : retained'[k] \in Snapshot
    BY <1>1, <1>6 DEF TypeOK
  <2>5. IF DOMAIN retained' = {} THEN latest' = "none" ELSE latest' \in DOMAIN retained'
    BY <1>2, <1>3, <1>6
  <2>6. /\ log' \in Topics /\ overtaken' \subseteq Logged /\ forgotten' \subseteq Logged
        /\ faults' \in 0..MaxFaults
    BY <1>1, <1>3 DEF TypeOK
  <2> HIDE DEF s
  <2> QED BY <1>8, <1>9, <2>1, <2>2, <2>3, <2>4, <2>5, <2>6 DEF TypeOK
<1>11. ToldInv'
  BY <1>4 DEF ToldInv
<1>12. PlaceInv'
  <2>1. ASSUME NEW k \in DOMAIN retained'
        PROVE  HeldBack(retained[k].next, retained[k].watermark, retained[k].behind)'
    <3>1. k \in DOMAIN retained
      BY <1>6
    <3>2. HeldBack(retained[k].next, retained[k].watermark, retained[k].behind)
      BY <1>1, <3>1 DEF PlaceInv
    <3> QED BY <1>3, <1>6, <3>1, <3>2 DEF HeldBack
  <2>2. CASE Ended
    BY <1>1, <1>3, <2>1, <2>2, EndedHolds DEF PlaceInv
  <2>3. CASE ~Ended
    <3>1. HeldBack(next, watermark, behind)'
      BY <1>1, <1>3, <1>5, <2>3 DEF PlaceInv, HeldBack
    <3> QED BY <1>1, <1>3, <1>5, <2>1, <2>3, <3>1 DEF PlaceInv
  <2> QED BY <2>2, <2>3
<1>13. WindowInv'
  <2>1. ASSUME NEW k \in DOMAIN retained'
        PROVE  Closed(retained[k].files, retained[k].kept, retained[k].watermark)'
    <3>1. k \in DOMAIN retained
      BY <1>6
    <3>2. Closed(retained[k].files, retained[k].kept, retained[k].watermark)
      BY <1>1, <3>1 DEF WindowInv
    <3> QED BY <1>3, <1>6, <1>9, <3>1, <3>2, SameLog DEF Closed
  <2>4. \A row \in Rows' : OfHour(row)'
    BY <1>1, <1>2, <1>8, <1>9 DEF WindowInv, Closed
  <2>2. CASE Ended
    BY <1>1, <1>3, <2>1, <2>2, <2>4, EndedHolds DEF WindowInv
  <2>3. CASE ~Ended
    <3>1. Closed(files, kept, watermark)'
      BY <1>1, <1>3, <1>5, <1>9, <2>3, SameLog DEF WindowInv, Closed
    <3> QED BY <2>1, <2>4, <3>1 DEF WindowInv
  <2> QED BY <2>2, <2>3
<1>14. /\ Tabled \subseteq Tabled' /\ InRows(s.files) \subseteq Tabled' /\ Rows \subseteq Rows'
  BY <1>3, <1>8 DEF Tabled, InRows
<1>15. LossInv'
  <2>1. Covered(group, Tabled \cup held)'
    <3>1. CASE group' = group /\ held' = held
      BY <1>1, <1>3, <1>14, <3>1, GroupCovers
    <3>2. CASE group' = s.next /\ held' = s.kept
      <4> DEFINE S == Tabled \cup s.kept \cup InRows(s.files)
                 T == (Tabled \cup held)'
                 from == s.next
      <4>1. Covered(from, S)
        BY <1>1, <1>2 DEF LossInv
      <4>2. \A q \in S : q \in T \/ \E x \in T : SameEvent(q, x)
        BY <1>14, <3>2
      <4>3. T = (Tabled \cup held)' /\ group' = from
        BY <3>2
      <4> HIDE DEF S, T, s, from
      <4>4. \A r \in Logged : r.offset < from[r.partition] => Excused(r)' \/ \E q \in T : SameEvent(r, q)'
        BY <1>3, <4>1, <4>2, CoverGrows
      <4> QED BY <1>9, <4>3, <4>4 DEF Covered
    <3> QED BY <1>3, <3>1, <3>2
  <2>2. Covered(next, Tabled \cup kept \cup InRows(files) \cup Pending)'
    <3>1. CASE Ended
      BY <1>1, <1>3, <3>1, EndedHolds
    <3>2. CASE ~Ended
      <4> DEFINE S == Tabled \cup kept \cup InRows(files) \cup Pending
      <4>1. Covered(next, S)
        BY <1>1 DEF LossInv
      <4>2. Pending = InRows(s.files) /\ InRows(files)' = InRows(files) /\ kept' = kept /\ next' = next
        BY <1>2, <1>5, <3>2 DEF Pending, Newest, InRows
      <4>3. \A q \in S : \/ q \in (Tabled \cup kept \cup InRows(files) \cup Pending)'
                         \/ \E x \in (Tabled \cup kept \cup InRows(files) \cup Pending)' : SameEvent(q, x)
        BY <1>14, <4>2
      <4> HIDE DEF S
      <4> QED BY <1>3, <4>1, <4>2, <4>3, JobCovers
    <3> QED BY <3>1, <3>2
  <2>3. \A k \in DOMAIN retained' :
          Covered(retained[k].next, Tabled \cup retained[k].kept \cup InRows(retained[k].files))'
    BY <1>1, <1>3, <1>6, <1>14, SnapshotCovers
  <2>4. ASSUME NEW k \in DOMAIN retained' PROVE retained'[k].committed => retained'[k].files \subseteq Rows'
    <3>1. CASE k = latest
      BY <1>2, <1>6, <1>8, <3>1
    <3>2. CASE k # latest
      BY <1>1, <1>6, <1>14, <3>2 DEF LossInv
    <3> QED BY <3>1, <3>2
  <2> QED BY <2>1, <2>2, <2>3, <2>4 DEF LossInv
<1>16. ~stale' => TableInv'
  <2> SUFFICES ASSUME ~stale PROVE TableInv'
    BY <1>3
  <2>1. TableInv
    BY <1>1
  <2>2. Mark' = Mark /\ Newest'.committed = TRUE /\ Mark = s.watermark
    BY <1>2, <1>3, <1>6 DEF Mark, Newest
  <2>3. /\ \A row \in s.files : Single(row.records) /\ WindowEnd(row.hour) <= s.watermark
        /\ \A a, b \in s.files : a.hour = b.hour => a = b
    BY <1>1, <1>2 DEF WindowInv, Closed
  <2>4. \A row \in s.files, a \in Rows : row.hour # a.hour
    BY <1>2, <2>1 DEF TableInv, Newest
  <2> HIDE DEF s
  <2>5. \A row \in Rows' : silver'[row] = 1 /\ Single(row.records) /\ WindowEnd(row.hour) <= Mark
    BY <1>8, <2>1, <2>2, <2>3, <2>4 DEF TableInv
  <2>6. \A a, b \in Rows' : a.hour = b.hour => a = b
    BY <1>8, <2>1, <2>3, <2>4 DEF TableInv
  <2>7. running' => ~Ended
    BY DEF Ended
  <2>8. running' => /\ own' = latest' /\ watermark' >= Mark /\ \A row \in files' : WindowEnd(row.hour) > Mark
    BY <1>2, <1>3, <1>5, <2>1, <2>7 DEF TableInv
  <2> QED BY <1>9, <2>2, <2>5, <2>6, <2>8 DEF TableInv
<1> QED BY <1>10, <1>11, <1>12, <1>13, <1>15, <1>16 DEF SpeedInv

-------------------------------------------------------------------------------
(* The invariant and what follows *)

LEMMA SpeedStep == SpeedInv /\ [Next]_vars => SpeedInv'
<1> SUFFICES ASSUME SpeedInv, [Next]_vars PROVE SpeedInv'
  OBVIOUS
<1>1. ASSUME SubmitNewest PROVE SpeedInv'
  <2>1. faults' \in 0..MaxFaults
    BY <1>1, FaultTypes DEF SpeedInv, SubmitNewest
  <2> QED BY <1>1, <2>1, SubmitKeeps DEF SubmitNewest
<1>2. ASSUME SubmitPartly PROVE SpeedInv'
  <2>1. faults' \in 0..MaxFaults
    BY <1>2, FaultTypes DEF SpeedInv, SubmitPartly
  <2> QED BY <1>2, <2>1, SubmitKeeps DEF SubmitPartly
<1>3. ASSUME NEW p \in Partition, Read(p) \/ MarkIdle(p) PROVE SpeedInv'
  BY <1>3, ReadKeeps, MarkIdleKeeps
<1>4. ASSUME Checkpoint \/ StopWithSavepoint PROVE SpeedInv'
  <2>1. "checkpoint" \in Kinds /\ "savepoint" \in Kinds
    BY DEF Kinds
  <2> QED BY <1>4, <2>1, TakeKeeps DEF Checkpoint, StopWithSavepoint
<1>5. ASSUME UNCHANGED vars PROVE SpeedInv'
  <2>1. /\ UNCHANGED <<log, groupVars, silver, snapshotVars, running, own, told, faults, forgotten, stale>>
        /\ next' = next /\ high' = high /\ idle' = idle /\ watermark' = watermark /\ kept' = kept
        /\ files' = files /\ behind' = behind /\ overtaken' = overtaken /\ log' = log
    BY <1>5 DEF vars, jobVars, historyVars
  <2>2. TypeOK /\ PlaceInv /\ WindowInv /\ LossInv
    BY DEF SpeedInv
  <2>3. HeldBack(next, watermark, behind)'
    BY <2>1, <2>2 DEF PlaceInv, HeldBack
  <2>4. Closed(files, kept, watermark)'
    BY <2>1, <2>2, SameLog DEF WindowInv, Closed, Single, OfHour
  <2>5. Covered(next, Tabled \cup kept \cup InRows(files) \cup Pending)'
    <3> DEFINE S == Tabled \cup kept \cup InRows(files) \cup Pending
               T == (Tabled \cup kept \cup InRows(files) \cup Pending)'
    <3>1. Covered(next, S)
      BY <2>2 DEF LossInv
    <3>2. S = T
      BY <2>1 DEF Tabled, InRows, Pending, Newest, Rows, snapshotVars
    <3>3. \A q \in S : q \in T \/ \E x \in T : SameEvent(q, x)
      BY <3>2
    <3> HIDE DEF S
    <3> QED BY <2>1, <3>1, <3>3, JobCovers
  <2>6. /\ next' \in Offsets /\ high' \in [Partition -> -1..MaxTime] /\ watermark' \in 0..MaxTime
        /\ idle' \subseteq Partition /\ behind' \subseteq Partition
        /\ kept' \subseteq Logged /\ files' \subseteq Row
        /\ overtaken \subseteq overtaken' /\ overtaken' \subseteq Logged
    BY <2>1, <2>2 DEF TypeOK
  <2>7. (idle \subseteq behind)'
        /\ \A q \in Partition : high'[q] # -1 =>
             \E o \in DOMAIN log[q] : o < next'[q] /\ log[q][o].time = high'[q]
    BY <2>1, <2>2 DEF PlaceInv
  <2>8. watermark <= watermark' /\ \A row \in files' : row \in files \/ WindowEnd(row.hour) > watermark
    BY <2>1, <2>2, SpeedTypes
  <2> QED BY <2>1, <2>3, <2>4, <2>5, <2>6, <2>7, <2>8, JobStep
<1> QED BY <1>1, <1>2, <1>3, <1>4, <1>5, RestartKeeps, DieKeeps, AdvanceKeeps, NotifyKeeps DEF Next

(* The invariant the theorems below are read off from.                     *)
THEOREM SpeedInvariant == Spec => []SpeedInv
<1>1. Init => SpeedInv
  BY SpeedInit
<1>2. SpeedInv /\ [Next]_vars => SpeedInv'
  BY SpeedStep
<1> QED BY <1>1, <1>2, PTL DEF Spec

(* Through every kill, restart, partial listing and refused commit, the    *)
(* state of job, snapshots, group and table has its types.                 *)
THEOREM SpeedTypeCorrect == Spec => []TypeOK
<1>1. SpeedInv => TypeOK
  BY DEF SpeedInv
<1> QED BY <1>1, SpeedInvariant, PTL

(* Unless a start passed over the newest snapshot, silver.inventory_hourly *)
(* has one row for an hour and one record for an event in it, however the  *)
(* job is killed, restarted from a checkpoint, stopped with a savepoint    *)
(* and resubmitted.                                                        *)
THEOREM HoursCountedOnce == Spec => []CountedOnce
<1>1. SpeedInv => CountedOnce
  <2> SUFFICES ASSUME SpeedInv, ~stale PROVE /\ \A row \in Rows : silver[row] = 1
                                             /\ \A a, b \in Rows : a # b => a.hour # b.hour
                                             /\ \A row \in Rows : Single(row.records)
    BY DEF CountedOnce, Single
  <2> QED BY DEF SpeedInv, TableInv
<1> QED BY <1>1, SpeedInvariant, PTL

(* A record before the newest snapshot is in the table or the snapshot, in *)
(* one of its copies, or its loss has one of the four causes that          *)
(* reconciliation knows of.                                                *)
THEOREM LossesExplained == Spec => []ShortfallExplained
<1>1. SpeedInv => ShortfallExplained
  <2> SUFFICES ASSUME SpeedInv, NEW r \in Processed
               PROVE  \/ \E q \in Durable \cup forgotten : SameEvent(r, q)
                      \/ LateDropped(r) \/ r \in overtaken \/ Hurried(r)
    BY DEF ShortfallExplained
  <2>1. latest # "none" /\ r \in Logged /\ r.offset < Newest.next[r.partition]
    BY DEF Processed
  <2>2. latest \in DOMAIN retained
    BY <2>1, SpeedTypes DEF SpeedInv
  <2>3. Covered(Newest.next, Tabled \cup Newest.kept \cup InRows(Newest.files))
    BY <2>2 DEF SpeedInv, LossInv, Newest
  <2>4. Durable \cup forgotten = Tabled \cup Newest.kept \cup InRows(Newest.files)
    BY <2>1 DEF Durable, Tabled, InRows
  <2> QED BY <2>1, <2>3, <2>4 DEF Covered, Excused
<1> QED BY <1>1, SpeedInvariant, PTL

(* What int_inventory_reconciliation_hourly compares for an hour the       *)
(* watermark has passed and the sink has committed: the hour's rows have   *)
(* every record before the newest snapshot, in one of its copies, but for  *)
(* the four causes; nothing of it is still in a window or a file.          *)
SettledHoursAreWhole ==
  \A h \in Hours : Settled(h) =>
    \A r \in Processed : HourOf(r) = h /\ ~Excused(r) =>
      \/ \E row \in Rows : row.hour = h /\ \E q \in row.records : SameEvent(r, q)
      \/ \E q \in forgotten : SameEvent(r, q)

THEOREM SettledHoursWhole == Spec => []SettledHoursAreWhole
<1>1. SpeedInv => SettledHoursAreWhole
  <2> SUFFICES ASSUME SpeedInv, NEW h \in Hours, Settled(h), NEW r \in Processed,
                      HourOf(r) = h, ~Excused(r)
               PROVE  \/ \E row \in Rows : row.hour = h /\ \E q \in row.records : SameEvent(r, q)
                      \/ \E q \in forgotten : SameEvent(r, q)
    BY DEF SettledHoursAreWhole
  <2>1. latest # "none" /\ r \in Logged /\ r.offset < Newest.next[r.partition]
    BY DEF Processed
  <2>2. latest \in DOMAIN retained /\ Newest.watermark \in Nat
    BY <2>1, SpeedTypes DEF SpeedInv, Newest
  <2>3. Covered(Newest.next, Tabled \cup Newest.kept \cup InRows(Newest.files))
    BY <2>2 DEF SpeedInv, LossInv, Newest
  <2>4. PICK q \in Tabled \cup Newest.kept \cup InRows(Newest.files) : SameEvent(r, q)
    BY <2>1, <2>3 DEF Covered
  <2>5. HourOf(q) = h
    BY <2>4 DEF SameEvent
  <2>6. q \notin Newest.kept
    <3>1. WindowEnd(h) <= Newest.watermark /\ WindowEnd(h) \in Nat
      BY HourType, WindowEndType DEF Settled
    <3>2. q \in Newest.kept => WindowEnd(h) > Newest.watermark
      BY <2>2, <2>5 DEF SpeedInv, WindowInv, Closed, Newest
    <3> QED BY <2>2, <3>1, <3>2
  <2>7. Newest.files \subseteq Rows
    BY <2>2 DEF SpeedInv, LossInv, Newest, Settled
  <2>8. \A row \in Rows : q \in row.records => row.hour = h
    BY <2>5 DEF SpeedInv, WindowInv, OfHour
  <2> QED BY <2>4, <2>6, <2>7, <2>8 DEF Tabled, InRows
<1> QED BY <1>1, SpeedInvariant, PTL

-------------------------------------------------------------------------------
(* What has been read *)

(* No record is held, or in a row, before the offsets that go with it have *)
(* passed it; without a stale start the table's are before the newest      *)
(* snapshot's, and the job is at or after those.                           *)
Before(from, S) == \A r \in S : r.offset < from[r.partition]

OneLine ==
  /\ latest = "none" => InRows(Rows) = {}
  /\ latest # "none" => Before(Newest.next, InRows(Rows))
  /\ running /\ latest # "none" => \A p \in Partition : Newest.next[p] <= next[p]

ReadInv ==
  /\ Before(next, kept \cup InRows(files))
  /\ \A k \in DOMAIN retained :
       Before(retained[k].next, retained[k].kept \cup InRows(retained[k].files))
  /\ ~stale => OneLine

LEMMA InitRead == Init => ReadInv
<1> SUFFICES ASSUME Init PROVE ReadInv
  OBVIOUS
<1>1. DOMAIN retained = {} /\ kept = {} /\ files = {} /\ Rows = {} /\ latest = "none"
  BY DEF Init, Rows, BagToSet, EmptyBag, SetToBag
<1> QED BY <1>1 DEF ReadInv, OneLine, Before, InRows

(* A start, from the newest snapshot unless it is a stale one. *)
LEMMA StartRead ==
  ASSUME TypeOK, ReadInv, log' = log, NEW listed, StartFrom(listed),
         ~stale' => ~stale /\ (latest = "none" \/ latest \in listed)
  PROVE  ReadInv'
<1>1. latest' = latest
  BY StartCases DEF StartFresh, Restore, snapshotVars
<1>2. CASE Found(listed) = {} /\ StartFresh
  <2>1. kept' = {} /\ files' = {} /\ retained' = retained /\ Rows' = Rows
    BY <1>2, StartFreshTypes DEF StartFresh, snapshotVars, Rows
  <2>2. ASSUME ~stale' PROVE OneLine'
    <3>1. latest = "none"
      BY <1>2, <2>2, SpeedTypes DEF Found
    <3>2. InRows(Rows) = {}
      BY <2>2, <3>1 DEF ReadInv, OneLine
    <3> QED BY <1>1, <2>1, <3>1, <3>2 DEF OneLine, InRows
  <2> QED BY <2>1, <2>2 DEF ReadInv, Before, InRows
<1>3. ASSUME NEW k \in DOMAIN retained, k = Chosen(listed), Restore(k) PROVE ReadInv'
  <2>1. /\ next' = retained[k].next /\ kept' = retained[k].kept /\ files' = {}
        /\ Rows' = Rows \cup (IF retained[k].committed THEN {} ELSE retained[k].files)
    BY <1>3, RestoreTypes DEF Rows
  <2>2. /\ DOMAIN retained' = DOMAIN retained
        /\ \A j \in DOMAIN retained : /\ retained'[j].next = retained[j].next
                                      /\ retained'[j].kept = retained[j].kept
                                      /\ retained'[j].files = retained[j].files
    BY <1>3, RestoreFields
  <2>3. \A j \in DOMAIN retained :
          Before(retained[j].next, retained[j].kept \cup InRows(retained[j].files))
    BY DEF ReadInv
  <2>4. Before(next', kept' \cup InRows(files'))
    BY <2>1, <2>3 DEF Before, InRows
  <2>5. ASSUME NEW j \in DOMAIN retained'
        PROVE  Before(retained'[j].next, retained'[j].kept \cup InRows(retained'[j].files))
    BY <2>2, <2>3
  <2>6. ASSUME ~stale' PROVE OneLine'
    <3>1. latest \in DOMAIN retained /\ latest # "none"
      BY <1>3, SpeedTypes
    <3>2. k = latest
      BY <1>3, <2>6, <3>1 DEF Chosen
    <3>3. Newest'.next = retained[k].next /\ Newest.next = retained[k].next
      BY <1>1, <2>2, <3>1, <3>2 DEF Newest
    <3>4. Before(retained[k].next, InRows(Rows))
      BY <2>6, <3>1, <3>3 DEF ReadInv, OneLine
    <3>5. Before(retained[k].next, InRows(Rows'))
      BY <2>1, <2>3, <3>4 DEF Before, InRows
    <3>6. \A p \in Partition : Newest'.next[p] <= next'[p]
      BY <2>1, <3>3, SpeedTypes DEF Offsets
    <3> QED BY <1>1, <3>1, <3>3, <3>5, <3>6 DEF OneLine, Before, InRows
  <2> QED BY <2>4, <2>5, <2>6 DEF ReadInv, Before, InRows
<1> QED BY <1>2, <1>3, StartCases

(* The job's own steps between snapshots. *)
LEMMA StepRead ==
  ASSUME TypeOK, ReadInv,
         UNCHANGED <<silver, snapshotVars, running, stale>>,
         \A p \in Partition : next[p] <= next'[p],
         next' \in Offsets,
         Before(next', kept' \cup InRows(files'))
  PROVE  ReadInv'
<1>1. retained' = retained /\ latest' = latest /\ Rows' = Rows /\ running' = running /\ stale' = stale
  BY DEF snapshotVars, Rows
<1>2. ASSUME ~stale' PROVE OneLine'
  <2>1. OneLine
    BY <1>1, <1>2 DEF ReadInv
  <2>2. ASSUME running, latest # "none", NEW p \in Partition PROVE Newest.next[p] <= next'[p]
    <3>1. Newest.next[p] \in Nat /\ next[p] \in Nat /\ next'[p] \in Nat
      BY <2>2, SpeedTypes DEF Newest, Offsets
    <3>2. Newest.next[p] <= next[p]
      BY <2>1, <2>2 DEF OneLine
    <3> QED BY <3>1, <3>2
  <2> QED BY <1>1, <2>1, <2>2 DEF OneLine, Before, InRows, Newest
<1>3. \A k \in DOMAIN retained' :
        Before(retained'[k].next, retained'[k].kept \cup InRows(retained'[k].files))
  BY <1>1 DEF ReadInv
<1> QED BY <1>2, <1>3 DEF ReadInv, Before, InRows

(* The application has ended, its snapshots and rows remain. *)
LEMMA EndedRead ==
  ASSUME TypeOK, ReadInv, Ended, stale' = stale, latest' = latest, DOMAIN retained' = DOMAIN retained,
         \A j \in DOMAIN retained : /\ retained'[j].next = retained[j].next
                                    /\ retained'[j].kept = retained[j].kept
                                    /\ retained'[j].files = retained[j].files,
         latest = "none" => InRows(Rows') = InRows(Rows),
         latest # "none" => InRows(Rows') \subseteq InRows(Rows) \cup InRows(Newest.files)
  PROVE  ReadInv'
<1>1. kept' = {} /\ files' = {} /\ running' = FALSE
  BY EndedTypes
<1>2. \A k \in DOMAIN retained' :
        Before(retained'[k].next, retained'[k].kept \cup InRows(retained'[k].files))
  BY DEF ReadInv
<1>3. ASSUME ~stale' PROVE OneLine'
  <2>1. OneLine
    BY <1>3 DEF ReadInv
  <2>2. ASSUME latest # "none" PROVE Before(Newest'.next, InRows(Rows'))
    <3>1. latest \in DOMAIN retained /\ Newest'.next = Newest.next
      BY <2>2, SpeedTypes DEF Newest
    <3>2. Before(Newest.next, Newest.kept \cup InRows(Newest.files)) /\ Before(Newest.next, InRows(Rows))
      BY <2>1, <2>2, <3>1 DEF ReadInv, OneLine, Newest
    <3> QED BY <2>2, <3>1, <3>2 DEF Before
  <2>3. latest = "none" => InRows(Rows') = {}
    BY <2>1 DEF OneLine
  <2> QED BY <1>1, <2>2, <2>3 DEF OneLine, Before, InRows
<1> QED BY <1>1, <1>2, <1>3 DEF ReadInv, Before, InRows

LEMMA DeduplicatedFrom ==
  ASSUME NEW r
  PROVE  Deduplicated(r) \subseteq kept \cup {r}
BY DEF Deduplicated

LEMMA ReadReads ==
  ASSUME TypeOK, ReadInv, NEW p \in Partition, Read(p)
  PROVE  ReadInv'
<1>0. PICK r : r = [partition |-> p, offset |-> next[p]]
  OBVIOUS
<1>1. /\ UNCHANGED <<silver, snapshotVars, running, stale>> /\ files' = files
      /\ next' = [next EXCEPT ![p] = @ + 1]
      /\ kept' \subseteq kept \cup {r}
  <2>1. /\ UNCHANGED <<silver, snapshotVars, running, stale>> /\ files' = files
        /\ next' = [next EXCEPT ![p] = @ + 1]
    BY DEF Read
  <2>2. kept' = kept \/ kept' = Deduplicated(r)
    BY <1>0 DEF Read
  <2> QED BY <2>1, <2>2, DeduplicatedFrom
<1>2. next \in [Partition -> Nat \ {0}]
  BY DEF TypeOK, Offsets
<1>3. next' \in Offsets /\ (\A q \in Partition : next[q] <= next'[q]) /\ next[p] < next'[p]
  BY <1>1, <1>2 DEF Offsets
<1>4. ASSUME NEW q \in kept' \cup InRows(files') PROVE q.offset < next'[q.partition]
  <2>1. CASE q = r
    BY <1>0, <1>3, <2>1
  <2>2. CASE q # r
    <3>1. q \in kept \cup InRows(files)
      BY <1>1, <2>2
    <3>2. q \in Logged
      BY <3>1 DEF TypeOK, Row, InRows
    <3>3. q.partition \in Partition /\ q.offset \in Nat
      BY <3>2, LoggedRecord
    <3>4. q.offset < next[q.partition]
      BY <3>1 DEF ReadInv, Before
    <3>5. next[q.partition] \in Nat /\ next'[q.partition] \in Nat /\ next[q.partition] <= next'[q.partition]
      BY <1>2, <1>3, <3>3 DEF Offsets
    <3> QED BY <3>3, <3>4, <3>5
  <2> QED BY <2>1, <2>2
<1>5. Before(next', kept' \cup InRows(files'))
  BY <1>4 DEF Before
<1> QED BY <1>1, <1>3, <1>5, StepRead

LEMMA AdvanceReads ==
  ASSUME TypeOK, ReadInv, Advance
  PROVE  ReadInv'
<1> DEFINE closed == {r \in kept : WindowEnd(HourOf(r)) <= SourceWatermark}
           RowOf(h) == [hour |-> h, records |-> {r \in closed : HourOf(r) = h}]
           New == {RowOf(h) : h \in {HourOf(r) : r \in closed}}
<1>1. /\ UNCHANGED <<silver, snapshotVars, running, stale>> /\ next' = next
      /\ files' = files \cup New
      /\ kept' = kept \ closed
  BY DEF Advance, historyVars
<1>2. InRows(files') \subseteq InRows(files) \cup kept /\ kept' \subseteq kept
  BY <1>1 DEF InRows
<1>3. Before(next', kept' \cup InRows(files'))
  BY <1>1, <1>2 DEF ReadInv, Before
<1>4. next' \in Offsets /\ \A p \in Partition : next[p] <= next'[p]
  BY <1>1 DEF TypeOK, Offsets
<1> QED BY <1>1, <1>3, <1>4, StepRead

LEMMA TakeReads ==
  ASSUME TypeOK, ReadInv, NEW kind \in Kinds, Take(kind)
  PROVE  ReadInv'
<1>1. /\ files' = {} /\ kept' = kept /\ next' = next /\ silver' = silver /\ Rows' = Rows
      /\ latest' = kind /\ running /\ running' = running /\ stale' = stale
      /\ DOMAIN retained' = DOMAIN retained \cup {kind} /\ retained'[kind] = SnapshotTaken
      /\ \A j \in DOMAIN retained : j # kind => retained'[j] = retained[j]
  BY DEF Take, Retain, historyVars, Rows
<1>2. /\ Newest' = retained'[kind] /\ retained'[kind].next = next
      /\ retained'[kind].kept = kept /\ retained'[kind].files = files
  BY <1>1 DEF Newest, SnapshotTaken
<1>3. Before(next', kept' \cup InRows(files'))
  BY <1>1 DEF ReadInv, Before, InRows
<1>4. ASSUME NEW k \in DOMAIN retained'
      PROVE  Before(retained'[k].next, retained'[k].kept \cup InRows(retained'[k].files))
  BY <1>1, <1>2 DEF ReadInv
<1>5. ASSUME ~stale' PROVE OneLine'
  <2>1. OneLine
    BY <1>1, <1>5 DEF ReadInv
  <2>2. kind # "none"
    BY DEF Kinds
  <2>3. ASSUME NEW r \in InRows(Rows) PROVE r.offset < next[r.partition]
    <3>1. latest # "none"
      BY <2>1, <2>3 DEF OneLine
    <3>2. r \in Logged
      BY <2>3 DEF TypeOK, Row, InRows, Rows
    <3>3. r.partition \in Partition /\ r.offset \in Nat
      BY <3>2, LoggedRecord
    <3>4. r.offset < Newest.next[r.partition] /\ Newest.next[r.partition] <= next[r.partition]
      BY <1>1, <2>1, <2>3, <3>1, <3>3 DEF OneLine, Before
    <3>5. Newest.next[r.partition] \in Nat /\ next[r.partition] \in Nat
      BY <3>1, <3>3, SpeedTypes DEF Newest, Offsets
    <3> QED BY <3>3, <3>4, <3>5
  <2>4. \A p \in Partition : Newest'.next[p] <= next'[p]
    BY <1>1, <1>2, SpeedTypes
  <2>5. Before(Newest'.next, InRows(Rows'))
    BY <1>1, <1>2, <2>3 DEF Before
  <2> QED BY <1>1, <2>2, <2>4, <2>5 DEF OneLine, Before, InRows
<1> QED BY <1>3, <1>4, <1>5 DEF ReadInv, Before, InRows

LEMMA NotifyReads ==
  ASSUME TypeOK, ToldInv, ReadInv, Notify
  PROVE  ReadInv'
<1> DEFINE s == retained[latest]
<1>1. latest # "none" /\ latest \in DOMAIN retained
  BY SpeedTypes DEF Notify, ToldInv
<1>2. /\ silver' = silver (+) SetToBag(s.files)
      /\ retained' = [retained EXCEPT ![latest] = [retained[latest] EXCEPT !.committed = TRUE]]
      /\ latest' = latest /\ stale' = stale
  <2>1. retained' = [retained EXCEPT ![latest] = [@ EXCEPT !.committed = TRUE]]
        /\ silver' = silver (+) SetToBag(s.files) /\ latest' = latest /\ UNCHANGED historyVars
    BY DEF Notify, Newest
  <2> HIDE DEF s
  <2> QED BY <2>1 DEF historyVars
<1>3. /\ DOMAIN retained' = DOMAIN retained
      /\ \A j \in DOMAIN retained : /\ retained'[j].next = retained[j].next
                                    /\ retained'[j].kept = retained[j].kept
                                    /\ retained'[j].files = retained[j].files
  BY <1>1, <1>2, CommitFields
<1>4. Rows' = Rows \cup s.files
  <2>1. IsABag(silver)
    BY DEF TypeOK
  <2> HIDE DEF s
  <2> QED BY <1>2, <2>1, CommitRows DEF Rows
<1>5. InRows(Rows') \subseteq InRows(Rows) \cup InRows(Newest.files)
  BY <1>4 DEF InRows, Newest
<1>6. CASE Ended
  BY <1>1, <1>2, <1>3, <1>5, <1>6, EndedRead
<1>7. CASE ~Ended
  <2>1. running' = running /\ next' = next /\ kept' = kept /\ files' = files
    BY <1>7 DEF Notify, jobVars
  <2>2. ASSUME ~stale' PROVE OneLine'
    <3>1. OneLine
      BY <1>2, <2>2 DEF ReadInv
    <3>2. Newest'.next = Newest.next
      BY <1>1, <1>2, <1>3 DEF Newest
    <3>3. Before(Newest.next, Newest.kept \cup InRows(Newest.files)) /\ Before(Newest.next, InRows(Rows))
      BY <1>1, <3>1 DEF ReadInv, OneLine, Newest
    <3>4. Before(Newest'.next, InRows(Rows'))
      BY <1>5, <3>2, <3>3 DEF Before
    <3> QED BY <1>1, <1>2, <2>1, <3>1, <3>2, <3>4 DEF OneLine, Before, InRows
  <2>3. \A k \in DOMAIN retained' :
          Before(retained'[k].next, retained'[k].kept \cup InRows(retained'[k].files))
    BY <1>3 DEF ReadInv
  <2> QED BY <2>1, <2>2, <2>3 DEF ReadInv, Before, InRows
<1> QED BY <1>6, <1>7

LEMMA ReadStep == SpeedInv /\ ReadInv /\ [Next]_vars => ReadInv'
<1> SUFFICES ASSUME SpeedInv, ReadInv, [Next]_vars PROVE ReadInv'
  OBVIOUS
<1>0. TypeOK /\ ToldInv /\ (~stale => TableInv)
  BY DEF SpeedInv
<1>1. ASSUME NEW listed, Submit(listed) PROVE ReadInv'
  <2>1. StartFrom(listed) /\ log' = log /\ stale' = (stale \/ (latest # "none" /\ latest \notin listed))
    BY <1>1 DEF Submit
  <2> QED BY <1>0, <2>1, StartRead
<1>2. ASSUME Restart PROVE ReadInv'
  <2>1. StartFrom({own}) /\ log' = log /\ stale' = stale /\ running
    BY <1>2 DEF Restart
  <2>2. ~stale' => ~stale /\ (latest = "none" \/ latest \in {own})
    BY <1>0, <2>1 DEF TableInv
  <2> QED BY <1>0, <2>1, <2>2, StartRead
<1>3. ASSUME Die PROVE ReadInv'
  <2>1. Ended /\ stale' = stale /\ latest' = latest /\ retained' = retained /\ Rows' = Rows
    BY <1>3 DEF Die, historyVars, snapshotVars, Rows
  <2> QED BY <1>0, <2>1, EndedRead
<1>4. ASSUME NEW p \in Partition, MarkIdle(p) PROVE ReadInv'
  <2>1. /\ UNCHANGED <<silver, snapshotVars, running, stale>>
        /\ next' = next /\ kept' = kept /\ files' = files
    BY <1>4 DEF MarkIdle, historyVars
  <2>2. next' \in Offsets /\ \A q \in Partition : next[q] <= next'[q]
    BY <1>0, <2>1 DEF TypeOK, Offsets
  <2>3. Before(next', kept' \cup InRows(files'))
    BY <2>1 DEF ReadInv
  <2> QED BY <1>0, <2>1, <2>2, <2>3, StepRead
<1>5. ASSUME Checkpoint \/ StopWithSavepoint PROVE ReadInv'
  <2>1. "checkpoint" \in Kinds /\ "savepoint" \in Kinds
    BY DEF Kinds
  <2> QED BY <1>0, <1>5, <2>1, TakeReads DEF Checkpoint, StopWithSavepoint
<1>6. ASSUME UNCHANGED vars PROVE ReadInv'
  <2>1. /\ UNCHANGED <<silver, snapshotVars, running, stale>>
        /\ next' = next /\ kept' = kept /\ files' = files
    BY <1>6 DEF vars, jobVars, historyVars
  <2>2. next' \in Offsets /\ \A q \in Partition : next[q] <= next'[q]
    BY <1>0, <2>1 DEF TypeOK, Offsets
  <2>3. Before(next', kept' \cup InRows(files'))
    BY <2>1 DEF ReadInv
  <2> QED BY <1>0, <2>1, <2>2, <2>3, StepRead
<1> QED BY <1>0, <1>1, <1>2, <1>3, <1>4, <1>5, <1>6, ReadReads, AdvanceReads, NotifyReads
        DEF Next, SubmitNewest, SubmitPartly

LEMMA ReadInvariant == Spec => []ReadInv
<1>1. SpeedInv /\ SpeedInv' /\ ReadInv /\ [Next]_vars => ReadInv'
  BY ReadStep
<1> QED BY <1>1, InitRead, SpeedInvariant, PTL DEF Spec

-------------------------------------------------------------------------------
(* What reconciliation compares *)

LEMMA LoggedFinite ==
  ASSUME TypeOK
  PROVE  IsFiniteSet(Logged)
<1> DEFINE P == [p \in Partition |-> {[partition |-> p, offset |-> o] : o \in DOMAIN log[p]}]
           f == [p \in Partition |-> Len(log[p])]
<1>1. IsFiniteSet(Partition)
  BY SpeedAssumption
<1>2. f \in [Partition -> Int]
  BY Topic
<1>3. ASSUME NEW p \in Partition PROVE IsFiniteSet(P[p]) /\ Cardinality(P[p]) <= f[p]
  <2> DEFINE n == Len(log[p])
             g == [r \in P[p] |-> r.offset]
  <2>1. n \in Nat /\ DOMAIN log[p] = 1..n
    BY Topic
  <2>2. g \in Injection(P[p], 1..n)
    BY <2>1 DEF Injection, IsInjective
  <2>3. IsFiniteSet(1..n) /\ Cardinality(1..n) = n
    <3> HIDE DEF n
    <3>1. IsFiniteSet(1..n) /\ Cardinality(1..n) = IF 1 > n THEN 0 ELSE n - 1 + 1
      BY <2>1, FS_Interval
    <3> QED BY <2>1, <3>1
  <2>4. IsFiniteSet(P[p]) /\ Cardinality(P[p]) <= Cardinality(1..n)
    <3> HIDE DEF g, P, n
    <3> QED BY <2>2, <2>3, FS_Injection
  <2> QED BY <2>3, <2>4
<1>4. IsFiniteSet(UNION {P[p] : p \in Partition})
  <2> HIDE DEF P, f
  <2>1. \A p \in Partition : IsFiniteSet(P[p]) /\ Cardinality(P[p]) <= f[p]
    BY <1>3
  <2> QED BY <1>1, <1>2, <2>1, TotalOfParts
<1>5. UNION {P[p] : p \in Partition} = Logged
  BY DEF Logged
<1> QED BY <1>4, <1>5

LEMMA SubsetFinite ==
  ASSUME TypeOK, NEW S, S \subseteq Logged
  PROVE  IsFiniteSet(S) /\ Cardinality(S) \in Nat
<1>1. IsFiniteSet(S)
  BY LoggedFinite, FS_Subset
<1> QED BY <1>1, FS_CardinalityType

RowsOf(h) == {row \in Rows : row.hour = h}

LEMMA RowsOfFinite ==
  ASSUME TypeOK, NEW h
  PROVE  IsFiniteSet(RowsOf(h))
<1> DEFINE g == [row \in RowsOf(h) |-> row.records]
<1>1. g \in Injection(RowsOf(h), SUBSET Logged)
  <2>1. \A row \in RowsOf(h) : row \in Row /\ row.hour = h
    BY DEF RowsOf, TypeOK, Rows
  <2>2. \A row \in RowsOf(h) : row.records \in SUBSET Logged /\ row = [hour |-> h, records |-> row.records]
    BY <2>1 DEF Row
  <2> QED BY <2>2 DEF Injection, IsInjective
<1>2. IsFiniteSet(SUBSET Logged)
  BY LoggedFinite, FS_SUBSET
<1> HIDE DEF g
<1> QED BY <1>1, <1>2, FS_Injection

(* The rows of an hour add up to no less than the records in them. *)
LEMMA SilverHasRecords ==
  ASSUME TypeOK, NEW h
  PROVE  /\ SilverQty(h) \in Int
         /\ Cardinality(InRows(RowsOf(h))) <= SilverQty(h)
         /\ InRows(RowsOf(h)) \subseteq Logged
<1> DEFINE S == RowsOf(h)
           f == [row \in S |-> silver[row] * Cardinality(row.records)]
           P == [row \in S |-> row.records]
<1>1. IsFiniteSet(S)
  BY RowsOfFinite
<1>2. ASSUME NEW row \in S
      PROVE  /\ row.records \subseteq Logged /\ IsFiniteSet(row.records)
             /\ silver[row] * Cardinality(row.records) \in Int
             /\ Cardinality(row.records) <= silver[row] * Cardinality(row.records)
  <2>1. row \in Row /\ row \in DOMAIN silver
    BY DEF RowsOf, TypeOK, Rows, BagToSet
  <2>2. row.records \subseteq Logged
    BY <2>1 DEF Row
  <2>3. IsFiniteSet(row.records) /\ Cardinality(row.records) \in Nat
    BY <2>2, SubsetFinite
  <2>4. silver[row] \in Nat /\ silver[row] > 0
    BY <2>1 DEF TypeOK, IsABag
  <2>5. \A m, n \in Nat : m > 0 => m * n \in Int /\ n <= m * n
    OBVIOUS
  <2> QED BY <2>2, <2>3, <2>4, <2>5
<1>3. f \in [S -> Int] /\ \A row \in S : IsFiniteSet(P[row]) /\ Cardinality(P[row]) <= f[row]
  BY <1>2
<1>4. Cardinality(UNION {P[row] : row \in S}) <= Total(f) /\ Total(f) \in Int
  <2>1. f \in [S -> Int]
    BY <1>3
  <2>2. \A row \in S : IsFiniteSet(P[row]) /\ Cardinality(P[row]) <= f[row]
    BY <1>3
  <2>3. DOMAIN f = S /\ \A row \in DOMAIN f : f[row] \in Int
    BY <2>1
  <2> HIDE DEF f, P, S
  <2>4. Cardinality(UNION {P[row] : row \in S}) <= Total(f)
    <3>1. \A x \in S : IsFiniteSet(P[x]) /\ Cardinality(P[x]) <= f[x]
      BY <2>2
    <3>2. IsFiniteSet(S) /\ f \in [S -> Int]
      BY <1>1, <2>1
    <3>3. /\ IsFiniteSet(UNION {P[x] : x \in S})
          /\ Cardinality(UNION {P[x] : x \in S}) <= Total(f)
          /\ (\A x \in S : Cardinality(P[x]) = f[x]) /\ (\A x, y \in S : x # y => P[x] \cap P[y] = {})
               => Total(f) = Cardinality(UNION {P[x] : x \in S})
      BY <3>1, <3>2, TotalOfParts
    <3> QED BY <3>3
  <2>5. Total(f) \in Int
    BY <1>1, <2>3, TotalType
  <2> QED BY <2>4, <2>5
<1>5. UNION {P[row] : row \in S} = InRows(RowsOf(h)) /\ InRows(RowsOf(h)) \subseteq Logged
  BY <1>2 DEF InRows
<1>6. SilverQty(h) = Total(f)
  BY DEF SilverQty, RowsOf
<1> QED BY <1>4, <1>5, <1>6

(* Both sums count each event of the hour once, so whoever maps into the   *)
(* other is no larger.                                                     *)
LEMMA NoLarger ==
  ASSUME TypeOK, NEW S, NEW T, S \subseteq Logged, T \subseteq Logged, NEW g \in [S -> T],
         \A r, q \in S : g[r] = g[q] => r = q
  PROVE  Cardinality(S) <= Cardinality(T)
<1>1. g \in Injection(S, T)
  BY DEF Injection, IsInjective
<1>2. IsFiniteSet(T)
  BY SubsetFinite
<1> QED BY <1>1, <1>2, FS_Injection

Expected(h) == {r \in CanonicalOf(Processed) : HourOf(r) = h /\ ~LateDropped(r)}

(* Each event has one canonical copy. *)
LEMMA OneCanonical ==
  ASSUME TypeOK, NEW r \in CanonicalOf(Processed), NEW q \in CanonicalOf(Processed), At(r).id = At(q).id
  PROVE  r = q
<1> SUFFICES ASSUME r # q PROVE FALSE
  OBVIOUS
<1>1. r \in Logged /\ q \in Logged /\ r \in Processed /\ q \in Processed
  BY DEF CanonicalOf, Processed
<1>2. Precedes(r, q) /\ Precedes(q, r)
  BY <1>1 DEF CanonicalOf
<1>3. At(r).time \in Nat /\ At(q).time \in Nat /\ r.offset \in Nat /\ q.offset \in Nat
  BY <1>1, LoggedRecord
<1> QED BY <1>2, <1>3 DEF Precedes

(* The hour's losses: records of it a stop, a quiet partition or a         *)
(* conflicting copy ahead of the clock may have lost.                      *)
Lost(h) == {r \in Logged : HourOf(r) = h /\ (r \in overtaken \cup forgotten \/ Hurried(r))}

(* Nothing of the hour is missing. *)
LEMMA NothingMissing ==
  ASSUME SpeedInv, SettledHoursAreWhole, NEW h \in Hours, Settled(h), Lost(h) = {}
  PROVE  Cardinality(Expected(h)) <= SilverQty(h)
<1> DEFINE U == InRows(RowsOf(h))
           to == [r \in Expected(h) |-> CHOOSE q \in U : SameEvent(r, q)]
<1>1. TypeOK
  BY DEF SpeedInv
<1>2. Expected(h) \subseteq Logged /\ Expected(h) \subseteq Processed
  BY DEF Expected, CanonicalOf, Processed
<1>3. U \subseteq Logged /\ Cardinality(U) <= SilverQty(h) /\ SilverQty(h) \in Int
  BY <1>1, SilverHasRecords
<1>4. ASSUME NEW r \in Expected(h) PROVE \E q \in U : SameEvent(r, q)
  <2>1. r \in Logged /\ r \in Processed /\ HourOf(r) = h /\ ~LateDropped(r)
    BY <1>2 DEF Expected
  <2>2. ~Excused(r)
    BY <2>1 DEF Excused, Lost
  <2>3. \A q \in forgotten : ~SameEvent(r, q)
    BY <1>1, <2>1 DEF Lost, SameEvent, TypeOK
  <2>4. PICK row \in Rows : row.hour = h /\ \E q \in row.records : SameEvent(r, q)
    BY <2>1, <2>2, <2>3 DEF SettledHoursAreWhole
  <2> QED BY <2>4 DEF RowsOf, InRows
<1>5. \A r \in Expected(h) : to[r] \in U /\ SameEvent(r, to[r])
  BY <1>4
<1>6. ASSUME NEW r \in Expected(h), NEW q \in Expected(h), to[r] = to[q] PROVE r = q
  <2>1. At(r).id = At(q).id
    BY <1>5, <1>6 DEF SameEvent
  <2> QED BY <1>1, <2>1, OneCanonical DEF Expected
<1>7. to = [r \in Expected(h) |-> to[r]]
  OBVIOUS
<1>8. Cardinality(Expected(h)) <= Cardinality(U)
  <2> HIDE DEF U, to
  <2>1. to \in [Expected(h) -> U]
    BY <1>5, <1>7
  <2>2. \A r, q \in Expected(h) : to[r] = to[q] => r = q
    BY <1>6
  <2> QED BY <1>1, <1>2, <1>3, <2>1, <2>2, NoLarger
<1>9. Cardinality(Expected(h)) \in Nat /\ Cardinality(U) \in Nat
  BY <1>1, <1>2, <1>3, SubsetFinite
<1> QED BY <1>3, <1>8, <1>9

(* The records processed for an event, and the first of them.              *)
Copies(q) == {r \in Processed : At(r).id = At(q).id}
FirstCopy(q) == CHOOSE r \in Copies(q) : \A x \in Copies(q) : r.offset <= x.offset

LEMMA FirstCopyIs ==
  ASSUME TypeOK, NEW q \in Processed
  PROVE  FirstCopy(q) \in Copies(q) /\ \A x \in Copies(q) : x # FirstCopy(q) => FirstCopy(q).offset < x.offset
<1> DEFINE T == {r.offset : r \in Copies(q)}
<1>1. Copies(q) \subseteq Logged
  BY DEF Copies, Processed
<1>2. \A r \in Copies(q) : r.offset \in Nat
  BY <1>1, LoggedRecord
<1>3. T \in SUBSET Nat /\ T # {}
  BY <1>2 DEF Copies
<1>4. PICK n \in T : \A m \in T : n <= m
  <2> HIDE DEF T
  <2> QED BY <1>3, LeastNat
<1>5. PICK r \in Copies(q) : r.offset = n
  OBVIOUS
<1>6. \A x \in Copies(q) : r.offset <= x.offset
  BY <1>4, <1>5
<1>7. FirstCopy(q) \in Copies(q) /\ \A x \in Copies(q) : FirstCopy(q).offset <= x.offset
  BY <1>6 DEF FirstCopy
<1>8. ASSUME NEW x \in Copies(q), NEW y \in Copies(q), x.offset = y.offset PROVE x = y
  <2>1. x \in Logged /\ y \in Logged /\ At(x).id = At(y).id
    BY <1>1 DEF Copies
  <2>2. /\ x.partition \in Partition /\ x.offset \in DOMAIN log[x.partition] /\ At(x) = log[x.partition][x.offset]
        /\ y.partition \in Partition /\ y.offset \in DOMAIN log[y.partition] /\ At(y) = log[y.partition][y.offset]
        /\ x = [partition |-> x.partition, offset |-> x.offset]
        /\ y = [partition |-> y.partition, offset |-> y.offset]
    BY <2>1, LoggedRecord
  <2>3. x.partition = y.partition
    BY <2>1, <2>2, Topic DEF IsTopic
  <2> QED BY <1>8, <2>2, <2>3
<1> QED BY <1>2, <1>7, <1>8

(* Records of the hour whose loss is predicted, or whose event another     *)
(* copy claims another time for.                                           *)
Doubtful(h) ==
  {r \in Processed : HourOf(r) = h /\
     (LateDropped(r) \/ \E q \in Processed : At(q).id = At(r).id /\ At(q).time # At(r).time)}

(* Without those, and without a stale start, nothing is there twice: the   *)
(* hour has one row, and each record in it stands for the first copy of    *)
(* its event.                                                              *)
LEMMA NothingTwice ==
  ASSUME SpeedInv, ReadInv, NEW h \in Hours, Settled(h), Doubtful(h) = {}, ~stale
  PROVE  SilverQty(h) <= Cardinality(Expected(h)) /\ Cardinality(Expected(h)) \in Nat
<1>1. TypeOK /\ TableInv /\ WindowInv /\ OneLine /\ latest # "none"
  BY DEF SpeedInv, ReadInv, Settled
<1>2. Expected(h) \subseteq Logged
  BY DEF Expected, CanonicalOf, Processed
<1>3. IsFiniteSet(Expected(h)) /\ Cardinality(Expected(h)) \in Nat
  BY <1>1, <1>2, SubsetFinite
<1> DEFINE f == [row \in RowsOf(h) |-> silver[row] * Cardinality(row.records)]
<1>4. SilverQty(h) = Total(f) /\ DOMAIN f = RowsOf(h)
  BY DEF SilverQty, RowsOf
<1>5. CASE RowsOf(h) = {}
  <2>1. Total(f) = 0
    <3>1. DOMAIN f = {}
      BY <1>5
    <3> HIDE DEF f
    <3> QED BY <3>1, TotalEmpty
  <2> QED BY <1>3, <1>4, <2>1
<1>6. CASE RowsOf(h) # {}
  <2>1. PICK row \in Rows : row.hour = h
    BY <1>6 DEF RowsOf
  <2>2. RowsOf(h) = {row} /\ silver[row] = 1 /\ Single(row.records)
    BY <1>1, <2>1 DEF TableInv, RowsOf
  <2> DEFINE N == row.records
  <2>3. N \subseteq Logged /\ N \subseteq Processed /\ \A q \in N : HourOf(q) = h
    <3>1. row.records \subseteq Logged
      BY <1>1, <2>1 DEF TypeOK, Row, Rows
    <3>2. \A q \in row.records : q.offset < Newest.next[q.partition]
      BY <1>1, <2>1 DEF OneLine, Before, InRows
    <3>3. \A q \in row.records : HourOf(q) = h
      BY <1>1, <2>1 DEF WindowInv, OfHour
    <3> QED BY <1>1, <3>1, <3>2, <3>3 DEF Processed
  <2>4. SilverQty(h) = Cardinality(N)
    <3>1. Cardinality(N) \in Nat
      BY <1>1, <2>3, SubsetFinite
    <3>2. f \in [{row} -> Int] /\ f[row] = Cardinality(N)
      BY <2>2, <3>1
    <3>3. Total(f) = f[row] + Total([y \in {row} \ {row} |-> f[y]])
      <4>1. IsFiniteSet({row}) /\ row \in {row}
        BY FS_Singleton
      <4> HIDE DEF f
      <4> QED BY <3>2, <4>1, TotalRemove
    <3>4. Total([y \in {row} \ {row} |-> f[y]]) = 0
      <4> HIDE DEF f
      <4>1. DOMAIN [y \in {row} \ {row} |-> f[y]] = {}
        OBVIOUS
      <4> QED BY <4>1, TotalEmpty
    <3> HIDE DEF f, N
    <3> QED BY <1>4, <3>1, <3>2, <3>3, <3>4
  <2>5. ASSUME NEW q \in N PROVE FirstCopy(q) \in Expected(h)
    <3> DEFINE r == FirstCopy(q)
    <3>1. q \in Processed /\ HourOf(q) = h
      BY <2>3
    <3>2. r \in Processed /\ At(r).id = At(q).id /\ \A x \in Copies(q) : x # r => r.offset < x.offset
      BY <1>1, <3>1, FirstCopyIs DEF Copies
    <3>3. \A x \in Copies(q) : At(x).time = At(q).time
      BY <3>1 DEF Doubtful, Copies
    <3>4. At(r).time = At(q).time
      BY <3>2, <3>3 DEF Copies
    <3>5. HourOf(r) = h
      BY <3>1, <3>4 DEF HourOf
    <3>6. ~LateDropped(r)
      BY <3>2, <3>5 DEF Doubtful
    <3>7. \A x \in Processed \ {r} : At(x).id = At(r).id => Precedes(r, x)
      BY <3>2, <3>3, <3>4 DEF Copies, Precedes
    <3> HIDE DEF r
    <3>8. r \in CanonicalOf(Processed)
      BY <3>2, <3>7 DEF CanonicalOf
    <3>9. r \in Expected(h)
      BY <3>5, <3>6, <3>8 DEF Expected
    <3> QED BY <3>9 DEF r
  <2>6. ASSUME NEW q \in N, NEW x \in N, FirstCopy(q) = FirstCopy(x) PROVE q = x
    <3>1. At(FirstCopy(q)).id = At(q).id /\ At(FirstCopy(x)).id = At(x).id
      BY <1>1, <2>3, FirstCopyIs DEF Copies
    <3>2. SameEvent(q, x)
      BY <2>3, <2>6, <3>1 DEF SameEvent
    <3> QED BY <2>2, <3>2 DEF Single
  <2>7. Cardinality(N) <= Cardinality(Expected(h))
    <3> DEFINE to == [q \in N |-> FirstCopy(q)]
    <3>1. to \in [N -> Expected(h)]
      BY <2>5
    <3>2. \A q, x \in N : to[q] = to[x] => q = x
      BY <2>6
    <3> HIDE DEF to, N
    <3> QED BY <1>1, <1>2, <2>3, <3>1, <3>2, NoLarger
  <2> QED BY <1>3, <2>4, <2>7
<1> QED BY <1>5, <1>6

(* What a negative, and what any, unexplained_qty of a settled hour says:  *)
(* the sums of both sides count the same events once each, but for losses  *)
(* of those causes.                                                        *)
THEOREM UnexplainedIsTrouble == Spec => []UnexplainedNamesTrouble
<1>1. SpeedInv /\ ReadInv /\ SettledHoursAreWhole => UnexplainedNamesTrouble
  <2> SUFFICES ASSUME SpeedInv, ReadInv, SettledHoursAreWhole, NEW h \in Hours, Settled(h), Lost(h) = {}
               PROVE  /\ UnexplainedQty(h, Processed) >= 0
                      /\ Doubtful(h) = {} /\ ~stale => UnexplainedQty(h, Processed) = 0
    BY DEF UnexplainedNamesTrouble, Lost, Doubtful
  <2>1. TypeOK
    BY DEF SpeedInv
  <2>2. UnexplainedQty(h, Processed) = SilverQty(h) - Cardinality(Expected(h))
    BY DEF UnexplainedQty, ExpectedQty, Expected
  <2>3. SilverQty(h) \in Int
    BY <2>1, SilverHasRecords
  <2>4. Expected(h) \subseteq Logged
    BY DEF Expected, CanonicalOf, Processed
  <2>5. Cardinality(Expected(h)) \in Nat
    BY <2>1, <2>4, SubsetFinite
  <2>6. Cardinality(Expected(h)) <= SilverQty(h)
    BY NothingMissing
  <2>7. Doubtful(h) = {} /\ ~stale => SilverQty(h) <= Cardinality(Expected(h))
    BY NothingTwice
  <2> HIDE DEF Doubtful
  <2> QED BY <2>2, <2>3, <2>5, <2>6, <2>7
<1> QED BY <1>1, SpeedInvariant, ReadInvariant, SettledHoursWhole, PTL
===============================================================================
