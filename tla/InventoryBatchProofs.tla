-------------------------- MODULE InventoryBatchProofs --------------------------
(***************************************************************************)
(* The batch side of the inventory lambda, for any partitions, events,     *)
(* products, hours, delays and versions.                                   *)
(*                                                                         *)
(* InventoryCoverage: every pinned Bronze snapshot reconciles, a lost      *)
(* record keeps its hour provisional, and corrections move events back in  *)
(* time only.                                                              *)
(*                                                                         *)
(* InventoryMarts: the fact made from those hours has no hour twice, and   *)
(* exactly the balances of the hours the run read; the positions and the   *)
(* daily rollup of a publish agree with that fact, and the serving view    *)
(* counts every hour once, whatever Flink has served meanwhile.            *)
(***************************************************************************)
EXTENDS InventoryCoverage, InventoryMarts, SumsProofs

-------------------------------------------------------------------------------
(* InventoryCoverage                                                       *)

(* The rows of B for one record of Kafka. *)
RowsAt(B, p, o) == {r \in B : r.partition = p /\ r.offset = o}
Copies(p, o, n) == {[partition |-> p, offset |-> o, copy |-> c] : c \in 1..n}
FirstCopy(r) == [partition |-> r.partition, offset |-> r.offset, copy |-> 1]

(* The records of a partition are in the order Kafka took them, none later *)
(* than the clock or with an older scan than the lateness allows, and all  *)
(* records of an event are in one partition.                               *)
LogInv ==
  /\ \A p \in Partition : \A o \in DOMAIN log[p] :
       /\ log[p][o].at <= now /\ log[p][o].at - MaxLateness <= log[p][o].time
       /\ \A b \in DOMAIN log[p] : o <= b => log[p][o].at <= log[p][b].at
  /\ \A p, q \in Partition : p # q =>
       \A o \in DOMAIN log[p], b \in DOMAIN log[q] : log[p][o].id # log[q][b].id
  /\ IsFiniteSet(Logged) /\ Cardinality(Logged) <= MaxRecords

(* Bronze has the copies 1 to n of a record, at most one more than were    *)
(* read again, and that one only of what it has read.                      *)
BronzeInv ==
  /\ IsFiniteSet(bronze) /\ lost + replays <= MaxFaults
  /\ \A p \in Partition : next[p] <= Len(log[p]) + 1
  /\ \A r \in bronze : r.offset \in DOMAIN log[r.partition]
  /\ \A p \in Partition, o \in Nat : \E n \in Nat :
       /\ RowsAt(bronze, p, o) = Copies(p, o, n)
       /\ n <= replays + 1 /\ (o >= next[p] => n <= replays)

(* A snapshot has the first copy of whatever it has.                       *)
PinInv == pinned \subseteq bronze /\ \A r \in pinned : FirstCopy(r) \in pinned

CoverageInv == TypeOK /\ LogInv /\ BronzeInv /\ PinInv

-------------------------------------------------------------------------------
(* A set numbered from 1 to n without repetition has n elements. *)
LEMMA CountNumbered ==
  ASSUME NEW n \in Nat, NEW S, NEW f \in [1..n -> S],
         \A a, b \in 1..n : f[a] = f[b] => a = b,
         \A s \in S : \E a \in 1..n : f[a] = s
  PROVE  Cardinality(S) = n
<1>1. f \in Injection(1..n, S)
  <2>1. DOMAIN f = 1..n
    OBVIOUS
  <2> QED BY <2>1, Zenon DEF Injection, IsInjective
<1>2. f \in Surjection(1..n, S)
  BY Zenon DEF Surjection
<1>3. ExistsBijection(1..n, S)
  BY <1>1, <1>2 DEF Bijection, ExistsBijection
<1> QED BY <1>3, FS_CountingElements

(* There are n copies 1 to n. *)
LEMMA CountCopies ==
  ASSUME NEW p, NEW o, NEW n \in Nat
  PROVE  Cardinality(Copies(p, o, n)) = n
<1> DEFINE f == [c \in 1..n |-> [partition |-> p, offset |-> o, copy |-> c]]
<1>1. f \in [1..n -> Copies(p, o, n)]
  BY DEF Copies
<1>2. \A a, b \in 1..n : f[a] = f[b] => a = b
  <2>1. \A a \in 1..n : f[a].copy = a
    OBVIOUS
  <2> QED BY <2>1
<1>3. \A r \in Copies(p, o, n) : \E c \in 1..n : f[c] = r
  BY DEF Copies
<1> HIDE DEF f
<1> QED BY <1>1, <1>2, <1>3, CountNumbered

(* No partition has more records than there are. *)
LEMMA LengthBound ==
  ASSUME log \in [Partition -> Seq(Record)], IsFiniteSet(Logged), NEW p \in Partition
  PROVE  Len(log[p]) <= Cardinality(Logged)
<1> DEFINE n == Len(log[p])
           S == {<<p, o>> : o \in 1..n}
           f == [o \in 1..n |-> <<p, o>>]
<1>1. n \in Nat /\ DOMAIN log[p] = 1..n
  OBVIOUS
<1>2. S \in SUBSET Logged
  BY <1>1 DEF Logged
<1>3. f \in [1..n -> S]
  OBVIOUS
<1>4. \A a, b \in 1..n : f[a] = f[b] => a = b
  OBVIOUS
<1>5. \A r \in S : \E c \in 1..n : f[c] = r
  OBVIOUS
<1> HIDE DEF S, n, f
<1>6. Cardinality(S) = n
  BY <1>1, <1>3, <1>4, <1>5, CountNumbered
<1>7. Cardinality(S) <= Cardinality(Logged)
  BY <1>2, FS_Subset
<1> QED BY <1>6, <1>7 DEF n

LEMMA HourMonotone ==
  ASSUME NEW a \in Int, NEW b \in Int, a <= b
  PROVE  HourOf(a) \in Int /\ HourOf(b) \in Int /\ HourOf(a) <= HourOf(b)
BY CoverageAssumption DEF HourOf

-------------------------------------------------------------------------------
(* What the actions keep. *)
LEMMA CoverageInit == Init => CoverageInv
<1> SUFFICES ASSUME Init PROVE CoverageInv
  OBVIOUS
<1>1. TypeOK
  BY CoverageAssumption DEF Init, TypeOK
<1>2. LogInv
  <2>1. Logged = {}
    BY DEF Init, Logged
  <2>2. IsFiniteSet(Logged) /\ Cardinality(Logged) = 0
    BY <2>1, FS_EmptySet
  <2> QED BY <2>2, CoverageAssumption DEF Init, LogInv
<1>3. BronzeInv
  <2>1. IsFiniteSet(bronze)
    BY FS_EmptySet DEF Init
  <2>2. \A p \in Partition, o \in Nat : RowsAt(bronze, p, o) = Copies(p, o, 0)
    BY DEF Init, RowsAt, Copies
  <2>3. \A p \in Partition, o \in Nat : \E n \in Nat :
          /\ RowsAt(bronze, p, o) = Copies(p, o, n)
          /\ n <= replays + 1 /\ (o >= next[p] => n <= replays)
    <3>1. 0 <= replays + 1 /\ 0 <= replays
      BY DEF Init
    <3> QED BY <2>2, <3>1
  <2> QED BY <2>1, <2>3, CoverageAssumption DEF Init, BronzeInv
<1>4. PinInv
  BY DEF Init, PinInv
<1> QED BY <1>1, <1>2, <1>3, <1>4 DEF CoverageInv

LEMMA ProduceKeeps ==
  ASSUME CoverageInv, NEW p \in Partition, NEW e \in Event, NEW t \in 0..MaxTime, Produce(p, e, t)
  PROVE  CoverageInv'
<1> DEFINE rec == [id |-> e, time |-> t, at |-> now]
           n == Len(log[p])
<1>0. TypeOK /\ LogInv /\ BronzeInv /\ PinInv
  BY DEF CoverageInv
<1>1. /\ rec \in Record /\ n \in Nat /\ now \in Int /\ t \in Int /\ MaxLateness \in Nat
      /\ rec.at = now /\ rec.time = t /\ rec.id = e
  BY <1>0, CoverageAssumption DEF TypeOK, Record
<1>2. /\ log' \in [Partition -> Seq(Record)]
      /\ log'[p] = Append(log[p], rec) /\ \A q \in Partition \ {p} : log'[q] = log[q]
  BY <1>0, <1>1 DEF Produce, TypeOK
<1>3. /\ Len(log'[p]) = n + 1 /\ DOMAIN log'[p] = 1..(n + 1) /\ DOMAIN log[p] = 1..n
      /\ log'[p][n + 1] = rec /\ \A o \in 1..n : log'[p][o] = log[p][o]
  BY <1>0, <1>1, <1>2 DEF TypeOK
<1>4. UNCHANGED <<now, next, bronze, lost, replays, pinned>>
  BY DEF Produce
<1>5. TypeOK'
  BY <1>0, <1>2, <1>4 DEF TypeOK
<1>6. LogInv'
  <2>1. now - MaxLateness <= t
    BY <1>1 DEF Produce
  <2>2. \A o \in 1..n : log[p][o].at <= now /\ log[p][o].at \in Int
    <3>1. \A o \in 1..n : log[p][o] \in Record
      BY <1>0, <1>3 DEF TypeOK
    <3>2. \A rr \in Record : rr.at \in Int
      BY DEF Record
    <3> QED BY <1>0, <1>3, <3>1, <3>2 DEF LogInv
  <2>3. \A o \in DOMAIN log'[p] :
          /\ log'[p][o].at <= now /\ log'[p][o].at - MaxLateness <= log'[p][o].time
          /\ \A b \in DOMAIN log'[p] : o <= b => log'[p][o].at <= log'[p][b].at
    <3> SUFFICES ASSUME NEW o \in 1..(n + 1)
                 PROVE  /\ log'[p][o].at <= now /\ log'[p][o].at - MaxLateness <= log'[p][o].time
                        /\ \A b \in 1..(n + 1) : o <= b => log'[p][o].at <= log'[p][b].at
      BY <1>3
    <3>1. CASE o = n + 1
      BY <1>1, <1>3, <2>1, <3>1
    <3>2. CASE o \in 1..n
      <4>1. log[p][o].at <= now /\ log[p][o].at - MaxLateness <= log[p][o].time
        BY <1>0, <1>3, <3>2 DEF LogInv
      <4>2. ASSUME NEW b \in 1..(n + 1), o <= b PROVE log'[p][o].at <= log'[p][b].at
        <5>1. CASE b = n + 1
          BY <1>1, <1>3, <2>2, <3>2, <5>1
        <5>2. CASE b \in 1..n
          BY <1>0, <1>3, <3>2, <4>2, <5>2 DEF LogInv
        <5> QED BY <1>1, <5>1, <5>2
      <4> QED BY <1>3, <3>2, <4>1, <4>2
    <3> QED BY <1>1, <3>1, <3>2
  <2>4. \A q \in Partition \ {p} : \A o \in DOMAIN log[q] :
          /\ log[q][o].id # e /\ \A b \in 1..n : log[q][o].id # log[p][b].id
    BY <1>0, <1>3 DEF LogInv, Produce
  <2>5. \A q, s \in Partition : q # s =>
          \A o \in DOMAIN log'[q], b \in DOMAIN log'[s] : log'[q][o].id # log'[s][b].id
    <3>1. \A q \in Partition \ {p} : \A o \in DOMAIN log[q], b \in DOMAIN log'[p] :
            log[q][o].id # log'[p][b].id
      <4> SUFFICES ASSUME NEW q \in Partition \ {p}, NEW o \in DOMAIN log[q], NEW b \in 1..(n + 1)
                   PROVE  log[q][o].id # log'[p][b].id
        BY <1>3
      <4>1. CASE b = n + 1
        BY <1>1, <1>3, <2>4, <4>1
      <4>2. CASE b \in 1..n
        BY <1>3, <2>4, <4>2
      <4> QED BY <1>1, <4>1, <4>2
    <3>2. \A q, s \in Partition \ {p} : q # s =>
            \A o \in DOMAIN log[q], b \in DOMAIN log[s] : log[q][o].id # log[s][b].id
      BY <1>0 DEF LogInv
    <3> HIDE DEF rec, n
    <3> SUFFICES ASSUME NEW q \in Partition, NEW s \in Partition, q # s,
                        NEW o \in DOMAIN log'[q], NEW b \in DOMAIN log'[s]
                 PROVE  log'[q][o].id # log'[s][b].id
      OBVIOUS
    <3>3. CASE q = p
      <4>1. s \in Partition \ {p} /\ log'[s] = log[s]
        BY <1>2, <3>3
      <4> QED BY <3>1, <3>3, <4>1
    <3>4. CASE s = p
      <4>1. q \in Partition \ {p} /\ log'[q] = log[q]
        BY <1>2, <3>4
      <4> QED BY <3>1, <3>4, <4>1
    <3>5. CASE q # p /\ s # p
      <4>1. log'[q] = log[q] /\ log'[s] = log[s]
        BY <1>2, <3>5
      <4> QED BY <3>2, <3>5, <4>1
    <3> QED BY <3>3, <3>4, <3>5
  <2>6. IsFiniteSet(Logged') /\ Cardinality(Logged') <= MaxRecords
    <3>1. Logged' = Logged \cup {<<p, n + 1>>}
      <4>1. \A q \in Partition \ {p} : {<<q, o>> : o \in DOMAIN log'[q]} = {<<q, o>> : o \in DOMAIN log[q]}
        BY <1>2
      <4>2. {<<p, o>> : o \in DOMAIN log'[p]} = {<<p, o>> : o \in DOMAIN log[p]} \cup {<<p, n + 1>>}
        BY <1>1, <1>3
      <4> HIDE DEF n, rec
      <4>3. ASSUME NEW x PROVE x \in Logged' <=> x \in Logged \cup {<<p, n + 1>>}
        <5>1. x \in Logged' <=> \E q \in Partition : x \in {<<q, o>> : o \in DOMAIN log'[q]}
          BY DEF Logged
        <5>2. x \in Logged <=> \E q \in Partition : x \in {<<q, o>> : o \in DOMAIN log[q]}
          BY DEF Logged
        <5> QED BY <4>1, <4>2, <5>1, <5>2
      <4> QED BY <4>3
    <3>2. IsFiniteSet(Logged) /\ Cardinality(Logged) < MaxRecords
      BY <1>0 DEF LogInv, Produce
    <3>3. Cardinality(Logged) \in Nat
      BY <3>2, FS_CardinalityType
    <3> DEFINE L == Logged \cup {<<p, n + 1>>}
    <3>4. /\ IsFiniteSet(L)
          /\ Cardinality(L) = IF <<p, n + 1>> \in Logged THEN Cardinality(Logged) ELSE Cardinality(Logged) + 1
      BY <3>2, FS_AddElement
    <3>5. Cardinality(L) <= Cardinality(Logged) + 1
      BY <3>3, <3>4
    <3> HIDE DEF L
    <3>6. Logged' = L
      BY <3>1 DEF L
    <3>7. Cardinality(L) <= MaxRecords /\ IsFiniteSet(L)
      <4>1. MaxRecords \in Nat
        BY CoverageAssumption
      <4> QED BY <3>2, <3>3, <3>4, <3>5, <4>1
    <3> QED BY <3>6, <3>7
  <2>7. \A q \in Partition : \A o \in DOMAIN log'[q] :
          /\ log'[q][o].at <= now /\ log'[q][o].at - MaxLateness <= log'[q][o].time
          /\ \A b \in DOMAIN log'[q] : o <= b => log'[q][o].at <= log'[q][b].at
    <3> HIDE DEF rec, n
    <3> QED BY <1>0, <1>2, <2>3 DEF LogInv
  <2> QED BY <1>4, <2>5, <2>6, <2>7 DEF LogInv
<1>7. BronzeInv'
  <2>1. \A q \in Partition : DOMAIN log[q] \subseteq DOMAIN log'[q] /\ Len(log[q]) <= Len(log'[q])
      <3> SUFFICES ASSUME NEW q \in Partition
                   PROVE  DOMAIN log[q] \subseteq DOMAIN log'[q] /\ Len(log[q]) <= Len(log'[q])
        OBVIOUS
      <3>1. CASE q = p
        BY <1>1, <1>3, <3>1
      <3>2. CASE q # p
        <4>1. log'[q] = log[q] /\ Len(log[q]) \in Nat
          BY <1>0, <1>2, <3>2 DEF TypeOK
        <4> QED BY <4>1
      <3> QED BY <3>1, <3>2
  <2>2. ASSUME NEW q \in Partition PROVE next[q] <= Len(log'[q]) + 1
    <3>1. log[q] \in Seq(Record) /\ log'[q] \in Seq(Record) /\ next[q] \in Int
      BY <1>0, <1>2 DEF TypeOK
    <3>2. Len(log[q]) \in Int /\ Len(log'[q]) \in Int
      BY <3>1
    <3>3. next[q] <= Len(log[q]) + 1
      BY <1>0 DEF BronzeInv
    <3> QED BY <2>1, <3>1, <3>2, <3>3
  <2>3. \A r \in bronze : r.offset \in DOMAIN log'[r.partition]
    BY <1>0, <2>1 DEF BronzeInv, TypeOK, Row
  <2> HIDE DEF rec, n
  <2> QED BY <1>0, <1>4, <2>2, <2>3 DEF BronzeInv, RowsAt, Copies
<1>8. PinInv'
  BY <1>0, <1>4 DEF PinInv, FirstCopy
<1> QED BY <1>5, <1>6, <1>7, <1>8 DEF CoverageInv

LEMMA TickKeeps ==
  ASSUME CoverageInv, Tick
  PROVE  CoverageInv'
<1>1. /\ TypeOK /\ LogInv /\ BronzeInv /\ PinInv
      /\ now < MaxTime /\ now' = now + 1
      /\ UNCHANGED <<log, next, bronze, lost, replays, pinned>>
  BY DEF CoverageInv, Tick
<1>2. now \in Int /\ now' \in 0..MaxTime
  BY <1>1, CoverageAssumption DEF TypeOK
<1>3. TypeOK'
  BY <1>1, <1>2 DEF TypeOK, Record, Row
<1>4. \A p \in Partition : \A o \in DOMAIN log[p] : log[p][o].at <= now + 1
  <2> SUFFICES ASSUME NEW p \in Partition, NEW o \in DOMAIN log[p]
               PROVE  log[p][o].at <= now + 1
    OBVIOUS
  <2>1. log[p][o] \in Record /\ log[p][o].at <= now
    BY <1>1 DEF TypeOK, LogInv
  <2>2. log[p][o].at \in Int
    BY <2>1 DEF Record
  <2> QED BY <1>2, <2>1, <2>2
<1>5. LogInv'
  <2>1. Logged' = Logged
    BY <1>1 DEF Logged
  <2> QED BY <1>1, <1>4, <2>1 DEF LogInv
<1>6. BronzeInv' /\ PinInv'
  BY <1>1 DEF BronzeInv, RowsAt, Copies, PinInv, FirstCopy
<1> QED BY <1>3, <1>5, <1>6 DEF CoverageInv

(* The offsets Bronze reads are offsets of the partition. *)
LEMMA NextBounds ==
  ASSUME CoverageInv, NEW p \in Partition
  PROVE  /\ Len(log[p]) \in Nat /\ DOMAIN log[p] = 1..Len(log[p]) /\ Len(log[p]) <= MaxRecords
         /\ next[p] \in Nat /\ 1 <= next[p] /\ next[p] <= Len(log[p]) + 1
         /\ lost \in Nat /\ replays \in Nat /\ lost + replays <= MaxFaults
         /\ MaxRecords \in Nat /\ MaxFaults \in Nat
<1>1. TypeOK /\ LogInv /\ BronzeInv
  BY DEF CoverageInv
<1>2. /\ log \in [Partition -> Seq(Record)] /\ next[p] \in 1..(MaxRecords + 1)
      /\ lost \in 0..MaxFaults /\ replays \in 0..MaxFaults
  BY <1>1 DEF TypeOK
<1>3. IsFiniteSet(Logged) /\ Cardinality(Logged) <= MaxRecords
  BY <1>1 DEF LogInv
<1>4. Cardinality(Logged) \in Nat
  BY <1>3, FS_CardinalityType
<1>5. Len(log[p]) <= Cardinality(Logged)
  BY <1>2, <1>3, LengthBound
<1>6. Len(log[p]) \in Nat /\ DOMAIN log[p] = 1..Len(log[p])
  BY <1>2
<1>7. next[p] <= Len(log[p]) + 1 /\ lost + replays <= MaxFaults
  BY <1>1 DEF BronzeInv
<1>8. MaxRecords \in Nat /\ MaxFaults \in Nat
  BY CoverageAssumption
<1> QED BY <1>2, <1>3, <1>4, <1>5, <1>6, <1>7, <1>8

LEMMA CaptureKeeps ==
  ASSUME CoverageInv, NEW p \in Partition, Capture(p)
  PROVE  CoverageInv'
<1> DEFINE o == next[p]
           row(c) == [partition |-> p, offset |-> o, copy |-> c]
<1>0. TypeOK /\ LogInv /\ BronzeInv /\ PinInv
  BY DEF CoverageInv
<1>1. PICK n \in Nat : RowsAt(bronze, p, o) = Copies(p, o, n) /\ n <= replays
  <2>1. o \in Nat /\ o >= next[p]
    BY NextBounds
  <2>2. \E n \in Nat : /\ RowsAt(bronze, p, o) = Copies(p, o, n)
                       /\ n <= replays + 1 /\ (o >= next[p] => n <= replays)
    BY <1>0, <2>1 DEF BronzeInv
  <2> QED BY <2>1, <2>2
<1>2. Cardinality({r \in bronze : r.partition = p /\ r.offset = next[p]}) = n
  BY <1>1, CountCopies DEF RowsAt
<1>3. /\ o \in DOMAIN log[p]
      /\ bronze' = bronze \cup {row(n + 1)}
      /\ next' = [next EXCEPT ![p] = o + 1]
      /\ UNCHANGED <<now, log, lost, replays, pinned>>
  BY <1>1, <1>2 DEF Capture
<1>4. o \in Nat /\ 1 <= o /\ o <= Len(log[p]) /\ o <= MaxRecords /\ n + 1 <= MaxFaults + 1
  BY <1>1, <1>3, NextBounds
<1>5. /\ next \in [Partition -> 1..(MaxRecords + 1)] /\ next' \in [Partition -> 1..(MaxRecords + 1)]
      /\ next'[p] = o + 1 /\ \A q \in Partition \ {p} : next'[q] = next[q]
  <2>1. o + 1 \in 1..(MaxRecords + 1)
    BY <1>4, CoverageAssumption
  <2>2. next \in [Partition -> 1..(MaxRecords + 1)]
    BY <1>0 DEF TypeOK
  <2> HIDE DEF o
  <2> QED BY <1>3, <2>1, <2>2
<1>6. row(n + 1) \in Row
  BY <1>4, CoverageAssumption DEF Row
<1>7. TypeOK'
  BY <1>0, <1>3, <1>5, <1>6 DEF TypeOK
<1>8. LogInv' /\ PinInv'
  <2>1. Logged' = Logged
    BY <1>3 DEF Logged
  <2> QED BY <1>0, <1>3, <2>1 DEF LogInv, PinInv, FirstCopy
<1>9. BronzeInv'
  <2>1. IsFiniteSet(bronze')
    BY <1>0, <1>3, FS_AddElement DEF BronzeInv
  <2>2. \A q \in Partition : next'[q] <= Len(log'[q]) + 1
    <3> SUFFICES ASSUME NEW q \in Partition PROVE next'[q] <= Len(log[q]) + 1
      BY <1>3
    <3>1. CASE q = p
      BY <1>4, <1>5, <3>1, NextBounds
    <3>2. CASE q # p
      BY <1>0, <1>5, <3>2 DEF BronzeInv
    <3> QED BY <3>1, <3>2
  <2>3. \A r \in bronze' : r.offset \in DOMAIN log'[r.partition]
    BY <1>0, <1>3 DEF BronzeInv
  <2>4. ASSUME NEW q \in Partition, NEW b \in Nat
        PROVE  \E m \in Nat : /\ RowsAt(bronze', q, b) = Copies(q, b, m)
                              /\ m <= replays + 1 /\ (b >= next'[q] => m <= replays)
    <3> HIDE DEF o
    <3>1. CASE q = p /\ b = o
      <4>1. RowsAt(bronze', p, o) = RowsAt(bronze, p, o) \cup {row(n + 1)}
        BY <1>3 DEF RowsAt
      <4>2. Copies(p, o, n + 1) = Copies(p, o, n) \cup {row(n + 1)}
        <5>1. 1..(n + 1) = 1..n \cup {n + 1}
          BY <1>1
        <5> HIDE DEF o
        <5> QED BY <5>1 DEF Copies
      <4>3. n + 1 <= replays + 1 /\ ~(o >= next'[p])
        BY <1>1, <1>4, <1>5, NextBounds
      <4>4. RowsAt(bronze', p, o) = Copies(p, o, n + 1) /\ n + 1 \in Nat
        BY <1>1, <4>1, <4>2
      <4> QED BY <3>1, <4>3, <4>4
    <3>2. CASE ~(q = p /\ b = o)
      <4>1. RowsAt(bronze', q, b) = RowsAt(bronze, q, b)
        BY <1>3, <3>2 DEF RowsAt
      <4>2. b >= next'[q] => b >= next[q]
        <5>1. CASE q = p
          BY <1>4, <1>5, <5>1 DEF o
        <5>2. CASE q # p
          BY <1>5, <5>2
        <5> QED BY <5>1, <5>2
      <4>3. \E m \in Nat : /\ RowsAt(bronze, q, b) = Copies(q, b, m)
                           /\ m <= replays + 1 /\ (b >= next[q] => m <= replays)
        BY <1>0 DEF BronzeInv
      <4> QED BY <4>1, <4>2, <4>3
    <3> QED BY <3>1, <3>2
  <2> QED
    <3>1. lost' + replays' <= MaxFaults /\ replays' = replays
      BY <1>0, <1>3 DEF BronzeInv
    <3> QED BY <2>1, <2>2, <2>3, <2>4, <3>1 DEF BronzeInv
<1> QED BY <1>7, <1>8, <1>9 DEF CoverageInv

LEMMA LoseKeeps ==
  ASSUME CoverageInv, NEW p \in Partition, Lose(p)
  PROVE  CoverageInv'
<1>0. TypeOK /\ LogInv /\ BronzeInv /\ PinInv
  BY DEF CoverageInv
<1>1. /\ next[p] \in DOMAIN log[p] /\ lost + replays < MaxFaults
      /\ next' = [next EXCEPT ![p] = @ + 1] /\ lost' = lost + 1
      /\ UNCHANGED <<now, log, bronze, replays, pinned>>
  BY DEF Lose
<1>2. next[p] \in Nat /\ 1 <= next[p] /\ next[p] <= Len(log[p]) /\ next[p] <= MaxRecords
  BY <1>1, NextBounds
<1>3. /\ next' \in [Partition -> 1..(MaxRecords + 1)]
      /\ next'[p] = next[p] + 1 /\ \A q \in Partition \ {p} : next'[q] = next[q]
  <2>1. next[p] + 1 \in 1..(MaxRecords + 1)
    BY <1>2, CoverageAssumption
  <2>2. next \in [Partition -> 1..(MaxRecords + 1)]
    BY <1>0 DEF TypeOK
  <2> QED BY <1>1, <2>1, <2>2
<1>4. lost' \in 0..MaxFaults /\ lost' + replays' <= MaxFaults
  BY <1>1, NextBounds
<1>5. TypeOK'
  BY <1>0, <1>1, <1>3, <1>4 DEF TypeOK
<1>6. LogInv' /\ PinInv'
  <2>1. Logged' = Logged
    BY <1>1 DEF Logged
  <2> QED BY <1>0, <1>1, <2>1 DEF LogInv, PinInv, FirstCopy
<1>7. BronzeInv'
  <2>1. \A q \in Partition : next'[q] >= next[q] /\ next'[q] <= Len(log[q]) + 1
    <3> SUFFICES ASSUME NEW q \in Partition
                 PROVE  next'[q] >= next[q] /\ next'[q] <= Len(log[q]) + 1
      OBVIOUS
    <3>1. CASE q = p
      BY <1>2, <1>3, <3>1, NextBounds
    <3>2. CASE q # p
      BY <1>3, <3>2, NextBounds
    <3> QED BY <3>1, <3>2
  <2>2. ASSUME NEW q \in Partition, NEW b \in Nat
        PROVE  \E m \in Nat : /\ RowsAt(bronze, q, b) = Copies(q, b, m)
                              /\ m <= replays + 1 /\ (b >= next'[q] => m <= replays)
    <3>1. b >= next'[q] => b >= next[q]
      <4>1. next'[q] \in Int /\ next[q] \in Int
        BY <1>3, NextBounds
      <4> QED BY <2>1, <4>1
    <3>2. \E m \in Nat : /\ RowsAt(bronze, q, b) = Copies(q, b, m)
                         /\ m <= replays + 1 /\ (b >= next[q] => m <= replays)
      BY <1>0 DEF BronzeInv
    <3> QED BY <3>1, <3>2
  <2>3. IsFiniteSet(bronze) /\ \A r \in bronze : r.offset \in DOMAIN log[r.partition]
    BY <1>0 DEF BronzeInv
  <2>4. bronze' = bronze /\ log' = log /\ replays' = replays
    BY <1>1
  <2> QED BY <1>4, <2>1, <2>2, <2>3, <2>4 DEF BronzeInv
<1> QED BY <1>5, <1>6, <1>7 DEF CoverageInv

LEMMA ReplayKeeps ==
  ASSUME CoverageInv, NEW p \in Partition, Replay(p)
  PROVE  CoverageInv'
<1>0. TypeOK /\ LogInv /\ BronzeInv /\ PinInv
  BY DEF CoverageInv
<1>1. /\ next[p] > 1 /\ lost + replays < MaxFaults
      /\ next' = [next EXCEPT ![p] = @ - 1] /\ replays' = replays + 1
      /\ UNCHANGED <<now, log, bronze, lost, pinned>>
  BY DEF Replay
<1>2. /\ next' \in [Partition -> 1..(MaxRecords + 1)]
      /\ next'[p] = next[p] - 1 /\ \A q \in Partition \ {p} : next'[q] = next[q]
  <2>1. next \in [Partition -> 1..(MaxRecords + 1)]
    BY <1>0 DEF TypeOK
  <2>2. next[p] - 1 \in 1..(MaxRecords + 1)
    BY <1>1, <2>1, CoverageAssumption
  <2> QED BY <1>1, <2>1, <2>2
<1>3. replays' \in 0..MaxFaults /\ lost' + replays' <= MaxFaults
  BY <1>1, NextBounds
<1>4. TypeOK'
  BY <1>0, <1>1, <1>2, <1>3 DEF TypeOK
<1>5. LogInv' /\ PinInv'
  <2>1. Logged' = Logged
    BY <1>1 DEF Logged
  <2> QED BY <1>0, <1>1, <2>1 DEF LogInv, PinInv, FirstCopy
<1>6. BronzeInv'
  <2>1. \A q \in Partition : next'[q] <= Len(log[q]) + 1
    <3> SUFFICES ASSUME NEW q \in Partition PROVE next'[q] <= Len(log[q]) + 1
      OBVIOUS
    <3>1. CASE q = p
      BY <1>2, <3>1, NextBounds
    <3>2. CASE q # p
      BY <1>2, <3>2, NextBounds
    <3> QED BY <3>1, <3>2
  <2>2. ASSUME NEW q \in Partition, NEW b \in Nat
        PROVE  \E m \in Nat : /\ RowsAt(bronze, q, b) = Copies(q, b, m)
                              /\ m <= replays' + 1 /\ (b >= next'[q] => m <= replays')
    <3>1. PICK m \in Nat : RowsAt(bronze, q, b) = Copies(q, b, m) /\ m <= replays + 1
      BY <1>0 DEF BronzeInv
    <3>2. m <= replays' /\ m <= replays' + 1
      BY <1>1, <3>1, NextBounds
    <3> QED BY <3>1, <3>2
  <2>3. IsFiniteSet(bronze) /\ \A r \in bronze : r.offset \in DOMAIN log[r.partition]
    BY <1>0 DEF BronzeInv
  <2>4. bronze' = bronze /\ log' = log
    BY <1>1
  <2> QED BY <1>3, <2>1, <2>2, <2>3, <2>4 DEF BronzeInv
<1> QED BY <1>4, <1>5, <1>6 DEF CoverageInv

LEMMA RebuildKeeps ==
  ASSUME CoverageInv, Rebuild
  PROVE  CoverageInv'
<1>0. TypeOK /\ LogInv /\ BronzeInv /\ PinInv
  BY DEF CoverageInv
<1>1. pinned' = bronze /\ UNCHANGED <<now, log, next, bronze, lost, replays>>
  BY DEF Rebuild
<1>2. TypeOK'
  BY <1>0, <1>1 DEF TypeOK, Row, Record
<1>3. LogInv' /\ BronzeInv'
  <2>1. Logged' = Logged
    BY <1>1 DEF Logged
  <2> QED BY <1>0, <1>1, <2>1 DEF LogInv, BronzeInv, RowsAt, Copies
<1>4. ASSUME NEW r \in bronze PROVE FirstCopy(r) \in bronze
  <2>1. r.partition \in Partition /\ r.offset \in Nat
    BY <1>0 DEF TypeOK, Row
  <2>2. PICK n \in Nat : RowsAt(bronze, r.partition, r.offset) = Copies(r.partition, r.offset, n)
    BY <1>0, <2>1 DEF BronzeInv
  <2>3. r \in Copies(r.partition, r.offset, n)
    BY <2>2 DEF RowsAt
  <2>4. 1 \in 1..n
    BY <2>3 DEF Copies
  <2>5. FirstCopy(r) \in Copies(r.partition, r.offset, n)
    BY <2>4 DEF Copies, FirstCopy
  <2> QED BY <2>2, <2>5 DEF RowsAt
<1>5. PinInv'
  BY <1>1, <1>4 DEF PinInv, FirstCopy
<1> QED BY <1>2, <1>3, <1>5 DEF CoverageInv

LEMMA CoverageStep ==
  ASSUME CoverageInv, [Next]_vars
  PROVE  CoverageInv'
<1>1. CASE Tick
  BY <1>1, TickKeeps
<1>2. ASSUME NEW p \in Partition, NEW e \in Event, NEW t \in 0..MaxTime, Produce(p, e, t)
      PROVE  CoverageInv'
  BY <1>2, ProduceKeeps
<1>3. ASSUME NEW p \in Partition, Capture(p) PROVE CoverageInv'
  BY <1>3, CaptureKeeps
<1>4. ASSUME NEW p \in Partition, Lose(p) PROVE CoverageInv'
  BY <1>4, LoseKeeps
<1>5. ASSUME NEW p \in Partition, Replay(p) PROVE CoverageInv'
  BY <1>5, ReplayKeeps
<1>6. CASE Rebuild
  BY <1>6, RebuildKeeps
<1>7. CASE UNCHANGED vars
  <2>1. Logged' = Logged
    BY <1>7 DEF vars, Logged
  <2> QED
    BY <1>7, <2>1 DEF vars, CoverageInv, TypeOK, LogInv, BronzeInv, PinInv, RowsAt, Copies, FirstCopy
<1> QED BY <1>1, <1>2, <1>3, <1>4, <1>5, <1>6, <1>7 DEF Next

LEMMA CoverageInvariant == Spec => []CoverageInv
<1> QED BY CoverageInit, CoverageStep, PTL DEF Spec

(* The log, Bronze and its snapshot stay in range: offsets, copies and     *)
(* clock readings never outgrow the records and the faults there were.     *)
THEOREM CoverageTypeCorrect == Spec => []TypeOK
<1>1. CoverageInv => TypeOK
  BY DEF CoverageInv
<1> QED BY <1>1, CoverageInvariant, PTL

-------------------------------------------------------------------------------
(* What a rebuild makes of its snapshot. *)

(* A pinned row is a record of Kafka. *)
LEMMA PinnedRow ==
  ASSUME CoverageInv, NEW r \in pinned
  PROVE  /\ r \in Row /\ r.partition \in Partition /\ r.offset \in Nat /\ r.copy \in Nat /\ 1 <= r.copy
         /\ r.offset \in DOMAIN log[r.partition] /\ At(r) \in Record
         /\ At(r).time \in Nat /\ At(r).at \in Nat
<1>1. TypeOK /\ BronzeInv /\ PinInv
  BY DEF CoverageInv
<1>2. r \in Row /\ r.partition \in Partition /\ r.offset \in Nat /\ r.copy \in Nat /\ 1 <= r.copy
  <2>1. r \in Row
    BY <1>1 DEF TypeOK
  <2> QED BY <2>1 DEF Row
<1>3. r.offset \in DOMAIN log[r.partition]
  BY <1>1 DEF PinInv, BronzeInv
<1>4. log[r.partition] \in Seq(Record)
  BY <1>1, <1>2 DEF TypeOK
<1>5. At(r) \in Record
  BY <1>3, <1>4 DEF At
<1>6. At(r).time \in 0..MaxTime /\ At(r).at \in 0..MaxTime
  BY <1>5 DEF Record
<1>7. At(r).time \in Nat /\ At(r).at \in Nat
  BY <1>6
<1> QED BY <1>2, <1>3, <1>5, <1>7

(* Of each record the first copy is kept. *)
LEMMA FirstCopiesAreUnique ==
  ASSUME CoverageInv
  PROVE  UniqueRecords = {r \in pinned : r.copy = 1}
<1>1. ASSUME NEW r \in pinned, r.copy = 1 PROVE \A q \in pinned : SameRecord(r, q) => r.copy <= q.copy
  BY <1>1, PinnedRow
<1>2. ASSUME NEW r \in pinned, \A q \in pinned : SameRecord(r, q) => r.copy <= q.copy PROVE r.copy = 1
  <2>1. FirstCopy(r) \in pinned
    BY DEF CoverageInv, PinInv
  <2>2. SameRecord(r, FirstCopy(r)) /\ FirstCopy(r).copy = 1
    BY DEF SameRecord, FirstCopy
  <2>3. r.copy <= 1
    BY <1>2, <2>1, <2>2
  <2> QED BY <2>3, PinnedRow
<1> QED BY <1>1, <1>2 DEF UniqueRecords

(* All records of an event are in one partition, so two unique rows of it  *)
(* differ by their offset.                                                 *)
LEMMA SameEventRows ==
  ASSUME CoverageInv, NEW r \in UniqueRecords, NEW q \in UniqueRecords,
         At(q).id = At(r).id, q.offset = r.offset
  PROVE  q = r
<1>1. r \in pinned /\ q \in pinned /\ r.copy = 1 /\ q.copy = 1
  BY FirstCopiesAreUnique
<1>2. /\ r \in Row /\ q \in Row /\ r.partition \in Partition /\ q.partition \in Partition
      /\ r.offset \in DOMAIN log[r.partition] /\ q.offset \in DOMAIN log[q.partition]
  BY <1>1, PinnedRow
<1>3. q.partition = r.partition
  BY <1>2 DEF CoverageInv, LogInv, At
<1> QED BY <1>1, <1>2, <1>3 DEF Row

(* Of an event's rows the earliest scan wins, then the one Kafka took      *)
(* first: event_order ranks every copy of it.                              *)
LEMMA WinnerExists ==
  ASSUME CoverageInv, NEW r \in pinned
  PROVE  \E w \in Canonical : At(w).id = At(r).id
<1> DEFINE S1 == {u \in UniqueRecords : At(u).id = At(r).id}
<1>1. S1 # {} /\ S1 \subseteq UniqueRecords /\ S1 \subseteq pinned
  <2>1. FirstCopy(r) \in pinned
    BY DEF CoverageInv, PinInv
  <2>2. At(FirstCopy(r)) = At(r) /\ FirstCopy(r).copy = 1
    BY DEF At, FirstCopy
  <2>3. FirstCopy(r) \in S1
    BY <2>1, <2>2, FirstCopiesAreUnique
  <2> QED BY <2>3 DEF UniqueRecords
<1> HIDE DEF S1
<1>2. \A u \in S1 : At(u).time \in Nat /\ At(u).at \in Nat /\ u.offset \in Nat
  BY <1>1, PinnedRow
<1>3. PICK a \in S1 : \A u \in S1 : At(a).time <= At(u).time
  <2> DEFINE T == {At(u).time : u \in S1}
  <2>1. T \in SUBSET Nat /\ T # {}
    BY <1>1, <1>2
  <2>2. \E x \in T : \A y \in T : x <= y
    <3> HIDE DEF T
    <3> QED BY <2>1, LeastNat
  <2> QED BY <2>2
<1> DEFINE S2 == {u \in S1 : At(u).time = At(a).time}
<1>4. PICK b \in S2 : \A u \in S2 : At(b).at <= At(u).at
  <2> DEFINE T == {At(u).at : u \in S2}
  <2>1. T \in SUBSET Nat /\ T # {}
    BY <1>2
  <2>2. \E x \in T : \A y \in T : x <= y
    <3> HIDE DEF T
    <3> QED BY <2>1, LeastNat
  <2> QED BY <2>2
<1> DEFINE S3 == {u \in S2 : At(u).at = At(b).at}
<1>5. PICK w \in S3 : \A u \in S3 : w.offset <= u.offset
  <2> DEFINE T == {u.offset : u \in S3}
  <2>1. T \in SUBSET Nat /\ T # {}
    BY <1>2
  <2>2. \E x \in T : \A y \in T : x <= y
    <3> HIDE DEF T
    <3> QED BY <2>1, LeastNat
  <2> QED BY <2>2
<1>6. w \in S1 /\ At(w).time = At(a).time /\ At(w).at = At(b).at
  BY <1>4, <1>5
<1>7. ASSUME NEW q \in UniqueRecords \ {w}, At(q).id = At(w).id
      PROVE  Precedes(w, q)
  <2>1. q \in S1
    BY <1>6, <1>7 DEF S1
  <2>2. At(w).time <= At(q).time
    BY <1>3, <1>6, <2>1
  <2>3. CASE At(w).time < At(q).time
    BY <2>3 DEF Precedes
  <2>4. CASE At(w).time = At(q).time
    <3>1. q \in S2
      BY <1>6, <2>1, <2>4
    <3>2. At(w).at <= At(q).at
      BY <1>4, <1>6, <3>1
    <3>3. CASE At(w).at < At(q).at
      BY <2>4, <3>3 DEF Precedes
    <3>4. CASE At(w).at = At(q).at
      <4>1. w.offset <= q.offset
        BY <1>5, <1>6, <3>1, <3>4
      <4>2. w.offset # q.offset
        BY <1>1, <1>6, <1>7, SameEventRows
      <4>3. w.offset < q.offset
        BY <1>2, <1>6, <2>1, <4>1, <4>2
      <4> QED BY <2>4, <3>4, <4>3 DEF Precedes
    <3> QED BY <1>2, <1>6, <2>1, <3>2, <3>3, <3>4
  <2> QED BY <1>2, <1>6, <2>1, <2>2, <2>3, <2>4
<1>8. w \in Canonical
  BY <1>1, <1>6, <1>7 DEF Canonical
<1> QED BY <1>6, <1>8 DEF S1

LEMMA WinnerIsOnly ==
  ASSUME CoverageInv, NEW w \in Canonical, NEW v \in Canonical, At(v).id = At(w).id
  PROVE  v = w
<1> SUFFICES ASSUME v # w PROVE FALSE
  OBVIOUS
<1>1. Precedes(w, v) /\ Precedes(v, w)
  BY DEF Canonical
<1>2. w \in pinned /\ v \in pinned
  BY DEF Canonical, UniqueRecords
<1>3. /\ At(w).time \in Nat /\ At(w).at \in Nat /\ w.offset \in Nat
      /\ At(v).time \in Nat /\ At(v).at \in Nat /\ v.offset \in Nat
  BY <1>2, PinnedRow
<1> QED BY <1>1, <1>3 DEF Precedes

LEMMA ReconcilesFromInv == CoverageInv => RebuildReconciles
<1> SUFFICES ASSUME CoverageInv PROVE RebuildReconciles
  OBVIOUS
<1>1. Canonical \subseteq UniqueRecords /\ UniqueRecords \subseteq pinned
  BY DEF Canonical, UniqueRecords
<1>2. IsFiniteSet(pinned)
  BY FS_Subset DEF CoverageInv, BronzeInv, PinInv
<1>3. Duplicates = pinned \ Canonical
  <2>1. {r \in pinned \ UniqueRecords : \E w \in Canonical : At(w).id = At(r).id} = pinned \ UniqueRecords
    BY WinnerExists
  <2> QED BY <1>1, <2>1 DEF Duplicates
<1>4. Cardinality(pinned) = Cardinality(Canonical) + Cardinality(Duplicates)
  <2>1. pinned \cap Canonical = Canonical
    BY <1>1
  <2>2. IsFiniteSet(Canonical)
    BY <1>1, <1>2, FS_Subset
  <2>3. Cardinality(pinned \ Canonical) = Cardinality(pinned) - Cardinality(Canonical)
    BY <1>2, <2>1, FS_Difference
  <2>4. Cardinality(pinned) \in Nat /\ Cardinality(Canonical) \in Nat
    BY <1>2, <2>2, FS_CardinalityType
  <2> QED BY <1>3, <2>3, <2>4
<1>5. ASSUME NEW r \in pinned
      PROVE  Cardinality({w \in Canonical : At(w).id = At(r).id}) = 1
  <2>1. PICK w \in Canonical : At(w).id = At(r).id
    BY WinnerExists
  <2>2. \A v \in Canonical : At(v).id = At(r).id => v = w
    BY <2>1, WinnerIsOnly
  <2>3. {v \in Canonical : At(v).id = At(r).id} = {w}
    BY <2>1, <2>2
  <2> QED BY <2>3, FS_Singleton
<1> QED BY <1>4, <1>5 DEF RebuildReconciles

(* Every snapshot reconciles, however often Bronze read its records again: *)
(* each pinned row is the winner of its event or a duplicate, never both.  *)
THEOREM RebuildsReconcile == Spec => []RebuildReconciles
<1> QED BY ReconcilesFromInv, CoverageInvariant, PTL

-------------------------------------------------------------------------------
(* The hours a lost record keeps provisional. *)

(* Around an offset that was not captured, the nearest two that were are   *)
(* an offset gap.                                                          *)
LEMMA GapAround ==
  ASSUME CoverageInv, NEW p \in Partition, NEW o \in Nat, o \notin Captured(p),
         \E a, b \in Captured(p) : a < o /\ o < b
  PROVE  \E g \in OffsetGaps : /\ g[1] \in pinned /\ g[2] \in pinned
                               /\ g[1].partition = p /\ g[2].partition = p
                               /\ g[1].offset < o /\ o < g[2].offset
<1>1. \A x \in Captured(p) : x \in Nat /\ \E r \in pinned : r.partition = p /\ r.offset = x
  BY PinnedRow DEF Captured
<1>2. \A r \in pinned : r.partition = p => r.offset \in Captured(p)
  BY DEF Captured
<1>3. PICK a \in Captured(p) : a < o /\ \A x \in Captured(p) : x < o => x <= a
  <2> DEFINE T == {o - x : x \in {c \in Captured(p) : c < o}}
  <2>1. T \in SUBSET Nat /\ T # {}
    BY <1>1
  <2>2. \E d \in T : \A e \in T : d <= e
    <3> HIDE DEF T
    <3> QED BY <2>1, LeastNat
  <2>3. PICK a \in Captured(p) : a < o /\ \A x \in Captured(p) : x < o => o - a <= o - x
    BY <2>2
  <2> QED BY <1>1, <2>3
<1>4. PICK b \in Captured(p) : o < b /\ \A x \in Captured(p) : o < x => b <= x
  <2> DEFINE T == {x \in Captured(p) : o < x}
  <2>1. T \in SUBSET Nat /\ T # {}
    BY <1>1
  <2>2. \E d \in T : \A e \in T : d <= e
    <3> HIDE DEF T
    <3> QED BY <2>1, LeastNat
  <2> QED BY <2>2
<1>5. PICK r \in pinned : r.partition = p /\ r.offset = a
  BY <1>1, <1>3
<1>6. PICK q \in pinned : q.partition = p /\ q.offset = b
  BY <1>1, <1>4
<1>7. a \in Nat /\ b \in Nat /\ b - a > 1
  BY <1>1, <1>3, <1>4
<1>8. ASSUME NEW m \in pinned, m.partition = p, a < m.offset, m.offset < b
      PROVE  FALSE
  <2>1. m.offset \in Captured(p) /\ m.offset \in Nat
    BY <1>1, <1>2, <1>8
  <2>2. m.offset # o
    BY <2>1
  <2>3. CASE m.offset < o
    BY <1>3, <1>7, <1>8, <2>1, <2>3
  <2>4. CASE o < m.offset
    BY <1>4, <1>7, <1>8, <2>1, <2>4
  <2> QED BY <2>1, <2>2, <2>3, <2>4
<1> DEFINE g == <<r, q>>
<1>9. g \in pinned \X pinned /\ g[1] = r /\ g[2] = q
  OBVIOUS
<1>10. g \in OffsetGaps
  <2> HIDE DEF g
  <2> QED BY <1>5, <1>6, <1>7, <1>8, <1>9 DEF OffsetGaps
<1> HIDE DEF g
<1> QED BY <1>3, <1>4, <1>5, <1>6, <1>9, <1>10

LEMMA LostFromInv == CoverageInv => LostRecordsStayEstimated
<1> SUFFICES ASSUME CoverageInv, NEW p \in Partition, NEW o \in DOMAIN log[p],
                    o \notin Captured(p), log[p][o].time <= log[p][o].at,
                    \E a, b \in Captured(p) : a < o /\ o < b
             PROVE  HourOf(log[p][o].time) \notin FinalHours
  BY DEF LostRecordsStayEstimated
<1>1. o \in Nat
  BY NextBounds
<1>2. PICK g \in OffsetGaps : /\ g[1] \in pinned /\ g[2] \in pinned
                              /\ g[1].partition = p /\ g[2].partition = p
                              /\ g[1].offset < o /\ o < g[2].offset
  BY <1>1, GapAround
<1> DEFINE r == g[1]
           q == g[2]
<1>3. /\ r.offset \in DOMAIN log[p] /\ q.offset \in DOMAIN log[p]
      /\ At(r) = log[p][r.offset] /\ At(q) = log[p][q.offset]
      /\ At(r).at \in Nat /\ At(q).at \in Nat /\ r.offset \in Nat /\ q.offset \in Nat
  BY <1>2, PinnedRow DEF At
<1>4. log[p][o].time \in Int /\ log[p][o].at \in Int
  <2>1. log[p] \in Seq(Record)
    BY DEF CoverageInv, TypeOK
  <2>2. log[p][o] \in Record
    BY <2>1
  <2> QED BY <2>2 DEF Record
<1> HIDE DEF r, q
<1>5. r.offset <= o /\ o <= q.offset
  BY <1>1, <1>2, <1>3 DEF r, q
<1>6. /\ At(r).at <= log[p][o].at /\ log[p][o].at <= At(q).at
      /\ log[p][o].at - MaxLateness <= log[p][o].time
  BY <1>3, <1>5 DEF CoverageInv, LogInv
<1>7. MaxLateness \in Nat
  BY CoverageAssumption
<1>8. At(r).at - MaxLateness <= log[p][o].time /\ log[p][o].time <= At(q).at
  BY <1>3, <1>4, <1>6, <1>7
<1>9. HourOf(log[p][o].time) \in HourOf(At(r).at - MaxLateness)..HourOf(At(q).at)
  <2>1. At(r).at - MaxLateness \in Int /\ At(q).at \in Int
    BY <1>3, <1>7
  <2>2. HourOf(At(r).at - MaxLateness) <= HourOf(log[p][o].time)
    BY <1>4, <1>8, <2>1, HourMonotone
  <2>3. HourOf(log[p][o].time) <= HourOf(At(q).at)
    BY <1>4, <1>8, <2>1, HourMonotone
  <2>4. HourOf(At(r).at - MaxLateness) \in Int /\ HourOf(log[p][o].time) \in Int /\ HourOf(At(q).at) \in Int
    BY <1>4, <1>8, <2>1, HourMonotone
  <2> QED BY <2>2, <2>3, <2>4
<1>10. HourOf(log[p][o].time) \in GapHours
  BY <1>2, <1>9 DEF GapHours, r, q
<1> QED BY <1>10 DEF FinalHours

(* "Those hours stay on Flink": the hour of a record Bronze lost between   *)
(* two it has is never final, whatever the delay, the lateness, the hour   *)
(* length and the other partitions do.                                     *)
THEOREM LostRecordsKeepTheHour == Spec => []LostRecordsStayEstimated
<1> QED BY LostFromInv, CoverageInvariant, PTL

-------------------------------------------------------------------------------
(* Corrections. *)

(* The winner of an event is no later than any of its rows. *)
EarliestWins ==
  \A v \in Canonical, w \in pinned : w.copy = 1 /\ At(v).id = At(w).id => At(v).time <= At(w).time

LEMMA EarliestFromInv == CoverageInv => EarliestWins
<1> SUFFICES ASSUME CoverageInv, NEW v \in Canonical, NEW w \in pinned, w.copy = 1, At(v).id = At(w).id
             PROVE  At(v).time <= At(w).time
  BY DEF EarliestWins
<1>1. v \in pinned
  BY DEF Canonical, UniqueRecords
<1>2. At(v).time \in Nat /\ At(w).time \in Nat
  BY <1>1, PinnedRow
<1>3. w \in UniqueRecords
  BY FirstCopiesAreUnique
<1>4. CASE v = w
  BY <1>2, <1>4
<1>5. CASE v # w
  <2>1. Precedes(v, w)
    BY <1>3, <1>5 DEF Canonical
  <2> QED BY <1>2, <2>1 DEF Precedes
<1> QED BY <1>4, <1>5

LEMMA RebuildMovesBack ==
  ASSUME CoverageInv, EarliestWins', [Next]_vars, CoverageInv', pinned' # pinned,
         NEW x \in FinalEvents, NEW y \in FinalEvents', x[1] = y[1]
  PROVE  y[2] <= x[2]
<1>1. pinned' = bronze /\ log' = log
  BY DEF Next, vars, Tick, Produce, Capture, Lose, Replay, Rebuild
<1>2. PICK w \in Canonical : x = <<At(w).id, HourOf(At(w).time)>>
  BY DEF FinalEvents
<1>3. PICK v \in Canonical' : y = <<At(v).id, HourOf(At(v).time)>>'
  BY DEF FinalEvents
<1>4. At(v)' = At(v) /\ At(w)' = At(w) /\ HourOf(At(v).time)' = HourOf(At(v).time)
  BY <1>1 DEF At, HourOf
<1>5. y = <<At(v).id, HourOf(At(v).time)>>
  BY <1>3, <1>4
<1>6. w \in pinned /\ w.copy = 1
  <2>1. w \in UniqueRecords
    BY DEF Canonical
  <2> QED BY <2>1, FirstCopiesAreUnique
<1>7. w \in pinned'
  BY <1>1, <1>6 DEF CoverageInv, PinInv
<1>8. At(v)'.id = At(w)'.id
  BY <1>2, <1>4, <1>5
<1>9. At(v)'.time <= At(w)'.time
  BY <1>6, <1>7, <1>8 DEF EarliestWins
<1>10. At(w).time \in Int
  BY <1>6, PinnedRow
<1>11. At(v).time \in Int
  <2>1. v \in bronze
    BY <1>1 DEF Canonical, UniqueRecords
  <2>2. v \in Row /\ v.offset \in DOMAIN log[v.partition]
    BY <2>1 DEF CoverageInv, TypeOK, BronzeInv
  <2>3. log[v.partition] \in Seq(Record)
    BY <2>2 DEF CoverageInv, TypeOK, Row
  <2>4. At(v) \in Record
    BY <2>2, <2>3 DEF At
  <2> QED BY <2>4 DEF Record
<1>12. HourOf(At(v).time) <= HourOf(At(w).time)
  BY <1>4, <1>9, <1>10, <1>11, HourMonotone
<1> QED BY <1>2, <1>5, <1>12

(* A rebuild may move an event from a final hour to an earlier one, as an  *)
(* older copy of it is captured, but never to a later one.                 *)
THEOREM CorrectionsOnlyMoveBack == Spec => CorrectionsMoveBack
<1>1. ASSUME CoverageInv, EarliestWins', CoverageInv', [Next]_vars
      PROVE  [pinned' # pinned =>
                LET earlier == FinalEvents
                    later == FinalEvents'
                IN  \A x \in earlier, y \in later : x[1] = y[1] => y[2] <= x[2]]_vars
  BY <1>1, RebuildMovesBack
<1>2. Spec => []EarliestWins
  BY EarliestFromInv, CoverageInvariant, PTL
<1> QED BY <1>1, <1>2, CoverageInvariant, PTL DEF Spec, CorrectionsMoveBack

-------------------------------------------------------------------------------
(* InventoryMarts                                                          *)

IsMartRecord(m) == m = [fact |-> m.fact, position |-> m.position, rollup |-> m.rollup]

(* No hour twice, and every row joins a version that is published. *)
Keyed(m) ==
  \A p \in Product : \A r \in m.fact[p] :
    /\ r.hour \in Hour /\ r.key \in 1..version[p]
    /\ \A q \in m.fact[p] : r.hour = q.hour => r = q

(* The fact a build makes of a table. *)
Follows(m, table) ==
  \A p \in Product :
    /\ \A r \in m.fact[p] :
         /\ r.onHand = Balance(table, p, r.hour)
         /\ r.estimated = MovementIn(table, p, r.hour).estimated
    /\ m.fact[p] # {} =>
         \A h \in Hour : <<p, h>> \in DOMAIN table => \E r \in m.fact[p] : r.hour = h

FactInv ==
  /\ version \in [Product -> 0..MaxVersion]
  /\ IsMartRecord(pending) /\ IsMartRecord(live)
  /\ Keyed(pending) /\ Keyed(live)
  /\ running \in BOOLEAN /\ (~running => built = {})
  /\ "fact" \in built => Follows(pending, hourly)
  /\ Follows(live, read)

-------------------------------------------------------------------------------

(* Every stored row still joins: versions are never taken back. *)
LEMMA AllExist ==
  ASSUME Keyed(pending), NEW p \in Product
  PROVE  Existing(p) = pending.fact[p]
BY DEF Keyed, Existing

(* A build leaves exactly the rows it computed: what it did not replace is *)
(* what it would have written.                                             *)
LEMMA UpsertIsRebuild ==
  ASSUME FactInv, NEW p \in Product
  PROVE  Upserted(p) = Computed(p)
<1> DEFINE Made(h, k) == [hour |-> h, key |-> k, onHand |-> Balance(hourly, p, h),
                         estimated |-> MovementIn(hourly, p, h).estimated]
<1>1. Existing(p) = pending.fact[p]
  BY AllExist DEF FactInv
<1>2. \A x : x \in Computed(p) <=> \E h \in HoursOf(p) : \E k \in KeysOf(p, h) : x = Made(h, k)
  BY DEF Computed
<1>3. \A x, y \in Computed(p) : x.hour = y.hour /\ x.key = y.key => x = y
  BY <1>2
<1>4. ASSUME NEW r \in pending.fact[p], ~\E n \in Computed(p) \ Existing(p) : n.hour = r.hour /\ n.key = r.key
      PROVE  r \in Computed(p)
  <2>1. r.hour \in HoursOf(p) /\ r.key \in KeysOf(p, r.hour)
    BY <1>1, <1>4 DEF HoursOf, KeysOf, FactInv, Keyed
  <2> DEFINE c == Made(r.hour, r.key)
  <2>2. c \in Computed(p) /\ c.hour = r.hour /\ c.key = r.key
    BY <1>2, <2>1
  <2> HIDE DEF c
  <2>3. c \in pending.fact[p]
    BY <1>1, <1>4, <2>2
  <2>4. c = r
    BY <2>2, <2>3 DEF FactInv, Keyed
  <2> QED BY <2>2, <2>4
<1>5. ASSUME NEW c \in Computed(p)
      PROVE  c \in Upserted(p)
  <2>1. CASE c \in Existing(p)
    <3>1. ~\E n \in Computed(p) \ Existing(p) : n.hour = c.hour /\ n.key = c.key
      BY <1>3, <1>5, <2>1
    <3> QED BY <1>1, <2>1, <3>1 DEF Upserted
  <2> QED BY <2>1 DEF Upserted
<1> QED BY <1>4, <1>5 DEF Upserted

(* The rows of a build: each hour once, with a published key, and as soon  *)
(* as there is one row, every hour of the table.                           *)
LEMMA ComputedRows ==
  ASSUME FactInv, DOMAIN hourly \subseteq Product \X Hour, NEW p \in Product
  PROVE  /\ \A r \in Computed(p) :
              /\ r.hour \in Hour /\ r.key \in 1..version[p]
              /\ r.onHand = Balance(hourly, p, r.hour)
              /\ r.estimated = MovementIn(hourly, p, r.hour).estimated
              /\ \A q \in Computed(p) : r.hour = q.hour => r = q
         /\ Computed(p) # {} =>
              \A h \in Hour : <<p, h>> \in DOMAIN hourly => \E r \in Computed(p) : r.hour = h
<1> DEFINE Made(h, k) == [hour |-> h, key |-> k, onHand |-> Balance(hourly, p, h),
                         estimated |-> MovementIn(hourly, p, h).estimated]
<1>1. Existing(p) = pending.fact[p]
  BY AllExist DEF FactInv
<1>2. \A x : x \in Computed(p) <=> \E h \in HoursOf(p) : \E k \in KeysOf(p, h) : x = Made(h, k)
  BY DEF Computed
<1>3. HoursOf(p) \subseteq Hour
  BY <1>1 DEF HoursOf, FactInv, Keyed
<1>4. version[p] \in Nat
  BY DEF FactInv
<1>5. \A h \in HoursOf(p) : KeysOf(p, h) \subseteq 1..version[p]
  BY <1>1, <1>4 DEF KeysOf, FactInv, Keyed, NotPublished
<1>6. \A h \in HoursOf(p) : \A k, j \in KeysOf(p, h) : k = j
  BY <1>1 DEF KeysOf, FactInv, Keyed
<1>7. \A r \in Computed(p) :
        /\ r.hour \in HoursOf(p) /\ r.key \in KeysOf(p, r.hour) /\ r = Made(r.hour, r.key)
  BY <1>2
<1>8. \A r \in Computed(p) :
        /\ r.onHand = Balance(hourly, p, r.hour)
        /\ r.estimated = MovementIn(hourly, p, r.hour).estimated
  BY <1>2
<1>9. \A r, q \in Computed(p) : r.hour = q.hour => r = q
  BY <1>6, <1>7
<1>10. ASSUME Computed(p) # {}, NEW h \in Hour, <<p, h>> \in DOMAIN hourly
       PROVE  \E r \in Computed(p) : r.hour = h
  <2>1. version[p] # NotPublished
    BY <1>4, <1>5, <1>7, <1>10 DEF NotPublished
  <2>2. h \in HoursOf(p)
    BY <1>10 DEF HoursOf
  <2>3. PICK k : k \in KeysOf(p, h)
    BY <2>1 DEF KeysOf
  <2>4. Made(h, k) \in Computed(p) /\ Made(h, k).hour = h
    BY <1>2, <2>2, <2>3
  <2> QED BY <2>4
<1> QED BY <1>3, <1>5, <1>7, <1>8, <1>9, <1>10

-------------------------------------------------------------------------------

HourlyInv == DOMAIN hourly \subseteq Product \X Hour

LEMMA MartsInitInv == MartsInit => FactInv /\ HourlyInv
<1> SUFFICES ASSUME MartsInit PROVE FactInv /\ HourlyInv
  OBVIOUS
<1> USE MartsAssumption DEF MartsInit, Empty
<1>1. version \in [Product -> 0..MaxVersion]
  BY DEF NotPublished
<1>2. \A p \in Product : pending.fact[p] = {} /\ live.fact[p] = {}
  OBVIOUS
<1>3. IsMartRecord(pending) /\ IsMartRecord(live)
  BY DEF IsMartRecord
<1>4. Keyed(pending) /\ Keyed(live) /\ Follows(live, read)
  BY <1>2 DEF Keyed, Follows
<1>5. HourlyInv
  BY DEF HourlyInv
<1> QED BY <1>1, <1>2, <1>3, <1>4, <1>5 DEF FactInv

LEMMA MartsStepInv == FactInv /\ HourlyInv /\ [MartsNext]_martVars => FactInv' /\ HourlyInv'
<1> SUFFICES ASSUME FactInv, HourlyInv, [MartsNext]_martVars PROVE FactInv' /\ HourlyInv'
  OBVIOUS
<1> USE MartsAssumption
<1>1. CASE \E table \in HourlyTables : StartRun(table)
  <2>1. PICK table \in HourlyTables : StartRun(table)
    BY <1>1
  <2>2. DOMAIN table \subseteq Product \X Hour
    BY DEF HourlyTables, IsHourly
  <2>3. built = {}
    BY <2>1 DEF FactInv, StartRun
  <2> QED BY <2>1, <2>2, <2>3 DEF StartRun, FactInv, HourlyInv, Keyed
<1>2. CASE BuildFact
  <2>1. pending'.fact = [p \in Product |-> Computed(p)]
    BY <1>2, UpsertIsRebuild DEF BuildFact, FactInv, IsMartRecord
  <2>2. IsMartRecord(pending)'
    BY <1>2 DEF BuildFact, FactInv, IsMartRecord
  <2>3. version' = version /\ hourly' = hourly /\ live' = live /\ read' = read
        /\ running' = running /\ running
    BY <1>2 DEF BuildFact
  <2>4. Keyed(pending)'
    BY <2>1, <2>3, ComputedRows DEF Keyed, HourlyInv
  <2>5. Follows(pending, hourly)'
    BY <2>1, <2>3, ComputedRows DEF Follows, HourlyInv
  <2>6. Keyed(live)' /\ Follows(live, read)'
    BY <2>3 DEF FactInv, Keyed, Follows
  <2>7. HourlyInv'
    BY <2>3 DEF HourlyInv
  <2> QED BY <2>1, <2>2, <2>3, <2>4, <2>5, <2>6, <2>7 DEF FactInv
<1>3. ASSUME BuildPosition \/ BuildRollup PROVE FactInv' /\ HourlyInv'
  <2>1. pending'.fact = pending.fact /\ IsMartRecord(pending)'
    BY <1>3 DEF BuildPosition, BuildRollup, FactInv, IsMartRecord
  <2>2. /\ version' = version /\ hourly' = hourly /\ live' = live /\ read' = read
        /\ running' = running /\ running /\ "fact" \in built
    BY <1>3 DEF BuildPosition, BuildRollup
  <2>3. Keyed(pending)' /\ Keyed(live)'
    BY <2>1, <2>2 DEF FactInv, Keyed
  <2>4. Follows(pending, hourly)' /\ Follows(live, read)'
    BY <2>1, <2>2 DEF FactInv, Follows
  <2> QED BY <2>1, <2>2, <2>3, <2>4 DEF FactInv, HourlyInv
<1>4. CASE Publish
  <2>1. Follows(pending, hourly)
    BY <1>4 DEF Publish, FactInv
  <2>2. /\ live' = pending /\ pending' = pending /\ read' = hourly /\ version' = version
        /\ built' = {} /\ running' = FALSE /\ hourly' = <<>>
    BY <1>4 DEF Publish, RunEnds
  <2>3. Keyed(pending)' /\ Keyed(live)'
    BY <2>2 DEF FactInv, Keyed
  <2>4. Follows(live, read)'
    BY <2>1, <2>2 DEF Follows
  <2>5. HourlyInv'
    BY <2>2 DEF HourlyInv
  <2>6. IsMartRecord(pending)' /\ IsMartRecord(live)'
    BY <2>2 DEF FactInv, IsMartRecord
  <2> QED BY <2>2, <2>3, <2>4, <2>5, <2>6 DEF FactInv
<1>5. CASE RunFails
  <2>1. /\ pending' = live /\ live' = live /\ read' = read /\ version' = version
        /\ built' = {} /\ running' = FALSE /\ hourly' = <<>>
    BY <1>5 DEF RunFails, RunEnds
  <2>2. HourlyInv'
    BY <2>1 DEF HourlyInv
  <2>3. Keyed(pending)' /\ Keyed(live)' /\ Follows(live, read)'
    BY <2>1 DEF FactInv, Keyed, Follows
  <2>4. IsMartRecord(pending)' /\ IsMartRecord(live)'
    BY <2>1 DEF FactInv, IsMartRecord
  <2> QED BY <2>1, <2>2, <2>3, <2>4 DEF FactInv
<1>6. ASSUME NEW p \in Product, CatalogPublishes(p) PROVE FactInv' /\ HourlyInv'
  <2>1. /\ hourly' = hourly /\ built' = built /\ running' = running
        /\ pending' = pending /\ live' = live /\ read' = read
    BY <1>6 DEF CatalogPublishes
  <2>2. version' \in [Product -> 0..MaxVersion]
    BY <1>6 DEF CatalogPublishes, FactInv
  <2>3. \A q \in Product : version'[q] >= version[q]
    BY <1>6 DEF CatalogPublishes, FactInv
  <2>4. \A q \in Product : 1..version[q] \subseteq 1..version'[q]
    BY <2>2, <2>3 DEF FactInv
  <2>5. Keyed(pending)' /\ Keyed(live)'
    BY <2>1, <2>4 DEF FactInv, Keyed
  <2> QED BY <2>1, <2>2, <2>5 DEF FactInv, HourlyInv, IsMartRecord, Follows
<1>7. CASE AttemptFails
  BY <1>7 DEF AttemptFails, FactInv, HourlyInv, IsMartRecord, Keyed, Follows
<1>8. CASE UNCHANGED martVars
  BY <1>8 DEF martVars, FactInv, HourlyInv, IsMartRecord, Keyed, Follows
<1> QED BY <1>1, <1>2, <1>3, <1>4, <1>5, <1>6, <1>7, <1>8 DEF MartsNext

LEMMA MartsInvariant == MartsSpec => [](FactInv /\ HourlyInv)
<1> QED BY MartsInitInv, MartsStepInv, PTL DEF MartsSpec

-------------------------------------------------------------------------------

(* However the hours of int_inventory_hourly and the versions of a product *)
(* change between and during runs, a published hour is in                  *)
(* fact_inventory_snapshot once.                                           *)
THEOREM HoursOnce == MartsSpec => []OneRowPerHour
<1>1. FactInv => OneRowPerHour
  BY DEF FactInv, Keyed, OneRowPerHour
<1> QED BY <1>1, MartsInvariant, PTL

(* The published balances are those of the hours the last published run    *)
(* read: upserting what is new or differs is as good as a rebuild.         *)
THEOREM BalancesRebuilt == MartsSpec => []BalancesFollowSource
<1>1. FactInv => BalancesFollowSource
  BY DEF FactInv, Follows, BalancesFollowSource
<1> QED BY <1>1, MartsInvariant, PTL

-------------------------------------------------------------------------------
(* The calendar, and the newest row of a pair *)

DayHours(d) == (HoursPerDay * d)..(HoursPerDay * (d + 1) - 1)

LEMMA Calendar ==
  ASSUME NEW h \in Nat
  PROVE  /\ DayOf(h) \in Nat /\ HourOfDay(h) \in 0..(HoursPerDay - 1)
         /\ h = HoursPerDay * DayOf(h) + HourOfDay(h)
BY MartsAssumption DEF DayOf, HourOfDay

LEMMA DayBounds ==
  ASSUME NEW d \in Nat
  PROVE  /\ HoursPerDay * d \in Nat
         /\ HoursPerDay * (d + 1) - 1 = HoursPerDay * d + (HoursPerDay - 1)
         /\ HoursPerDay * (d + 1) - 1 \in Nat
BY MartsAssumption

(* Later days have later hours. *)
LEMMA DayOrder ==
  ASSUME NEW d \in Nat, NEW e \in Nat, d < e
  PROVE  HoursPerDay * d + HoursPerDay <= HoursPerDay * e
<1>1. PICK k \in Nat : e = d + 1 + k
  <2>1. e - d - 1 \in Nat /\ e = d + 1 + (e - d - 1)
    OBVIOUS
  <2> QED BY <2>1
<1>2. HoursPerDay \in Nat
  BY MartsAssumption
<1>3. HoursPerDay * (d + 1 + k) = HoursPerDay * d + HoursPerDay + HoursPerDay * k
  BY <1>1, <1>2
<1>4. HoursPerDay * k \in Nat /\ HoursPerDay * d \in Nat
  BY <1>1, <1>2
<1> QED BY <1>1, <1>2, <1>3, <1>4

LEMMA DayIs ==
  ASSUME NEW h \in Nat, NEW d \in Nat
  PROVE  /\ DayOf(h) = d <=> h \in DayHours(d)
         /\ DayOf(h) <= d <=> h <= HoursPerDay * (d + 1) - 1
         /\ DayOf(h) < d <=> h < HoursPerDay * d
<1> DEFINE e == DayOf(h)
<1>1. /\ e \in Nat /\ HoursPerDay * e <= h /\ h < HoursPerDay * e + HoursPerDay
      /\ HoursPerDay * e \in Nat /\ HoursPerDay \in Nat
  <2>1. HoursPerDay \in Nat
    BY MartsAssumption
  <2>2. e \in Nat /\ HourOfDay(h) \in 0..(HoursPerDay - 1) /\ h = HoursPerDay * e + HourOfDay(h)
    BY Calendar
  <2>3. HoursPerDay * e \in Nat
    BY <2>2, DayBounds
  <2> DEFINE b == HoursPerDay * e
  <2> HIDE DEF e, b
  <2>4. b <= h /\ h < b + HoursPerDay
    BY <2>1, <2>2, <2>3 DEF b
  <2> QED BY <2>1, <2>2, <2>3, <2>4 DEF b
<1>2. /\ HoursPerDay * d \in Nat /\ HoursPerDay * (d + 1) - 1 = HoursPerDay * d + (HoursPerDay - 1)
  BY DayBounds
<1>3. e < d => HoursPerDay * e + HoursPerDay <= HoursPerDay * d
  BY <1>1, DayOrder
<1>4. d < e => HoursPerDay * d + HoursPerDay <= HoursPerDay * e
  BY <1>1, DayOrder
<1>5. h \in DayHours(d) <=> HoursPerDay * d <= h /\ h <= HoursPerDay * d + (HoursPerDay - 1)
  BY <1>2 DEF DayHours
<1> DEFINE a == HoursPerDay * d
           b == HoursPerDay * e
<1>6. e < d \/ d < e \/ (e = d /\ a = b)
  BY <1>1
<1> HIDE DEF a, b, e
<1>7. /\ e = d <=> h \in DayHours(d)
      /\ e <= d <=> h <= HoursPerDay * (d + 1) - 1
      /\ e < d <=> h < HoursPerDay * d
  BY <1>1, <1>2, <1>3, <1>4, <1>5, <1>6 DEF a, b
<1> QED BY <1>7 DEF e

LEMMA HourTypes == Hour \subseteq Nat /\ IsFiniteSet(Hour) /\ \A S \in SUBSET Hour : S \in SUBSET Int /\ IsFiniteSet(S)
<1>1. \A S \in SUBSET Hour : IsFiniteSet(S)
  BY MartsAssumption, FS_Subset
<1> QED BY <1>1, MartsAssumption

(* A pair has finitely many rows, one per hour, so some are newest.        *)
LEMMA RowsFinite ==
  ASSUME NEW m, Keyed(m), NEW p \in Product
  PROVE  IsFiniteSet(m.fact[p])
<1> DEFINE f == [r \in m.fact[p] |-> r.hour]
<1>1. f \in Injection(m.fact[p], Hour)
  BY DEF Keyed, Injection, IsInjective
<1> QED BY <1>1, HourTypes, FS_Injection

LEMMA LatestIn ==
  ASSUME NEW m, Keyed(m), NEW p \in Product, NEW rows \in SUBSET m.fact[p], rows # {}
  PROVE  Latest(rows) \in rows /\ \A q \in rows : q.hour <= Latest(rows).hour
<1> DEFINE T == {r.hour : r \in rows}
<1>1. T \in SUBSET Hour /\ T # {}
  BY DEF Keyed
<1>2. Max(T) \in T /\ \A y \in T : y <= Max(T)
  <2> HIDE DEF T
  <2> QED BY <1>1, HourTypes, MaxIn
<1>3. \E r \in rows : \A q \in rows : q.hour <= r.hour
  BY <1>2
<1> QED BY <1>3, Zenon DEF Latest

-------------------------------------------------------------------------------
(* Balances are numbers. *)

LEMMA MovementType ==
  ASSUME NEW f, IsHourly(f), NEW p \in Product, NEW h \in Hour
  PROVE  MovementIn(f, p, h).delta \in Int /\ MovementIn(f, p, h).estimated \in BOOLEAN
<1>1. CASE <<p, h>> \in DOMAIN f
  <2>1. f[<<p, h>>] \in Movement[<<p, h>>]
    BY <1>1 DEF IsHourly
  <2>2. Movement[<<p, h>>] \in SUBSET [delta : Int, estimated : BOOLEAN]
    BY MartsAssumption
  <2>3. f[<<p, h>>] \in [delta : Int, estimated : BOOLEAN]
    BY <2>1, <2>2
  <2> QED BY <1>1, <2>3 DEF MovementIn
<1>2. CASE <<p, h>> \notin DOMAIN f
  BY <1>2 DEF MovementIn, NoMovement
<1> QED BY <1>1, <1>2

LEMMA OpeningType == \A p \in Product : OpeningQty(p) \in Int
BY MartsAssumption DEF OpeningQty

LEMMA BalanceType ==
  ASSUME NEW f, IsHourly(f), NEW p \in Product, NEW h
  PROVE  Balance(f, p, h) \in Int
<1> DEFINE F == [g \in {x \in Hour : x <= h} |-> MovementIn(f, p, g).delta]
<1>1. IsFiniteSet(DOMAIN F) /\ \A g \in DOMAIN F : F[g] \in Int
  BY HourTypes, MovementType
<1>2. Total(F) \in Int
  <2> HIDE DEF F
  <2> QED BY <1>1, TotalType
<1> QED BY <1>2, OpeningType DEF Balance

-------------------------------------------------------------------------------
(* The view adds to the newest published balance of a pair the Flink hours *)
(* after the newest hour of the whole fact.  The hours between the two had *)
(* no movement: the fact would have a row for it.                          *)
AnySpeedCounted ==
  \A p \in Product : live.fact[p] # {} =>
    \A speed \in [Hour -> Int] :
      CurrentOnHand(p, speed) =
        OpeningQty(p) + Total([h \in Hour |-> IF \E g \in LiveHours : h <= g
                                              THEN MovementIn(read, p, h).delta ELSE speed[h]])

LEMMA AnySpeedFromInv ==
  ASSUME FactInv, IsHourly(read)
  PROVE  AnySpeedCounted
<1> SUFFICES ASSUME NEW p \in Product, live.fact[p] # {}, NEW speed \in [Hour -> Int]
             PROVE  CurrentOnHand(p, speed) = OpeningQty(p)
                      + Total([h \in Hour |-> IF \E g \in LiveHours : h <= g
                                              THEN MovementIn(read, p, h).delta ELSE speed[h]])
  BY DEF AnySpeedCounted
<1> DEFINE F == [h \in Hour |-> IF \E g \in LiveHours : h <= g
                                THEN MovementIn(read, p, h).delta ELSE speed[h]]
           top == Latest(live.fact[p])
           L == {h \in Hour : \E g \in LiveHours : h <= g}
           N == {h \in Hour : h <= top.hour}
           Moved == [g \in N |-> MovementIn(read, p, g).delta]
<1>1. /\ top \in live.fact[p] /\ top.hour \in Hour /\ top.onHand = OpeningQty(p) + Total(Moved)
      /\ \A q \in live.fact[p] : q.hour <= top.hour
  <2>1. top \in live.fact[p] /\ \A q \in live.fact[p] : q.hour <= top.hour
    BY LatestIn DEF FactInv
  <2>2. top.hour \in Hour /\ top.onHand = Balance(read, p, top.hour)
    BY <2>1 DEF FactInv, Keyed, Follows
  <2> HIDE DEF top
  <2> QED BY <2>1, <2>2 DEF Balance
<1>2. LiveHours \subseteq Hour /\ top.hour \in LiveHours
  BY <1>1 DEF LiveHours, FactInv, Keyed
<1> HIDE DEF top
<1>3. N \in SUBSET L /\ L \in SUBSET Hour
  BY <1>2
<1>4. F \in [Hour -> Int]
  <2>1. \A h \in Hour : MovementIn(read, p, h).delta \in Int /\ speed[h] \in Int
    BY MovementType
  <2> QED BY <2>1
<1>5. Total(F) = Total([h \in L |-> F[h]]) + Total([h \in Hour \ L |-> F[h]])
  <2>1. IsFiniteSet(Hour) /\ L \in SUBSET Hour
    BY <1>3, HourTypes
  <2> HIDE DEF F, L
  <2> QED BY <1>4, <2>1, TotalSplit
<1>6. Total([h \in L |-> F[h]]) = Total(Moved)
  <2> DEFINE FL == [h \in L |-> F[h]]
  <2>1. FL \in [L -> Int] /\ IsFiniteSet(L)
    BY <1>3, <1>4, HourTypes
  <2>2. Total(FL) = Total([h \in N |-> FL[h]]) + Total([h \in L \ N |-> FL[h]])
    <3> HIDE DEF FL, L, N
    <3> QED BY <1>3, <2>1, TotalSplit
  <2>3. Total([h \in L \ N |-> FL[h]]) = 0
    <3> DEFINE rest == [h \in L \ N |-> FL[h]]
    <3>1. ASSUME NEW h \in L \ N PROVE rest[h] = 0
      <4>1. h \in Hour /\ h \in Int /\ top.hour \in Int /\ ~(h <= top.hour) /\ \E g \in LiveHours : h <= g
        BY <1>1, HourTypes
      <4>2. <<p, h>> \notin DOMAIN read
        BY <1>1, <4>1 DEF FactInv, Follows
      <4>3. MovementIn(read, p, h).delta = 0
        BY <4>2 DEF MovementIn, NoMovement
      <4> QED BY <4>1, <4>3
    <3>2. IsFiniteSet(DOMAIN rest) /\ \A h \in DOMAIN rest : rest[h] = 0
      <4>1. L \ N \in SUBSET Hour
        BY <1>3
      <4>2. DOMAIN rest = L \ N
        OBVIOUS
      <4> HIDE DEF rest, L, N
      <4> QED BY <3>1, <4>1, <4>2, HourTypes
    <3> HIDE DEF rest
    <3> QED BY <3>2, TotalZero DEF rest
  <2>4. [h \in N |-> FL[h]] = Moved
    <3>1. \A h \in N : FL[h] = MovementIn(read, p, h).delta
      BY <1>3
    <3> HIDE DEF FL
    <3> QED BY <3>1
  <2>5. Total(Moved) \in Int
    <3>1. IsFiniteSet(DOMAIN Moved) /\ \A g \in DOMAIN Moved : Moved[g] \in Int
      BY HourTypes, MovementType
    <3> HIDE DEF Moved
    <3> QED BY <3>1, TotalType
  <2>6. Total(FL) = Total(Moved) + Total([h \in L \ N |-> FL[h]])
    BY <2>2, <2>4, Zenon
  <2> HIDE DEF FL, Moved, L, N
  <2>7. Total(FL) = Total(Moved)
    BY <2>3, <2>5, <2>6
  <2> QED BY <2>7 DEF FL
<1>7. [h \in Hour \ L |-> F[h]] = [h \in AfterPublished(p) |-> speed[h]]
  <2>1. Hour \ L = AfterPublished(p)
    <3>1. \A h \in Hour, g \in LiveHours : h \in Int /\ g \in Int /\ (~(h <= g) <=> g < h)
      BY <1>2, HourTypes
    <3> QED BY <3>1, Zenon DEF AfterPublished
  <2>2. \A h \in Hour \ L : F[h] = speed[h]
    OBVIOUS
  <2> HIDE DEF F, L
  <2> QED BY <2>1, <2>2
<1>8. CurrentOnHand(p, speed) = top.onHand + Total([h \in AfterPublished(p) |-> speed[h]])
  BY DEF CurrentOnHand, top
<1>9. /\ OpeningQty(p) \in Int /\ Total(Moved) \in Int
      /\ Total([h \in AfterPublished(p) |-> speed[h]]) \in Int
  <2> DEFINE A == [h \in AfterPublished(p) |-> speed[h]]
  <2>1. IsFiniteSet(DOMAIN A) /\ \A h \in DOMAIN A : A[h] \in Int
    BY HourTypes DEF AfterPublished
  <2>2. IsFiniteSet(DOMAIN Moved) /\ \A g \in DOMAIN Moved : Moved[g] \in Int
    BY HourTypes, MovementType
  <2>3. OpeningQty(p) \in Int
    BY OpeningType
  <2> HIDE DEF A, Moved
  <2>4. Total(A) \in Int /\ Total(Moved) \in Int
    BY <2>1, <2>2, TotalType
  <2> QED BY <2>3, <2>4 DEF A
<1>10. Total(F) = Total(Moved) + Total([h \in AfterPublished(p) |-> speed[h]])
  BY <1>5, <1>6, <1>7, Zenon
<1> DEFINE a == OpeningQty(p)
           b == Total(Moved)
           c == Total([h \in AfterPublished(p) |-> speed[h]])
<1>11. CurrentOnHand(p, speed) = (a + b) + c /\ Total(F) = b + c /\ a \in Int /\ b \in Int /\ c \in Int
  BY <1>1, <1>8, <1>9, <1>10, Zenon
<1>12. CurrentOnHand(p, speed) = a + Total(F)
  <2> HIDE DEF a, b, c, F
  <2> QED BY <1>11
<1> QED BY <1>12

-------------------------------------------------------------------------------
(* Days and stockout hours *)

(* The balance a pair has at the end of an hour, in any marts.             *)
Held(m, p, h) ==
  LET rows == {r \in m.fact[p] : r.hour <= h}
  IN  IF rows = {} THEN OpeningQty(p) ELSE Latest(rows).onHand

DaysIn(m) == UNION {{DayOf(r.hour) : r \in m.fact[p]} : p \in Product}

LEMMA DaysTypes ==
  ASSUME NEW m, Keyed(m)
  PROVE  /\ DaysIn(m) \in SUBSET Day /\ Day \in SUBSET Nat /\ DaysIn(m) \in SUBSET Int
         /\ IsFiniteSet(DaysIn(m))
         /\ DaysIn(m) # {} => /\ Min(DaysIn(m)) \in Nat /\ Max(DaysIn(m)) \in Nat
                              /\ \A d \in DaysIn(m) : Min(DaysIn(m)) <= d /\ d <= Max(DaysIn(m))
<1>1. DaysIn(m) \in SUBSET Day
  BY DEF DaysIn, Keyed, Day, DayOf
<1>2. Day \in SUBSET Nat
  <2>1. \A h \in Hour : h \div HoursPerDay \in Nat
    BY HourTypes, Calendar DEF DayOf
  <2> QED BY <2>1 DEF Day
<1>3. IsFiniteSet(Day)
  <2> DEFINE f == [h \in Hour |-> h \div HoursPerDay]
  <2>1. f \in Surjection(Hour, Day)
    BY DEF Surjection, Day
  <2> QED BY <2>1, HourTypes, FS_Surjection
<1>4. IsFiniteSet(DaysIn(m)) /\ DaysIn(m) \in SUBSET Int
  <2>1. IsFiniteSet(DaysIn(m))
    BY <1>1, <1>3, FS_Subset
  <2>2. \A x \in DaysIn(m) : x \in Nat
    BY <1>1, <1>2
  <2>3. \A x \in DaysIn(m) : x \in Int
    BY <2>2
  <2> QED BY <2>1, <2>3
<1>5. DaysIn(m) # {} => /\ Min(DaysIn(m)) \in DaysIn(m) /\ Max(DaysIn(m)) \in DaysIn(m)
                        /\ \A d \in DaysIn(m) : Min(DaysIn(m)) <= d /\ d <= Max(DaysIn(m))
  BY <1>4, MinIn, MaxIn
<1> QED BY <1>1, <1>2, <1>4, <1>5

LEMMA DaysAre ==
  ASSUME FactInv
  PROVE  /\ FactDays = DaysIn(pending)
         /\ Days = IF DaysIn(pending) = {} THEN {} ELSE Min(DaysIn(pending))..Max(DaysIn(pending))
         /\ Days \subseteq Nat
<1>1. \A p \in Product : Existing(p) = pending.fact[p]
  BY AllExist DEF FactInv
<1>2. FactDays = DaysIn(pending)
  BY <1>1 DEF FactDays, DaysIn
<1>3. Days = IF DaysIn(pending) = {} THEN {} ELSE Min(DaysIn(pending))..Max(DaysIn(pending))
  BY <1>2 DEF Days
<1>4. Days \subseteq Nat
  BY <1>3, DaysTypes DEF FactInv
<1> QED BY <1>2, <1>3, <1>4

(* A day starts with the last balance before it, also when the day before  *)
(* is not on the calendar.                                                 *)
LEMMA StartingIs ==
  ASSUME FactInv, NEW p \in Product, NEW d \in Days
  PROVE  LET before == {r \in pending.fact[p] : r.hour < HoursPerDay * d}
         IN  Starting(p, d) = IF before = {} THEN OpeningQty(p) ELSE Latest(before).onHand
<1> DEFINE before == {r \in pending.fact[p] : r.hour < HoursPerDay * d}
<1>1. d \in Nat /\ Existing(p) = pending.fact[p]
  BY DaysAre, AllExist DEF FactInv
<1>2. \A r \in pending.fact[p] : r.hour \in Nat /\ DayOf(r.hour) \in Nat /\ DayOf(r.hour) \in DaysIn(pending)
  BY HourTypes, Calendar DEF FactInv, Keyed, DaysIn
<1>3. \A r \in pending.fact[p] : r.hour < HoursPerDay * d <=> DayOf(r.hour) <= d - 1
  BY <1>1, <1>2, DayIs
<1>4. before = {r \in Existing(p) : DayOf(r.hour) <= d - 1}
  BY <1>1, <1>3
<1>5. CASE d - 1 \in Days
  BY <1>4, <1>5 DEF Starting, Ending
<1>6. CASE d - 1 \notin Days
  <2> DEFINE D == DaysIn(pending)
  <2>1. D # {} /\ d \in Min(D)..Max(D) /\ d - 1 \notin Min(D)..Max(D)
    BY <1>6, DaysAre
  <2>2. Min(D) \in Nat /\ Max(D) \in Nat /\ \A e \in D : Min(D) <= e
    BY <2>1, DaysTypes DEF FactInv
  <2>3. d = Min(D)
    <3> DEFINE a == Min(D)
               b == Max(D)
    <3>1. a \in Nat /\ b \in Nat /\ a <= d /\ d <= b /\ ~(a <= d - 1 /\ d - 1 <= b)
      <4>1. a \in Nat /\ b \in Nat
        BY <2>2
      <4>2. d \in a..b /\ d - 1 \notin a..b
        BY <2>1
      <4> HIDE DEF a, b
      <4> QED BY <1>1, <4>1, <4>2
    <3> HIDE DEF a, b
    <3>2. d = a
      BY <1>1, <3>1
    <3> QED BY <3>2 DEF a
  <2>4. \A r \in pending.fact[p] : ~(DayOf(r.hour) <= d - 1)
    <3> HIDE DEF D
    <3>1. \A r \in pending.fact[p] : DayOf(r.hour) \in D /\ DayOf(r.hour) \in Nat
      BY <1>2 DEF D
    <3>2. \A r \in pending.fact[p] : d <= DayOf(r.hour)
      BY <2>2, <2>3, <3>1
    <3> QED BY <1>1, <3>1, <3>2
  <2>5. before = {}
    BY <1>3, <2>4
  <2> QED BY <1>6, <2>5 DEF Starting
<1> QED BY <1>5, <1>6

(* A segment is held until the next one, or the end of the day.            *)
After(t, s) == t.hour > s.hour \/ (t.hour = s.hour /\ t.order > s.order)

LEMMA SegmentHeld ==
  ASSUME NEW segments, \A t \in segments : t.hour \in 0..(HoursPerDay - 1),
         NEW s \in segments
  PROVE  /\ HoursHeld(s, segments) \in Nat
         /\ s.hour + HoursHeld(s, segments) <= HoursPerDay
         /\ \A t \in segments : After(t, s) => s.hour + HoursHeld(s, segments) <= t.hour
         /\ \/ s.hour + HoursHeld(s, segments) = HoursPerDay
            \/ \E t \in segments : After(t, s) /\ s.hour + HoursHeld(s, segments) = t.hour
<1> DEFINE later == {t \in segments : t.hour > s.hour \/ (t.hour = s.hour /\ t.order > s.order)}
           T == {t.hour : t \in later} \cup {HoursPerDay}
<1>1. HoursPerDay \in Nat /\ s.hour \in Nat /\ s.hour < HoursPerDay
  BY MartsAssumption
<1>2. T \in SUBSET (0..HoursPerDay) /\ T # {} /\ \A x \in T : s.hour <= x
  BY <1>1
<1>3. T \in SUBSET Int /\ IsFiniteSet(T)
  <2>1. IsFiniteSet(0..HoursPerDay)
    BY <1>1, FS_Interval
  <2> HIDE DEF T
  <2>2. T \in SUBSET Int
    BY <1>2
  <2> QED BY <1>2, <2>1, <2>2, FS_Subset
<1>4. Min(T) \in T /\ \A y \in T : Min(T) <= y
  <2> HIDE DEF T
  <2> QED BY <1>2, <1>3, MinIn
<1>5. HoursHeld(s, segments) = Min(T) - s.hour
  BY DEF HoursHeld
<1>6. \A t \in segments : After(t, s) => t.hour \in T
  BY DEF After
<1>7. \A x \in T : x = HoursPerDay \/ \E t \in segments : After(t, s) /\ x = t.hour
  BY DEF After
<1> HIDE DEF T
<1> DEFINE m == Min(T)
<1>8. m \in T /\ m \in Int /\ s.hour <= m /\ m <= HoursPerDay /\ (\A y \in T : m <= y)
  <2>1. m \in T /\ (\A y \in T : m <= y)
    BY <1>4
  <2> HIDE DEF m
  <2>2. m \in 0..HoursPerDay /\ s.hour <= m
    BY <1>2, <2>1
  <2> QED BY <1>1, <2>1, <2>2
<1>9. s.hour + HoursHeld(s, segments) = m
  BY <1>1, <1>5, <1>8
<1>10. HoursHeld(s, segments) = m - s.hour
  BY <1>5
<1> HIDE DEF m
<1>11. HoursHeld(s, segments) \in Nat
  BY <1>1, <1>8, <1>10
<1> QED BY <1>6, <1>7, <1>8, <1>9, <1>11

LEMMA SegmentsAre ==
  ASSUME FactInv, NEW p \in Product, NEW d \in Days
  PROVE  /\ IsFiniteSet(Segments(p, d))
         /\ \A s \in Segments(p, d) : s.hour \in 0..(HoursPerDay - 1) /\ s.order \in {0, 1}
         /\ \A s, t \in Segments(p, d) : s.hour = t.hour /\ s.order = t.order => s = t
<1> DEFINE M == MovedOn(p, d)
           seg(r) == [hour |-> HourOfDay(r.hour), order |-> 1, qty |-> r.onHand]
           first == [hour |-> 0, order |-> 0, qty |-> Starting(p, d)]
           R == {seg(r) : r \in M}
<1>1. Segments(p, d) = {first} \cup R
  BY DEF Segments
<1>2. HoursPerDay \in Nat \ {0} /\ d \in Nat /\ Existing(p) = pending.fact[p]
  BY MartsAssumption, DaysAre, AllExist DEF FactInv
<1>3. \A r \in M : /\ r \in pending.fact[p] /\ r.hour \in Nat /\ DayOf(r.hour) = d
                   /\ HourOfDay(r.hour) \in 0..(HoursPerDay - 1)
                   /\ r.hour = HoursPerDay * d + HourOfDay(r.hour)
  BY <1>2, HourTypes, Calendar DEF MovedOn, FactInv, Keyed
<1>4. IsFiniteSet(R)
  <2>1. IsFiniteSet(M)
    <3>1. M \in SUBSET pending.fact[p]
      BY <1>3
    <3> QED BY <3>1, RowsFinite, FS_Subset DEF FactInv
  <2> DEFINE f == [r \in M |-> seg(r)]
  <2>2. f \in Surjection(M, R)
    BY DEF Surjection
  <2> HIDE DEF f, R, M
  <2> QED BY <2>1, <2>2, FS_Surjection
<1>5. IsFiniteSet(Segments(p, d))
  <2> HIDE DEF R, first
  <2>1. IsFiniteSet({first})
    BY FS_Singleton
  <2>2. IsFiniteSet({first} \cup R)
    BY <1>4, <2>1, FS_Union
  <2> QED BY <1>1, <2>2
<1>6. \A s \in Segments(p, d) : s.hour \in 0..(HoursPerDay - 1) /\ s.order \in {0, 1}
  BY <1>1, <1>2, <1>3
<1>7. ASSUME NEW s \in Segments(p, d), NEW t \in Segments(p, d), s.hour = t.hour, s.order = t.order
      PROVE  s = t
  <2>1. CASE s = first
    BY <1>1, <1>7, <2>1
  <2>2. CASE s # first
    <3>1. PICK r \in M : s = seg(r)
      BY <1>1, <2>2
    <3>2. PICK q \in M : t = seg(q)
      BY <1>1, <1>7, <3>1
    <3>3. HourOfDay(r.hour) = HourOfDay(q.hour)
      BY <1>7, <3>1, <3>2
    <3>4. r.hour = q.hour
      BY <1>3, <3>3
    <3>5. r = q
      BY <1>3, <3>4 DEF FactInv, Keyed
    <3> QED BY <3>1, <3>2, <3>5
  <2> QED BY <2>1, <2>2
<1> QED BY <1>5, <1>6, <1>7

(* Every hour of a day is in the segment of the balance held in it.        *)
LEMMA SegmentOfHour ==
  ASSUME FactInv, NEW p \in Product, NEW d \in Days, NEW h \in 0..(HoursPerDay - 1)
  PROVE  \E s \in Segments(p, d) :
           /\ s.hour <= h /\ h < s.hour + HoursHeld(s, Segments(p, d))
           /\ s.qty = Held(pending, p, HoursPerDay * d + h)
<1> DEFINE M == MovedOn(p, d)
           seg(r) == [hour |-> HourOfDay(r.hour), order |-> 1, qty |-> r.onHand]
           first == [hour |-> 0, order |-> 0, qty |-> Starting(p, d)]
           S == Segments(p, d)
           upto == {r \in M : HourOfDay(r.hour) <= h}
           H == HoursPerDay * d + h
           rows == {r \in pending.fact[p] : r.hour <= H}
<1>1. S = {first} \cup {seg(r) : r \in M}
  BY DEF Segments
<1>2. /\ HoursPerDay \in Nat \ {0} /\ d \in Nat /\ Existing(p) = pending.fact[p]
      /\ HoursPerDay * d \in Nat /\ h \in Nat /\ h < HoursPerDay /\ H \in Nat
  <2>1. HoursPerDay \in Nat \ {0} /\ d \in Nat /\ Existing(p) = pending.fact[p]
    BY MartsAssumption, DaysAre, AllExist DEF FactInv
  <2>2. HoursPerDay * d \in Nat
    BY <2>1, DayBounds
  <2>3. h \in Nat /\ h < HoursPerDay
    BY <2>1
  <2> QED BY <2>1, <2>2, <2>3
<1>3. \A r \in M : /\ r \in pending.fact[p] /\ r.hour \in Nat /\ DayOf(r.hour) = d
                   /\ HourOfDay(r.hour) \in 0..(HoursPerDay - 1)
                   /\ r.hour = HoursPerDay * d + HourOfDay(r.hour)
  BY <1>2, HourTypes, Calendar DEF MovedOn, FactInv, Keyed
<1>4. \A r \in M : r.hour <= H <=> HourOfDay(r.hour) <= h
  <2> DEFINE b == HoursPerDay * d
  <2>1. \A r \in M : HourOfDay(r.hour) \in Nat /\ r.hour = b + HourOfDay(r.hour)
    BY <1>3
  <2>2. b \in Nat /\ h \in Nat /\ H = b + h
    BY <1>2
  <2> HIDE DEF b, M, H
  <2> QED BY <2>1, <2>2
<1>5. \A r \in pending.fact[p] : r.hour \in Nat /\ (r \in M \/ r.hour < HoursPerDay * d \/ ~(r.hour <= H))
  <2> SUFFICES ASSUME NEW r \in pending.fact[p], r \notin M, r.hour <= H
               PROVE  r.hour \in Nat /\ r.hour < HoursPerDay * d
    BY HourTypes DEF FactInv, Keyed
  <2>1. r.hour \in Nat /\ DayOf(r.hour) # d
    BY <1>2, HourTypes DEF FactInv, Keyed, MovedOn
  <2>2. r.hour \notin DayHours(d)
    BY <1>2, <2>1, DayIs
  <2>3. r.hour <= HoursPerDay * (d + 1) - 1
    BY <1>2, <2>1, DayBounds
  <2> QED BY <1>2, <2>1, <2>2, <2>3, DayBounds DEF DayHours
<1>6. \A r \in pending.fact[p] : r.hour < HoursPerDay * d => r.hour <= H
  BY <1>2, <1>5
<1>7. \A s \in S : s.hour \in 0..(HoursPerDay - 1)
  BY SegmentsAre
<1>8. CASE upto = {}
  <2>1. first \in S /\ first.hour = 0
    BY <1>1
  <2>2. \A t \in S : After(t, first) => \E r \in M : t = seg(r)
    BY <1>1 DEF After
  <2>3. \A t \in S : After(t, first) => h < t.hour /\ t.hour \in Nat
    <3> SUFFICES ASSUME NEW t \in S, After(t, first) PROVE h < t.hour /\ t.hour \in Nat
      OBVIOUS
    <3>1. PICK r \in M : t = seg(r)
      BY <2>2
    <3>2. ~(HourOfDay(r.hour) <= h) /\ HourOfDay(r.hour) \in Nat
      BY <1>3, <1>8
    <3> QED BY <1>2, <3>1, <3>2
  <2>4. h < first.hour + HoursHeld(first, S)
    <3> HIDE DEF first, S
    <3>1. \/ first.hour + HoursHeld(first, S) = HoursPerDay
          \/ \E t \in S : After(t, first) /\ first.hour + HoursHeld(first, S) = t.hour
      BY <1>7, <2>1, SegmentHeld
    <3> QED BY <1>2, <2>3, <3>1
  <2>5. rows = {r \in pending.fact[p] : r.hour < HoursPerDay * d}
    <3>1. \A r \in M : ~(r.hour <= H)
      BY <1>4, <1>8
    <3> QED BY <1>5, <1>6, <3>1
  <2>6. Held(pending, p, H) = first.qty
    <3>1. first.qty = IF rows = {} THEN OpeningQty(p) ELSE Latest(rows).onHand
      BY <2>5, StartingIs
    <3> QED BY <3>1 DEF Held
  <2>7. first.hour <= h
    BY <1>2, <2>1
  <2> HIDE DEF first, S, H
  <2>8. first \in S /\ first.hour <= h /\ h < first.hour + HoursHeld(first, S) /\ first.qty = Held(pending, p, H)
    BY <2>1, <2>4, <2>6, <2>7
  <2> QED BY <2>8 DEF S, H
<1>9. CASE upto # {}
  <2> DEFINE r == Latest(upto)
  <2>1. r \in upto /\ \A q \in upto : q.hour <= r.hour
    <3>1. upto \in SUBSET pending.fact[p]
      BY <1>3
    <3> HIDE DEF upto
    <3> QED BY <1>9, <3>1, LatestIn DEF FactInv
  <2> HIDE DEF r
  <2>2. /\ r \in M /\ HourOfDay(r.hour) <= h /\ r.hour <= H /\ r \in pending.fact[p]
        /\ HourOfDay(r.hour) \in Nat /\ r.hour \in Nat
    BY <1>3, <1>4, <2>1
  <2> DEFINE s == seg(r)
  <2>3. s \in S /\ s.hour = HourOfDay(r.hour) /\ s.order = 1 /\ s.qty = r.onHand
    BY <1>1, <2>2
  <2>4. \A t \in S : After(t, s) => h < t.hour /\ t.hour \in Nat
    <3> SUFFICES ASSUME NEW t \in S, After(t, s), ~(h < t.hour) PROVE FALSE
      BY <1>7
    <3>1. t.hour \in Nat /\ t.hour <= h
      BY <1>2, <1>7
    <3>2. t # first /\ (t.order = 1 => t.hour > s.hour)
      BY <2>2, <2>3 DEF After
    <3>3. PICK q \in M : t = seg(q)
      BY <1>1, <3>2
    <3>4. HourOfDay(q.hour) > HourOfDay(r.hour) /\ HourOfDay(q.hour) <= h
      BY <2>3, <3>1, <3>2, <3>3
    <3>5. q.hour <= r.hour
      BY <2>1, <3>4
    <3> DEFINE b == HoursPerDay * d
               x == HourOfDay(q.hour)
               y == HourOfDay(r.hour)
    <3>6. q.hour = b + x /\ r.hour = b + y /\ b \in Nat /\ x \in Nat /\ y \in Nat /\ x > y
      BY <1>2, <1>3, <2>2, <3>4
    <3> HIDE DEF b, x, y
    <3> QED BY <3>5, <3>6
  <2>5. h < s.hour + HoursHeld(s, S)
    <3> HIDE DEF s, S
    <3>1. \/ s.hour + HoursHeld(s, S) = HoursPerDay
          \/ \E t \in S : After(t, s) /\ s.hour + HoursHeld(s, S) = t.hour
      BY <1>7, <2>3, SegmentHeld
    <3> QED BY <1>2, <2>4, <3>1
  <2>6. Held(pending, p, H) = r.onHand
    <3> DEFINE top == Latest(rows)
    <3>1. r \in rows /\ rows # {} /\ rows \in SUBSET pending.fact[p]
      BY <2>2
    <3>2. top \in rows /\ \A q \in rows : q.hour <= top.hour
      <4> HIDE DEF rows
      <4> QED BY <3>1, LatestIn DEF FactInv
    <3>3. top \in pending.fact[p] /\ top.hour <= H /\ r.hour <= top.hour
      BY <3>1, <3>2
    <3> HIDE DEF top
    <3>4. HoursPerDay * d <= r.hour
      <4> DEFINE b == HoursPerDay * d
                 y == HourOfDay(r.hour)
      <4>1. r.hour = b + y /\ b \in Nat /\ y \in Nat
        BY <1>2, <1>3, <2>2
      <4> HIDE DEF b, y
      <4>2. b <= r.hour
        BY <4>1
      <4> QED BY <4>2 DEF b
    <3>5. top \in M
      <4>1. top.hour \in Nat /\ ~(top.hour < HoursPerDay * d)
        BY <1>2, <1>5, <2>2, <3>3, <3>4
      <4> QED BY <1>5, <3>3, <4>1
    <3>6. top \in upto
      BY <1>4, <3>3, <3>5
    <3>7. top.hour <= r.hour /\ top.hour \in Nat
      BY <1>3, <2>1, <3>5, <3>6
    <3>8. top = r
      <4>1. top.hour = r.hour
        BY <2>2, <3>3, <3>7
      <4> QED BY <2>2, <3>3, <4>1 DEF FactInv, Keyed
    <3> QED BY <3>1, <3>8 DEF Held, top
  <2>7. s.hour <= h
    BY <2>2, <2>3
  <2> HIDE DEF s, S, H
  <2>8. s \in S /\ s.hour <= h /\ h < s.hour + HoursHeld(s, S) /\ s.qty = Held(pending, p, H)
    BY <2>3, <2>5, <2>6, <2>7
  <2> QED BY <2>8 DEF S, H
<1> QED BY <1>8, <1>9

(* Segments of different hours do not overlap. *)
LEMMA SegmentsApart ==
  ASSUME FactInv, NEW p \in Product, NEW d \in Days,
         NEW s \in Segments(p, d), NEW t \in Segments(p, d), s # t
  PROVE  \/ s.hour + HoursHeld(s, Segments(p, d)) <= t.hour
         \/ t.hour + HoursHeld(t, Segments(p, d)) <= s.hour
<1> DEFINE S == Segments(p, d)
<1>1. /\ \A u \in S : u.hour \in 0..(HoursPerDay - 1) /\ u.order \in {0, 1}
      /\ ~(s.hour = t.hour /\ s.order = t.order)
  BY SegmentsAre
<1>2. s.hour \in Nat /\ t.hour \in Nat /\ s.order \in Nat /\ t.order \in Nat
  BY <1>1
<1>3. After(s, t) \/ After(t, s)
  BY <1>1, <1>2 DEF After
<1> HIDE DEF S
<1>4. After(t, s) => s.hour + HoursHeld(s, S) <= t.hour
  BY <1>1, SegmentHeld DEF S
<1>5. After(s, t) => t.hour + HoursHeld(t, S) <= s.hour
  BY <1>1, SegmentHeld DEF S
<1> QED BY <1>3, <1>4, <1>5 DEF S

(* stockout_hours counts the hours of the day that end with nothing left.  *)
LEMMA StockoutIs ==
  ASSUME FactInv, NEW p \in Product, NEW d \in Days
  PROVE  /\ Stockout(p, d) = Cardinality({h \in DayHours(d) : Held(pending, p, h) <= 0})
         /\ Stockout(p, d) \in 0..HoursPerDay
<1> DEFINE Segs == Segments(p, d)
           b == HoursPerDay * d
           S == {t \in Segs : t.qty <= 0}
           f == [s \in S |-> HoursHeld(s, Segs)]
           P == [s \in S |-> (b + s.hour)..(b + s.hour + f[s] - 1)]
           Empties == {h \in DayHours(d) : Held(pending, p, h) <= 0}
<1>1. HoursPerDay \in Nat \ {0} /\ d \in Nat /\ b \in Nat
  <2>1. HoursPerDay \in Nat \ {0} /\ d \in Nat
    BY MartsAssumption, DaysAre
  <2> QED BY <2>1, DayBounds
<1>2. /\ IsFiniteSet(Segs)
      /\ \A s \in Segs : s.hour \in 0..(HoursPerDay - 1)
  BY SegmentsAre
<1>3. \A s \in Segs : /\ s.hour \in Nat /\ HoursHeld(s, Segs) \in Nat
                      /\ s.hour + HoursHeld(s, Segs) <= HoursPerDay
  <2> HIDE DEF Segs
  <2> QED BY <1>1, <1>2, SegmentHeld
<1>4. IsFiniteSet(S) /\ S \in SUBSET Segs
  BY <1>2, FS_Subset
<1>5. f \in [S -> Int] /\ \A s \in S : f[s] = HoursHeld(s, Segs) /\ f[s] \in Nat
  BY <1>3
<1>6. \A s \in S : P[s] = (b + s.hour)..(b + s.hour + f[s] - 1)
  OBVIOUS
<1> HIDE DEF b, f, P, Segs
<1>7. \A s \in S : IsFiniteSet(P[s]) /\ Cardinality(P[s]) = f[s]
  <2> SUFFICES ASSUME NEW s \in S PROVE IsFiniteSet(P[s]) /\ Cardinality(P[s]) = f[s]
    OBVIOUS
  <2> DEFINE lo == b + s.hour
             hi == b + s.hour + f[s] - 1
  <2>1. lo \in Int /\ hi \in Int /\ hi - lo + 1 = f[s] /\ f[s] \in Nat
    BY <1>1, <1>3, <1>4, <1>5
  <2>2. P[s] = lo..hi
    BY <1>6
  <2> HIDE DEF lo, hi
  <2>3. IsFiniteSet(lo..hi) /\ Cardinality(lo..hi) = IF lo > hi THEN 0 ELSE hi - lo + 1
    BY <2>1, FS_Interval
  <2>4. Cardinality(lo..hi) = f[s]
    BY <2>1, <2>3
  <2> QED BY <2>2, <2>3, <2>4
<1>8. \A s, t \in S : s # t => P[s] \cap P[t] = {}
  <2> SUFFICES ASSUME NEW s \in S, NEW t \in S, s # t, NEW x \in P[s] \cap P[t] PROVE FALSE
    OBVIOUS
  <2>1. s.hour + f[s] <= t.hour \/ t.hour + f[t] <= s.hour
    BY <1>4, <1>5, SegmentsApart DEF Segs
  <2>2. /\ s.hour \in Nat /\ t.hour \in Nat /\ f[s] \in Nat /\ f[t] \in Nat
        /\ x \in (b + s.hour)..(b + s.hour + f[s] - 1) /\ x \in (b + t.hour)..(b + t.hour + f[t] - 1)
    BY <1>3, <1>4, <1>5, <1>6
  <2> QED BY <1>1, <2>1, <2>2
<1>9. \A h \in DayHours(d) : h - b \in 0..(HoursPerDay - 1) /\ h = b + (h - b)
  BY <1>1, DayBounds DEF DayHours, b
<1>10. \A h \in DayHours(d) : \E s \in Segs : /\ h \in (b + s.hour)..(b + s.hour + HoursHeld(s, Segs) - 1)
                                              /\ s.qty = Held(pending, p, h)
  <2> SUFFICES ASSUME NEW h \in DayHours(d)
               PROVE  \E s \in Segs : /\ h \in (b + s.hour)..(b + s.hour + HoursHeld(s, Segs) - 1)
                                      /\ s.qty = Held(pending, p, h)
    OBVIOUS
  <2> DEFINE x == h - b
  <2>1. x \in 0..(HoursPerDay - 1) /\ h = b + x
    BY <1>9
  <2> HIDE DEF x
  <2>2. PICK s \in Segs : s.hour <= x /\ x < s.hour + HoursHeld(s, Segs) /\ s.qty = Held(pending, p, b + x)
    BY <2>1, SegmentOfHour DEF Segs, b
  <2>3. h \in (b + s.hour)..(b + s.hour + HoursHeld(s, Segs) - 1)
    <3>1. s.hour \in Nat /\ HoursHeld(s, Segs) \in Nat /\ x \in Nat
      BY <1>3, <2>1
    <3> QED BY <1>1, <2>1, <2>2, <3>1
  <2> QED BY <2>1, <2>2, <2>3
<1>11. UNION {P[s] : s \in S} = Empties
  <2>1. ASSUME NEW h \in Empties PROVE h \in UNION {P[s] : s \in S}
    <3>1. PICK s \in Segs : /\ h \in (b + s.hour)..(b + s.hour + HoursHeld(s, Segs) - 1)
                            /\ s.qty = Held(pending, p, h)
      BY <1>10, <2>1
    <3>2. s \in S
      BY <2>1, <3>1
    <3>3. h \in P[s]
      BY <1>5, <1>6, <3>1, <3>2
    <3> QED BY <3>2, <3>3
  <2>2. ASSUME NEW s \in S, NEW h \in P[s] PROVE h \in Empties
    <3>1. /\ h \in (b + s.hour)..(b + s.hour + HoursHeld(s, Segs) - 1) /\ s \in Segs
          /\ s.hour \in Nat /\ HoursHeld(s, Segs) \in Nat /\ s.hour + HoursHeld(s, Segs) <= HoursPerDay
      BY <1>3, <1>4, <1>5, <1>6, <2>2
    <3>2. h \in DayHours(d)
      <4>1. h \in b..(b + (HoursPerDay - 1))
        BY <1>1, <3>1
      <4> QED BY <1>1, <4>1, DayBounds DEF DayHours, b
    <3>3. PICK t \in Segs : /\ h \in (b + t.hour)..(b + t.hour + HoursHeld(t, Segs) - 1)
                            /\ t.qty = Held(pending, p, h)
      BY <1>10, <3>2
    <3>4. s = t
      <4> SUFFICES ASSUME s # t PROVE FALSE
        OBVIOUS
      <4>1. s.hour + HoursHeld(s, Segs) <= t.hour \/ t.hour + HoursHeld(t, Segs) <= s.hour
        BY <3>1, <3>3, SegmentsApart DEF Segs
      <4>2. t.hour \in Nat /\ HoursHeld(t, Segs) \in Nat
        BY <1>3
      <4> QED BY <1>1, <3>1, <3>3, <4>1, <4>2
    <3>5. s.qty <= 0
      BY <2>2
    <3> QED BY <3>2, <3>3, <3>4, <3>5
  <2> QED BY <2>1, <2>2
<1>12. Total(f) = Cardinality(Empties)
  <2> HIDE DEF S, Empties
  <2>1. Total(f) = Cardinality(UNION {P[x] : x \in S})
    <3>1. \A x \in S : IsFiniteSet(P[x]) /\ Cardinality(P[x]) <= f[x]
      BY <1>5, <1>7
    <3>2. (\A x \in S : Cardinality(P[x]) = f[x]) /\ (\A x, y \in S : x # y => P[x] \cap P[y] = {})
      BY <1>7, <1>8
    <3>3. IsFiniteSet(S) /\ f \in [S -> Int]
      BY <1>4, <1>5
    <3>4. (\A x \in S : Cardinality(P[x]) = f[x]) /\ (\A x, y \in S : x # y => P[x] \cap P[y] = {})
             => Total(f) = Cardinality(UNION {P[x] : x \in S})
      BY <3>1, <3>3, TotalOfParts
    <3> QED BY <3>2, <3>4, Zenon
  <2> QED BY <1>11, <2>1
<1>13. Stockout(p, d) = Total(f)
  BY DEF Stockout, f, Segs
<1>14. Cardinality(Empties) \in 0..HoursPerDay
  <2>1. IsFiniteSet(b..(b + (HoursPerDay - 1))) /\ Cardinality(b..(b + (HoursPerDay - 1))) = HoursPerDay
    <3> DEFINE hi == b + (HoursPerDay - 1)
    <3>1. hi \in Int /\ b \in Int /\ ~(b > hi) /\ hi - b + 1 = HoursPerDay
      BY <1>1
    <3> HIDE DEF hi
    <3>2. IsFiniteSet(b..hi) /\ Cardinality(b..hi) = hi - b + 1
      BY <3>1, FS_Interval
    <3> QED BY <3>1, <3>2 DEF hi
  <2>2. DayHours(d) = b..(b + (HoursPerDay - 1))
    BY <1>1, DayBounds DEF DayHours, b
  <2>3. IsFiniteSet(DayHours(d)) /\ Cardinality(DayHours(d)) = HoursPerDay /\ Empties \in SUBSET DayHours(d)
    BY <2>1, <2>2
  <2> HIDE DEF Empties
  <2>4. IsFiniteSet(Empties) /\ Cardinality(Empties) <= HoursPerDay
    BY <2>3, FS_Subset
  <2>5. Cardinality(Empties) \in Nat
    BY <2>4, FS_CardinalityType
  <2> QED BY <1>1, <2>4, <2>5
<1> QED BY <1>12, <1>13, <1>14, Zenon

-------------------------------------------------------------------------------
(* What the marts are made from: positions for every pair and day between  *)
(* the first and the last of the fact, a rollup for every key of a day.    *)

Grid(m) ==
  IF DaysIn(m) = {} THEN {}
  ELSE {p \in Product : m.fact[p] # {} \/ p \in DOMAIN Opening}
         \X (Min(DaysIn(m))..Max(DaysIn(m)))

PositionFor(m) ==
  /\ DOMAIN m.position = Grid(m)
  /\ \A x \in Grid(m) :
       /\ m.position[x].ending = Held(m, x[1], HoursPerDay * (x[2] + 1) - 1)
       /\ m.position[x].stockout = Cardinality({h \in DayHours(x[2]) : Held(m, x[1], h) <= 0})
       /\ m.position[x].moved <=> \E r \in m.fact[x[1]] : r.hour \in DayHours(x[2])

RollupFor(m) ==
  \A p \in Product : \A r \in m.fact[p] :
    LET row == m.rollup[<<p, DayOf(r.hour), r.key>>]
    IN  /\ row.minimum <= Available(r.onHand)
        /\ (\A q \in DayRows(m, p, DayOf(r.hour), r.key) : q.hour <= r.hour) => row.ending = r.onHand

(* Positions are never for a day or a pair the fact no longer reaches: its *)
(* hours are never taken back.                                             *)
ServingInv ==
  /\ IsHourly(hourly) /\ IsHourly(read)
  /\ built \subseteq {"fact", "position", "rollup"}
  /\ IsMarts(pending) /\ IsMarts(live)
  /\ DOMAIN pending.position \subseteq Grid(pending)
  /\ "position" \in built => PositionFor(pending)
  /\ "rollup" \in built => RollupFor(pending)
  /\ PositionFor(live) /\ RollupFor(live)

(* All of it is a matter of the fact and the mart itself. *)
LEMMA SameFact ==
  ASSUME NEW m, NEW n, n.fact = m.fact
  PROVE  /\ Grid(n) = Grid(m)
         /\ n.position = m.position => (PositionFor(n) <=> PositionFor(m))
         /\ n.rollup = m.rollup => (RollupFor(n) <=> RollupFor(m))
         /\ \A p, h : Held(n, p, h) = Held(m, p, h)
         /\ \A p, d, k : DayRows(n, p, d, k) = DayRows(m, p, d, k)
<1>1. DaysIn(n) = DaysIn(m)
  BY DEF DaysIn
<1>2. Grid(n) = Grid(m)
  BY <1>1 DEF Grid
<1>3. \A p, h : Held(n, p, h) = Held(m, p, h)
  BY DEF Held
<1>4. \A p, d, k : DayRows(n, p, d, k) = DayRows(m, p, d, k)
  BY DEF DayRows
<1>5. n.position = m.position => (PositionFor(n) <=> PositionFor(m))
  BY <1>2, <1>3 DEF PositionFor
<1>6. n.rollup = m.rollup => (RollupFor(n) <=> RollupFor(m))
  BY <1>4 DEF RollupFor
<1> QED BY <1>2, <1>3, <1>4, <1>5, <1>6

LEMMA HeldType ==
  ASSUME NEW m, Keyed(m), IsMarts(m), NEW p \in Product, NEW h
  PROVE  Held(m, p, h) \in Int
<1> DEFINE rows == {r \in m.fact[p] : r.hour <= h}
<1>1. \A r \in m.fact[p] : r.onHand \in Int
  BY DEF IsMarts, FactRow
<1>2. rows # {} => Latest(rows) \in rows
  BY LatestIn
<1> QED BY <1>1, <1>2, OpeningType DEF Held

(* A build never loses an hour, so the calendar and the pairs only grow.   *)
LEMMA HoursStay ==
  ASSUME FactInv, NEW p \in Product, NEW r \in pending.fact[p]
  PROVE  \E c \in Computed(p) : c.hour = r.hour
<1>1. r \in Existing(p)
  BY AllExist DEF FactInv
<1>2. r.hour \in HoursOf(p) /\ r.key \in KeysOf(p, r.hour)
  BY <1>1 DEF HoursOf, KeysOf
<1> DEFINE c == [hour |-> r.hour, key |-> r.key, onHand |-> Balance(hourly, p, r.hour),
                estimated |-> MovementIn(hourly, p, r.hour).estimated]
<1>3. c \in Computed(p)
  BY <1>2 DEF Computed
<1>4. c.hour = r.hour
  OBVIOUS
<1> QED BY <1>3, <1>4

LEMMA GridGrows ==
  ASSUME NEW m, Keyed(m), NEW n, Keyed(n),
         \A p \in Product : \A r \in m.fact[p] : \E c \in n.fact[p] : c.hour = r.hour
  PROVE  Grid(m) \subseteq Grid(n)
<1> SUFFICES ASSUME NEW x \in Grid(m) PROVE x \in Grid(n)
  OBVIOUS
<1> DEFINE D == DaysIn(m)
           E == DaysIn(n)
<1>1. D # {} /\ x \in {p \in Product : m.fact[p] # {} \/ p \in DOMAIN Opening} \X (Min(D)..Max(D))
  BY DEF Grid
<1>2. D \subseteq E
  BY DEF DaysIn
<1>3. E # {} /\ Min(E) \in Nat /\ Max(E) \in Nat /\ \A d \in E : Min(E) <= d /\ d <= Max(E)
  BY <1>1, <1>2, DaysTypes
<1>4. Min(D) \in D /\ Max(D) \in D /\ D \in SUBSET Int
  BY <1>1, DaysTypes, MinIn, MaxIn
<1>5. \A d \in Min(D)..Max(D) : d \in Min(E)..Max(E)
  <2> DEFINE a == Min(D)
             b == Max(D)
             s == Min(E)
             t == Max(E)
  <2>1. s <= a /\ b <= t /\ a \in Int /\ b \in Int /\ s \in Int /\ t \in Int
    <3> HIDE DEF D, E
    <3>1. Min(D) \in E /\ Max(D) \in E /\ Min(D) \in Int /\ Max(D) \in Int
      BY <1>2, <1>4
    <3> QED BY <1>3, <3>1
  <2> HIDE DEF a, b, s, t
  <2>2. \A d \in a..b : d \in s..t
    BY <2>1
  <2> QED BY <2>2 DEF a, b, s, t
<1>6. \A p \in Product : m.fact[p] # {} => n.fact[p] # {}
  OBVIOUS
<1> HIDE DEF D, E
<1>7. x \in {p \in Product : n.fact[p] # {} \/ p \in DOMAIN Opening} \X (Min(E)..Max(E))
  BY <1>1, <1>5, <1>6
<1> QED BY <1>3, <1>7 DEF Grid, E

LEMMA BuildFactServes ==
  ASSUME FactInv, HourlyInv, ServingInv, FactInv', BuildFact
  PROVE  ServingInv'
<1>1. /\ pending'.fact = [p \in Product |-> Computed(p)]
      /\ pending'.position = pending.position /\ pending'.rollup = pending.rollup
      /\ built' = {"fact"}
      /\ version' = version /\ hourly' = hourly /\ live' = live /\ read' = read
  BY UpsertIsRebuild DEF BuildFact, FactInv, IsMartRecord
<1>2. ASSUME NEW p \in Product, NEW r \in Computed(p) PROVE r \in FactRow
  <2>1. \E h \in HoursOf(p) : \E k \in KeysOf(p, h) :
          r = [hour |-> h, key |-> k, onHand |-> Balance(hourly, p, h),
               estimated |-> MovementIn(hourly, p, h).estimated]
    BY DEF Computed
  <2>2. /\ r.hour \in Hour /\ r.key \in 1..version[p]
        /\ r.onHand = Balance(hourly, p, r.hour)
        /\ r.estimated = MovementIn(hourly, p, r.hour).estimated
    BY ComputedRows DEF HourlyInv
  <2>3. version[p] \in 0..MaxVersion /\ MaxVersion \in Nat
    BY MartsAssumption DEF FactInv
  <2>4. r.key \in Version
    BY <2>2, <2>3 DEF Version
  <2>5. r.onHand \in Int /\ r.estimated \in BOOLEAN
    BY <2>2, BalanceType, MovementType DEF ServingInv
  <2>6. r = [hour |-> r.hour, key |-> r.key, onHand |-> r.onHand, estimated |-> r.estimated]
    BY <2>1
  <2> QED BY <2>2, <2>4, <2>5, <2>6 DEF FactRow
<1>3. IsMarts(pending')
  BY <1>1, <1>2 DEF ServingInv, IsMarts
<1>4. Grid(pending) \subseteq Grid(pending')
  <2>1. Keyed(pending) /\ Keyed(pending)'
    BY DEF FactInv
  <2>2. Keyed(pending')
    <3>1. version' = version
      BY <1>1
    <3> QED BY <2>1, <3>1 DEF Keyed
  <2>3. \A p \in Product : \A r \in pending.fact[p] : \E c \in pending'.fact[p] : c.hour = r.hour
    BY <1>1, HoursStay
  <2> QED BY <2>1, <2>2, <2>3, GridGrows
<1> DEFINE n == pending'
           v == live'
<1>5. n.position = pending.position /\ IsMarts(n) /\ Grid(pending) \subseteq Grid(n) /\ v = live
  BY <1>1, <1>3, <1>4
<1>6. DOMAIN n.position \subseteq Grid(n)
  BY <1>5 DEF ServingInv
<1> HIDE DEF n, v
<1>7. /\ IsHourly(hourly') /\ IsHourly(read') /\ IsMarts(n) /\ IsMarts(v)
      /\ PositionFor(v) /\ RollupFor(v)
  BY <1>1, <1>5 DEF ServingInv
<1>8. built' \subseteq {"fact", "position", "rollup"} /\ "position" \notin built' /\ "rollup" \notin built'
  BY <1>1
<1> QED BY <1>6, <1>7, <1>8 DEF ServingInv, n, v

LEMMA UpsertAll ==
  ASSUME NEW S, NEW new, new = [x \in S |-> new[x]], NEW old, DOMAIN old \subseteq S
  PROVE  Upsert(old, new) = new
<1>1. DOMAIN new = S
  OBVIOUS
<1>2. DOMAIN old \cup S = S
  OBVIOUS
<1>3. Upsert(old, new) = [x \in S |-> IF x \in S THEN new[x] ELSE old[x]]
  BY <1>1, <1>2 DEF Upsert
<1>4. [x \in S |-> IF x \in S THEN new[x] ELSE old[x]] = [x \in S |-> new[x]]
  OBVIOUS
<1> QED BY <1>3, <1>4

LEMMA BuildPositionServes ==
  ASSUME FactInv, HourlyInv, ServingInv, BuildPosition
  PROVE  ServingInv'
<1> DEFINE N == [x \in Pairs \X Days |-> [ending   |-> Ending(x[1], x[2]),
                                         stockout |-> Stockout(x[1], x[2]),
                                         moved    |-> MovedOn(x[1], x[2]) # {}]]
<1>1. \A p \in Product : Existing(p) = pending.fact[p]
  BY AllExist DEF FactInv
<1>2. Pairs \X Days = Grid(pending) /\ Pairs \subseteq Product /\ Days \subseteq Nat
  <2>1. Pairs = {p \in Product : pending.fact[p] # {} \/ p \in DOMAIN Opening}
    BY <1>1 DEF Pairs
  <2> QED BY <2>1, DaysAre DEF Grid
<1>3. Upsert(pending.position, N) = N
  <2>1. DOMAIN pending.position \subseteq Pairs \X Days
    BY <1>2 DEF ServingInv
  <2>2. N = [x \in Pairs \X Days |-> N[x]]
    OBVIOUS
  <2> HIDE DEF N
  <2> QED BY <2>1, <2>2, UpsertAll
<1>4. /\ pending'.position = N /\ pending'.fact = pending.fact /\ pending'.rollup = pending.rollup
      /\ version' = version /\ hourly' = hourly /\ live' = live /\ read' = read
      /\ built' = built \cup {"position"}
  <2>1. pending' = [pending EXCEPT !.position = Upsert(@, N)]
    BY DEF BuildPosition
  <2> HIDE DEF N
  <2> QED BY <1>3, <2>1 DEF BuildPosition, FactInv, IsMartRecord
<1>5. ASSUME NEW p \in Pairs, NEW d \in Days
      PROVE  /\ Ending(p, d) = Held(pending, p, HoursPerDay * (d + 1) - 1) /\ Ending(p, d) \in Int
             /\ Stockout(p, d) = Cardinality({h \in DayHours(d) : Held(pending, p, h) <= 0})
             /\ Stockout(p, d) \in 0..HoursPerDay
             /\ MovedOn(p, d) # {} <=> \E r \in pending.fact[p] : r.hour \in DayHours(d)
  <2>1. p \in Product /\ d \in Nat /\ \A r \in pending.fact[p] : r.hour \in Nat
    BY <1>2, HourTypes DEF FactInv, Keyed
  <2>2. \A r \in pending.fact[p] : /\ DayOf(r.hour) <= d <=> r.hour <= HoursPerDay * (d + 1) - 1
                                   /\ DayOf(r.hour) = d <=> r.hour \in DayHours(d)
    BY <2>1, DayIs
  <2>3. {r \in Existing(p) : DayOf(r.hour) <= d} = {r \in pending.fact[p] : r.hour <= HoursPerDay * (d + 1) - 1}
    BY <1>1, <2>1, <2>2
  <2>4. Ending(p, d) = Held(pending, p, HoursPerDay * (d + 1) - 1)
    BY <2>3 DEF Ending, Held
  <2>5. Ending(p, d) \in Int
    BY <2>1, <2>4, HeldType DEF FactInv, ServingInv
  <2>6. MovedOn(p, d) # {} <=> \E r \in pending.fact[p] : r.hour \in DayHours(d)
    BY <1>1, <2>1, <2>2 DEF MovedOn
  <2> QED BY <2>1, <2>4, <2>5, <2>6, StockoutIs
<1>6. \A x \in Pairs \X Days :
        /\ N[x].ending = Ending(x[1], x[2]) /\ N[x].stockout = Stockout(x[1], x[2])
        /\ x[1] \in Pairs /\ x[2] \in Days
  OBVIOUS
<1>13. \A x \in Pairs \X Days :
        /\ N[x] = [ending |-> N[x].ending, stockout |-> N[x].stockout, moved |-> N[x].moved]
        /\ N[x].moved \in BOOLEAN /\ (N[x].moved <=> MovedOn(x[1], x[2]) # {})
  OBVIOUS
<1>7. DOMAIN N = Pairs \X Days
  OBVIOUS
<1> DEFINE n == pending'
<1>8. n.position = N /\ n.fact = pending.fact /\ n.rollup = pending.rollup
  BY <1>4
<1> HIDE DEF N, n
<1>9. IsMarts(n)
  <2>1. ASSUME NEW x \in Pairs \X Days PROVE N[x] \in Position
    <3>1. x[1] \in Pairs /\ x[2] \in Days
      BY <1>6
    <3>2. Ending(x[1], x[2]) \in Int /\ Stockout(x[1], x[2]) \in 0..HoursPerDay
      BY <1>5, <3>1
    <3>3. N[x].ending \in Int /\ N[x].stockout \in 0..HoursPerDay
      BY <1>6, <3>2
    <3>4. N[x].moved \in BOOLEAN
      BY <1>13
    <3>5. N[x] = [ending |-> N[x].ending, stockout |-> N[x].stockout, moved |-> N[x].moved]
      BY <1>13
    <3> QED BY <3>3, <3>4, <3>5, Zenon DEF Position
  <2>2. Pairs \X Days \subseteq Product \X Nat
    BY <1>2
  <2> QED BY <1>7, <1>8, <2>1, <2>2 DEF ServingInv, IsMarts
<1>10. PositionFor(n)
  <2>1. Grid(n) = Pairs \X Days /\ \A p, h : Held(n, p, h) = Held(pending, p, h)
    BY <1>2, <1>8, SameFact
  <2>2. DOMAIN n.position = Grid(n)
    BY <1>7, <1>8, <2>1
  <2>3. ASSUME NEW x \in Pairs \X Days
        PROVE  /\ n.position[x].ending = Held(n, x[1], HoursPerDay * (x[2] + 1) - 1)
               /\ n.position[x].stockout = Cardinality({h \in DayHours(x[2]) : Held(n, x[1], h) <= 0})
               /\ n.position[x].moved <=> \E r \in n.fact[x[1]] : r.hour \in DayHours(x[2])
    <3>1. x[1] \in Pairs /\ x[2] \in Days
      OBVIOUS
    <3>2. {h \in DayHours(x[2]) : Held(n, x[1], h) <= 0} = {h \in DayHours(x[2]) : Held(pending, x[1], h) <= 0}
      BY <2>1
    <3>6. /\ Stockout(x[1], x[2]) = Cardinality({h \in DayHours(x[2]) : Held(pending, x[1], h) <= 0})
          /\ Ending(x[1], x[2]) = Held(pending, x[1], HoursPerDay * (x[2] + 1) - 1)
      BY <1>5, <3>1
    <3>3. n.position[x].stockout = Cardinality({h \in DayHours(x[2]) : Held(n, x[1], h) <= 0})
      BY <1>6, <1>8, <3>2, <3>6
    <3>4. n.position[x].ending = Held(n, x[1], HoursPerDay * (x[2] + 1) - 1)
      BY <1>6, <1>8, <2>1, <3>6
    <3>5. n.position[x].moved <=> \E r \in n.fact[x[1]] : r.hour \in DayHours(x[2])
      BY <1>5, <1>8, <1>13, <3>1
    <3> QED BY <3>3, <3>4, <3>5
  <2> QED BY <2>1, <2>2, <2>3 DEF PositionFor
<1>11. "rollup" \in built' => RollupFor(n)
  BY <1>4, <1>8, SameFact DEF ServingInv
<1>12. DOMAIN n.position \subseteq Grid(n)
  BY <1>10 DEF PositionFor
<1> QED BY <1>4, <1>9, <1>10, <1>11, <1>12 DEF ServingInv, n

LEMMA AvailableType ==
  ASSUME NEW q \in Int
  PROVE  Available(q) \in Int
<1>1. {q, 0} \in SUBSET Int /\ {q, 0} # {}
  OBVIOUS
<1>2. IsFiniteSet({q, 0})
  <2>1. IsFiniteSet({q})
    BY FS_Singleton
  <2>2. IsFiniteSet({q} \cup {0})
    BY <2>1, FS_AddElement
  <2>3. {q, 0} = {q} \cup {0}
    OBVIOUS
  <2> QED BY <2>2, <2>3
<1> QED BY <1>1, <1>2, MaxIn DEF Available

(* A day's newest balance of a key, and the least that was available.      *)
LEMMA RollupOfRows ==
  ASSUME FactInv, ServingInv, NEW p \in Product, NEW d, NEW k, DayRows(pending, p, d, k) # {}
  PROVE  /\ DailyRollup(p, d, k) \in Rollup
         /\ \A r \in DayRows(pending, p, d, k) :
              /\ DailyRollup(p, d, k).minimum <= Available(r.onHand)
              /\ (\A q \in DayRows(pending, p, d, k) : q.hour <= r.hour)
                   => DailyRollup(p, d, k).ending = r.onHand
<1> DEFINE rows == DayRows(pending, p, d, k)
           A == {Available(r.onHand) : r \in rows}
<1>1. rows \in SUBSET pending.fact[p]
  BY DEF DayRows
<1>2. \A r \in rows : r.onHand \in Int /\ r.hour \in Int /\ Available(r.onHand) \in Int
  <2>1. \A r \in rows : r \in FactRow
    BY <1>1 DEF ServingInv, IsMarts
  <2>2. \A r \in rows : r.onHand \in Int /\ r.hour \in Int
    BY <2>1, HourTypes DEF FactRow
  <2> HIDE DEF rows
  <2> QED BY <2>2, AvailableType
<1>3. Latest(rows) \in rows /\ \A q \in rows : q.hour <= Latest(rows).hour
  <2> HIDE DEF rows
  <2> QED BY <1>1, LatestIn DEF FactInv, rows
<1>4. Min(A) \in Int /\ \A y \in A : Min(A) <= y
  <2> HIDE DEF rows
  <2>1. IsFiniteSet(rows)
    BY <1>1, RowsFinite, FS_Subset DEF FactInv
  <2> DEFINE f == [r \in rows |-> Available(r.onHand)]
  <2>2. f \in Surjection(rows, A)
    BY DEF Surjection
  <2>3. A \in SUBSET Int /\ A # {}
    BY <1>2, <1>3
  <2> HIDE DEF f, A
  <2>4. IsFiniteSet(A)
    BY <2>1, <2>2, FS_Surjection
  <2> QED BY <2>3, <2>4, MinIn
<1>5. DailyRollup(p, d, k) = [ending |-> Latest(rows).onHand, minimum |-> Min(A)]
  BY DEF DailyRollup
<1> HIDE DEF rows
<1>6. DailyRollup(p, d, k) \in Rollup
  <2>1. Latest(rows).onHand \in Int
    BY <1>2, <1>3
  <2> HIDE DEF A
  <2> QED BY <1>4, <1>5, <2>1 DEF Rollup
<1>7. ASSUME NEW r \in rows PROVE DailyRollup(p, d, k).minimum <= Available(r.onHand)
  <2>1. Available(r.onHand) \in A
    OBVIOUS
  <2> HIDE DEF A
  <2> QED BY <1>4, <1>5, <2>1
<1>8. ASSUME NEW r \in rows, \A q \in rows : q.hour <= r.hour
      PROVE  DailyRollup(p, d, k).ending = r.onHand
  <2>1. Latest(rows).hour = r.hour
    BY <1>2, <1>3, <1>8
  <2>2. Latest(rows) = r
    BY <1>1, <1>3, <2>1 DEF FactInv, Keyed
  <2> HIDE DEF A
  <2> QED BY <1>5, <2>2
<1> QED BY <1>6, <1>7, <1>8 DEF rows

LEMMA BuildRollupServes ==
  ASSUME FactInv, HourlyInv, ServingInv, BuildRollup
  PROVE  ServingInv'
<1> DEFINE K == {y \in Product \X Day \X Version : DayRows(pending, y[1], y[2], y[3]) # {}}
           N == [x \in K |-> DailyRollup(x[1], x[2], x[3])]
           U == Upsert(pending.rollup, N)
<1>1. /\ pending'.rollup = U /\ pending'.fact = pending.fact /\ pending'.position = pending.position
      /\ version' = version /\ hourly' = hourly /\ live' = live /\ read' = read
      /\ built' = built \cup {"rollup"}
  <2>1. pending' = [pending EXCEPT !.rollup = Upsert(@, N)]
    BY DEF BuildRollup
  <2> HIDE DEF N
  <2> QED BY <2>1 DEF BuildRollup, FactInv, IsMartRecord
<1>2. /\ DOMAIN U = DOMAIN pending.rollup \cup K
      /\ \A x \in K : U[x] = DailyRollup(x[1], x[2], x[3])
      /\ \A x \in DOMAIN pending.rollup \ K : U[x] = pending.rollup[x]
  <2>1. DOMAIN N = K /\ \A x \in K : N[x] = DailyRollup(x[1], x[2], x[3])
    OBVIOUS
  <2> HIDE DEF N, K
  <2> QED BY <2>1 DEF Upsert
<1> DEFINE n == pending'
<1>3. n.rollup = U /\ n.fact = pending.fact /\ n.position = pending.position
  BY <1>1
<1>4. \A x \in K : /\ x[1] \in Product /\ x[2] \in Day /\ x[3] \in Version
                   /\ DayRows(pending, x[1], x[2], x[3]) # {}
  OBVIOUS
<1>5. K \subseteq Product \X Day \X Version
  OBVIOUS
<1> HIDE DEF n, U
<1>6. IsMarts(n)
  <2>1. \A x \in K : U[x] \in Rollup
    BY <1>2, <1>4, RollupOfRows
  <2> HIDE DEF K
  <2>2. DOMAIN n.rollup \subseteq Product \X Day \X Version
    BY <1>2, <1>3, <1>5 DEF ServingInv, IsMarts
  <2>3. \A x \in DOMAIN n.rollup : n.rollup[x] \in Rollup
    BY <1>2, <1>3, <2>1 DEF ServingInv, IsMarts
  <2> QED BY <1>3, <2>2, <2>3 DEF ServingInv, IsMarts
<1>7. RollupFor(n)
  <2> SUFFICES ASSUME NEW p \in Product, NEW r \in n.fact[p]
               PROVE  /\ n.rollup[<<p, DayOf(r.hour), r.key>>].minimum <= Available(r.onHand)
                      /\ (\A q \in DayRows(n, p, DayOf(r.hour), r.key) : q.hour <= r.hour)
                           => n.rollup[<<p, DayOf(r.hour), r.key>>].ending = r.onHand
    BY DEF RollupFor
  <2> DEFINE d == DayOf(r.hour)
             k == r.key
             x == <<p, d, k>>
  <2>1. r \in DayRows(pending, p, d, k)
    BY <1>3 DEF DayRows
  <2>2. d \in Day /\ k \in Version
    <3>1. r \in FactRow
      BY <1>3 DEF ServingInv, IsMarts
    <3> QED BY <3>1 DEF FactRow, Day, DayOf
  <2>3. x \in K /\ x[1] = p /\ x[2] = d /\ x[3] = k
    BY <2>1, <2>2
  <2> HIDE DEF d, k, x, K
  <2>4. n.rollup[x] = DailyRollup(p, d, k)
    BY <1>2, <1>3, <2>3
  <2>5. DayRows(n, p, d, k) = DayRows(pending, p, d, k)
    BY <1>3, SameFact
  <2>6. /\ n.rollup[x].minimum <= Available(r.onHand)
        /\ (\A q \in DayRows(n, p, d, k) : q.hour <= r.hour) => n.rollup[x].ending = r.onHand
    BY <2>1, <2>4, <2>5, RollupOfRows
  <2> QED BY <2>6 DEF d, k, x
<1>8. "position" \in built' => PositionFor(n)
  BY <1>1, <1>3, SameFact DEF ServingInv
<1>9. DOMAIN n.position \subseteq Grid(n)
  BY <1>3, SameFact DEF ServingInv
<1> QED BY <1>1, <1>6, <1>7, <1>8, <1>9 DEF ServingInv, n

LEMMA MartsInitServes == MartsInit => ServingInv
<1> SUFFICES ASSUME MartsInit PROVE ServingInv
  OBVIOUS
<1> USE DEF MartsInit, Empty
<1>1. IsHourly(hourly) /\ IsHourly(read)
  BY DEF IsHourly
<1>2. \A p \in Product : live.fact[p] = {} /\ pending.fact[p] = {}
  OBVIOUS
<1>3. DaysIn(live) = {} /\ DaysIn(pending) = {}
  BY <1>2 DEF DaysIn
<1>4. Grid(live) = {} /\ Grid(pending) = {}
  BY <1>3 DEF Grid
<1>5. DOMAIN live.position = {} /\ DOMAIN pending.position = {} /\ DOMAIN live.rollup = {} /\ DOMAIN pending.rollup = {}
  OBVIOUS
<1>6. live.fact \in [Product -> SUBSET FactRow] /\ pending.fact \in [Product -> SUBSET FactRow]
  OBVIOUS
<1>7. IsMarts(pending) /\ IsMarts(live)
  BY <1>5, <1>6 DEF IsMarts
<1>8. PositionFor(live) /\ RollupFor(live)
  BY <1>2, <1>4, <1>5 DEF PositionFor, RollupFor
<1> QED BY <1>1, <1>4, <1>5, <1>7, <1>8 DEF ServingInv

LEMMA MartsStepServes ==
  ASSUME FactInv, HourlyInv, ServingInv, FactInv', [MartsNext]_martVars
  PROVE  ServingInv'
<1>1. CASE \E table \in HourlyTables : StartRun(table)
  <2>1. PICK table \in HourlyTables : StartRun(table)
    BY <1>1
  <2>2. IsHourly(table)
    BY DEF HourlyTables
  <2>3. built = {}
    BY <2>1 DEF FactInv, StartRun
  <2> QED BY <2>1, <2>2, <2>3 DEF StartRun, ServingInv
<1>2. CASE BuildFact
  BY <1>2, BuildFactServes
<1>3. CASE BuildPosition
  BY <1>3, BuildPositionServes
<1>4. CASE BuildRollup
  BY <1>4, BuildRollupServes
<1>5. CASE Publish
  <2>1. /\ live' = pending /\ pending' = pending /\ read' = hourly
        /\ built' = {} /\ hourly' = <<>>
    BY <1>5 DEF Publish, RunEnds
  <2>2. PositionFor(pending) /\ RollupFor(pending)
    BY <1>5 DEF Publish, ServingInv
  <2>3. IsHourly(hourly') /\ IsHourly(read')
    BY <2>1 DEF IsHourly, ServingInv
  <2> DEFINE v == live'
             n == pending'
  <2>4. v = pending /\ n = pending
    BY <2>1
  <2> HIDE DEF v, n
  <2>5. IsMarts(v) /\ IsMarts(n) /\ DOMAIN n.position \subseteq Grid(n) /\ PositionFor(v) /\ RollupFor(v)
    BY <2>2, <2>4 DEF ServingInv
  <2> QED BY <2>1, <2>3, <2>5 DEF ServingInv, v, n
<1>6. CASE RunFails
  <2>1. /\ pending' = live /\ live' = live /\ read' = read /\ built' = {} /\ hourly' = <<>>
    BY <1>6 DEF RunFails, RunEnds
  <2>2. IsHourly(hourly') /\ IsHourly(read')
    BY <2>1 DEF IsHourly, ServingInv
  <2> DEFINE v == live'
             n == pending'
  <2>3. v = live /\ n = live
    BY <2>1
  <2> HIDE DEF v, n
  <2>4. IsMarts(v) /\ IsMarts(n) /\ DOMAIN n.position \subseteq Grid(n) /\ PositionFor(v) /\ RollupFor(v)
    BY <2>3 DEF ServingInv, PositionFor
  <2> QED BY <2>1, <2>2, <2>4 DEF ServingInv, v, n
<1>7. ASSUME NEW p \in Product, CatalogPublishes(p) PROVE ServingInv'
  <2>1. /\ hourly' = hourly /\ built' = built /\ pending' = pending /\ live' = live /\ read' = read
    BY <1>7 DEF CatalogPublishes
  <2> QED BY <2>1 DEF ServingInv
<1>8. CASE AttemptFails
  BY <1>8 DEF AttemptFails, ServingInv
<1>9. CASE UNCHANGED martVars
  BY <1>9 DEF martVars, ServingInv
<1> QED BY <1>1, <1>2, <1>3, <1>4, <1>5, <1>6, <1>7, <1>8, <1>9 DEF MartsNext

LEMMA ServingInvariant == MartsSpec => []ServingInv
<1>1. FactInv /\ HourlyInv /\ ServingInv /\ FactInv' /\ [MartsNext]_martVars => ServingInv'
  BY MartsStepServes
<1> QED BY <1>1, MartsInitServes, MartsInvariant, PTL DEF MartsSpec

(* Every balance is a number, no day is out of stock for more hours than   *)
(* it has, and rollups have keys a product version can have.               *)
THEOREM MartsTypeCorrect == MartsSpec => []MartsTypeOK
<1>1. FactInv /\ ServingInv => MartsTypeOK
  <2> SUFFICES ASSUME FactInv, ServingInv PROVE MartsTypeOK
    OBVIOUS
  <2>1. version \in [Product -> Version \cup {NotPublished}]
    BY MartsAssumption DEF FactInv, Version, NotPublished
  <2> QED BY <2>1 DEF MartsTypeOK, FactInv, ServingInv
<1> QED BY <1>1, MartsInvariant, ServingInvariant, PTL

(* The published positions have every pair and day of the published fact,  *)
(* with the balance each day ends with and the hours it was out of stock,  *)
(* on days without movement too; and the rollup has each day's newest and  *)
(* least balance of a key, whatever the previous runs left in both.        *)
THEOREM RollupsAgree == MartsSpec => []RollupsFollowFact
<1>1. FactInv /\ ServingInv => RollupsFollowFact
  <2> SUFFICES ASSUME FactInv, ServingInv PROVE RollupsFollowFact
    OBVIOUS
  <2> DEFINE days == {DayOf(h) : h \in LiveHours}
             pairs == {p \in Product : live.fact[p] # {} \/ p \in DOMAIN Opening}
             grid == IF days = {} THEN {} ELSE pairs \X (Min(days)..Max(days))
             Hours(x) == (HoursPerDay * x[2])..(HoursPerDay * (x[2] + 1) - 1)
  <2>1. days = DaysIn(live)
    BY DEF LiveHours, DaysIn
  <2>2. grid = Grid(live)
    BY <2>1 DEF Grid
  <2>3. ASSUME NEW x \in grid
        PROVE  /\ x[1] \in Product /\ x[2] \in Nat /\ Hours(x) = DayHours(x[2])
               /\ Max(Hours(x)) = HoursPerDay * (x[2] + 1) - 1
    <3>1. x[1] \in Product /\ x[2] \in Min(days)..Max(days) /\ days # {}
      OBVIOUS
    <3>2. x[2] \in Nat
      <4>1. Min(DaysIn(live)) \in Nat /\ Max(DaysIn(live)) \in Nat
        BY <2>1, <3>1, DaysTypes DEF FactInv
      <4> DEFINE a == Min(DaysIn(live))
                 b == Max(DaysIn(live))
      <4>2. x[2] \in a..b /\ a \in Nat /\ b \in Nat
        BY <2>1, <3>1, <4>1
      <4> HIDE DEF a, b
      <4> QED BY <4>2
    <3> DEFINE lo == HoursPerDay * x[2]
               hi == HoursPerDay * (x[2] + 1) - 1
    <3>3. lo \in Int /\ hi \in Int /\ lo <= hi
      <4>1. HoursPerDay \in Nat \ {0}
        BY MartsAssumption
      <4>2. lo \in Nat /\ hi = lo + (HoursPerDay - 1)
        BY <3>2, DayBounds
      <4> HIDE DEF lo, hi
      <4> QED BY <4>1, <4>2
    <3>4. Hours(x) = lo..hi
      OBVIOUS
    <3> HIDE DEF lo, hi
    <3>5. lo..hi \in SUBSET Int /\ IsFiniteSet(lo..hi) /\ lo..hi # {} /\ hi \in lo..hi
      <4>1. IsFiniteSet(lo..hi)
        BY <3>3, FS_Interval
      <4>2. hi \in lo..hi /\ lo..hi \in SUBSET Int
        BY <3>3
      <4> QED BY <4>1, <4>2
    <3>6. Max(lo..hi) \in lo..hi /\ \A y \in lo..hi : y <= Max(lo..hi)
      BY <3>5, MaxIn
    <3>7. Max(lo..hi) = hi
      <4> DEFINE m == Max(lo..hi)
      <4>1. m \in lo..hi /\ hi <= m
        BY <3>5, <3>6
      <4> HIDE DEF m
      <4>2. m = hi
        BY <3>3, <4>1
      <4> QED BY <4>2 DEF m
    <3> QED BY <3>1, <3>2, <3>4, <3>7 DEF lo, hi, DayHours
  <2>4. \A p, h : HeldAt(p, h) = Held(live, p, h)
    BY DEF HeldAt, Held
  <2>5. ASSUME NEW x \in grid
        PROVE  /\ live.position[x].ending = HeldAt(x[1], Max(Hours(x)))
               /\ live.position[x].stockout = Cardinality({h \in Hours(x) : HeldAt(x[1], h) <= 0})
               /\ live.position[x].moved <=> \E r \in live.fact[x[1]] : r.hour \in Hours(x)
    <3>1. /\ live.position[x].ending = Held(live, x[1], HoursPerDay * (x[2] + 1) - 1)
          /\ live.position[x].stockout = Cardinality({h \in DayHours(x[2]) : Held(live, x[1], h) <= 0})
          /\ live.position[x].moved <=> \E r \in live.fact[x[1]] : r.hour \in DayHours(x[2])
      BY <2>2 DEF ServingInv, PositionFor
    <3>2. Hours(x) = DayHours(x[2]) /\ Max(Hours(x)) = HoursPerDay * (x[2] + 1) - 1
      BY <2>3
    <3>3. {h \in Hours(x) : HeldAt(x[1], h) <= 0} = {h \in DayHours(x[2]) : Held(live, x[1], h) <= 0}
      BY <2>4, <3>2
    <3> HIDE DEF Hours
    <3> QED BY <2>4, <3>1, <3>2, <3>3
  <2>6. DOMAIN live.position = grid
    BY <2>2 DEF ServingInv, PositionFor
  <2>7. RollupFor(live)
    BY DEF ServingInv
  <2> HIDE DEF grid
  <2> QED BY <2>5, <2>6, <2>7 DEF RollupsFollowFact, RollupFor, grid
<1> QED BY <1>1, MartsInvariant, ServingInvariant, PTL

(* The serving view counts the movement of every hour once, with any       *)
(* quantities in the hours Flink may have.                                 *)
THEOREM CurrentAddsUp == MartsSpec => []AnySpeedCounted
<1>1. FactInv /\ ServingInv => AnySpeedCounted
  BY AnySpeedFromInv DEF ServingInv
<1> QED BY <1>1, MartsInvariant, ServingInvariant, PTL

(* In particular with the hours of the runs, of a unit or none.            *)
THEOREM CurrentCountedOnce == MartsSpec => []CurrentCountsOnce
<1>1. AnySpeedCounted => CurrentCountsOnce
  <2>1. [Hour -> {0, 1}] \subseteq [Hour -> Int]
    OBVIOUS
  <2> QED BY <2>1 DEF AnySpeedCounted, CurrentCountsOnce
<1> QED BY <1>1, CurrentAddsUp, PTL
===============================================================================
