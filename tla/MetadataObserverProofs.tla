------------------------ MODULE MetadataObserverProofs ------------------------
(***************************************************************************)
(* Theorems about MetadataObserver, for any DAGs, objects, retries and     *)
(* bounds.                                                                 *)
(***************************************************************************)
EXTENDS MetadataObserver, TLAPS

Check == UNION {ChecksOf(t) : t \in Task}
Starting == {"delete_run", "insert_run"} \cup Seeding
Trying == Recording \cup Measuring \cup {"verdict"}
Place == {"idle", "tasks"} \cup Starting \cup Trying
Outcome == {"pass", "fail", "killed"}
Probed == [object : Object, status : Sla]

(* What each variable ranges over. *)
Shape ==
  /\ listed \subseteq Object /\ version \in 0..MaxDeploys
  /\ catalog \subseteq CatalogRow /\ runs \in [Run -> Status]
  /\ dq \subseteq Result /\ fresh \subseteq FreshRow
  /\ run \in [Dag -> 0..MaxRuns] /\ pc \in [Dag -> Place]
  /\ xcom \in [Dag -> BOOLEAN]
  /\ plan \in [Dag -> [objects : SUBSET Object, version : 0..MaxDeploys]]
  /\ left \in [Dag -> SUBSET (Object \cup Check)]
  /\ item \in [Dag -> Object \cup Check \cup Probed \cup {Nothing}]
  /\ task \in [Dag -> Task \cup {Nothing}] /\ try \in [Dag -> 0..MaxTries]
  /\ cli \in [Dag -> 0..CliAttempts] /\ result \in [Dag -> Outcome \cup {Nothing}]
  /\ done \in [Dag -> SUBSET Task] /\ failed \in [Dag -> SUBSET Task]
  /\ alone \in [Dag -> BOOLEAN] /\ gaveUp \in [Dag -> BOOLEAN]
  /\ found \in [Dag -> SUBSET Object] /\ foundEver \in [Dag -> SUBSET Object]
  /\ faults \in 0..MaxFaults /\ tries \in 0..MaxTries

(* Where a DAG is, it has a run, and a task of its own exactly while that  *)
(* task is tried.                                                          *)
TaskInv(d) ==
  /\ pc[d] # "idle" \/ done[d] \cup failed[d] # {} => run[d] > 0
  /\ done[d] \cup failed[d] \subseteq TasksOf(d)
  /\ pc[d] \in Trying => task[d] \in TasksOf(d) /\ try[d] > 0
  /\ pc[d] \notin Trying => found[d] = {} /\ ~gaveUp[d]
  /\ found[d] \subseteq foundEver[d]
  /\ pc[d] \in Recording => task[d] # "freshness" /\ left[d] \subseteq ChecksOf(task[d])
  /\ pc[d] \in Measuring => task[d] = "freshness" /\ left[d] \subseteq Object
  /\ pc[d] \in Recording \cup Measuring => ~gaveUp[d]

(* The rows of the catalog for an object.                                  *)
RowsOf(o) == {r \in catalog : r.object = o}

(* A seed that has been alone leaves its own row of each object behind it. *)
SeedInv(d) ==
  /\ pc[d] \in Seeding => left[d] \subseteq plan[d].objects
  /\ pc[d] = "insert_object" => item[d] \in left[d]
  /\ pc[d] = "delete_absent" => left[d] = {}
  /\ alone[d] =>
       /\ pc[d] \in Seeding
       /\ \A e \in Dag \ {d} : pc[e] \notin Seeding
       /\ \A o \in plan[d].objects \ left[d] : RowsOf(o) = {SeedRow(d, o)}
       /\ pc[d] = "insert_object" => RowsOf(item[d]) = {}

(* The results under a run for a check.                                    *)
ResultsOf(d, c) == {x \in dq : x.id = Id(d) /\ x.check = c}

(* A try has recorded what its loop has passed.                            *)
ResultInv(d) ==
  /\ pc[d] = "insert" => item[d] \in left[d]
  /\ pc[d] \in Recording /\ FileId(d) = Id(d) =>
       /\ \A c \in ChecksOf(task[d]) \ left[d] : ResultsOf(d, c) = {ResultRow(d, Id(d), c)}
       /\ pc[d] = "insert" => ResultsOf(d, item[d]) = {}
  /\ pc[d] = "verdict" /\ task[d] # "freshness" /\ ~gaveUp[d] /\ FileId(d) = Id(d) =>
       \A c \in ChecksOf(task[d]) : ResultsOf(d, c) = {ResultRow(d, Id(d), c)}

(* Breaches recorded under a run were measured in it, and what this try    *)
(* has measured is recorded or about to be.                                *)
FreshInv(d) ==
  /\ \A x \in fresh : x.run[1] = d => x.run[2] <= run[d]
  /\ \A x \in Breaches(d) : x.object \in foundEver[d]
  /\ pc[d] = "insert_fresh" => /\ item[d] \in Probed /\ item[d].object \in left[d]
                               /\ item[d].status = "breach" <=> item[d].object \in found[d]
                               /\ found[d] \cap left[d] \subseteq {item[d].object}
  /\ pc[d] \in {"probe", "breaches"} => found[d] \cap left[d] = {}
  /\ pc[d] = "breaches" => left[d] = {}
  /\ pc[d] \in Measuring =>
       \A o \in found[d] \ left[d] : \E x \in Breaches(d) : x.object = o

VerdictInv(d) ==
  pc[d] = "verdict" /\ task[d] = "freshness" =>
    /\ result[d] = "fail" => foundEver[d] # {}
    /\ found[d] # {} /\ ~gaveUp[d] => result[d] = "fail"

(* A pushed id has a run row.                                              *)
RowInv(d) ==
  xcom[d] => pc[d] \notin {"delete_run", "insert_run"} /\ runs[Id(d)] # "none"

DagInv(d) ==
  TaskInv(d) /\ SeedInv(d) /\ ResultInv(d) /\ FreshInv(d) /\ VerdictInv(d) /\ RowInv(d)

IInv == Shape /\ \A d \in Dag : DagInv(d)
-------------------------------------------------------------------------------
LEMMA IdIsRun ==
  ASSUME Shape, NEW d \in Dag, run[d] > 0
  PROVE  Id(d) \in Run /\ Id(d) # NoId
BY DEF Shape, Id, Run, NoId

LEMMA ShapeStep == IInv /\ [Next]_vars => Shape'
<1> SUFFICES ASSUME IInv, [Next]_vars PROVE Shape'
  OBVIOUS
<1> USE ObserverAssumption DEF Shape, Place, Starting, Trying, Seeding, Recording, Measuring,
        Go, Loop, Fault, yamlVars, metaVars, loopVars, tryVars, runVars, countVars
<1>1. ASSUME NEW objects \in SUBSET Object, Deploy(objects) PROVE Shape'
  BY <1>1 DEF IInv, Deploy
<1>2. ASSUME NEW d \in Dag, StartStep(d) PROVE Shape'
  <2>1. CASE InsertObject(d)
    <3>1. item[d] \in Object /\ run[d] \in 1..MaxRuns
      BY <2>1 DEF InsertObject, IInv, DagInv, SeedInv, TaskInv
    <3>2. SeedRow(d, item[d]) \in CatalogRow
      BY <3>1 DEF IInv, SeedRow, CatalogRow, Id, Run
    <3> QED BY <2>1, <3>2 DEF IInv, InsertObject
  <2>2. ASSUME NEW r \in 1..MaxRuns, StartRun(d, r) PROVE Shape'
    BY <2>2 DEF IInv, StartRun
  <2>3. ASSUME NEW ts, ClearTasks(d, ts) PROVE Shape'
    BY <2>3 DEF IInv, ClearTasks
  <2>4. ASSUME NEW o \in Object, DeleteObject(d, o) PROVE Shape'
    BY <2>4 DEF IInv, DeleteObject
  <2>5. CASE DeleteRun(d)
    BY <2>5 DEF IInv, DeleteRun, Status
  <2>6. CASE InsertRun(d)
    BY <2>6 DEF IInv, InsertRun, Status
  <2>7. CASE DeleteAbsent(d)
    BY <2>7 DEF IInv, DeleteAbsent, NoPlan
  <2>8. CASE StartKilled(d)
    BY <2>8 DEF IInv, StartKilled, NoPlan
  <2>9. CASE StartFails(d)
    BY <2>9 DEF IInv, StartFails, NoPlan
  <2> QED BY <1>2, <2>1, <2>2, <2>3, <2>4, <2>5, <2>6, <2>7, <2>8, <2>9 DEF StartStep
<1>3. ASSUME NEW d \in Dag, RecordStep(d) PROVE Shape'
  <2>1. ASSUME NEW t \in Task, NEW r \in {"pass", "fail"}, StartTry(d, t, r) PROVE Shape'
    <3>1. ChecksOf(t) \subseteq Check
      BY DEF Check
    <3>2. tries' \in 0..MaxTries /\ try' \in [Dag -> 0..MaxTries]
      BY <2>1 DEF IInv, StartTry, BeginTry
    <3>3. /\ task' \in [Dag -> Task \cup {Nothing}] /\ cli' \in [Dag -> 0..CliAttempts]
          /\ result' \in [Dag -> Outcome \cup {Nothing}]
      BY <2>1 DEF IInv, StartTry, BeginTry, Outcome
    <3>4. pc' \in [Dag -> Place] /\ gaveUp' \in [Dag -> BOOLEAN]
      BY <2>1 DEF IInv, StartTry
    <3>5. UNCHANGED loopVars \/ Loop(d, ChecksOf(t))
      BY <2>1 DEF StartTry
    <3>6. left' \in [Dag -> SUBSET (Object \cup Check)]
      BY <3>1, <3>5 DEF IInv
    <3>7. item' \in [Dag -> Object \cup Check \cup Probed \cup {Nothing}]
      BY <3>5 DEF IInv
    <3> QED BY <2>1, <3>2, <3>3, <3>4, <3>6, <3>7 DEF IInv, StartTry, BeginTry
  <2>2. ASSUME NEW c \in left[d], DeleteResult(d, c) PROVE Shape'
    <3>1. c \in Object \cup Check
      BY DEF IInv
    <3> QED BY <2>2, <3>1 DEF IInv, DeleteResult
  <2>3. CASE InsertResult(d)
    <3>1. item[d] \in ChecksOf(task[d]) /\ task[d] \in Task /\ run[d] > 0 /\ try[d] \in 1..MaxTries
      BY <2>3 DEF InsertResult, IInv, DagInv, ResultInv, TaskInv, TasksOf, Task
    <3>2. ResultRow(d, FileId(d), item[d]) \in Result
      BY <3>1, IdIsRun DEF IInv, ResultRow, Result, FileId, Check
    <3> QED BY <2>3, <3>2 DEF IInv, InsertResult
  <2>4. CASE CliRetries(d)
    <3>1. ChecksOf(task[d]) \subseteq Check
      BY <2>4 DEF CliRetries, IInv, DagInv, TaskInv, TasksOf, Task, Check
    <3> QED BY <2>4, <3>1 DEF IInv, CliRetries
  <2>5. ASSUME NEW r \in {"pass", "fail", "killed"}, RecordFails(d, r) PROVE Shape'
    BY <2>5 DEF IInv, RecordFails, Outcome
  <2> QED BY <1>3, <2>1, <2>2, <2>3, <2>4, <2>5 DEF RecordStep
<1>4. ASSUME NEW d \in Dag, FreshnessStep(d) PROVE Shape'
  <2>1. CASE StartFreshness(d)
    BY <2>1 DEF IInv, StartFreshness, BeginTry, Task
  <2>2. ASSUME NEW o \in Object, NEW s \in Sla, Probe(d, o, s) PROVE Shape'
    <3>1. [object |-> o, status |-> s] \in Probed
      BY DEF Probed
    <3>2. item' \in [Dag -> Object \cup Check \cup Probed \cup {Nothing}]
      BY <2>2, <3>1 DEF IInv, Probe
    <3>3. found' \in [Dag -> SUBSET Object] /\ foundEver' \in [Dag -> SUBSET Object]
      <4>1. \/ UNCHANGED <<found, foundEver>>
            \/ /\ found' = [found EXCEPT ![d] = @ \cup {o}]
               /\ foundEver' = [foundEver EXCEPT ![d] = @ \cup {o}]
        BY <2>2 DEF Probe
      <4>2. found[d] \cup {o} \in SUBSET Object /\ foundEver[d] \cup {o} \in SUBSET Object
        BY DEF IInv
      <4>3. found \in [Dag -> SUBSET Object] /\ foundEver \in [Dag -> SUBSET Object]
        BY DEF IInv
      <4> HIDE DEF Shape
      <4>4. CASE UNCHANGED <<found, foundEver>>
        BY <4>3, <4>4
      <4>5. CASE /\ found' = [found EXCEPT ![d] = @ \cup {o}]
                 /\ foundEver' = [foundEver EXCEPT ![d] = @ \cup {o}]
        BY <4>2, <4>3, <4>5
      <4> QED BY <4>1, <4>4, <4>5
    <3> QED BY <2>2, <3>2, <3>3 DEF IInv, Probe
  <2>3. CASE InsertFresh(d)
    <3>1. item[d] \in Probed /\ run[d] > 0
      BY <2>3 DEF InsertFresh, IInv, DagInv, FreshInv, TaskInv
    <3>2. [run |-> Id(d), object |-> item[d].object, status |-> item[d].status] \in FreshRow
      BY <3>1, IdIsRun DEF IInv, FreshRow, Probed
    <3> QED BY <2>3, <3>2 DEF IInv, InsertFresh
  <2>4. CASE ReadBreaches(d)
    BY <2>4 DEF IInv, ReadBreaches, Outcome
  <2>5. ASSUME NEW r \in {"pass", "fail", "killed"}, FreshnessFails(d, r) PROVE Shape'
    BY <2>5 DEF IInv, FreshnessFails, Outcome
  <2> QED BY <1>4, <2>1, <2>2, <2>3, <2>4, <2>5 DEF FreshnessStep
<1>5. ASSUME NEW d \in Dag, EndStep(d) PROVE Shape'
  <2>1. ASSUME NEW again \in BOOLEAN, EndTry(d, again) PROVE Shape'
    <3>1. task[d] \in Task
      BY <2>1 DEF EndTry, IInv, DagInv, TaskInv, TasksOf, Task
    <3> QED BY <2>1, <3>1 DEF IInv, EndTry
  <2>2. CASE Finalize(d)
    BY <2>2 DEF IInv, Finalize, RunOver, Status
  <2>3. CASE FinalizeFails(d)
    BY <2>3 DEF IInv, FinalizeFails, RunOver
  <2> QED BY <1>5, <2>1, <2>2, <2>3 DEF EndStep
<1>6. CASE UNCHANGED vars
  BY <1>6 DEF IInv, vars
<1> QED
  BY <1>1, <1>2, <1>3, <1>4, <1>5, <1>6 DEF Next

-------------------------------------------------------------------------------
(* What a step that is not e's leaves of e, and of what e wrote.           *)
Kept(e) ==
  /\ run'[e] = run[e] /\ pc'[e] = pc[e] /\ xcom'[e] = xcom[e] /\ plan'[e] = plan[e]
  /\ left'[e] = left[e] /\ item'[e] = item[e]
  /\ task'[e] = task[e] /\ try'[e] = try[e] /\ result'[e] = result[e]
  /\ done'[e] = done[e] /\ failed'[e] = failed[e] /\ gaveUp'[e] = gaveUp[e]
  /\ found'[e] = found[e] /\ foundEver'[e] = foundEver[e]
  /\ runs'[Id(e)] = runs[Id(e)]
  /\ \A x : x.id = Id(e) => (x \in dq' <=> x \in dq)
  /\ \A x : x.run[1] = e => (x \in fresh' <=> x \in fresh)
  /\ alone'[e] => /\ alone[e] /\ catalog' = catalog
                  /\ \A f \in Dag \ {e} : pc'[f] \notin Seeding

LEMMA KeptInv ==
  ASSUME IInv, NEW e \in Dag, Kept(e)
  PROVE  DagInv(e)'
<1>0. DagInv(e)
  BY DEF IInv
<1>1. Id(e)' = Id(e) /\ FileId(e)' = FileId(e) /\ Id(e)[1] = e
  BY DEF Kept, Id, FileId
<1>2. TaskInv(e)' /\ VerdictInv(e)' /\ RowInv(e)'
  BY <1>0, <1>1 DEF Kept, DagInv, TaskInv, VerdictInv, RowInv
<1>3. SeedInv(e)'
  BY <1>0, <1>1 DEF Kept, DagInv, SeedInv, SeedRow, RowsOf
<1>4. ResultInv(e)'
  <2>1. \A c : ResultsOf(e, c)' = ResultsOf(e, c) /\ ResultRow(e, Id(e), c)' = ResultRow(e, Id(e), c)
    BY <1>1 DEF Kept, ResultsOf, ResultRow
  <2> QED BY <1>0, <1>1, <2>1 DEF Kept, DagInv, ResultInv
<1>5. FreshInv(e)'
  <2>1. Breaches(e)' = Breaches(e)
    BY <1>1 DEF Kept, Breaches
  <2>2. \A x \in fresh' : x.run[1] = e => x \in fresh
    BY DEF Kept
  <2> QED BY <1>0, <1>1, <2>1, <2>2 DEF Kept, DagInv, FreshInv
<1> QED BY <1>2, <1>3, <1>4, <1>5 DEF DagInv

(* The ids two DAGs file under are never the same run. *)
LEMMA OtherId ==
  ASSUME NEW d, NEW e, e # d
  PROVE  Id(d) # Id(e) /\ Id(d)[1] = d /\ NoId # Id(e) /\ FileId(d) # Id(e)
BY DEF Id, NoId, FileId

LEMMA OthersKept ==
  ASSUME IInv, NEW d \in Dag, NEW e \in Dag, e # d,
         StartStep(d) \/ RecordStep(d) \/ FreshnessStep(d) \/ EndStep(d)
  PROVE  Kept(e)
<1>0. Shape /\ SeedInv(e) /\ Id(d) # Id(e) /\ Id(d)[1] = d /\ FileId(d) # Id(e)
  BY OtherId DEF IInv, DagInv
<1> USE <1>0 DEF Shape, Go, Loop, Fault, Kept, yamlVars, metaVars, loopVars, tryVars, runVars, countVars
<1>1. CASE StartStep(d)
  <2>1. ASSUME NEW r \in 1..MaxRuns, StartRun(d, r) PROVE Kept(e)
    BY <2>1 DEF StartRun, SeedInv, Seeding
  <2>2. ASSUME NEW ts, ClearTasks(d, ts) PROVE Kept(e)
    BY <2>2 DEF ClearTasks, SeedInv, Seeding
  <2>3. CASE DeleteRun(d)
    BY <2>3 DEF DeleteRun, SeedInv, Seeding
  <2>4. CASE InsertRun(d)
    <3>1. ~alone'[e]
      BY <2>4 DEF InsertRun
    <3> QED BY <2>4, <3>1 DEF InsertRun
  <2>5. ASSUME NEW o \in Object, DeleteObject(d, o) PROVE Kept(e)
    BY <2>5 DEF DeleteObject, SeedInv, Seeding
  <2>6. CASE InsertObject(d)
    BY <2>6 DEF InsertObject, SeedInv, Seeding
  <2>7. CASE DeleteAbsent(d)
    BY <2>7 DEF DeleteAbsent, SeedInv, Seeding
  <2>8. CASE StartKilled(d)
    BY <2>8 DEF StartKilled, SeedInv, Seeding
  <2>9. CASE StartFails(d)
    BY <2>9 DEF StartFails, SeedInv, Seeding
  <2> QED BY <1>1, <2>1, <2>2, <2>3, <2>4, <2>5, <2>6, <2>7, <2>8, <2>9 DEF StartStep
<1>2. CASE RecordStep(d)
  <2>1. ASSUME NEW t \in Task, NEW r \in {"pass", "fail"}, StartTry(d, t, r) PROVE Kept(e)
    BY <2>1 DEF StartTry, BeginTry, SeedInv, Seeding
  <2>2. ASSUME NEW c \in left[d], DeleteResult(d, c) PROVE Kept(e)
    BY <2>2 DEF DeleteResult, SeedInv, Seeding
  <2>3. CASE InsertResult(d)
    BY <2>3 DEF InsertResult, ResultRow, SeedInv, Seeding
  <2>4. CASE CliRetries(d)
    BY <2>4 DEF CliRetries, SeedInv, Seeding
  <2>5. ASSUME NEW r \in {"pass", "fail", "killed"}, RecordFails(d, r) PROVE Kept(e)
    BY <2>5 DEF RecordFails, SeedInv, Seeding
  <2> QED BY <1>2, <2>1, <2>2, <2>3, <2>4, <2>5 DEF RecordStep
<1>3. CASE FreshnessStep(d)
  <2>1. CASE StartFreshness(d)
    BY <2>1 DEF StartFreshness, BeginTry, SeedInv, Seeding
  <2>2. ASSUME NEW o \in Object, NEW s \in Sla, Probe(d, o, s) PROVE Kept(e)
    BY <2>2 DEF Probe, SeedInv, Seeding
  <2>3. CASE InsertFresh(d)
    BY <2>3 DEF InsertFresh, SeedInv, Seeding
  <2>4. CASE ReadBreaches(d)
    BY <2>4 DEF ReadBreaches, SeedInv, Seeding
  <2>5. ASSUME NEW r \in {"pass", "fail", "killed"}, FreshnessFails(d, r) PROVE Kept(e)
    BY <2>5 DEF FreshnessFails, SeedInv, Seeding
  <2> QED BY <1>3, <2>1, <2>2, <2>3, <2>4, <2>5 DEF FreshnessStep
<1>4. CASE EndStep(d)
  <2>1. ASSUME NEW again \in BOOLEAN, EndTry(d, again) PROVE Kept(e)
    BY <2>1 DEF EndTry, SeedInv, Seeding
  <2>2. CASE Finalize(d)
    BY <2>2 DEF Finalize, RunOver, SeedInv, Seeding
  <2>3. CASE FinalizeFails(d)
    BY <2>3 DEF FinalizeFails, RunOver, SeedInv, Seeding
  <2> QED BY <1>4, <2>1, <2>2, <2>3 DEF EndStep
<1> QED BY <1>1, <1>2, <1>3, <1>4

-------------------------------------------------------------------------------
(* What d's own step leaves of d. *)
LEMMA OwnStart ==
  ASSUME IInv, NEW d \in Dag, StartStep(d)
  PROVE  DagInv(d)'
<1>0. Shape /\ TaskInv(d) /\ SeedInv(d) /\ ResultInv(d) /\ FreshInv(d) /\ VerdictInv(d) /\ RowInv(d)
  BY DEF IInv, DagInv
<1>a. \A e \in Dag : SeedInv(e) /\ TaskInv(e)
  BY DEF IInv, DagInv
<1> USE <1>0 DEF Shape, Go, Loop, Fault, Starting, Trying, Seeding, Recording, Measuring, Place,
     yamlVars, metaVars, loopVars, tryVars, runVars, countVars
<1>1. ASSUME NEW r \in 1..MaxRuns, StartRun(d, r) PROVE DagInv(d)'
  <2>1. TaskInv(d)'
    BY <1>1 DEF StartRun, TaskInv
  <2>2. SeedInv(d)'
    BY <1>1 DEF StartRun, SeedInv
  <2>3. ResultInv(d)'
    BY <1>1 DEF StartRun, ResultInv
  <2>4. FreshInv(d)'
    <3>1. r = run[d] \/ r = run[d] + 1
      BY <1>1 DEF StartRun
    <3>2. CASE r = run[d]
      <4>1. run' = run /\ foundEver' = foundEver /\ fresh' = fresh /\ Breaches(d)' = Breaches(d)
        BY <1>1, <3>2 DEF StartRun, Breaches, Id
      <4> QED BY <1>1, <4>1 DEF StartRun, FreshInv
    <3>3. CASE r = run[d] + 1
      <4>1. run'[d] = run[d] + 1 /\ fresh' = fresh /\ run[d] \in Int /\ pc'[d] = "delete_run"
        BY <1>1, <3>3 DEF StartRun
      <4>2. \A x \in fresh : x.run[1] = d => x.run[2] \in Int
        BY DEF FreshRow, Run
      <4>3. Breaches(d)' = {}
        <5>1. Id(d)' = <<d, run[d] + 1>>
          BY <4>1 DEF Id
        <5>2. \A x \in fresh : x.run # <<d, run[d] + 1>>
          BY <4>1, <4>2 DEF FreshInv
        <5> QED BY <4>1, <5>1, <5>2 DEF Breaches
      <4>4. \A x \in fresh' : x.run[1] = d => x.run[2] <= run'[d]
        BY <4>1, <4>2 DEF FreshInv
      <4> QED BY <4>1, <4>3, <4>4 DEF FreshInv
    <3> QED BY <3>1, <3>2, <3>3
  <2>5. VerdictInv(d)' /\ RowInv(d)'
    BY <1>1 DEF StartRun, VerdictInv, RowInv
  <2> QED BY <2>1, <2>2, <2>3, <2>4, <2>5 DEF DagInv
<1>2. ASSUME NEW ts, ClearTasks(d, ts) PROVE DagInv(d)'
  <2>0. Id(d)' = Id(d) /\ Breaches(d)' = Breaches(d)
    BY <1>2 DEF ClearTasks, Id, Breaches
  <2>1. TaskInv(d)'
    <3>1. done'[d] \subseteq done[d] /\ failed'[d] \subseteq failed[d] /\ run' = run /\ run[d] > 0
      BY <1>2 DEF ClearTasks, TaskInv
    <3> QED BY <1>2, <3>1 DEF ClearTasks, TaskInv
  <2>2. SeedInv(d)'
    BY <1>2 DEF ClearTasks, SeedInv
  <2>3. ResultInv(d)'
    BY <1>2 DEF ClearTasks, ResultInv
  <2>4. FreshInv(d)'
    BY <1>2, <2>0 DEF ClearTasks, FreshInv
  <2>5. VerdictInv(d)' /\ RowInv(d)'
    BY <1>2, <2>0 DEF ClearTasks, VerdictInv, RowInv
  <2> QED BY <2>1, <2>2, <2>3, <2>4, <2>5 DEF DagInv
<1>3. CASE DeleteRun(d)
  <2>0. Id(d)' = Id(d) /\ Breaches(d)' = Breaches(d)
    BY <1>3 DEF DeleteRun, Id, Breaches
  <2>1. TaskInv(d)'
    BY <1>3 DEF DeleteRun, TaskInv
  <2>2. SeedInv(d)'
    BY <1>3 DEF DeleteRun, SeedInv
  <2>3. ResultInv(d)'
    BY <1>3 DEF DeleteRun, ResultInv
  <2>4. FreshInv(d)'
    BY <1>3, <2>0 DEF DeleteRun, FreshInv
  <2>5. VerdictInv(d)' /\ RowInv(d)'
    BY <1>3, <2>0 DEF DeleteRun, VerdictInv, RowInv
  <2> QED BY <2>1, <2>2, <2>3, <2>4, <2>5 DEF DagInv
<1>4. CASE InsertRun(d)
  <2>0. Id(d)' = Id(d) /\ Breaches(d)' = Breaches(d) /\ Id(d) \in Run
    BY <1>4, IdIsRun DEF InsertRun, Id, Breaches, TaskInv
  <2>1. TaskInv(d)'
    BY <1>4 DEF InsertRun, TaskInv
  <2>2. SeedInv(d)'
    <3>1. left'[d] = plan'[d].objects /\ pc'[d] = "delete_object"
      BY <1>4 DEF InsertRun
    <3>2. alone'[d] => \A e \in Dag \ {d} : pc'[e] \notin Seeding
      BY <1>4 DEF InsertRun
    <3> QED BY <3>1, <3>2 DEF SeedInv
  <2>3. ResultInv(d)'
    BY <1>4 DEF InsertRun, ResultInv
  <2>4. FreshInv(d)'
    BY <1>4, <2>0 DEF InsertRun, FreshInv
  <2>5. VerdictInv(d)'
    BY <1>4 DEF InsertRun, VerdictInv
  <2>6. RowInv(d)'
    BY <1>4, <2>0 DEF InsertRun, RowInv
  <2> QED BY <2>1, <2>2, <2>3, <2>4, <2>5, <2>6 DEF DagInv
<1>5. ASSUME NEW o \in Object, DeleteObject(d, o) PROVE DagInv(d)'
  <2>0. Id(d)' = Id(d) /\ Breaches(d)' = Breaches(d)
    BY <1>5 DEF DeleteObject, Id, Breaches
  <2>1. TaskInv(d)'
    BY <1>5 DEF DeleteObject, TaskInv
  <2>2. SeedInv(d)'
    <3>1. /\ pc'[d] = "insert_object" /\ item'[d] = o /\ o \in left'[d] /\ left' = left
          /\ plan' = plan /\ alone' = alone /\ \A e \in Dag \ {d} : pc'[e] = pc[e]
      BY <1>5 DEF DeleteObject
    <3>2. RowsOf(o)' = {}
      BY <1>5 DEF DeleteObject, RowsOf
    <3>3. \A p \in Object \ {o} : RowsOf(p)' = RowsOf(p) /\ SeedRow(d, p)' = SeedRow(d, p)
      BY <1>5, <2>0 DEF DeleteObject, RowsOf, SeedRow
    <3>4. plan[d].objects \subseteq Object
      OBVIOUS
    <3> HIDE DEF Shape, Go, Loop
    <3> QED BY <1>5, <3>1, <3>2, <3>3, <3>4 DEF SeedInv, DeleteObject
  <2>3. ResultInv(d)'
    BY <1>5 DEF DeleteObject, ResultInv
  <2>4. FreshInv(d)'
    BY <1>5, <2>0 DEF DeleteObject, FreshInv
  <2>5. VerdictInv(d)' /\ RowInv(d)'
    BY <1>5, <2>0 DEF DeleteObject, VerdictInv, RowInv
  <2> QED BY <2>1, <2>2, <2>3, <2>4, <2>5 DEF DagInv
<1>6. CASE InsertObject(d)
  <2>0. Id(d)' = Id(d) /\ Breaches(d)' = Breaches(d)
    BY <1>6 DEF InsertObject, Id, Breaches
  <2>1. TaskInv(d)'
    BY <1>6 DEF InsertObject, TaskInv
  <2>2. SeedInv(d)'
    <3>1. /\ left'[d] = left[d] \ {item[d]} /\ item[d] \in left[d] /\ left[d] \subseteq plan[d].objects
          /\ plan' = plan /\ alone' = alone /\ \A e \in Dag \ {d} : pc'[e] = pc[e]
          /\ pc'[d] = IF left[d] = {item[d]} THEN "delete_absent" ELSE "delete_object"
          /\ pc[d] = "insert_object"
      BY <1>6 DEF InsertObject, SeedInv
    <3>2. \A p : SeedRow(d, p)' = SeedRow(d, p) /\ SeedRow(d, p).object = p
      BY <1>6, <2>0 DEF InsertObject, SeedRow
    <3>3. catalog' = catalog \cup {SeedRow(d, item[d])}
      BY <1>6 DEF InsertObject
    <3>4. \A p : p = item[d] => RowsOf(p)' = RowsOf(p) \cup {SeedRow(d, p)}
      BY <3>2, <3>3 DEF RowsOf
    <3>5. \A p : p # item[d] => RowsOf(p)' = RowsOf(p)
      BY <3>2, <3>3 DEF RowsOf
    <3> HIDE DEF Shape, Go, Loop
    <3>6. ASSUME alone[d], NEW p \in plan[d].objects \ left'[d]
          PROVE  RowsOf(p)' = {SeedRow(d, p)}
      <4>1. CASE p = item[d]
        <5>1. RowsOf(p) = {}
          BY <3>1, <3>6, <4>1 DEF SeedInv
        <5> QED BY <3>4, <4>1, <5>1
      <4>2. CASE p # item[d]
        BY <3>1, <3>5, <3>6, <4>2 DEF SeedInv
      <4> QED BY <4>1, <4>2
    <3>7. alone[d] => \A e \in Dag \ {d} : pc'[e] \notin Seeding
      BY <3>1 DEF SeedInv
    <3>8. pc'[d] \in Seeding /\ pc'[d] # "insert_object" /\ (pc'[d] = "delete_absent" => left'[d] = {})
      BY <3>1
    <3> QED BY <3>1, <3>2, <3>6, <3>7, <3>8 DEF SeedInv
  <2>3. ResultInv(d)'
    BY <1>6 DEF InsertObject, ResultInv
  <2>4. FreshInv(d)'
    BY <1>6, <2>0 DEF InsertObject, FreshInv
  <2>5. VerdictInv(d)' /\ RowInv(d)'
    BY <1>6, <2>0 DEF InsertObject, VerdictInv, RowInv
  <2> QED BY <2>1, <2>2, <2>3, <2>4, <2>5 DEF DagInv
<1>7. ASSUME DeleteAbsent(d) \/ StartFails(d) PROVE DagInv(d)'
  <2>0. Id(d)' = Id(d) /\ Breaches(d)' = Breaches(d)
    BY <1>7 DEF DeleteAbsent, StartFails, Id, Breaches
  <2>1. TaskInv(d)'
    BY <1>7 DEF DeleteAbsent, StartFails, TaskInv
  <2>2. SeedInv(d)'
    BY <1>7 DEF DeleteAbsent, StartFails, SeedInv
  <2>3. ResultInv(d)'
    BY <1>7 DEF DeleteAbsent, StartFails, ResultInv
  <2>4. FreshInv(d)'
    BY <1>7, <2>0 DEF DeleteAbsent, StartFails, FreshInv
  <2>5. VerdictInv(d)' /\ RowInv(d)'
    BY <1>7, <2>0 DEF DeleteAbsent, StartFails, VerdictInv, RowInv
  <2> QED BY <2>1, <2>2, <2>3, <2>4, <2>5 DEF DagInv
<1>8. CASE StartKilled(d)
  <2>0. Id(d)' = Id(d) /\ Breaches(d)' = Breaches(d)
    BY <1>8 DEF StartKilled, Id, Breaches
  <2>1. TaskInv(d)'
    BY <1>8 DEF StartKilled, TaskInv
  <2>2. SeedInv(d)'
    BY <1>8 DEF StartKilled, SeedInv
  <2>3. ResultInv(d)'
    BY <1>8 DEF StartKilled, ResultInv
  <2>4. FreshInv(d)'
    BY <1>8, <2>0 DEF StartKilled, FreshInv
  <2>5. VerdictInv(d)' /\ RowInv(d)'
    BY <1>8, <2>0 DEF StartKilled, VerdictInv, RowInv
  <2> QED BY <2>1, <2>2, <2>3, <2>4, <2>5 DEF DagInv
<1> QED BY <1>1, <1>2, <1>3, <1>4, <1>5, <1>6, <1>7, <1>8 DEF StartStep

LEMMA OwnRecord ==
  ASSUME IInv, NEW d \in Dag, RecordStep(d)
  PROVE  DagInv(d)'
<1>0. Shape /\ TaskInv(d) /\ SeedInv(d) /\ ResultInv(d) /\ FreshInv(d) /\ VerdictInv(d) /\ RowInv(d)
  BY DEF IInv, DagInv
<1> USE <1>0 DEF Shape, Go, Loop, Fault, Starting, Trying, Seeding, Recording, Measuring, Place,
     yamlVars, metaVars, loopVars, tryVars, runVars, countVars
<1>1. ASSUME NEW t \in Task, NEW r \in {"pass", "fail"}, StartTry(d, t, r) PROVE DagInv(d)'
  <2>0. Id(d)' = Id(d) /\ Breaches(d)' = Breaches(d)
    BY <1>1 DEF StartTry, BeginTry, Id, Breaches
  <2>1. TaskInv(d)'
    <3>1. t \in TasksOf(d) /\ task'[d] = t /\ try'[d] = tries + 1 /\ tries \in Nat
      BY <1>1 DEF StartTry, BeginTry, Startable
    <3>2. (pc'[d] = "delete" /\ left'[d] = ChecksOf(t) /\ ~gaveUp'[d]) \/ pc'[d] = "verdict"
      BY <1>1 DEF StartTry, TaskInv, BeginTry
    <3>3. t # "freshness" /\ UNCHANGED <<run, done, failed, found, foundEver>> /\ pc[d] = "tasks"
      BY <1>1 DEF StartTry, BeginTry
    <3> QED BY <3>1, <3>2, <3>3 DEF TaskInv
  <2>2. SeedInv(d)'
    BY <1>1 DEF StartTry, BeginTry, SeedInv
  <2>3. ResultInv(d)'
    <3>1. \/ pc'[d] = "verdict" /\ gaveUp'[d]
          \/ pc'[d] = "delete" /\ left'[d] = ChecksOf(task'[d])
      BY <1>1 DEF StartTry, BeginTry
    <3> QED BY <3>1 DEF ResultInv
  <2>4. FreshInv(d)'
    <3>1. pc'[d] \in {"delete", "verdict"} /\ UNCHANGED <<fresh, run, foundEver>>
      BY <1>1 DEF StartTry, BeginTry
    <3> QED BY <2>0, <3>1 DEF FreshInv
  <2>5. VerdictInv(d)'
    <3>1. task'[d] # "freshness"
      BY <1>1 DEF StartTry, BeginTry
    <3> QED BY <3>1 DEF VerdictInv
  <2>6. RowInv(d)'
    BY <1>1, <2>0 DEF StartTry, BeginTry, RowInv
  <2> QED BY <2>1, <2>2, <2>3, <2>4, <2>5, <2>6 DEF DagInv
<1>2. ASSUME NEW c \in left[d], DeleteResult(d, c) PROVE DagInv(d)'
  <2>0. Id(d)' = Id(d) /\ Breaches(d)' = Breaches(d)
    BY <1>2 DEF DeleteResult, Id, Breaches
  <2>1. TaskInv(d)'
    BY <1>2 DEF DeleteResult, TaskInv
  <2>2. SeedInv(d)'
    BY <1>2 DEF DeleteResult, SeedInv
  <2>3. ResultInv(d)'
    <3>1. /\ pc[d] = "delete" /\ pc'[d] = "insert" /\ item'[d] = c /\ left' = left /\ task' = task /\ try' = try
          /\ FileId(d)' = FileId(d)
      BY <1>2, <2>0 DEF DeleteResult, FileId
    <3>2. FileId(d) = Id(d) => ResultsOf(d, c)' = {}
      BY <1>2, <2>0 DEF DeleteResult, ResultsOf
    <3>3. \A k : k # c => ResultsOf(d, k)' = ResultsOf(d, k)
      BY <1>2, <2>0 DEF DeleteResult, ResultsOf
    <3>4. \A k : ResultRow(d, Id(d), k)' = ResultRow(d, Id(d), k)
      BY <2>0, <3>1 DEF ResultRow
    <3> HIDE DEF Shape, Go, Loop
    <3> QED BY <2>0, <3>1, <3>2, <3>3, <3>4 DEF ResultInv
  <2>4. FreshInv(d)'
    BY <1>2, <2>0 DEF DeleteResult, FreshInv
  <2>5. VerdictInv(d)'
    BY <1>2 DEF DeleteResult, VerdictInv
  <2>6. RowInv(d)'
    BY <1>2, <2>0 DEF DeleteResult, RowInv
  <2> QED BY <2>1, <2>2, <2>3, <2>4, <2>5, <2>6 DEF DagInv
<1>3. CASE InsertResult(d)
  <2>0. Id(d)' = Id(d) /\ Breaches(d)' = Breaches(d)
    BY <1>3 DEF InsertResult, Id, Breaches
  <2>1. TaskInv(d)'
    BY <1>3 DEF InsertResult, TaskInv
  <2>2. SeedInv(d)'
    BY <1>3 DEF InsertResult, SeedInv
  <2>3. ResultInv(d)'
    <3>1. /\ pc[d] = "insert" /\ item[d] \in left[d] /\ left'[d] = left[d] \ {item[d]} /\ task' = task
          /\ try' = try /\ gaveUp' = gaveUp /\ FileId(d)' = FileId(d)
          /\ pc'[d] = IF left[d] = {item[d]} THEN "verdict" ELSE "delete"
          /\ dq' = dq \cup {ResultRow(d, FileId(d), item[d])}
      BY <1>3, <2>0 DEF InsertResult, FileId, ResultInv
    <3>2. \A id, k : /\ ResultRow(d, id, k).check = k /\ ResultRow(d, id, k).id = id
                     /\ ResultRow(d, id, k)' = ResultRow(d, id, k)
      BY <2>0, <3>1 DEF ResultRow
    <3>3. \A k : k # item[d] => ResultsOf(d, k)' = ResultsOf(d, k)
      BY <2>0, <3>1, <3>2 DEF ResultsOf
    <3>4. \A k : k = item[d] /\ FileId(d) = Id(d) => ResultsOf(d, k)' = ResultsOf(d, k) \cup {ResultRow(d, Id(d), k)}
      BY <2>0, <3>1, <3>2 DEF ResultsOf
    <3>5. FileId(d) = Id(d) => ResultsOf(d, item[d]) = {}
      BY <3>1 DEF ResultInv
    <3>6. FileId(d) = Id(d) => \A k \in ChecksOf(task[d]) \ left'[d] : ResultsOf(d, k)' = {ResultRow(d, Id(d), k)}
      <4> SUFFICES ASSUME FileId(d) = Id(d), NEW k \in ChecksOf(task[d]) \ left'[d]
                   PROVE  ResultsOf(d, k)' = {ResultRow(d, Id(d), k)}
        OBVIOUS
      <4>1. CASE k = item[d]
        BY <3>4, <3>5, <4>1
      <4>2. CASE k # item[d]
        BY <3>1, <3>3, <4>2 DEF ResultInv
      <4> QED BY <4>1, <4>2
    <3> HIDE DEF Shape, Go, Loop
    <3> QED BY <2>0, <3>1, <3>2, <3>6 DEF ResultInv
  <2>4. FreshInv(d)'
    BY <1>3, <2>0 DEF InsertResult, FreshInv
  <2>5. VerdictInv(d)'
    BY <1>3 DEF InsertResult, VerdictInv, TaskInv
  <2>6. RowInv(d)'
    BY <1>3, <2>0 DEF InsertResult, RowInv
  <2> QED BY <2>1, <2>2, <2>3, <2>4, <2>5, <2>6 DEF DagInv
<1>4. CASE CliRetries(d)
  <2>0. Id(d)' = Id(d) /\ Breaches(d)' = Breaches(d)
    BY <1>4 DEF CliRetries, Id, Breaches
  <2>1. TaskInv(d)'
    BY <1>4 DEF CliRetries, TaskInv
  <2>2. SeedInv(d)'
    BY <1>4 DEF CliRetries, SeedInv
  <2>3. ResultInv(d)'
    BY <1>4 DEF CliRetries, ResultInv
  <2>4. FreshInv(d)'
    BY <1>4, <2>0 DEF CliRetries, FreshInv
  <2>5. VerdictInv(d)'
    BY <1>4 DEF CliRetries, VerdictInv
  <2>6. RowInv(d)'
    BY <1>4, <2>0 DEF CliRetries, RowInv
  <2> QED BY <2>1, <2>2, <2>3, <2>4, <2>5, <2>6 DEF DagInv
<1>5. ASSUME NEW r, RecordFails(d, r) PROVE DagInv(d)'
  <2>0. Id(d)' = Id(d) /\ Breaches(d)' = Breaches(d)
    BY <1>5 DEF RecordFails, Id, Breaches
  <2>1. TaskInv(d)'
    BY <1>5 DEF RecordFails, TaskInv
  <2>2. SeedInv(d)'
    BY <1>5 DEF RecordFails, SeedInv
  <2>3. ResultInv(d)'
    BY <1>5 DEF RecordFails, ResultInv
  <2>4. FreshInv(d)'
    BY <1>5, <2>0 DEF RecordFails, FreshInv
  <2>5. VerdictInv(d)'
    BY <1>5 DEF RecordFails, VerdictInv, TaskInv
  <2>6. RowInv(d)'
    BY <1>5, <2>0 DEF RecordFails, RowInv
  <2> QED BY <2>1, <2>2, <2>3, <2>4, <2>5, <2>6 DEF DagInv
<1> QED BY <1>1, <1>2, <1>3, <1>4, <1>5 DEF RecordStep

LEMMA OwnFreshness ==
  ASSUME IInv, NEW d \in Dag, FreshnessStep(d)
  PROVE  DagInv(d)'
<1>0. Shape /\ TaskInv(d) /\ SeedInv(d) /\ ResultInv(d) /\ FreshInv(d) /\ VerdictInv(d) /\ RowInv(d)
  BY DEF IInv, DagInv
<1> USE <1>0 DEF Shape, Go, Loop, Fault, Starting, Trying, Seeding, Recording, Measuring, Place,
     yamlVars, metaVars, loopVars, tryVars, runVars, countVars
<1>1. CASE StartFreshness(d)
  <2>0. Id(d)' = Id(d) /\ Breaches(d)' = Breaches(d)
    BY <1>1 DEF StartFreshness, BeginTry, Id, Breaches
  <2>1. TaskInv(d)'
    <3>1. "freshness" \in TasksOf(d) /\ task'[d] = "freshness" /\ try'[d] = tries + 1 /\ tries \in Nat
      BY <1>1 DEF StartFreshness, BeginTry, Startable
    <3> QED BY <1>1, <3>1 DEF StartFreshness, BeginTry, TaskInv
  <2>2. SeedInv(d)'
    BY <1>1 DEF StartFreshness, BeginTry, SeedInv
  <2>3. ResultInv(d)'
    BY <1>1 DEF StartFreshness, BeginTry, ResultInv
  <2>4. FreshInv(d)'
    <3>1. found[d] = {} /\ pc'[d] = "probe" /\ UNCHANGED <<fresh, run, found, foundEver>>
      BY <1>1 DEF StartFreshness, BeginTry, TaskInv
    <3> QED BY <2>0, <3>1 DEF FreshInv
  <2>5. VerdictInv(d)'
    BY <1>1 DEF StartFreshness, BeginTry, VerdictInv
  <2>6. RowInv(d)'
    BY <1>1, <2>0 DEF StartFreshness, BeginTry, RowInv
  <2> QED BY <2>1, <2>2, <2>3, <2>4, <2>5, <2>6 DEF DagInv
<1>2. ASSUME NEW o \in Object, NEW s \in Sla, Probe(d, o, s) PROVE DagInv(d)'
  <2>0. Id(d)' = Id(d)
    BY <1>2 DEF Probe, Id
  <2>1. TaskInv(d)'
    <3>1. found'[d] \subseteq foundEver'[d] /\ pc[d] = "probe" /\ pc'[d] = "insert_fresh"
      BY <1>2 DEF Probe, TaskInv
    <3> QED BY <1>2, <3>1 DEF Probe, TaskInv
  <2>2. SeedInv(d)'
    BY <1>2 DEF Probe, SeedInv
  <2>3. ResultInv(d)'
    BY <1>2 DEF Probe, ResultInv
  <2>4. FreshInv(d)'
    <3>1. /\ pc[d] = "probe" /\ pc'[d] = "insert_fresh" /\ o \in left[d] /\ left' = left /\ run' = run
          /\ item'[d] = [object |-> o, status |-> s] /\ found[d] \cap left[d] = {}
          /\ fresh' = {x \in fresh : x.run # Id(d) \/ x.object # o}
      BY <1>2 DEF Probe, FreshInv
    <3>2. /\ found'[d] = IF s = "breach" THEN found[d] \cup {o} ELSE found[d]
          /\ foundEver[d] \subseteq foundEver'[d]
      <4>1. \/ s # "breach" /\ UNCHANGED <<found, foundEver>>
            \/ /\ s = "breach" /\ found' = [found EXCEPT ![d] = @ \cup {o}]
               /\ foundEver' = [foundEver EXCEPT ![d] = @ \cup {o}]
        BY <1>2 DEF Probe
      <4>2. d \in DOMAIN found /\ d \in DOMAIN foundEver
        OBVIOUS
      <4> HIDE DEF Shape
      <4> QED BY <4>1, <4>2
    <3>3. Breaches(d)' = {x \in Breaches(d) : x.object # o}
      BY <2>0, <3>1 DEF Breaches
    <3> HIDE DEF Shape, Go, Loop
    <3>4. \A x \in fresh' : x.run[1] = d => x.run[2] <= run'[d]
      BY <3>1 DEF FreshInv
    <3>5. \A x \in Breaches(d)' : x.object \in foundEver'[d]
      BY <3>2, <3>3 DEF FreshInv
    <3>6. /\ item'[d] \in Probed /\ item'[d].object = o /\ item'[d].status = s
          /\ s = "breach" <=> o \in found'[d]
          /\ found'[d] \cap left'[d] \subseteq {o}
      BY <3>1, <3>2 DEF Probed
    <3>7. \A p \in found'[d] \ left'[d] : \E x \in Breaches(d)' : x.object = p
      BY <3>1, <3>2, <3>3 DEF FreshInv
    <3> QED BY <3>1, <3>4, <3>5, <3>6, <3>7 DEF FreshInv
  <2>5. VerdictInv(d)'
    BY <1>2 DEF Probe, VerdictInv
  <2>6. RowInv(d)'
    BY <1>2, <2>0 DEF Probe, RowInv
  <2> QED BY <2>1, <2>2, <2>3, <2>4, <2>5, <2>6 DEF DagInv
<1>3. CASE InsertFresh(d)
  <2>0. Id(d)' = Id(d)
    BY <1>3 DEF InsertFresh, Id
  <2>1. TaskInv(d)'
    BY <1>3 DEF InsertFresh, TaskInv
  <2>2. SeedInv(d)'
    BY <1>3 DEF InsertFresh, SeedInv
  <2>3. ResultInv(d)'
    BY <1>3 DEF InsertFresh, ResultInv
  <2>4. FreshInv(d)'
    <3>1. /\ pc[d] = "insert_fresh" /\ item[d] \in Probed /\ item[d].object \in left[d]
          /\ left'[d] = left[d] \ {item[d].object} /\ UNCHANGED <<run, found, foundEver>>
          /\ pc'[d] = IF left[d] = {item[d].object} THEN "breaches" ELSE "probe"
          /\ item[d].status = "breach" <=> item[d].object \in found[d]
          /\ found[d] \cap left[d] \subseteq {item[d].object}
      BY <1>3 DEF InsertFresh, FreshInv
    <3> DEFINE row == [run |-> Id(d), object |-> item[d].object, status |-> item[d].status]
    <3>2. fresh' = fresh \cup {row}
      BY <1>3 DEF InsertFresh
    <3>3. row.run = <<d, run[d]>> /\ row.object = item[d].object /\ row.status = item[d].status
      BY DEF Id
    <3> HIDE DEF Shape, Go, Loop, row
    <3>4. ASSUME NEW x \in Breaches(d)' PROVE x \in Breaches(d) \/ (x = row /\ row.object \in found[d])
      <4>1. x \in fresh' /\ x.run = Id(d) /\ x.status = "breach"
        BY <2>0 DEF Breaches
      <4>2. CASE x = row
        BY <3>1, <3>3, <4>1, <4>2
      <4>3. CASE x \in fresh
        BY <4>1, <4>3 DEF Breaches
      <4> QED BY <3>2, <4>1, <4>2, <4>3
    <3>5. \A x : x \in Breaches(d) \/ (x = row /\ row.object \in found[d]) => x \in Breaches(d)'
      BY <2>0, <3>1, <3>2, <3>3 DEF Breaches, Id
    <3>6. \A x \in fresh' : x.run[1] = d => x.run[2] <= run'[d]
      <4>1. run[d] \in Int
        BY DEF Shape
      <4> QED BY <3>1, <3>2, <3>3, <4>1 DEF FreshInv
    <3>7. \A x \in Breaches(d)' : x.object \in foundEver'[d]
      BY <3>1, <3>4 DEF FreshInv, TaskInv
    <3>8. ASSUME NEW p \in found'[d] \ left'[d] PROVE \E x \in Breaches(d)' : x.object = p
      <4>1. CASE p = item[d].object
        BY <3>1, <3>3, <3>5, <4>1
      <4>2. CASE p # item[d].object
        <5>1. p \in found[d] \ left[d]
          BY <3>1, <4>2
        <5>2. PICK x \in Breaches(d) : x.object = p
          BY <3>1, <5>1 DEF FreshInv
        <5> QED BY <3>5, <5>2
      <4> QED BY <4>1, <4>2
    <3>9. pc'[d] \in {"probe", "breaches"} /\ found'[d] \cap left'[d] = {} /\ (pc'[d] = "breaches" => left'[d] = {})
      BY <3>1
    <3> QED BY <3>6, <3>7, <3>8, <3>9 DEF FreshInv
  <2>5. VerdictInv(d)'
    BY <1>3 DEF InsertFresh, VerdictInv
  <2>6. RowInv(d)'
    BY <1>3, <2>0 DEF InsertFresh, RowInv
  <2> QED BY <2>1, <2>2, <2>3, <2>4, <2>5, <2>6 DEF DagInv
<1>4. CASE ReadBreaches(d)
  <2>0. Id(d)' = Id(d) /\ Breaches(d)' = Breaches(d)
    BY <1>4 DEF ReadBreaches, Id, Breaches
  <2>1. TaskInv(d)'
    BY <1>4 DEF ReadBreaches, TaskInv
  <2>2. SeedInv(d)'
    BY <1>4 DEF ReadBreaches, SeedInv
  <2>3. ResultInv(d)'
    BY <1>4 DEF ReadBreaches, ResultInv, TaskInv
  <2>4. FreshInv(d)'
    BY <1>4, <2>0 DEF ReadBreaches, FreshInv
  <2>5. VerdictInv(d)'
    <3>1. /\ UNCHANGED <<found, foundEver, fresh>> /\ left[d] = {} /\ pc[d] = "breaches"
          /\ result'[d] = IF Breaches(d) = {} THEN "pass" ELSE "fail"
      BY <1>4 DEF ReadBreaches, FreshInv
    <3>2. \A x \in Breaches(d) : x.object \in foundEver[d]
      BY DEF FreshInv
    <3>3. \A o \in found[d] : \E x \in Breaches(d) : x.object = o
      BY <3>1 DEF FreshInv
    <3> QED BY <3>1, <3>2, <3>3 DEF VerdictInv
  <2>6. RowInv(d)'
    BY <1>4, <2>0 DEF ReadBreaches, RowInv
  <2> QED BY <2>1, <2>2, <2>3, <2>4, <2>5, <2>6 DEF DagInv
<1>5. ASSUME NEW r \in {"pass", "fail", "killed"}, FreshnessFails(d, r) PROVE DagInv(d)'
  <2>0. Id(d)' = Id(d) /\ Breaches(d)' = Breaches(d)
    BY <1>5 DEF FreshnessFails, Id, Breaches
  <2>1. TaskInv(d)'
    BY <1>5 DEF FreshnessFails, TaskInv
  <2>2. SeedInv(d)'
    BY <1>5 DEF FreshnessFails, SeedInv
  <2>3. ResultInv(d)'
    BY <1>5 DEF FreshnessFails, ResultInv, TaskInv
  <2>4. FreshInv(d)'
    BY <1>5, <2>0 DEF FreshnessFails, FreshInv
  <2>5. VerdictInv(d)'
    BY <1>5 DEF FreshnessFails, VerdictInv
  <2>6. RowInv(d)'
    BY <1>5, <2>0 DEF FreshnessFails, RowInv
  <2> QED BY <2>1, <2>2, <2>3, <2>4, <2>5, <2>6 DEF DagInv
<1> QED BY <1>1, <1>2, <1>3, <1>4, <1>5 DEF FreshnessStep

LEMMA OwnEnd ==
  ASSUME IInv, NEW d \in Dag, EndStep(d)
  PROVE  DagInv(d)'
<1>0. Shape /\ TaskInv(d) /\ SeedInv(d) /\ ResultInv(d) /\ FreshInv(d) /\ VerdictInv(d) /\ RowInv(d)
  BY DEF IInv, DagInv
<1> USE <1>0 DEF Shape, Go, Loop, Fault, Starting, Trying, Seeding, Recording, Measuring, Place,
     yamlVars, metaVars, loopVars, tryVars, runVars, countVars
<1>1. ASSUME NEW again \in BOOLEAN, EndTry(d, again) PROVE DagInv(d)'
  <2>0. Id(d)' = Id(d) /\ Breaches(d)' = Breaches(d)
    BY <1>1 DEF EndTry, Id, Breaches
  <2>1. TaskInv(d)'
    <3>1. task[d] \in TasksOf(d) /\ run' = run /\ run[d] > 0 /\ pc'[d] = "tasks"
      BY <1>1 DEF EndTry, TaskInv
    <3>2. done'[d] \subseteq done[d] \cup {task[d]} /\ failed'[d] \subseteq failed[d] \cup {task[d]}
      BY <1>1 DEF EndTry
    <3>3. found'[d] = {} /\ ~gaveUp'[d]
      BY <1>1 DEF EndTry
    <3> QED BY <3>1, <3>2, <3>3 DEF TaskInv
  <2>2. SeedInv(d)'
    BY <1>1 DEF EndTry, SeedInv
  <2>3. ResultInv(d)'
    BY <1>1 DEF EndTry, ResultInv
  <2>4. FreshInv(d)'
    BY <1>1, <2>0 DEF EndTry, FreshInv
  <2>5. VerdictInv(d)'
    BY <1>1 DEF EndTry, VerdictInv
  <2>6. RowInv(d)'
    BY <1>1, <2>0 DEF EndTry, RowInv
  <2> QED BY <2>1, <2>2, <2>3, <2>4, <2>5, <2>6 DEF DagInv
<1>2. CASE Finalize(d)
  <2>0. Id(d)' = Id(d) /\ Breaches(d)' = Breaches(d)
    BY <1>2 DEF Finalize, RunOver, Id, Breaches
  <2>1. TaskInv(d)'
    BY <1>2 DEF Finalize, RunOver, TaskInv
  <2>2. SeedInv(d)'
    BY <1>2 DEF Finalize, RunOver, SeedInv
  <2>3. ResultInv(d)'
    BY <1>2 DEF Finalize, RunOver, ResultInv
  <2>4. FreshInv(d)'
    BY <1>2, <2>0 DEF Finalize, RunOver, FreshInv
  <2>5. VerdictInv(d)'
    BY <1>2 DEF Finalize, RunOver, VerdictInv
  <2>6. RowInv(d)'
    <3>1. Id(d) \in Run
      BY <1>2, IdIsRun DEF Finalize, RunOver, TaskInv
    <3> QED BY <1>2, <2>0, <3>1 DEF Finalize, RunOver, RowInv
  <2> QED BY <2>1, <2>2, <2>3, <2>4, <2>5, <2>6 DEF DagInv
<1>3. CASE FinalizeFails(d)
  <2>0. Id(d)' = Id(d) /\ Breaches(d)' = Breaches(d)
    BY <1>3 DEF FinalizeFails, RunOver, Id, Breaches
  <2>1. TaskInv(d)'
    BY <1>3 DEF FinalizeFails, RunOver, TaskInv
  <2>2. SeedInv(d)'
    BY <1>3 DEF FinalizeFails, RunOver, SeedInv
  <2>3. ResultInv(d)'
    BY <1>3 DEF FinalizeFails, RunOver, ResultInv
  <2>4. FreshInv(d)'
    BY <1>3, <2>0 DEF FinalizeFails, RunOver, FreshInv
  <2>5. VerdictInv(d)'
    BY <1>3 DEF FinalizeFails, RunOver, VerdictInv
  <2>6. RowInv(d)'
    BY <1>3, <2>0 DEF FinalizeFails, RunOver, RowInv
  <2> QED BY <2>1, <2>2, <2>3, <2>4, <2>5, <2>6 DEF DagInv
<1> QED BY <1>1, <1>2, <1>3 DEF EndStep

-------------------------------------------------------------------------------
LEMMA InitHolds == Init => IInv
<1> SUFFICES ASSUME Init PROVE IInv
  OBVIOUS
<1>1. Shape
  BY ObserverAssumption DEF Init, Shape, Place, Starting, NoPlan, Status
<1>2. ASSUME NEW d \in Dag PROVE DagInv(d)
  <2>1. TaskInv(d)
    BY DEF Init, TaskInv, Trying, Recording, Measuring
  <2>2. SeedInv(d)
    BY DEF Init, SeedInv, Seeding
  <2>3. ResultInv(d)
    BY DEF Init, ResultInv, Recording
  <2>4. FreshInv(d) /\ VerdictInv(d) /\ RowInv(d)
    BY DEF Init, FreshInv, Breaches, VerdictInv, RowInv, Measuring
  <2> QED BY <2>1, <2>2, <2>3, <2>4 DEF DagInv
<1> QED BY <1>1, <1>2 DEF IInv

LEMMA Inductive == IInv /\ [Next]_vars => IInv'
<1> SUFFICES ASSUME IInv, [Next]_vars, NEW e \in Dag PROVE DagInv(e)'
  BY ShapeStep DEF IInv
<1>1. ASSUME NEW objects, Deploy(objects) PROVE DagInv(e)'
  <2>1. Kept(e)
    BY <1>1 DEF IInv, DagInv, SeedInv, Seeding, Kept, Deploy, metaVars, loopVars, tryVars, runVars
  <2> QED BY <2>1, KeptInv
<1>2. ASSUME NEW d \in Dag, StartStep(d) \/ RecordStep(d) \/ FreshnessStep(d) \/ EndStep(d)
      PROVE  DagInv(e)'
  <2>1. CASE e = d
    BY <1>2, <2>1, OwnStart, OwnRecord, OwnFreshness, OwnEnd
  <2>2. CASE e # d
    BY <1>2, <2>2, OthersKept, KeptInv
  <2> QED BY <2>1, <2>2
<1>3. CASE UNCHANGED vars
  <2>1. Kept(e)
    BY <1>3 DEF IInv, DagInv, SeedInv, Seeding, Kept, vars, metaVars, loopVars, tryVars, runVars
  <2> QED BY <2>1, KeptInv
<1> QED BY <1>1, <1>2, <1>3 DEF Next

LEMMA Invariant == Spec => []IInv
BY InitHolds, Inductive, PTL DEF Spec

-------------------------------------------------------------------------------
(* Whatever is deployed, killed, retried or cleared, in any order of the   *)
(* DAGs: a DAG stands at one of its statements, in a run and with a task   *)
(* of its own, and what it has written names runs, objects and checks.     *)
THEOREM ObserverTypeCorrect == Spec => []TypeOK
<1>1. IInv => TypeOK
  <2> SUFFICES ASSUME IInv PROVE TypeOK
    OBVIOUS
  <2>1. Shape
    BY DEF IInv
  <2>2. ASSUME NEW d \in Dag
        PROVE  /\ pc[d] \in {"idle", "delete_run", "insert_run", "tasks", "verdict"}
                            \cup Seeding \cup Recording \cup Measuring
               /\ pc[d] # "idle" => run[d] > 0
               /\ plan[d].objects \subseteq Object /\ plan[d].version \in 0..MaxDeploys
               /\ pc[d] \in Recording => task[d] \in Task /\ left[d] \subseteq ChecksOf(task[d])
               /\ pc[d] \in Measuring => task[d] = "freshness" /\ left[d] \subseteq Object
               /\ cli[d] \in 0..CliAttempts
               /\ done[d] \cup failed[d] \subseteq TasksOf(d)
               /\ found[d] \subseteq foundEver[d] /\ foundEver[d] \subseteq Object
    <3>1. TaskInv(d)
      BY DEF IInv, DagInv
    <3>2. pc[d] \in Place
      BY <2>1 DEF Shape
    <3>3. TasksOf(d) \subseteq Task
      BY DEF TasksOf, Task
    <3> QED BY <2>1, <3>1, <3>2, <3>3 DEF Shape, TaskInv, Place, Starting, Trying
  <2> QED BY <2>1, <2>2 DEF Shape, TypeOK
<1> QED BY <1>1, Invariant, PTL

(* A try that could record left exactly its own results under its run; the *)
(* freshness task fails exactly for breaches measured; a pushed id joins a *)
(* run row: for any interleaving of statements, retries and cleared runs.  *)
THEOREM TriesAreTold == Spec => []TriesTold
<1>1. IInv => TriesTold
  <2> SUFFICES ASSUME IInv PROVE TriesTold
    OBVIOUS
  <2>1. ResultsCurrent
    BY DEF IInv, DagInv, ResultInv, ResultsCurrent, ResultsOf
  <2>2. BreachRaises
    BY DEF IInv, DagInv, VerdictInv, BreachRaises
  <2>3. JoinsRun
    BY DEF IInv, DagInv, RowInv, JoinsRun, FileId
  <2> QED BY <2>1, <2>2, <2>3 DEF TriesTold
<1> QED BY <1>1, Invariant, PTL

(* The last statement of a seed that no other seed overlapped leaves the   *)
(* catalog equal to its YAML, from whatever it held before.                *)
THEOREM SeedRestoresCatalog == Spec => CatalogRestored
<1> DEFINE Restores(d) ==
      pc[d] = "delete_absent" /\ pc'[d] = "tasks" /\ faults' = faults /\ alone[d]
      => catalog' = {SeedRow(d, o) : o \in plan[d].objects}
<1>1. ASSUME IInv, [Next]_vars, NEW d \in Dag PROVE Restores(d)
  <2> SUFFICES ASSUME pc[d] = "delete_absent", pc'[d] = "tasks", faults' = faults, alone[d]
               PROVE  catalog' = {SeedRow(d, o) : o \in plan[d].objects}
    OBVIOUS
  <2>0. Shape /\ SeedInv(d) /\ faults \in Int
    BY <1>1, ObserverAssumption DEF IInv, DagInv, Shape
  <2>1. DeleteAbsent(d)
    <3>1. ASSUME NEW objects, Deploy(objects) PROVE FALSE
      BY <3>1 DEF Deploy
    <3>2. ASSUME NEW e \in Dag, StartStep(e) \/ RecordStep(e) \/ FreshnessStep(e) \/ EndStep(e), e # d
          PROVE  FALSE
      BY <1>1, <3>2, OthersKept DEF Kept
    <3>3. CASE StartStep(d)
      BY <2>0, <3>3 DEF StartStep, StartRun, ClearTasks, DeleteRun, InsertRun, DeleteObject,
         InsertObject, StartKilled, StartFails, Fault
    <3>4. CASE RecordStep(d)
      BY <3>4 DEF RecordStep, StartTry, BeginTry, DeleteResult, InsertResult, CliRetries,
         RecordFails, Recording
    <3>5. CASE FreshnessStep(d)
      BY <3>5 DEF FreshnessStep, StartFreshness, BeginTry, Probe, InsertFresh, ReadBreaches,
         FreshnessFails, Measuring
    <3>6. CASE EndStep(d)
      BY <3>6 DEF EndStep, EndTry, Finalize, FinalizeFails, RunOver
    <3>7. CASE UNCHANGED vars
      BY <3>7 DEF vars
    <3> QED BY <1>1, <3>1, <3>2, <3>3, <3>4, <3>5, <3>6, <3>7 DEF Next
  <2>2. \A o \in plan[d].objects : RowsOf(o) = {SeedRow(d, o)}
    BY <2>0 DEF SeedInv
  <2>3. catalog' = {r \in catalog : r.object \in plan[d].objects}
    BY <2>1 DEF DeleteAbsent
  <2>4. ASSUME NEW r \in catalog' PROVE r \in {SeedRow(d, o) : o \in plan[d].objects}
    <3>1. r.object \in plan[d].objects /\ r \in RowsOf(r.object)
      BY <2>3 DEF RowsOf
    <3> QED BY <2>2, <3>1
  <2>5. ASSUME NEW o \in plan[d].objects PROVE SeedRow(d, o) \in catalog'
    <3>1. SeedRow(d, o) \in RowsOf(o)
      BY <2>2
    <3> QED BY <2>3, <3>1 DEF RowsOf
  <2> QED BY <2>4, <2>5
<1>2. IInv /\ [Next]_vars => [\A d \in Dag : Restores(d)]_vars
  BY <1>1
<1> QED BY <1>2, Invariant, PTL DEF Spec, CatalogRestored
===============================================================================
