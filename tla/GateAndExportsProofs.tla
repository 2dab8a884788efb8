------------------------- MODULE GateAndExportsProofs -------------------------
(***************************************************************************)
(* What Gold hands on: the row-count gate, for every set of marts, of      *)
(* counts and every threshold, and the exports, for any set of exports,    *)
(* any publishing order and any number of jobs.  The two share no state.   *)
(***************************************************************************)
EXTENDS RowCountGate, ConsumerExports, TLAPS

-------------------------------------------------------------------------------
(* RowCountGate                                                            *)

(* What an attempt has counted is what the mart held: the pending copies   *)
(* do not change while the gate runs.                                      *)
CountedInv ==
  phase = "gate" =>
    \A m \in OwnedMart \ todo : current[m] \in {pending[m], Unreadable}

(* Past the gate the pending copies hold the baseline, and the candidate,  *)
(* if there is one, is their counts.                                       *)
PassedInv ==
  phase \in {"publish", "drop", "save"} =>
    \A m \in OwnedMart :
      /\ m \in DOMAIN baseline => ~FallsBeyond(baseline[m], pending[m])
      /\ candidate = NoCounts \/ candidate[m] = pending[m]

(* Past the commit, live is the pending copies. *)
CommittedInv ==
  phase \in {"drop", "save"} => \A m \in OwnedMart : live[m] = pending[m]

BaselineInv == \A m \in OwnedMart : m \in DOMAIN baseline => baseline[m] \in Count

IInv == /\ TypeOK /\ CountedInv /\ PassedInv /\ CommittedInv /\ BaselineInv
        /\ LiveHoldsBaseline

-------------------------------------------------------------------------------
LEMMA NoCountsDomain == DOMAIN NoCounts = {}
BY DEF NoCounts

LEMMA CountsDomain ==
  ASSUME NEW c \in Counts, c # NoCounts
  PROVE  c \in [Mart -> Reading] /\ DOMAIN c = Mart
BY DEF Counts

(* A count never falls beyond itself. *)
LEMMA NoFall ==
  ASSUME NEW n \in Nat
  PROVE  ~FallsBeyond(n, n)
<1>1. ThresholdPct \in Nat
  BY GateAssumption
<1>2. ThresholdPct * n >= 0
  BY <1>1
<1> QED BY <1>1, <1>2 DEF FallsBeyond

(* The gate lets an owned mart pass only with a count that holds the       *)
(* baseline.                                                               *)
LEMMA PassedCounts ==
  ASSUME TypeOK, CountedInv, BaselineInv, phase = "gate", todo = {},
         Blocked = {}, NEW m \in OwnedMart
  PROVE  /\ current[m] = pending[m]
         /\ m \in DOMAIN baseline => ~FallsBeyond(baseline[m], pending[m])
<1>1. m \in Mart /\ m \in OwnedMart \ todo
  BY GateAssumption
<1>2. ~(current[m] < 0)
  BY DEF Blocked
<1>3. current[m] = pending[m]
  BY <1>1, <1>2 DEF CountedInv, Unreadable
<1>4. pending[m] \in Nat
  BY GateAssumption DEF TypeOK
<1>5. ASSUME m \in DOMAIN baseline, FallsBeyond(baseline[m], pending[m])
      PROVE  FALSE
  <2>1. baseline[m] \in Nat
    BY <1>5, GateAssumption DEF BaselineInv
  <2>2. CASE baseline[m] = 0
    <3>1. ThresholdPct * 0 = 0
      BY GateAssumption
    <3> QED BY <1>4, <1>5, <2>2, <3>1 DEF FallsBeyond
  <2>3. CASE baseline[m] > 0
    BY <1>3, <1>4, <1>5, <2>3 DEF Blocked, Comparable
  <2> QED BY <2>1, <2>2, <2>3
<1> QED BY <1>3, <1>5

LEMMA TypeNext == TypeOK /\ [Next]_vars => TypeOK'
<1> SUFFICES ASSUME TypeOK, [Next]_vars PROVE TypeOK'
  OBVIOUS
<1>1. ASSUME NEW rows \in [OwnedMart -> Count], BuildPending(rows) PROVE TypeOK'
  BY <1>1 DEF BuildPending, EnterGate, TypeOK, Counts
<1>2. ASSUME NEW m \in Mart, NEW readable \in BOOLEAN, CountMart(m, readable)
      PROVE  TypeOK'
  <2>1. (IF ~readable THEN Unreadable
         ELSE IF m \in OwnedMart THEN pending[m] ELSE live[m]) \in Reading
    BY DEF TypeOK, Reading
  <2> QED BY <1>2, <2>1 DEF CountMart, TypeOK
<1>3. CASE GatePasses
  <2>1. current \in Counts
    BY DEF TypeOK, Counts
  <2> QED BY <1>3, <2>1 DEF GatePasses, TypeOK, Counts, Warned
<1>4. CASE GateBlocks
  BY <1>4 DEF GateBlocks, EnterGate, EndRun, TypeOK
<1>5. CASE AttemptDies
  BY <1>5 DEF AttemptDies, EnterGate, EndRun, TypeOK
<1>6. CASE Publish
  <2>1. \A m \in OwnedMart : pending[m] \in Reading
    BY DEF TypeOK, Reading
  <2>2. live' \in [Mart -> Reading]
    BY <1>6, <2>1 DEF Publish, TypeOK
  <2> QED BY <1>6, <2>2 DEF Publish, TypeOK
<1>7. CASE PublishSucceeds
  BY <1>7 DEF PublishSucceeds, TypeOK
<1>8. CASE SaveBaseline
  BY <1>8 DEF SaveBaseline, TypeOK
<1>9. ASSUME NEW m \in Mart, NEW rows \in Count, OtherDagPublishes(m, rows)
      PROVE  TypeOK'
  BY <1>9 DEF OtherDagPublishes, TypeOK, Reading
<1>10. CASE UNCHANGED vars
  BY <1>10 DEF vars, TypeOK
<1> QED BY <1>1, <1>2, <1>3, <1>4, <1>5, <1>6, <1>7, <1>8, <1>9, <1>10 DEF Next

LEMMA InvInit == Init => IInv
<1> SUFFICES ASSUME Init PROVE IInv
  OBVIOUS
<1>1. TypeOK
  BY DEF Init, TypeOK, Counts, Reading
<1>2. DOMAIN baseline = {}
  BY NoCountsDomain DEF Init
<1> QED BY <1>1, <1>2
       DEF Init, IInv, CountedInv, PassedInv, CommittedInv, BaselineInv,
           LiveHoldsBaseline

-------------------------------------------------------------------------------
LEMMA InvNext == IInv /\ [Next]_vars => IInv'
<1> SUFFICES ASSUME IInv, [Next]_vars PROVE IInv'
  OBVIOUS
<1>0. TypeOK /\ TypeOK'
  BY TypeNext DEF IInv
<1> USE <1>0
<1>1. ASSUME NEW rows \in [OwnedMart -> Count], BuildPending(rows) PROVE IInv'
  <2>1. phase' = "gate" /\ todo' = Mart
    BY <1>1 DEF BuildPending, EnterGate
  <2>2. OwnedMart \ todo' = {}
    BY <2>1, GateAssumption
  <2> QED BY <1>1, <2>1, <2>2
         DEF BuildPending, IInv, CountedInv, PassedInv, CommittedInv,
             BaselineInv, LiveHoldsBaseline
<1>2. ASSUME NEW m \in Mart, NEW readable \in BOOLEAN, CountMart(m, readable)
      PROVE  IInv'
  <2>1. CountedInv'
    <3> SUFFICES ASSUME NEW o \in OwnedMart \ todo'
                 PROVE  current'[o] \in {pending'[o], Unreadable}
      BY DEF CountedInv
    <3>1. o \in Mart
      BY GateAssumption
    <3>2. CASE o = m
      BY <1>2, <3>1, <3>2 DEF CountMart, TypeOK
    <3>3. CASE o # m
      BY <1>2, <3>1, <3>3 DEF CountMart, TypeOK, IInv, CountedInv
    <3> QED BY <3>2, <3>3
  <2> QED BY <1>2, <2>1
         DEF CountMart, IInv, PassedInv, CommittedInv, BaselineInv,
             LiveHoldsBaseline
<1>3. CASE GatePasses
  <2>1. \A m \in OwnedMart :
          /\ current[m] = pending[m]
          /\ m \in DOMAIN baseline => ~FallsBeyond(baseline[m], pending[m])
    BY <1>3, PassedCounts DEF GatePasses, IInv
  <2>2. PassedInv'
    BY <1>3, <2>1 DEF GatePasses, PassedInv
  <2> QED BY <1>3, <2>2
         DEF GatePasses, IInv, CountedInv, CommittedInv, BaselineInv,
             LiveHoldsBaseline
<1>4. ASSUME EnterGate \/ EndRun,
             UNCHANGED <<live, pending, baseline, current, candidate, warned>>
      PROVE  IInv'
  <2>1. CountedInv'
    BY <1>4, GateAssumption DEF EnterGate, EndRun, CountedInv
  <2> QED BY <1>4, <2>1
         DEF EnterGate, EndRun, IInv, PassedInv, CommittedInv, BaselineInv,
             LiveHoldsBaseline
<1>5. CASE GateBlocks
  BY <1>4, <1>5 DEF GateBlocks
<1>6. CASE AttemptDies
  <2>1. CASE phase = "drop" /\ phase' = "publish" /\ UNCHANGED todo
    BY <1>6, <2>1
       DEF AttemptDies, IInv, CountedInv, PassedInv, CommittedInv, BaselineInv,
           LiveHoldsBaseline
  <2> QED BY <1>4, <1>6, <2>1 DEF AttemptDies
<1>7. CASE Publish
  <2>1. \A m \in OwnedMart : live'[m] = pending[m] /\ pending[m] \in Nat
    BY <1>7, GateAssumption DEF Publish, TypeOK
  <2>2. LiveHoldsBaseline'
    BY <1>7, <2>1 DEF Publish, IInv, PassedInv, LiveHoldsBaseline
  <2> QED BY <1>7, <2>1, <2>2
         DEF Publish, IInv, CountedInv, PassedInv, CommittedInv, BaselineInv
<1>8. CASE PublishSucceeds
  BY <1>8 DEF PublishSucceeds, IInv, CountedInv, PassedInv, CommittedInv,
              BaselineInv, LiveHoldsBaseline
<1>9. CASE SaveBaseline
  <2>1. phase' = "idle" /\ UNCHANGED <<live, pending>>
    BY <1>9 DEF SaveBaseline
  <2>2. CASE candidate = NoCounts
    BY <1>9, <2>1, <2>2
       DEF SaveBaseline, IInv, CountedInv, PassedInv, CommittedInv, BaselineInv,
           LiveHoldsBaseline
  <2>3. CASE candidate # NoCounts
    <3>1. \A m \in OwnedMart :
            /\ baseline'[m] = pending[m] /\ live'[m] = pending[m]
            /\ pending[m] \in Count /\ pending[m] \in Nat
      BY <1>9, <2>1, <2>3, GateAssumption
         DEF SaveBaseline, IInv, PassedInv, CommittedInv, TypeOK
    <3>2. BaselineInv'
      BY <3>1 DEF BaselineInv
    <3>3. LiveHoldsBaseline'
      BY <3>1, NoFall DEF LiveHoldsBaseline
    <3> QED BY <2>1, <3>2, <3>3 DEF IInv, CountedInv, PassedInv, CommittedInv
  <2> QED BY <2>2, <2>3
<1>10. ASSUME NEW m \in Mart, NEW rows \in Count, OtherDagPublishes(m, rows)
       PROVE  IInv'
  <2>1. \A o \in OwnedMart : live'[o] = live[o]
    BY <1>10, GateAssumption DEF OtherDagPublishes, TypeOK
  <2> QED BY <1>10, <2>1
         DEF OtherDagPublishes, IInv, CountedInv, PassedInv, CommittedInv,
             BaselineInv, LiveHoldsBaseline
<1>11. CASE UNCHANGED vars
  BY <1>11 DEF vars, IInv, CountedInv, PassedInv, CommittedInv, BaselineInv,
               LiveHoldsBaseline
<1> QED BY <1>1, <1>2, <1>3, <1>5, <1>6, <1>7, <1>8, <1>9, <1>10, <1>11 DEF Next

LEMMA Invariance == Spec => []IInv
BY InvInit, InvNext, PTL DEF Spec

-------------------------------------------------------------------------------
(* Theorems                                                                *)

(* Every count, map and phase stays in its range, however runs, retries    *)
(* and other DAGs interleave.                                              *)
THEOREM GateTypeCorrect == Spec => []TypeOK
<1>1. IInv => TypeOK
  BY DEF IInv
<1> QED BY <1>1, Invariance, PTL

(* No sequence of runs takes an owned live mart below its baseline by more *)
(* than the threshold.                                                     *)
THEOREM GateHoldsBaseline == Spec => []LiveHoldsBaseline
<1>1. IInv => LiveHoldsBaseline
  BY DEF IInv
<1> QED BY <1>1, Invariance, PTL

(* The baseline only ever moves to counts that are live.                   *)
THEOREM BaselineFollowsLive == Spec => SavedCountsAreLive
<1> DEFINE Saved == baseline' # baseline =>
                      \A m \in OwnedMart : baseline'[m] = live[m]
<1>1. IInv /\ [Next]_vars => [Saved]_vars
  <2> SUFFICES ASSUME IInv, [Next]_vars, baseline' # baseline,
                      NEW m \in OwnedMart
               PROVE  baseline'[m] = live[m]
    BY DEF vars
  <2>1. SaveBaseline
    BY DEF Next, BuildPending, CountMart, GatePasses, GateBlocks, AttemptDies,
           Publish, PublishSucceeds, OtherDagPublishes, vars
  <2> QED BY <2>1 DEF SaveBaseline, IInv, PassedInv, CommittedInv
<1> QED BY <1>1, Invariance, PTL DEF Spec, SavedCountsAreLive

-------------------------------------------------------------------------------
(* ConsumerExports                                                         *)

(* Run ids start at 1, and directories belong to jobs that have started. *)
Started == step # "idle" => job > 0

DirsInv ==
  \A e \in Export : dirs[e] \subseteq 1..job /\ complete[e] \subseteq dirs[e]

(* The run the job is about to list, or has just listed, is whole. *)
JobInv ==
  /\ step \in {"list", "prune"} => job \in complete[Current]
  /\ step = "prune" => manifest[Current] = job

(* OpenRunKept in every state of the query. *)
OpenInv ==
  \A e \in Export :
    \/ opened[e] = 0
    \/ opened[e] \in complete[e]
    \/ \E p, q \in dirs[e] : opened[e] < p /\ p < q

ExportsInv == /\ ExportsTypeOK /\ Started /\ DirsInv /\ JobInv
        /\ ManifestResolves /\ OpenInv /\ RowsFromOneRun

-------------------------------------------------------------------------------
LEMMA OrderLength == Len(Order) \in Nat \ {0}
<1>1. Len(Order) \in Nat
  BY ExportAssumption
<1> QED BY <1>1, ExportAssumption

LEMMA CurrentIsExport == ExportsTypeOK => Current \in Export
BY ExportAssumption DEF ExportsTypeOK, Current

LEMMA TypeInit == ExportsInit => ExportsTypeOK
BY ExportAssumption, OrderLength DEF ExportsInit, ExportsTypeOK, NotOpened

LEMMA ExportsTypeNext == ExportsTypeOK /\ Started /\ [ExportsNext]_exportVars => ExportsTypeOK' /\ Started'
<1> SUFFICES ASSUME ExportsTypeOK, Started, [ExportsNext]_exportVars PROVE ExportsTypeOK' /\ Started'
  OBVIOUS
<1> USE OrderLength, CurrentIsExport DEF Started
<1>0. MaxJobs \in Nat
  BY ExportAssumption
<1>1. CASE StartJob
  <2>1. job' \in 0..MaxJobs /\ job' > 0
    BY <1>0, <1>1 DEF StartJob, ExportsTypeOK
  <2> QED BY <1>1, <2>1 DEF StartJob, ExportsTypeOK, readVars
<1>2. CASE CreateRunDir
  <2>1. job \in Run
    BY <1>0, <1>2 DEF CreateRunDir, ExportsTypeOK, Run
  <2> QED BY <1>2, <2>1 DEF CreateRunDir, ExportsTypeOK, readVars
<1>3. CASE FinishWrite
  <2>1. job \in Run
    BY <1>0, <1>3 DEF FinishWrite, ExportsTypeOK, Run
  <2> QED BY <1>3, <2>1 DEF FinishWrite, ExportsTypeOK, readVars
<1>4. CASE ReplaceManifest
  BY <1>4 DEF ReplaceManifest, ExportsTypeOK, readVars
<1>5. ASSUME NEW r \in Run, DeleteFiles(r) PROVE ExportsTypeOK' /\ Started'
  BY <1>5 DEF DeleteFiles, ExportsTypeOK, readVars
<1>6. ASSUME NEW r \in Run, DeleteDir(r) PROVE ExportsTypeOK' /\ Started'
  BY <1>6 DEF DeleteDir, ExportsTypeOK, readVars
<1>7. CASE NextExport
  BY <1>7 DEF NextExport, ExportsTypeOK, readVars
<1>8. CASE JobDies
  BY <1>8 DEF JobDies, ExportsTypeOK, readVars
<1>9. CASE StartQuery
  BY <1>0, <1>9 DEF StartQuery, ExportsTypeOK, jobVars, NotOpened
<1>10. ASSUME NEW e \in Export, OpenManifest(e) PROVE ExportsTypeOK' /\ Started'
  BY <1>10 DEF OpenManifest, ExportsTypeOK, jobVars
<1>11. CASE ScanFails \/ ScanEnds \/ AuditPasses \/ AuditFails
  BY <1>11 DEF ScanFails, ScanEnds, AuditPasses, AuditFails, ExportsTypeOK, jobVars
<1>12. CASE UNCHANGED exportVars
  BY <1>12 DEF exportVars, jobVars, readVars, ExportsTypeOK
<1> QED BY <1>1, <1>2, <1>3, <1>4, <1>5, <1>6, <1>7, <1>8, <1>9, <1>10, <1>11,
           <1>12 DEF ExportsNext
-------------------------------------------------------------------------------
LEMMA ExportsInvInit == ExportsInit => ExportsInv
<1> SUFFICES ASSUME ExportsInit PROVE ExportsInv
  OBVIOUS
<1>1. ExportsTypeOK
  BY TypeInit
<1>2. Started /\ DirsInv /\ JobInv
  BY DEF ExportsInit, Started, DirsInv, JobInv
<1>3. ManifestResolves /\ OpenInv
  BY DEF ExportsInit, ManifestResolves, OpenInv, NotOpened
<1>4. RowsFromOneRun
  BY ExportAssumption DEF ExportsInit, RowsFromOneRun
<1> QED BY <1>1, <1>2, <1>3, <1>4 DEF ExportsInv

(* The newest directory and the current job's are never old. *)
LEMMA OldIsOlder ==
  ASSUME ExportsTypeOK, DirsInv, NEW e \in Export, NEW r \in Old(e)
  PROVE  r < job /\ r \in Run
<1>1. PICK p \in dirs[e], q \in dirs[e] : r < p /\ p < q
  BY DEF Old
<1>2. p \in 1..job /\ r \in 1..job
  BY DEF DirsInv, Old
<1>3. job \in Nat /\ r \in Run
  BY ExportAssumption DEF ExportsTypeOK, Old
<1> QED BY <1>1, <1>2, <1>3

(* Deleting an old directory leaves two newer ones above any run that had  *)
(* two newer ones.                                                         *)
LEMMA TwoNewerSurvive ==
  ASSUME ExportsTypeOK, NEW e \in Export, NEW r \in Old(e), NEW o \in Nat,
         \E p, q \in dirs[e] : o < p /\ p < q
  PROVE  \E p, q \in dirs[e] \ {r} : o < p /\ p < q
<1>1. PICK p \in dirs[e], q \in dirs[e] : o < p /\ p < q
  OBVIOUS
<1>2. PICK a \in dirs[e], b \in dirs[e] : r < a /\ a < b
  BY DEF Old
<1>3. dirs[e] \subseteq Nat
  BY ExportAssumption DEF ExportsTypeOK, Run
<1>4. CASE r \in {p, q}
  <2>1. o < a /\ a # r /\ b # r
    BY <1>1, <1>2, <1>3, <1>4
  <2> QED BY <1>2, <2>1
<1>5. CASE r \notin {p, q}
  BY <1>1, <1>5
<1> QED BY <1>4, <1>5

-------------------------------------------------------------------------------
LEMMA ExportsInvNext == ExportsInv /\ [ExportsNext]_exportVars => ExportsInv'
<1> SUFFICES ASSUME ExportsInv, [ExportsNext]_exportVars PROVE ExportsInv'
  OBVIOUS
<1>a. ExportsTypeOK /\ Started
  BY DEF ExportsInv
<1>b. ExportsTypeOK' /\ Started'
  BY <1>a, ExportsTypeNext
<1>c. Current \in Export
  BY <1>a, CurrentIsExport
<1>d. job \in Nat
  BY <1>a, ExportAssumption DEF ExportsTypeOK
<1> USE <1>a, <1>b, <1>c, <1>d
<1>1. CASE StartJob
  <2>1. DirsInv'
    BY <1>1 DEF StartJob, ExportsInv, DirsInv
  <2> QED BY <1>1, <2>1
         DEF StartJob, ExportsInv, JobInv, ManifestResolves, OpenInv, RowsFromOneRun,
             readVars
<1>2. CASE CreateRunDir
  <2>1. job > 0
    BY <1>2 DEF CreateRunDir, ExportsInv, Started
  <2>2. \A e \in Export : dirs[e] \subseteq dirs'[e] /\ dirs'[e] \subseteq dirs[e] \cup {job}
    BY <1>2 DEF CreateRunDir, ExportsTypeOK
  <2>3. DirsInv'
    BY <1>2, <2>1, <2>2 DEF CreateRunDir, ExportsInv, DirsInv
  <2>4. OpenInv'
    BY <1>2, <2>2 DEF CreateRunDir, ExportsInv, OpenInv, readVars
  <2> QED BY <1>2, <2>3, <2>4
         DEF CreateRunDir, ExportsInv, JobInv, ManifestResolves, RowsFromOneRun, readVars
<1>3. CASE FinishWrite
  <2>1. \A e \in Export : complete[e] \subseteq complete'[e]
    BY <1>3 DEF FinishWrite, ExportsTypeOK
  <2>2. DirsInv'
    BY <1>3 DEF FinishWrite, ExportsInv, DirsInv, ExportsTypeOK
  <2>3. JobInv'
    BY <1>3 DEF FinishWrite, JobInv, Current, ExportsTypeOK
  <2>4. ManifestResolves' /\ OpenInv'
    BY <1>3, <2>1 DEF FinishWrite, ExportsInv, ManifestResolves, OpenInv, readVars
  <2> QED BY <1>3, <2>2, <2>3, <2>4 DEF FinishWrite, ExportsInv, RowsFromOneRun, readVars
<1>4. CASE ReplaceManifest
  <2>1. JobInv'
    BY <1>4 DEF ReplaceManifest, ExportsInv, JobInv, Current, ExportsTypeOK
  <2>2. ManifestResolves'
    BY <1>4 DEF ReplaceManifest, ExportsInv, JobInv, ManifestResolves, ExportsTypeOK
  <2> QED BY <1>4, <2>1, <2>2
         DEF ReplaceManifest, ExportsInv, DirsInv, OpenInv, RowsFromOneRun, readVars
<1>5. ASSUME NEW r \in Run, DeleteFiles(r) PROVE ExportsInv'
  <2>1. r \in Old(Current) /\ r < job /\ manifest[Current] = job
    BY <1>5, OldIsOlder DEF DeleteFiles, ExportsInv, JobInv
  <2>2. \A e \in Export :
          complete'[e] = IF e = Current THEN complete[e] \ {r} ELSE complete[e]
    BY <1>5 DEF DeleteFiles, ExportsTypeOK
  <2>3. DirsInv' /\ JobInv' /\ ManifestResolves'
    BY <1>5, <2>1, <2>2 DEF DeleteFiles, ExportsInv, DirsInv, JobInv, ManifestResolves, Current
  <2>4. OpenInv'
    BY <1>5, <2>1, <2>2 DEF DeleteFiles, ExportsInv, OpenInv, Old, readVars
  <2> QED BY <1>5, <2>3, <2>4 DEF DeleteFiles, ExportsInv, RowsFromOneRun, readVars
<1>6. ASSUME NEW r \in Run, DeleteDir(r) PROVE ExportsInv'
  <2>1. r \in Old(Current) /\ r \notin complete[Current]
    BY <1>6 DEF DeleteDir
  <2>2. \A e \in Export :
          dirs'[e] = IF e = Current THEN dirs[e] \ {r} ELSE dirs[e]
    BY <1>6 DEF DeleteDir, ExportsTypeOK
  <2>3. DirsInv'
    BY <1>6, <2>1, <2>2 DEF DeleteDir, ExportsInv, DirsInv
  <2>4. OpenInv'
    <3> SUFFICES ASSUME NEW e \in Export,
                        opened[e] # 0, opened[e] \notin complete[e]
                 PROVE  \E p, q \in dirs'[e] : opened[e] < p /\ p < q
      BY <1>6 DEF DeleteDir, OpenInv, readVars
    <3>1. opened[e] \in Nat /\ \E p, q \in dirs[e] : opened[e] < p /\ p < q
      BY ExportAssumption DEF ExportsInv, OpenInv, ExportsTypeOK
    <3> QED BY <2>1, <2>2, <3>1, TwoNewerSurvive
  <2> QED BY <1>6, <2>3, <2>4
         DEF DeleteDir, ExportsInv, JobInv, ManifestResolves, RowsFromOneRun, readVars,
             Current
<1>7. CASE NextExport \/ JobDies
  <2>1. step' \in {"write", "idle"}
    BY <1>7 DEF NextExport, JobDies
  <2> QED BY <1>7, <2>1
         DEF NextExport, JobDies, ExportsInv, DirsInv, JobInv, ManifestResolves,
             OpenInv, RowsFromOneRun, readVars
<1>8. CASE StartQuery
  BY <1>8 DEF StartQuery, ExportsInv, DirsInv, JobInv, ManifestResolves, OpenInv,
              RowsFromOneRun, jobVars, NotOpened, Current
<1>9. ASSUME NEW e \in Export, OpenManifest(e) PROVE ExportsInv'
  <2>1. \A f \in Export :
          opened'[f] = IF f = e THEN manifest[e] ELSE opened[f]
    BY <1>9 DEF OpenManifest, ExportsTypeOK
  <2>2. OpenInv'
    BY <1>9, <2>1 DEF OpenManifest, ExportsInv, ManifestResolves, OpenInv, jobVars
  <2> QED BY <1>9, <2>2
         DEF OpenManifest, ExportsInv, DirsInv, JobInv, ManifestResolves,
             RowsFromOneRun, jobVars, Current
<1>10. CASE AuditPasses
  BY <1>10, ExportAssumption
     DEF AuditPasses, OneRunId, ExportsInv, DirsInv, JobInv, ManifestResolves,
         OpenInv, RowsFromOneRun, jobVars, Current
<1>11. CASE ScanFails \/ ScanEnds \/ AuditFails
  BY <1>11 DEF ScanFails, ScanEnds, AuditFails, ExportsInv, DirsInv, JobInv,
               ManifestResolves, OpenInv, RowsFromOneRun, jobVars, Current
<1>12. CASE UNCHANGED exportVars
  BY <1>12 DEF exportVars, jobVars, readVars, ExportsInv, DirsInv, JobInv,
               ManifestResolves, OpenInv, RowsFromOneRun, Current
<1> QED BY <1>1, <1>2, <1>3, <1>4, <1>5, <1>6, <1>7, <1>8, <1>9, <1>10, <1>11,
           <1>12 DEF ExportsNext

LEMMA ExportsInvariance == ExportsSpec => []ExportsInv
BY ExportsInvInit, ExportsInvNext, PTL DEF ExportsSpec

-------------------------------------------------------------------------------
(* Theorems                                                                *)

(* Jobs, deaths and readers keep every variable in its range. *)
THEOREM ExportTypeCorrect == ExportsSpec => []ExportsTypeOK
<1>1. ExportsInv => ExportsTypeOK
  BY DEF ExportsInv
<1> QED BY <1>1, ExportsInvariance, PTL

(* A manifest never lists a run that is not there in full. *)
THEOREM ManifestsResolve == ExportsSpec => []ManifestResolves
<1>1. ExportsInv => ManifestResolves
  BY DEF ExportsInv
<1> QED BY <1>1, ExportsInvariance, PTL

(* A scan loses its files only once two newer run directories exist. *)
THEOREM ScansKeepTheirRun == ExportsSpec => []OpenRunKept
<1>1. ExportsInv => OpenRunKept
  BY DEF ExportsInv, OpenInv, OpenRunKept
<1> QED BY <1>1, ExportsInvariance, PTL

(* The rows of an audited build share one Spark run. *)
THEOREM AuditedRowsShareRun == ExportsSpec => []RowsFromOneRun
<1>1. ExportsInv => RowsFromOneRun
  BY DEF ExportsInv
<1> QED BY <1>1, ExportsInvariance, PTL
===============================================================================
