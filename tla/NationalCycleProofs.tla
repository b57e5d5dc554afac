------------------------ MODULE NationalCycleProofs ------------------------
(***************************************************************************)
(* Proofs that the national cycles keep their safety properties, for any   *)
(* sources, campaigns, occurrences and number of requests.                 *)
(*                                                                         *)
(* A step touches at most one cycle (`Only`). A cycle that is over - it    *)
(* ended with success or was cancelled - is touched by no step at all; the *)
(* properties of ends are therefore shown where a cycle ends and never     *)
(* again.                                                                  *)
(***************************************************************************)
EXTENDS NationalCycle, TLAPS

USE CyclesAssumption, RequestsAssumption

-----------------------------------------------------------------------------
(* The inductive invariant. *)

\* What a step has inserted and not committed belongs to a step that runs.
InflightRuns(i) == \A s \in Sources : inflight[i][s] # "none" => Running(i, Step(s))

\* A cycle that was never created has no tasks and no scan.
NewIsEmpty(i) ==
    ~Existing(i) =>
        /\ \A x \in Parts : task[i][x].status = "none"
        /\ \A s \in Sources : inflight[i][s] = "none"
        /\ scan[i].status = "none"

\* The syncs of a cancelled cycle are ended and closed to further requests.
CancelledIsClosed(i) ==
    cycle[i].status = "cancelled" => \A s \in Sources : sync[i][s].status \in SyncEnds /\ sync[i][s].closed

Quiet(i) ==
    /\ \A x \in Parts : ~Pending(i, x)
    /\ \A s \in Sources : inflight[i][s] = "none"
    /\ ~ScanActive(i)

Whole(i) ==
    /\ \A s \in Sources : sync[i][s].status = "completed" /\ inflight[i][s] = "none"
    /\ \A x \in Parts : task[i][x].status \in {"completed", "none"}
    /\ scan[i].status \in {"completed", "completed_with_review"}

CycleOK(i) ==
    /\ InflightRuns(i)
    /\ NewIsEmpty(i)
    /\ CancelledIsClosed(i)
    /\ cycle[i].status = "cancelled" => Quiet(i)
    /\ cycle[i].status \in Successful => Whole(i)

IInv == TypeOK /\ OneOfEach /\ \A i \in Cycles : CycleOK(i)

\* The cycle ended with success or was cancelled.
Over(i) == cycle[i].status \in Successful \cup {"cancelled"}

\* What is recorded of a cycle and its tasks.
Rows(i) == <<cycle[i], sync[i], scan[i], task[i], inflight[i]>>

-----------------------------------------------------------------------------
(* Parts of a cycle. *)

LEMMA PartsOf ==
    /\ Scan \in Parts /\ Scan[1] = "maintenance" /\ Scan[2] = "scan"
    /\ \A s \in Sources : /\ Step(s) \in Parts /\ Step(s)[1] = s /\ Step(s)[2] = "step"
                          /\ Enrich(s) \in Parts /\ Enrich(s)[1] = s /\ Enrich(s)[2] = "enrich"
                          /\ Step(s) # Scan /\ Enrich(s) # Scan /\ Step(s) # Enrich(s)
    /\ \A x \in Parts : x = Scan \/ (x[1] \in Sources /\ (x = Step(x[1]) \/ x = Enrich(x[1])))
    /\ \A s, r \in Sources : Step(s) = Step(r) => s = r
<1>1. ASSUME NEW s \in Sources
      PROVE  /\ Step(s) \in Parts /\ Step(s)[1] = s /\ Step(s)[2] = "step"
             /\ Enrich(s) \in Parts /\ Enrich(s)[1] = s /\ Enrich(s)[2] = "enrich"
  BY DEF Parts, Step, Enrich
<1>2. Scan \in Parts /\ Scan[1] = "maintenance" /\ Scan[2] = "scan"
  BY DEF Parts, Scan
<1>3. ASSUME NEW x \in Parts, x # Scan PROVE x[1] \in Sources /\ (x = Step(x[1]) \/ x = Enrich(x[1]))
  <2>1. x \in Sources \X {"step", "enrich"}
    BY <1>3 DEF Parts, Scan
  <2>. QED
    BY <2>1 DEF Step, Enrich
<1>4. ASSUME NEW s \in Sources PROVE Step(s) # Scan /\ Enrich(s) # Scan /\ Step(s) # Enrich(s)
  <2>1. Step(s)[2] # Scan[2] /\ Enrich(s)[2] # Scan[2] /\ Step(s)[2] # Enrich(s)[2]
    BY <1>1, <1>2
  <2>. QED
    BY <2>1
<1>5. ASSUME NEW s \in Sources, NEW r \in Sources, Step(s) = Step(r) PROVE s = r
  <2>1. Step(s)[1] = Step(r)[1]
    BY <1>5
  <2>. QED
    BY <2>1, <1>1
<1>6. \A s \in Sources : /\ Step(s) \in Parts /\ Step(s)[1] = s /\ Step(s)[2] = "step"
                         /\ Enrich(s) \in Parts /\ Enrich(s)[1] = s /\ Enrich(s)[2] = "enrich"
                         /\ Step(s) # Scan /\ Enrich(s) # Scan /\ Step(s) # Enrich(s)
  BY <1>1, <1>4, Zenon
<1>7. \A x \in Parts : x = Scan \/ (x[1] \in Sources /\ (x = Step(x[1]) \/ x = Enrich(x[1])))
  BY <1>3
<1>8. \A s, r \in Sources : Step(s) = Step(r) => s = r
  BY <1>5
<1>. QED
  BY <1>2, <1>6, <1>7, <1>8, Zenon

\* The part of a source whose kind is "step" is its step.
LEMMA StepParts == \A x \in Parts : x[2] = "step" => x[1] \in Sources /\ x = Step(x[1])
BY PartsOf

LEMMA ScanIsNoSource == \A x \in Parts : x # Scan => x[1] \in Sources /\ x \in SourceParts
BY PartsOf DEF SourceParts

-----------------------------------------------------------------------------
(* What is over stays over. *)

\* The steps that touch cycle i.
Begins(i) == (i \in Campaigns /\ StartCampaign(i)) \/ (i \in Occurrences /\ StartOccurrence(i))
Touches(i) == Begins(i) \/ Administer(i) \/ Coordinate(i) \/ Work(i) \/ \E x \in Parts : Lapse(i, x)

\* A cycle that is over has nothing that waits or runs.
LEMMA OverIsQuiet ==
    ASSUME IInv, NEW i \in Cycles, Over(i)
    PROVE  /\ Quiet(i) /\ Existing(i) /\ ~Active(i) /\ cycle[i].status # "partial"
           /\ \A s \in Sources : sync[i][s].status \in SyncEnds
           /\ cycle[i].status = "cancelled" => \A s \in Sources : sync[i][s].closed
           /\ cycle[i].status # "cancelled" => \A x \in Parts : task[i][x].status # "failed"
<1>1. CycleOK(i)
  BY DEF IInv
<1>2. CASE cycle[i].status = "cancelled"
  BY <1>1, <1>2 DEF CycleOK, CancelledIsClosed, Existing, Active, Finished
<1>3. CASE cycle[i].status \in Successful
  BY <1>1, <1>3 DEF CycleOK, Whole, Quiet, Pending, ScanActive, ScanEnds, SyncEnds, Existing, Active, Finished, Successful
<1>. QED
  BY <1>2, <1>3 DEF Over

LEMMA OverIsUntouched ==
    ASSUME IInv, NEW i \in Cycles, Over(i), Touches(i)
    PROVE  FALSE
<1>. USE OverIsQuiet, PartsOf
<1>1. CASE Begins(i)
  BY <1>1 DEF Begins, StartCampaign, StartOccurrence
<1>2. CASE PauseCampaign(i) \/ ResumeCampaign(i) \/ CancelCampaign(i) \/ CancelOccurrence(i)
  BY <1>2 DEF PauseCampaign, ResumeCampaign, CancelCampaign, CancelOccurrence
<1>3. ASSUME NEW s \in Sources, PauseSync(i, s) \/ ResumeSync(i, s) \/ CoordinateSync(i, s) PROVE FALSE
  BY <1>3 DEF PauseSync, ResumeSync, CoordinateSync, SyncEnds
<1>4. CASE PauseScan(i) \/ ResumeScan(i) \/ CancelOneScan(i) \/ CoordinateScan(i) \/ AdvanceScan(i)
  BY <1>4 DEF PauseScan, ResumeScan, CancelOneScan, CoordinateScan, AdvanceScan, Quiet, ScanActive, ScanEnds, Running, Pending
<1>5. ASSUME NEW x \in Parts, CancelTask(i, x) \/ HoldTask(i, x) \/ ReleaseTask(i, x) \/ Claim(i, x) \/ EndTask(i, x) \/ Lapse(i, x)
      PROVE  FALSE
  BY <1>5 DEF CancelTask, HoldTask, ReleaseTask, Claim, EndTask, Lapse, Quiet, Running, Pending, Held, QueuedWith
<1>6. ASSUME NEW x \in Parts, RetryTask(i, x) PROVE FALSE
  BY <1>6 DEF RetryTask
<1>7. CASE Observe(i)
  BY <1>7 DEF Observe, ObserveDiscovery, ObserveEnrichment, StartScan, ScanRefused, ObserveScan, Conclude, ScanConfirmed, Observed
<1>8. ASSUME NEW s \in Sources, InsertEnrichment(i, s) \/ CommitEnrichment(i, s) \/ EndDiscovery(i, s) PROVE FALSE
  BY <1>8 DEF InsertEnrichment, CommitEnrichment, EndDiscovery, Quiet, Running, Pending
<1>. QED
  BY <1>1, <1>2, <1>3, <1>4, <1>5, <1>6, <1>7, <1>8 DEF Touches, Administer, Coordinate, Work

-----------------------------------------------------------------------------
(* Rows are written whole or by one field. *)

CycleRow == [status: CycleStatus, paused: BOOLEAN]
SyncRow == [status: SyncStatus, pause: BOOLEAN, closed: BOOLEAN]
ScanRow == [status: ScanStatus, pause: BOOLEAN]
TaskRow == [status: TaskStatus, hold: Holds]

\* One cell of a table of tables.
LEMMA CellWrite ==
    ASSUME NEW D, NEW E, NEW R, NEW f \in [D -> [E -> R]], NEW d \in D, NEW e \in E, NEW r \in R
    PROVE  LET g == [f EXCEPT ![d][e] = r]
           IN  /\ g \in [D -> [E -> R]]
               /\ g[d][e] = r
               /\ \A c \in D : c # d => g[c] = f[c]
               /\ \A b \in E : b # e => g[d][b] = f[d][b]
OBVIOUS

\* One line of a table of tables.
LEMMA LineWrite ==
    ASSUME NEW D, NEW E, NEW R, NEW f \in [D -> [E -> R]], NEW d \in D, NEW h \in [E -> R]
    PROVE  LET g == [f EXCEPT ![d] = h]
           IN  /\ g \in [D -> [E -> R]]
               /\ g[d] = h
               /\ \A c \in D : c # d => g[c] = f[c]
OBVIOUS

\* Writing the status of a cell is writing the cell.
LEMMA StatusOfCell ==
    ASSUME NEW D, NEW E, NEW R, NEW f \in [D -> [E -> R]], NEW d \in D, NEW e \in E, NEW v
    PROVE  [f EXCEPT ![d][e].status = v] = [f EXCEPT ![d][e] = [f[d][e] EXCEPT !.status = v]]
OBVIOUS

LEMMA RowTypes ==
    ASSUME TypeOK, NEW i \in Cycles
    PROVE  /\ cycle \in [Cycles -> CycleRow] /\ cycle[i] \in CycleRow
           /\ sync \in [Cycles -> [Sources -> SyncRow]] /\ \A s \in Sources : sync[i][s] \in SyncRow
           /\ scan \in [Cycles -> ScanRow] /\ scan[i] \in ScanRow
           /\ task \in [Cycles -> [Parts -> TaskRow]] /\ \A x \in Parts : task[i][x] \in TaskRow
           /\ inflight \in [Cycles -> [Sources -> {"none", "no", "campaign"}]]
BY DEF TypeOK, CycleRow, SyncRow, ScanRow, TaskRow

\* The status of a cycle is written.
LEMMA SeenWrite ==
    ASSUME TypeOK, NEW i \in Cycles, NEW v \in CycleStatus, Seen(i, v)
    PROVE  /\ cycle' \in [Cycles -> CycleRow]
           /\ cycle'[i].status = v /\ cycle'[i].paused = cycle[i].paused
           /\ \A j \in Cycles : j # i => cycle'[j] = cycle[j]
BY RowTypes DEF Seen, CycleRow

\* One task becomes a row.
LEMMA TaskWrite ==
    ASSUME TypeOK, NEW i \in Cycles, NEW x \in Parts, NEW row \in TaskRow, task' = [task EXCEPT ![i][x] = row]
    PROVE  /\ task' \in [Cycles -> [Parts -> TaskRow]]
           /\ task'[i][x] = row
           /\ \A j \in Cycles : j # i => task'[j] = task[j]
           /\ \A y \in Parts : y # x => task'[i][y] = task[i][y]
BY RowTypes, CellWrite

TaskStatusIs(i, x, v) == task' = [task EXCEPT ![i][x].status = v]
SyncStatusIs(i, s, v) == sync' = [sync EXCEPT ![i][s].status = v]
SyncPauseIs(i, s, p, v) == sync' = [sync EXCEPT ![i][s].pause = p, ![i][s].status = v]

LEMMA TaskStatusWrite ==
    ASSUME TypeOK, NEW i \in Cycles, NEW x \in Parts, NEW v \in TaskStatus, TaskStatusIs(i, x, v)
    PROVE  /\ task' \in [Cycles -> [Parts -> TaskRow]]
           /\ task'[i][x].status = v /\ task'[i][x].hold = task[i][x].hold
           /\ \A j \in Cycles : j # i => task'[j] = task[j]
           /\ \A y \in Parts : y # x => task'[i][y] = task[i][y]
<1>. DEFINE row == [task[i][x] EXCEPT !.status = v]
<1>1. row \in TaskRow /\ row.status = v /\ row.hold = task[i][x].hold
  BY RowTypes DEF TaskRow
<1>2. task' = [task EXCEPT ![i][x] = row]
  BY RowTypes, StatusOfCell DEF TaskStatusIs
<1>. HIDE DEF row
<1>3. /\ task' \in [Cycles -> [Parts -> TaskRow]] /\ task'[i][x] = row
      /\ \A j \in Cycles : j # i => task'[j] = task[j]
      /\ \A y \in Parts : y # x => task'[i][y] = task[i][y]
  BY <1>1, <1>2, RowTypes, CellWrite
<1>. QED
  BY <1>1, <1>3

LEMMA SyncStatusWrite ==
    ASSUME TypeOK, NEW i \in Cycles, NEW s \in Sources, NEW v \in SyncStatus, SyncStatusIs(i, s, v)
    PROVE  /\ sync' \in [Cycles -> [Sources -> SyncRow]]
           /\ \A j \in Cycles : j # i => sync'[j] = sync[j]
<1>. DEFINE row == [sync[i][s] EXCEPT !.status = v]
<1>1. row \in SyncRow
  BY RowTypes DEF SyncRow
<1>2. sync' = [sync EXCEPT ![i][s] = row]
  BY RowTypes, StatusOfCell DEF SyncStatusIs
<1>. HIDE DEF row
<1>. QED
  BY <1>1, <1>2, RowTypes, CellWrite

LEMMA SyncPauseWrite ==
    ASSUME TypeOK, NEW i \in Cycles, NEW s \in Sources, NEW v \in SyncStatus, NEW p \in BOOLEAN, SyncPauseIs(i, s, p, v)
    PROVE  /\ sync' \in [Cycles -> [Sources -> SyncRow]]
           /\ \A j \in Cycles : j # i => sync'[j] = sync[j]
<1>. DEFINE row == [sync[i][s] EXCEPT !.pause = p, !.status = v]
<1>1. row \in SyncRow
  BY RowTypes DEF SyncRow
<1>2. sync' = [sync EXCEPT ![i][s] = row]
  <2>1. sync \in [Cycles -> [Sources -> SyncRow]]
    BY RowTypes
  <2>2. [sync EXCEPT ![i][s].pause = p, ![i][s].status = v] = [sync EXCEPT ![i][s] = row]
    BY <2>1
  <2>. QED
    BY <2>2 DEF SyncPauseIs
<1>. HIDE DEF row
<1>. QED
  BY <1>1, <1>2, RowTypes, CellWrite

-----------------------------------------------------------------------------
(* What a step that touches cycle i must show. *)

\* The rows of the other cycles stay as they are.
Only(i) ==
    \A j \in Cycles : j # i =>
        /\ cycle'[j] = cycle[j] /\ sync'[j] = sync[j] /\ scan'[j] = scan[j]
        /\ task'[j] = task[j] /\ inflight'[j] = inflight[j]

\* What holds of another cycle holds on.
LEMMA OthersKeep ==
    ASSUME IInv, NEW i \in Cycles, Only(i), NEW j \in Cycles, j # i
    PROVE  CycleOK(j)' /\ (Active(j)' <=> Active(j)) /\ (ScanActive(j)' <=> ScanActive(j))
<1>1. CycleOK(j)
  BY DEF IInv
<1>2. /\ cycle'[j] = cycle[j] /\ sync'[j] = sync[j] /\ scan'[j] = scan[j]
      /\ task'[j] = task[j] /\ inflight'[j] = inflight[j]
  BY DEF Only
<1>. QED
  BY <1>1, <1>2 DEF CycleOK, InflightRuns, NewIsEmpty, CancelledIsClosed, Quiet, Whole, Existing, Active, Running, Pending, ScanActive

\* Neither the cycle nor its scan becomes active.
LEMMA OneCycle ==
    ASSUME IInv, TypeOK', NEW i \in Cycles, Only(i), other' = other, CycleOK(i)',
           Active(i)' => Active(i), ScanActive(i)' => ScanActive(i)
    PROVE  IInv' /\ Only(i)
<1>1. \A j \in Cycles : CycleOK(j)' /\ (Active(j)' => Active(j)) /\ (ScanActive(j)' => ScanActive(j))
  BY OthersKeep
<1>2. OneOfEach'
  BY <1>1 DEF OneOfEach, IInv, Cycles
<1>. QED
  BY <1>1, <1>2 DEF IInv

\* The cycle goes on.
LEMMA GoesOn ==
    ASSUME IInv, TypeOK', NEW i \in Cycles, Only(i), other' = other, Existing(i)', ~Over(i)', InflightRuns(i)',
           Active(i)' => Active(i), ScanActive(i)' => ScanActive(i)
    PROVE  IInv' /\ Only(i)
<1>1. CycleOK(i)'
  BY DEF CycleOK, NewIsEmpty, CancelledIsClosed, Over
<1>. QED
  BY <1>1, OneCycle

\* What runs under an insertion runs on.
LEMMA RunsOn ==
    ASSUME IInv, NEW i \in Cycles, inflight'[i] = inflight[i],
           \A s \in Sources : Running(i, Step(s)) => Running(i, Step(s))'
    PROVE  InflightRuns(i)'
BY DEF IInv, CycleOK, InflightRuns

\* The cycle is not touched otherwise, only its tasks, syncs or scan are.
LEMMA SameCycle ==
    ASSUME IInv, TypeOK', NEW i \in Cycles, Only(i), UNCHANGED <<cycle, other>>, Existing(i), ~Over(i), InflightRuns(i)',
           ScanActive(i)' => ScanActive(i)
    PROVE  IInv' /\ Only(i)
BY GoesOn DEF Existing, Over, Active

\* Nothing but a beginning touches a cycle that does not exist.
LEMMA NewIsUntouched ==
    ASSUME IInv, NEW i \in Cycles, ~Existing(i), Touches(i), ~Begins(i)
    PROVE  FALSE
<1>0. /\ ~Active(i) /\ cycle[i].status # "partial" /\ ~ScanActive(i)
      /\ \A x \in Parts : task[i][x].status = "none"
      /\ \A s \in Sources : inflight[i][s] = "none"
  BY DEF IInv, CycleOK, NewIsEmpty, Existing, Active, ScanActive
<1>. USE <1>0, PartsOf
<1>2. CASE PauseCampaign(i) \/ ResumeCampaign(i) \/ CancelCampaign(i) \/ CancelOccurrence(i)
  BY <1>2 DEF PauseCampaign, ResumeCampaign, CancelCampaign, CancelOccurrence
<1>3. ASSUME NEW s \in Sources, PauseSync(i, s) \/ ResumeSync(i, s) \/ CoordinateSync(i, s) PROVE FALSE
  BY <1>3 DEF PauseSync, ResumeSync, CoordinateSync
<1>4. CASE PauseScan(i) \/ ResumeScan(i) \/ CancelOneScan(i) \/ CoordinateScan(i) \/ AdvanceScan(i)
  BY <1>4 DEF PauseScan, ResumeScan, CancelOneScan, CoordinateScan, AdvanceScan, ScanActive, ScanEnds, Running
<1>5. ASSUME NEW x \in Parts, \/ CancelTask(i, x) \/ HoldTask(i, x) \/ ReleaseTask(i, x) \/ RetryTask(i, x)
                              \/ Claim(i, x) \/ EndTask(i, x) \/ Lapse(i, x)
      PROVE  FALSE
  BY <1>5 DEF CancelTask, HoldTask, ReleaseTask, RetryTask, Claim, EndTask, Lapse, Running, Held, QueuedWith
<1>7. CASE Observe(i)
  BY <1>7 DEF Observe, ObserveDiscovery, ObserveEnrichment, StartScan, ScanRefused, ObserveScan, Conclude, ScanConfirmed, Observed
<1>8. ASSUME NEW s \in Sources, InsertEnrichment(i, s) \/ CommitEnrichment(i, s) \/ EndDiscovery(i, s) PROVE FALSE
  BY <1>8 DEF InsertEnrichment, CommitEnrichment, EndDiscovery, Running
<1>. QED
  BY <1>2, <1>3, <1>4, <1>5, <1>7, <1>8 DEF Touches, Administer, Coordinate, Work

\* What a step finds: a cycle that exists and is not over.
LEMMA Touched ==
    ASSUME IInv, NEW i \in Cycles, Touches(i), ~Begins(i)
    PROVE  Existing(i) /\ ~Over(i) /\ CycleOK(i) /\ TypeOK /\ InflightRuns(i)
BY OverIsUntouched, NewIsUntouched DEF IInv, CycleOK

-----------------------------------------------------------------------------
(* The coordinator of the cycles. *)

RequestsOK == requests' \in 0..MaxRequests

LEMMA SeenKeeps ==
    ASSUME IInv, NEW i \in Cycles, NEW v \in CycleStatus \ (Finished \cup {"none"}), Active(i), Seen(i, v),
           UNCHANGED <<sync, scan, task, inflight, other>>, RequestsOK
    PROVE  IInv' /\ Only(i)
<1>1. TypeOK
  BY DEF IInv
<1>2. /\ cycle' \in [Cycles -> CycleRow]
      /\ cycle'[i].status = v /\ cycle'[i].paused = cycle[i].paused
      /\ \A j \in Cycles : j # i => cycle'[j] = cycle[j]
  BY <1>1, SeenWrite
<1>3. TypeOK'
  BY <1>1, <1>2 DEF TypeOK, CycleRow, RequestsOK
<1>4. Only(i)
  BY <1>2 DEF Only
<1>5. Existing(i)' /\ ~Over(i)'
  BY <1>2 DEF Existing, Over, Successful, Finished
<1>6. InflightRuns(i)'
  BY DEF IInv, CycleOK, InflightRuns, Running
<1>. QED
  BY <1>3, <1>4, <1>5, <1>6, GoesOn DEF ScanActive

LEMMA StatusValues ==
    {"discovery", "enrichment", "reconciliation", "blocked", "paused"} \subseteq CycleStatus \ (Finished \cup {"none"})
BY DEF CycleStatus, Finished

LEMMA ObserveKeeps ==
    ASSUME IInv, NEW i \in Cycles, RequestsOK,
           ObserveDiscovery(i) \/ ObserveEnrichment(i) \/ ScanRefused(i) \/ ObserveScan(i)
    PROVE  IInv' /\ Only(i)
<1>. USE StatusValues, SeenKeeps DEF Observed
<1>1. CASE ObserveDiscovery(i)
  BY <1>1 DEF ObserveDiscovery
<1>2. CASE ObserveEnrichment(i)
  BY <1>2 DEF ObserveEnrichment
<1>3. CASE ScanRefused(i)
  BY <1>3 DEF ScanRefused
<1>4. CASE ObserveScan(i)
  BY <1>4 DEF ObserveScan
<1>. QED
  BY <1>1, <1>2, <1>3, <1>4

LEMMA ScanStarts ==
    ASSUME IInv, NEW i \in Cycles, RequestsOK, StartScan(i)
    PROVE  IInv' /\ Only(i)
<1>1. TypeOK /\ CycleOK(i)
  BY DEF IInv
<1>2. QueuedWith("no") \in TaskRow /\ [status |-> "ready", pause |-> FALSE] \in ScanRow
  BY DEF QueuedWith, TaskRow, TaskStatus, Holds, ScanRow, ScanStatus
<1>3. /\ cycle' \in [Cycles -> CycleRow]
      /\ cycle'[i].status = "reconciliation" /\ \A j \in Cycles : j # i => cycle'[j] = cycle[j]
  BY <1>1, StatusValues, SeenWrite DEF StartScan
<1>4. /\ task' \in [Cycles -> [Parts -> TaskRow]]
      /\ \A j \in Cycles : j # i => task'[j] = task[j]
      /\ \A y \in Parts : y # Scan => task'[i][y] = task[i][y]
  <2>1. task' = [task EXCEPT ![i][Scan] = QueuedWith("no")] /\ Scan \in Parts
    BY PartsOf DEF StartScan
  <2>. QED
    BY <1>1, <1>2, <2>1, TaskWrite
<1>5. scan' \in [Cycles -> ScanRow] /\ \A j \in Cycles : j # i => scan'[j] = scan[j]
  BY <1>1, <1>2, RowTypes DEF StartScan
<1>6. UNCHANGED <<sync, inflight, other>> /\ Active(i) /\ NoActiveScan
  BY DEF StartScan, Observed
<1>7. TypeOK'
  BY <1>1, <1>3, <1>4, <1>5, <1>6 DEF TypeOK, CycleRow, TaskRow, ScanRow, RequestsOK
<1>8. Only(i)
  BY <1>3, <1>4, <1>5, <1>6 DEF Only
<1>9. CycleOK(i)'
  <2>1. InflightRuns(i)'
    BY <1>1, <1>4, <1>6, PartsOf DEF CycleOK, InflightRuns, Running
  <2>. QED
    BY <2>1, <1>3 DEF CycleOK, NewIsEmpty, CancelledIsClosed, Existing, Successful
<1>10. OneOfEach'
  <2>1. \A j \in Cycles : Active(j)' => Active(j)
    BY <1>6, <1>8, OthersKeep
  <2>2. \A j \in Cycles : ScanActive(j)' => j = i
    BY <1>6, <1>8, OthersKeep DEF NoActiveScan
  <2>3. ~other'
    BY <1>6 DEF NoActiveScan
  <2>. QED
    BY <2>1, <2>2, <2>3 DEF OneOfEach, IInv, Cycles
<1>. QED
  BY <1>7, <1>8, <1>9, <1>10, OthersKeep DEF IInv

\* A cycle concludes with success only when nothing is undone.
LEMMA ConcludeKeeps ==
    ASSUME IInv, NEW i \in Cycles, RequestsOK, Conclude(i)
    PROVE  IInv' /\ Only(i)
<1>1. TypeOK /\ CycleOK(i) /\ Active(i)
  BY DEF IInv, Conclude, ScanConfirmed, Observed
<1>2. UNCHANGED <<sync, scan, task, inflight, other>>
  BY DEF Conclude
<1>3. PICK v : v \in Finished \ {"cancelled"} /\ Seen(i, v) /\ (v # "partial" => ~Partial(i))
  <2>1. CASE Partial(i)
    BY <2>1 DEF Conclude, Finished
  <2>2. CASE ~Partial(i)
    <3>1. scan[i].status \in {"completed", "completed_with_review"}
      BY <2>2 DEF Conclude, Partial, ScanEnds
    <3>. QED
      BY <2>2, <3>1 DEF Conclude, Finished
  <2>. QED
    BY <2>1, <2>2
<1>4. /\ cycle' \in [Cycles -> CycleRow]
      /\ cycle'[i].status = v /\ \A j \in Cycles : j # i => cycle'[j] = cycle[j]
  BY <1>1, <1>3, SeenWrite DEF CycleStatus, Finished
<1>5. TypeOK' /\ Only(i)
  BY <1>1, <1>2, <1>4 DEF TypeOK, CycleRow, RequestsOK, Only
<1>6. ASSUME v # "partial" PROVE Whole(i)'
  <2>. USE <1>3, <1>6
  <2>1. /\ \A s \in Sources : sync[i][s].status = "completed"
        /\ scan[i].status \in {"completed", "completed_with_review"}
    BY DEF Conclude, ScanConfirmed, Settled, Partial, ScanEnds
  <2>2. \A x \in Parts : task[i][x].status \in {"completed", "none"}
    <3>1. \A x \in Parts : task[i][x].status \in TaskStatus
      BY <1>1, RowTypes DEF TaskRow
    <3>. QED
      BY <3>1, ScanIsNoSource DEF Conclude, ScanConfirmed, SourceTasksPending, Pending, Partial, SourceTaskFailed, ScanTaskFailed, TaskStatus
  <2>3. \A s \in Sources : inflight[i][s] = "none"
    BY <1>1, <2>2, PartsOf DEF CycleOK, InflightRuns, Running
  <2>. QED
    BY <1>2, <2>1, <2>2, <2>3 DEF Whole
<1>7. CycleOK(i)'
  BY <1>1, <1>2, <1>3, <1>4, <1>6 DEF CycleOK, InflightRuns, Running, NewIsEmpty, CancelledIsClosed, Existing, Successful, Finished
<1>. QED
  BY <1>1, <1>2, <1>5, <1>7, OneCycle DEF ScanActive

-----------------------------------------------------------------------------
(* Beginnings and the controls of a cycle. *)

LEMMA BeginKeeps ==
    ASSUME IInv, NEW i \in Cycles, RequestsOK, Begins(i)
    PROVE  IInv' /\ Only(i)
<1>1. /\ TypeOK /\ ~Existing(i) /\ Begin(i) /\ UNCHANGED <<sync, scan, inflight, other>>
      /\ \A j \in Cycles : ~Active(j)
  BY DEF IInv, Begins, StartCampaign, StartOccurrence
<1>2. /\ cycle' \in [Cycles -> CycleRow]
      /\ cycle'[i].status = "discovery" /\ \A j \in Cycles : j # i => cycle'[j] = cycle[j]
  BY <1>1, StatusValues, SeenWrite DEF Begin, Seen
<1>3. task' \in [Cycles -> [Parts -> TaskRow]] /\ \A j \in Cycles : j # i => task'[j] = task[j]
  <2>1. [x \in Parts |-> IF x[2] = "step" THEN QueuedWith("no") ELSE NoTask] \in [Parts -> TaskRow]
    BY DEF QueuedWith, NoTask, TaskRow, TaskStatus, Holds
  <2>. QED
    BY <1>1, <2>1, RowTypes, LineWrite DEF Begin
<1>4. TypeOK' /\ Only(i)
  BY <1>1, <1>2, <1>3 DEF TypeOK, CycleRow, TaskRow, RequestsOK, Only
<1>5. CycleOK(i)'
  <2>1. \A s \in Sources : inflight'[i][s] = "none"
    BY <1>1 DEF IInv, CycleOK, NewIsEmpty
  <2>. QED
    BY <1>2, <2>1 DEF CycleOK, InflightRuns, NewIsEmpty, CancelledIsClosed, Existing, Successful
<1>6. OneOfEach'
  <2>1. \A j \in Cycles : (Active(j)' => j = i) /\ (ScanActive(j)' <=> ScanActive(j))
    BY <1>1, <1>4, OthersKeep DEF ScanActive
  <2>. QED
    BY <1>1, <2>1 DEF OneOfEach, IInv, Cycles
<1>. QED
  BY <1>4, <1>5, <1>6, OthersKeep DEF IInv

LEMMA PauseKeeps ==
    ASSUME IInv, NEW i \in Cycles, RequestsOK, PauseCampaign(i)
    PROVE  IInv' /\ Only(i)
<1>1. TypeOK /\ Active(i) /\ UNCHANGED <<inflight, other>>
  BY DEF IInv, PauseCampaign
<1>2. /\ cycle' \in [Cycles -> CycleRow]
      /\ cycle'[i].status = "paused" /\ \A j \in Cycles : j # i => cycle'[j] = cycle[j]
  BY <1>1, RowTypes DEF PauseCampaign, CycleRow, CycleStatus
<1>3. /\ task' \in [Cycles -> [Parts -> TaskRow]] /\ \A j \in Cycles : j # i => task'[j] = task[j]
      /\ \A x \in Parts : Running(i, x) => Running(i, x)'
  <2>. DEFINE line == [x \in Parts |-> IF task[i][x] = QueuedWith("no") THEN QueuedWith("campaign") ELSE task[i][x]]
  <2>1. line \in [Parts -> TaskRow]
    BY <1>1, RowTypes DEF QueuedWith, TaskRow, TaskStatus, Holds
  <2>2. \A x \in Parts : task[i][x].status = "running" => line[x] = task[i][x]
    BY DEF QueuedWith
  <2>3. task' = [task EXCEPT ![i] = line]
    BY DEF PauseCampaign
  <2>. HIDE DEF line
  <2>. QED
    BY <1>1, <2>1, <2>2, <2>3, RowTypes, LineWrite DEF Running
<1>4. sync' \in [Cycles -> [Sources -> SyncRow]] /\ \A j \in Cycles : j # i => sync'[j] = sync[j]
  <2>. DEFINE line == [s \in Sources |->
                  IF sync[i][s].status \in {"completed", "limited"} THEN sync[i][s]
                  ELSE [sync[i][s] EXCEPT !.pause = TRUE, !.status = IF Running(i, Step(s)) THEN sync[i][s].status ELSE "paused"]]
  <2>1. line \in [Sources -> SyncRow]
    BY <1>1, RowTypes DEF SyncRow, SyncStatus
  <2>2. sync' = [sync EXCEPT ![i] = line]
    BY DEF PauseCampaign
  <2>. HIDE DEF line
  <2>. QED
    BY <1>1, <2>1, <2>2, RowTypes, LineWrite
<1>5. scan' \in [Cycles -> ScanRow] /\ (\A j \in Cycles : j # i => scan'[j] = scan[j]) /\ (ScanActive(i)' => ScanActive(i))
  <2>1. [status |-> "paused", pause |-> TRUE] \in ScanRow
    BY DEF ScanRow, ScanStatus
  <2>. QED
    BY <1>1, <2>1, RowTypes DEF PauseCampaign, ScanActive
<1>6. TypeOK' /\ Only(i)
  BY <1>1, <1>2, <1>3, <1>4, <1>5 DEF TypeOK, CycleRow, TaskRow, SyncRow, ScanRow, RequestsOK, Only
<1>7. InflightRuns(i)'
  BY <1>1, <1>3, PartsOf, RunsOn
<1>. QED
  BY <1>1, <1>2, <1>5, <1>6, <1>7, GoesOn DEF Existing, Over, Successful

LEMMA ResumeKeeps ==
    ASSUME IInv, NEW i \in Campaigns, RequestsOK, ResumeCampaign(i)
    PROVE  IInv' /\ Only(i)
<1>. DEFINE again == cycle[i].status = "partial"
            resumed(s) == sync[i][s].status \notin {"completed", "limited"}
            after(x) ==
              IF again /\ x[2] = "enrich" /\ task[i][x].status = "failed" THEN QueuedWith(InsertHold(i))
              ELSE IF x[2] = "step" /\ ~Pending(i, x) /\ resumed(x[1]) THEN QueuedWith(InsertHold(i))
              ELSE IF x = Scan /\ ~again /\ ScanActive(i) /\ ~Pending(i, x) THEN QueuedWith(InsertHold(i))
              ELSE IF task[i][x] = QueuedWith("campaign") THEN QueuedWith("no")
              ELSE task[i][x]
            syncs == [s \in Sources |-> IF resumed(s) THEN [sync[i][s] EXCEPT !.pause = FALSE, !.status = "ready"] ELSE sync[i][s]]
<1>0. i \in Cycles
  BY DEF Cycles
<1>1. TypeOK /\ UNCHANGED <<inflight, other>> /\ (Active(i) \/ again)
  BY DEF IInv, ResumeCampaign
<1>2. /\ cycle' \in [Cycles -> CycleRow]
      /\ cycle'[i].status = "discovery" /\ \A j \in Cycles : j # i => cycle'[j] = cycle[j]
  BY <1>0, <1>1, RowTypes DEF ResumeCampaign, CycleRow, CycleStatus
<1>3. /\ task' \in [Cycles -> [Parts -> TaskRow]] /\ \A j \in Cycles : j # i => task'[j] = task[j]
      /\ \A x \in Parts : Running(i, x) => Running(i, x)'
  <2>. DEFINE line == [x \in Parts |-> after(x)]
  <2>1. line \in [Parts -> TaskRow]
    <3>1. QueuedWith(InsertHold(i)) \in TaskRow /\ QueuedWith("no") \in TaskRow
      BY DEF QueuedWith, InsertHold, TaskRow, TaskStatus, Holds
    <3>. QED
      BY <1>0, <1>1, <3>1, RowTypes
  <2>2. \A x \in Parts : task[i][x].status = "running" => line[x] = task[i][x]
    BY DEF QueuedWith, Pending
  <2>3. task' = [task EXCEPT ![i] = line]
    BY DEF ResumeCampaign
  <2>. HIDE DEF line
  <2>. QED
    BY <1>0, <1>1, <2>1, <2>2, <2>3, RowTypes, LineWrite DEF Running
<1>4. sync' \in [Cycles -> [Sources -> SyncRow]] /\ \A j \in Cycles : j # i => sync'[j] = sync[j]
  <2>1. syncs \in [Sources -> SyncRow]
    BY <1>0, <1>1, RowTypes DEF SyncRow, SyncStatus
  <2>2. sync' = [sync EXCEPT ![i] = syncs]
    BY DEF ResumeCampaign
  <2>. HIDE DEF syncs
  <2>. QED
    BY <1>0, <1>1, <2>1, <2>2, RowTypes, LineWrite
<1>5. scan' \in [Cycles -> ScanRow] /\ (\A j \in Cycles : j # i => scan'[j] = scan[j]) /\ (ScanActive(i)' => ScanActive(i))
  <2>1. [status |-> "ready", pause |-> FALSE] \in ScanRow /\ NoScan \in ScanRow
    BY DEF ScanRow, ScanStatus, NoScan
  <2>. QED
    BY <1>0, <1>1, <2>1, RowTypes DEF ResumeCampaign, ScanActive, NoScan
<1>6. TypeOK' /\ Only(i)
  BY <1>1, <1>2, <1>3, <1>4, <1>5 DEF TypeOK, CycleRow, TaskRow, SyncRow, ScanRow, RequestsOK, Only
<1>7. InflightRuns(i)'
  BY <1>0, <1>1, <1>3, PartsOf, RunsOn
<1>8. CASE Active(i)
  BY <1>0, <1>1, <1>2, <1>5, <1>6, <1>7, <1>8, GoesOn DEF Existing, Over, Successful
<1>9. CASE again
  <2>1. \A j \in Campaigns \ {i} : ~Active(j)
    BY <1>9 DEF ResumeCampaign
  <2>2. CycleOK(i)'
    BY <1>2, <1>7 DEF CycleOK, NewIsEmpty, CancelledIsClosed, Existing, Successful
  <2>3. \A j \in Cycles : /\ ScanActive(j)' => ScanActive(j)
                          /\ j # i => (Active(j)' <=> Active(j)) /\ CycleOK(j)'
    BY <1>0, <1>5, <1>6, OthersKeep
  <2>4. OneOfEach'
    BY <1>1, <2>1, <2>3 DEF OneOfEach, IInv, Cycles
  <2>. QED
    BY <1>6, <2>2, <2>3, <2>4 DEF IInv
<1>. QED
  BY <1>1, <1>8, <1>9

\* A cancelled cycle has nothing that waits, runs or can be asked for.
LEMMA CancelKeeps ==
    ASSUME IInv, NEW i \in Cycles, RequestsOK, CancelCampaign(i) \/ CancelOccurrence(i)
    PROVE  IInv' /\ Only(i)
<1>1. TypeOK /\ Active(i) /\ NoneRunning(i) /\ CancelQueued(i) /\ CancelScan(i) /\ UNCHANGED <<inflight, other>>
  BY DEF IInv, CancelCampaign, CancelOccurrence
<1>2. /\ cycle' \in [Cycles -> CycleRow]
      /\ cycle'[i].status = "cancelled" /\ \A j \in Cycles : j # i => cycle'[j] = cycle[j]
  <2>. DEFINE row == [cycle[i] EXCEPT !.status = "cancelled"]
              open == [cycle[i] EXCEPT !.status = "cancelled", !.paused = FALSE]
  <2>1. cycle[i] \in CycleRow /\ cycle \in [Cycles -> CycleRow]
    BY <1>1, RowTypes
  <2>2. row \in CycleRow /\ row.status = "cancelled" /\ open \in CycleRow /\ open.status = "cancelled"
    BY <2>1 DEF CycleRow, CycleStatus, Finished
  <2>3. cycle' = [cycle EXCEPT ![i] = row] \/ cycle' = [cycle EXCEPT ![i] = open]
    BY DEF CancelCampaign, CancelOccurrence
  <2>. HIDE DEF row, open
  <2>4. CASE cycle' = [cycle EXCEPT ![i] = row]
    BY <2>1, <2>2, <2>4
  <2>5. CASE cycle' = [cycle EXCEPT ![i] = open]
    BY <2>1, <2>2, <2>5
  <2>. QED
    BY <2>3, <2>4, <2>5
<1>3. /\ task' \in [Cycles -> [Parts -> TaskRow]] /\ \A j \in Cycles : j # i => task'[j] = task[j]
      /\ \A x \in Parts : task'[i][x].status \notin {"queued", "running"}
  <2>. DEFINE line == [x \in Parts |-> IF task[i][x].status = "queued" THEN [task[i][x] EXCEPT !.status = "cancelled"] ELSE task[i][x]]
  <2>1. line \in [Parts -> TaskRow] /\ \A x \in Parts : line[x].status \notin {"queued", "running"}
    BY <1>1, RowTypes DEF TaskRow, TaskStatus, NoneRunning, Running
  <2>2. task' = [task EXCEPT ![i] = line]
    BY <1>1 DEF CancelQueued
  <2>. HIDE DEF line
  <2>. QED
    BY <1>1, <2>1, <2>2, RowTypes, LineWrite
<1>4. /\ sync' \in [Cycles -> [Sources -> SyncRow]] /\ \A j \in Cycles : j # i => sync'[j] = sync[j]
      /\ \A s \in Sources : sync'[i][s].status \in SyncEnds /\ sync'[i][s].closed
  <2>1. PICK line \in [Sources -> SyncRow] :
            /\ sync' = [sync EXCEPT ![i] = line]
            /\ \A s \in Sources : line[s].status \in SyncEnds /\ line[s].closed
    <3>1. CASE CancelCampaign(i)
      <4>. DEFINE line == [s \in Sources |-> [status |-> "cancelled", pause |-> FALSE, closed |-> TRUE]]
      <4>1. line \in [Sources -> SyncRow] /\ \A s \in Sources : line[s].status \in SyncEnds /\ line[s].closed
        BY DEF SyncRow, SyncStatus, SyncEnds
      <4>. QED
        BY <3>1, <4>1 DEF CancelCampaign
    <3>2. CASE CancelOccurrence(i)
      <4>. DEFINE line == [s \in Sources |->
                  [status |-> IF sync[i][s].status \in {"completed", "limited"} THEN sync[i][s].status ELSE "cancelled",
                   pause |-> TRUE, closed |-> TRUE]]
      <4>1. line \in [Sources -> SyncRow] /\ \A s \in Sources : line[s].status \in SyncEnds /\ line[s].closed
        BY DEF SyncRow, SyncStatus, SyncEnds
      <4>. QED
        BY <3>2, <4>1 DEF CancelOccurrence
    <3>. QED
      BY <3>1, <3>2
  <2>. QED
    BY <1>1, <2>1, RowTypes, LineWrite
<1>5. scan' \in [Cycles -> ScanRow] /\ (\A j \in Cycles : j # i => scan'[j] = scan[j]) /\ ~ScanActive(i)'
  <2>1. [status |-> "cancelled", pause |-> i \in Occurrences] \in ScanRow
    BY DEF ScanRow, ScanStatus, ScanEnds
  <2>. QED
    BY <1>1, <2>1, RowTypes DEF CancelScan, ScanActive, ScanEnds
<1>6. TypeOK' /\ Only(i)
  BY <1>1, <1>2, <1>3, <1>4, <1>5 DEF TypeOK, CycleRow, TaskRow, SyncRow, ScanRow, RequestsOK, Only
<1>7. \A s \in Sources : inflight'[i][s] = "none"
  BY <1>1, PartsOf DEF IInv, CycleOK, InflightRuns, NoneRunning
<1>8. CycleOK(i)'
  BY <1>2, <1>3, <1>4, <1>5, <1>7 DEF CycleOK, InflightRuns, NewIsEmpty, Existing, CancelledIsClosed, Quiet, Pending, Successful
<1>. QED
  BY <1>1, <1>5, <1>6, <1>8, OneCycle

-----------------------------------------------------------------------------
(* Controls, coordinators and executors: the tasks, syncs and the scan of a cycle. *)

TaskMoves(i) == task' \in [Cycles -> [Parts -> TaskRow]] /\ \A j \in Cycles : j # i => task'[j] = task[j]
SyncMoves(i) == sync' \in [Cycles -> [Sources -> SyncRow]] /\ \A j \in Cycles : j # i => sync'[j] = sync[j]
ScanMoves(i) ==
    /\ scan' \in [Cycles -> ScanRow] /\ \A j \in Cycles : j # i => scan'[j] = scan[j]
    /\ ScanActive(i)' => ScanActive(i)
StepsRunOn(i) == \A x \in Parts : Running(i, x) => Running(i, x)'

LEMMA NothingMoves ==
    ASSUME IInv, NEW i \in Cycles
    PROVE  /\ UNCHANGED task => TaskMoves(i) /\ StepsRunOn(i)
           /\ UNCHANGED sync => SyncMoves(i)
           /\ UNCHANGED scan => ScanMoves(i)
BY RowTypes DEF IInv, TaskMoves, SyncMoves, ScanMoves, StepsRunOn, Running, ScanActive

LEMMA PartsMove ==
    ASSUME IInv, NEW i \in Cycles, RequestsOK, Existing(i), ~Over(i), UNCHANGED <<cycle, inflight, other>>,
           TaskMoves(i), SyncMoves(i), ScanMoves(i), StepsRunOn(i)
    PROVE  IInv' /\ Only(i)
<1>1. TypeOK'
  BY DEF IInv, TypeOK, TaskMoves, SyncMoves, ScanMoves, TaskRow, SyncRow, ScanRow, RequestsOK
<1>2. Only(i)
  BY DEF Only, TaskMoves, SyncMoves, ScanMoves
<1>3. InflightRuns(i)'
  BY RunsOn, PartsOf DEF StepsRunOn
<1>. QED
  BY <1>1, <1>2, <1>3, SameCycle DEF ScanMoves

\* Another row for a task that does not run.
LEMMA TaskBecomes ==
    ASSUME IInv, NEW i \in Cycles, NEW x \in Parts, NEW row \in TaskRow, task' = [task EXCEPT ![i][x] = row],
           Running(i, x) => row = task[i][x]
    PROVE  TaskMoves(i) /\ StepsRunOn(i)
BY TaskWrite DEF IInv, TaskMoves, StepsRunOn, Running

LEMMA TaskStatusBecomes ==
    ASSUME IInv, NEW i \in Cycles, NEW x \in Parts, NEW v \in TaskStatus, TaskStatusIs(i, x, v), ~Running(i, x) \/ v = "running"
    PROVE  TaskMoves(i) /\ StepsRunOn(i)
BY TaskStatusWrite DEF IInv, TaskMoves, StepsRunOn, Running

LEMMA TaskRows ==
    /\ \A h \in Holds : QueuedWith(h) \in TaskRow
    /\ \A i \in Cycles : QueuedWith(InsertHold(i)) \in TaskRow
    /\ \A h \in Holds : QueuedWith(h).status = "queued"
    /\ {"no", "campaign", "control", "admin"} = Holds
BY DEF QueuedWith, InsertHold, TaskRow, TaskStatus, Holds

\* Another row for the scan of a cycle, which was active.
LEMMA ScanBecomes ==
    ASSUME IInv, NEW i \in Cycles, NEW row \in ScanRow, ScanActive(i), scan' = [scan EXCEPT ![i] = row]
    PROVE  ScanMoves(i)
BY RowTypes DEF IInv, ScanMoves

LEMMA ScanStatusBecomes ==
    ASSUME IInv, NEW i \in Cycles, NEW v \in ScanStatus, ScanActive(i), scan' = [scan EXCEPT ![i].status = v]
    PROVE  ScanMoves(i)
BY RowTypes DEF IInv, ScanMoves, ScanRow

LEMMA SyncStatusBecomes ==
    ASSUME IInv, NEW i \in Cycles, NEW s \in Sources, NEW v \in SyncStatus, SyncStatusIs(i, s, v)
    PROVE  SyncMoves(i)
BY SyncStatusWrite DEF IInv, SyncMoves

LEMMA SyncPauseBecomes ==
    ASSUME IInv, NEW i \in Cycles, NEW s \in Sources, NEW v \in SyncStatus, NEW p \in BOOLEAN, SyncPauseIs(i, s, p, v)
    PROVE  SyncMoves(i)
BY SyncPauseWrite DEF IInv, SyncMoves

LEMMA EnqueuedMoves ==
    ASSUME IInv, NEW i \in Cycles, NEW x \in Parts, Enqueued(i, x), ~Running(i, x)
    PROVE  TaskMoves(i) /\ StepsRunOn(i)
BY TaskBecomes, TaskRows DEF Enqueued

\* A task that waits with one hold waits with another.
LEMMA RehungMoves ==
    ASSUME IInv, NEW i \in Cycles, NEW x \in Parts, NEW g \in Holds, NEW h \in Holds,
           task' = [task EXCEPT ![i][x] = IF task[i][x] = QueuedWith(g) THEN QueuedWith(h) ELSE task[i][x]]
    PROVE  TaskMoves(i) /\ StepsRunOn(i)
<1>. DEFINE row == IF task[i][x] = QueuedWith(g) THEN QueuedWith(h) ELSE task[i][x]
<1>1. row \in TaskRow /\ (Running(i, x) => row = task[i][x])
  BY TaskRows, RowTypes DEF IInv, Running
<1>2. task' = [task EXCEPT ![i][x] = row]
  OBVIOUS
<1>. HIDE DEF row
<1>. QED
  BY <1>1, <1>2, TaskBecomes

LEMMA SyncControlKeeps ==
    ASSUME IInv, NEW i \in Cycles, RequestsOK, NEW s \in Sources, Existing(i), ~Over(i),
           PauseSync(i, s) \/ ResumeSync(i, s) \/ CoordinateSync(i, s)
    PROVE  IInv' /\ Only(i)
<1>0. Step(s) \in Parts /\ {"ready", "paused", "blocked", "limited"} \subseteq SyncStatus
  BY PartsOf DEF SyncStatus, SyncEnds
<1>1. CASE PauseSync(i, s)
  <2>1. SyncPauseIs(i, s, TRUE, IF Running(i, Step(s)) THEN "ready" ELSE "paused")
    BY <1>1 DEF PauseSync, SyncPauseIs
  <2>2. SyncMoves(i)
    BY <1>0, <2>1, SyncPauseBecomes
  <2>3. TaskMoves(i) /\ StepsRunOn(i)
    BY <1>0, <1>1, RehungMoves, TaskRows DEF PauseSync
  <2>. QED
    BY <1>1, <2>2, <2>3, NothingMoves, PartsMove DEF PauseSync
<1>2. CASE ResumeSync(i, s)
  <2>1. SyncPauseIs(i, s, FALSE, "ready")
    BY <1>2 DEF ResumeSync, SyncPauseIs
  <2>2. SyncMoves(i)
    BY <1>0, <2>1, SyncPauseBecomes
  <2>3. TaskMoves(i) /\ StepsRunOn(i)
    <3>1. CASE Pending(i, Step(s))
      BY <1>0, <1>2, <3>1, RehungMoves, TaskRows DEF ResumeSync
    <3>2. CASE ~Pending(i, Step(s))
      BY <1>0, <1>2, <3>2, EnqueuedMoves DEF ResumeSync, Pending, Running
    <3>. QED
      BY <3>1, <3>2
  <2>. QED
    BY <1>2, <2>2, <2>3, NothingMoves, PartsMove DEF ResumeSync
<1>3. CASE CoordinateSync(i, s)
  <2>1. SyncMoves(i) /\ TaskMoves(i) /\ StepsRunOn(i)
    <3>1. ASSUME NEW v \in SyncStatus, sync' = [sync EXCEPT ![i][s].status = v] PROVE SyncMoves(i)
      <4>1. SyncStatusIs(i, s, v)
        BY <3>1 DEF SyncStatusIs
      <4>. QED
        BY <4>1, SyncStatusBecomes
    <3>2. ASSUME Enqueued(i, Step(s)), task[i][Step(s)] = [status |-> "completed", hold |-> "no"]
          PROVE  TaskMoves(i) /\ StepsRunOn(i)
      BY <1>0, <3>2, EnqueuedMoves DEF Running
    <3>3. SyncMoves(i)
      BY <1>0, <1>3, <3>1, NothingMoves DEF CoordinateSync
    <3>4. TaskMoves(i) /\ StepsRunOn(i)
      BY <1>3, <3>2, NothingMoves DEF CoordinateSync
    <3>. QED
      BY <3>3, <3>4
  <2>. QED
    BY <1>3, <2>1, NothingMoves, PartsMove DEF CoordinateSync
<1>. QED
  BY <1>1, <1>2, <1>3

LEMMA ScanControlKeeps ==
    ASSUME IInv, NEW i \in Cycles, RequestsOK, Existing(i), ~Over(i),
           PauseScan(i) \/ ResumeScan(i) \/ CancelOneScan(i) \/ CoordinateScan(i) \/ AdvanceScan(i)
    PROVE  IInv' /\ Only(i)
<1>0. Scan \in Parts
  BY PartsOf
<1>1. CASE PauseScan(i)
  <2>1. TaskMoves(i) /\ StepsRunOn(i)
    BY <1>0, <1>1, RehungMoves, TaskRows DEF PauseScan
  <2>2. ScanMoves(i)
    <3>1. [status |-> IF Running(i, Scan) THEN "ready" ELSE "paused", pause |-> TRUE] \in ScanRow
      BY DEF ScanRow, ScanStatus
    <3>. QED
      BY <1>1, <3>1, ScanBecomes DEF PauseScan
  <2>. QED
    BY <1>1, <2>1, <2>2, NothingMoves, PartsMove DEF PauseScan
<1>2. CASE ResumeScan(i)
  <2>1. TaskMoves(i) /\ StepsRunOn(i)
    <3>1. CASE Pending(i, Scan)
      BY <1>0, <1>2, <3>1, RehungMoves, TaskRows DEF ResumeScan
    <3>2. CASE ~Pending(i, Scan)
      BY <1>0, <1>2, <3>2, EnqueuedMoves DEF ResumeScan, Pending, Running
    <3>. QED
      BY <3>1, <3>2
  <2>2. ScanMoves(i)
    BY <1>2, ScanBecomes DEF ResumeScan, ScanRow, ScanStatus
  <2>. QED
    BY <1>2, <2>1, <2>2, NothingMoves, PartsMove DEF ResumeScan
<1>3. CASE CancelOneScan(i)
  <2>1. TaskMoves(i) /\ StepsRunOn(i)
    <3>. DEFINE v == IF task[i][Scan].status = "queued" THEN "cancelled" ELSE task[i][Scan].status
    <3>1. TaskStatusIs(i, Scan, v)
      BY <1>3 DEF CancelOneScan, TaskStatusIs
    <3>2. v \in TaskStatus
      BY <1>0, RowTypes DEF IInv, TaskStatus, TaskRow
    <3>. QED
      BY <1>0, <1>3, <3>1, <3>2, TaskStatusBecomes DEF CancelOneScan
  <2>2. ScanMoves(i)
    BY <1>3, ScanBecomes DEF CancelOneScan, ScanRow, ScanStatus, ScanEnds
  <2>. QED
    BY <1>3, <2>1, <2>2, NothingMoves, PartsMove DEF CancelOneScan
<1>4. CASE CoordinateScan(i)
  <2>1. ScanActive(i)
    BY <1>4 DEF CoordinateScan, ScanActive, ScanEnds
  <2>2. ScanMoves(i)
    BY <1>4, <2>1, NothingMoves, ScanStatusBecomes DEF CoordinateScan, ScanStatus
  <2>3. TaskMoves(i) /\ StepsRunOn(i)
    BY <1>0, <1>4, NothingMoves, EnqueuedMoves DEF CoordinateScan, Running
  <2>. QED
    BY <1>4, <2>2, <2>3, NothingMoves, PartsMove DEF CoordinateScan
<1>5. CASE AdvanceScan(i)
  <2>1. ScanActive(i)
    BY <1>5 DEF AdvanceScan, ScanActive, ScanEnds
  <2>2. PICK v \in ScanStatus : scan' = [scan EXCEPT ![i].status = v]
    <3>1. PICK status \in {"ready", "waiting", "completed", "completed_with_review"} :
              scan' = [scan EXCEPT ![i].status = IF scan[i].pause THEN "paused" ELSE status]
      BY <1>5 DEF AdvanceScan
    <3>. QED
      BY <3>1 DEF ScanStatus, ScanEnds
  <2>3. ScanMoves(i)
    BY <2>1, <2>2, ScanStatusBecomes
  <2>. QED
    BY <1>5, <2>3, NothingMoves, PartsMove DEF AdvanceScan
<1>. QED
  BY <1>1, <1>2, <1>3, <1>4, <1>5

LEMMA TaskControlKeeps ==
    ASSUME IInv, NEW i \in Cycles, RequestsOK, NEW x \in Parts, Existing(i), ~Over(i),
           CancelTask(i, x) \/ HoldTask(i, x) \/ ReleaseTask(i, x) \/ RetryTask(i, x) \/ Claim(i, x)
    PROVE  IInv' /\ Only(i)
<1>1. TaskMoves(i) /\ StepsRunOn(i)
  <2>1. CASE CancelTask(i, x)
    <3>1. TaskStatusIs(i, x, "cancelled") /\ ~Running(i, x)
      BY <2>1 DEF CancelTask, TaskStatusIs, Running
    <3>. QED
      BY <3>1, TaskStatusBecomes DEF TaskStatus
  <2>2. CASE HoldTask(i, x) \/ ReleaseTask(i, x)
    <3>1. PICK h \in Holds : task' = [task EXCEPT ![i][x] = QueuedWith(h)] /\ ~Running(i, x)
      BY <2>2, TaskRows DEF HoldTask, ReleaseTask, Held, Running, QueuedWith, Holds
    <3>. QED
      BY <3>1, TaskBecomes, TaskRows
  <2>3. CASE RetryTask(i, x)
    BY <2>3, EnqueuedMoves DEF RetryTask, Running
  <2>4. CASE Claim(i, x)
    <3>1. TaskStatusIs(i, x, "running")
      BY <2>4 DEF Claim, TaskStatusIs
    <3>. QED
      BY <3>1, TaskStatusBecomes DEF TaskStatus
  <2>. QED
    BY <2>1, <2>2, <2>3, <2>4
<1>2. UNCHANGED <<cycle, sync, scan, inflight, other>>
  BY DEF CancelTask, HoldTask, ReleaseTask, RetryTask, Claim
<1>. QED
  BY <1>1, <1>2, NothingMoves, PartsMove

\* What a step inserts shows when it is committed; a step does not end in between.
LEMMA StepWorkKeeps ==
    ASSUME IInv, NEW i \in Cycles, RequestsOK, NEW s \in Sources, Existing(i), ~Over(i),
           InsertEnrichment(i, s) \/ CommitEnrichment(i, s) \/ EndDiscovery(i, s)
    PROVE  IInv' /\ Only(i)
<1>0. TypeOK /\ InflightRuns(i)
  BY DEF IInv, CycleOK
<1>1. CASE InsertEnrichment(i, s)
  <2>1. inflight' \in [Cycles -> [Sources -> {"none", "no", "campaign"}]]
    <3>1. InsertHold(i) \in {"none", "no", "campaign"}
      BY DEF InsertHold
    <3>. QED
      BY <1>0, <1>1, <3>1 DEF InsertEnrichment, TypeOK
  <2>2. TypeOK'
    BY <1>0, <1>1, <2>1 DEF InsertEnrichment, TypeOK, RequestsOK
  <2>3. Only(i)
    BY <1>0, <1>1 DEF InsertEnrichment, TypeOK, Only
  <2>4. InflightRuns(i)'
    BY <1>0, <1>1 DEF InsertEnrichment, TypeOK, InflightRuns, Running
  <2>. QED
    BY <1>1, <2>2, <2>3, <2>4, SameCycle DEF InsertEnrichment, ScanActive
<1>2. CASE CommitEnrichment(i, s)
  <2>1. QueuedWith(inflight[i][s]) \in TaskRow
    <3>1. inflight[i][s] \in Holds
      BY <1>0, <1>2 DEF CommitEnrichment, TypeOK, Holds
    <3>. QED
      BY <3>1, TaskRows
  <2>2. /\ task' \in [Cycles -> [Parts -> TaskRow]]
        /\ \A j \in Cycles : j # i => task'[j] = task[j]
        /\ \A y \in Parts : y # Enrich(s) => task'[i][y] = task[i][y]
    <3>1. task' = [task EXCEPT ![i][Enrich(s)] = QueuedWith(inflight[i][s])] /\ Enrich(s) \in Parts
      BY <1>2, PartsOf DEF CommitEnrichment
    <3>. QED
      BY <1>0, <2>1, <3>1, TaskWrite
  <2>3. /\ inflight' \in [Cycles -> [Sources -> {"none", "no", "campaign"}]]
        /\ \A j \in Cycles : j # i => inflight'[j] = inflight[j]
        /\ \A r \in Sources : inflight'[i][r] # "none" => inflight[i][r] # "none"
    BY <1>0, <1>2 DEF CommitEnrichment, TypeOK
  <2>4. UNCHANGED <<cycle, sync, scan, other>>
    BY <1>2 DEF CommitEnrichment
  <2>5. TypeOK'
    BY <1>0, <2>2, <2>3, <2>4 DEF TypeOK, TaskRow, RequestsOK
  <2>6. Only(i)
    BY <2>2, <2>3, <2>4 DEF Only
  <2>7. InflightRuns(i)'
    <3>1. \A r \in Sources : Step(r) \in Parts /\ Step(r) # Enrich(s)
      <4>1. \A r \in Sources : Step(r)[2] # Enrich(s)[2]
        BY PartsOf
      <4>. QED
        BY <4>1, PartsOf
    <3>. QED
      BY <1>0, <2>2, <2>3, <3>1 DEF InflightRuns, Running
  <2>. QED
    BY <2>4, <2>5, <2>6, <2>7, SameCycle DEF ScanActive
<1>3. CASE EndDiscovery(i, s)
  <2>1. PICK end \in {"completed", "limited"} : SyncStatusIs(i, s, end)
    BY <1>3 DEF EndDiscovery, SyncStatusIs
  <2>2. SyncMoves(i)
    BY <2>1, SyncStatusBecomes DEF SyncStatus, SyncEnds
  <2>. QED
    BY <1>3, <2>2, NothingMoves, PartsMove DEF EndDiscovery
<1>. QED
  BY <1>1, <1>2, <1>3

LEMMA TaskEndKeeps ==
    ASSUME IInv, NEW i \in Cycles, RequestsOK, NEW x \in Parts, Existing(i), ~Over(i), EndTask(i, x) \/ Lapse(i, x)
    PROVE  IInv' /\ Only(i)
<1>0. TypeOK /\ InflightRuns(i)
  BY DEF IInv, CycleOK
<1>1. PICK v \in TaskStatus : TaskStatusIs(i, x, v)
  BY DEF EndTask, Lapse, TaskStatusIs, TaskStatus
<1>2. /\ task' \in [Cycles -> [Parts -> TaskRow]]
      /\ \A j \in Cycles : j # i => task'[j] = task[j]
      /\ \A y \in Parts : y # x => task'[i][y] = task[i][y]
  BY <1>0, <1>1, TaskStatusWrite
<1>3. UNCHANGED <<cycle, sync, scan, other>>
  BY DEF EndTask, Lapse
<1>4. /\ inflight' \in [Cycles -> [Sources -> {"none", "no", "campaign"}]]
      /\ \A j \in Cycles : j # i => inflight'[j] = inflight[j]
      /\ \A s \in Sources : inflight'[i][s] # "none" => inflight[i][s] # "none" /\ Step(s) # x
  <2>1. CASE EndTask(i, x)
    BY <1>0, <2>1, PartsOf DEF EndTask, Idle, TypeOK
  <2>2. CASE Lapse(i, x)
    <3>1. CASE x[2] = "step"
      <4>1. inflight' = [inflight EXCEPT ![i][x[1]] = "none"] /\ x[1] \in Sources
        BY <2>2, <3>1, StepParts DEF Lapse
      <4>2. \A s \in Sources : Step(s) = x => s = x[1]
        BY PartsOf
      <4>. QED
        BY <1>0, <4>1, <4>2 DEF TypeOK
    <3>2. CASE x[2] # "step"
      BY <1>0, <2>2, <3>2, PartsOf DEF Lapse, TypeOK
    <3>. QED
      BY <3>1, <3>2
  <2>. QED
    BY <2>1, <2>2
<1>5. TypeOK'
  BY <1>0, <1>2, <1>3, <1>4 DEF TypeOK, TaskRow, RequestsOK
<1>6. Only(i)
  BY <1>2, <1>3, <1>4 DEF Only
<1>7. InflightRuns(i)'
  BY <1>0, <1>2, <1>4, PartsOf DEF InflightRuns, Running
<1>. QED
  BY <1>3, <1>5, <1>6, <1>7, SameCycle DEF ScanActive

-----------------------------------------------------------------------------
(* Every step. *)

LEMMA TouchKeeps ==
    ASSUME IInv, NEW i \in Cycles, RequestsOK, Touches(i)
    PROVE  IInv' /\ Only(i)
<1>1. CASE Begins(i)
  BY <1>1, BeginKeeps
<1>. SUFFICES ASSUME ~Begins(i) PROVE IInv' /\ Only(i)
  BY <1>1
<1>2. Existing(i) /\ ~Over(i)
  BY Touched
<1>3. CASE Administer(i)
  <2>1. CASE (i \in Campaigns /\ (PauseCampaign(i) \/ ResumeCampaign(i) \/ CancelCampaign(i))) \/ CancelOccurrence(i)
    BY <2>1, PauseKeeps, ResumeKeeps, CancelKeeps
  <2>2. CASE \E s \in Sources : PauseSync(i, s) \/ ResumeSync(i, s)
    BY <1>2, <2>2, SyncControlKeeps
  <2>3. CASE PauseScan(i) \/ ResumeScan(i) \/ CancelOneScan(i)
    BY <1>2, <2>3, ScanControlKeeps
  <2>4. CASE \E x \in Parts : CancelTask(i, x) \/ HoldTask(i, x) \/ ReleaseTask(i, x) \/ RetryTask(i, x)
    BY <1>2, <2>4, TaskControlKeeps
  <2>. QED
    BY <1>3, <2>1, <2>2, <2>3, <2>4 DEF Administer
<1>4. CASE Coordinate(i)
  <2>1. CASE Observe(i)
    BY <2>1, ObserveKeeps, ScanStarts, ConcludeKeeps DEF Observe
  <2>2. CASE (\E s \in Sources : CoordinateSync(i, s)) \/ CoordinateScan(i)
    BY <1>2, <2>2, SyncControlKeeps, ScanControlKeeps
  <2>. QED
    BY <1>4, <2>1, <2>2 DEF Coordinate
<1>5. CASE Work(i)
  <2>1. CASE \E s \in Sources : InsertEnrichment(i, s) \/ CommitEnrichment(i, s) \/ EndDiscovery(i, s)
    BY <1>2, <2>1, StepWorkKeeps
  <2>2. CASE AdvanceScan(i) \/ \E x \in Parts : Claim(i, x) \/ EndTask(i, x)
    BY <1>2, <2>2, ScanControlKeeps, TaskControlKeeps, TaskEndKeeps
  <2>. QED
    BY <1>5, <2>1, <2>2 DEF Work
<1>6. CASE \E x \in Parts : Lapse(i, x)
  BY <1>2, <1>6, TaskEndKeeps
<1>. QED
  BY <1>3, <1>4, <1>5, <1>6 DEF Touches

LEMMA OtherScanKeeps ==
    ASSUME IInv, RequestsOK, OtherScan
    PROVE  IInv'
<1>1. UNCHANGED <<cycle, sync, scan, task, inflight>> /\ (other' => \A j \in Cycles : ~ScanActive(j)) /\ other' \in BOOLEAN
  BY DEF OtherScan, NoActiveScan, IInv, TypeOK
<1>2. TypeOK'
  BY <1>1 DEF IInv, TypeOK, RequestsOK
<1>3. OneOfEach'
  BY <1>1 DEF IInv, OneOfEach, Active, ScanActive
<1>4. \A j \in Cycles : CycleOK(j)'
  BY <1>1 DEF IInv, CycleOK, InflightRuns, NewIsEmpty, CancelledIsClosed, Quiet, Whole, Existing, Running, Pending, ScanActive
<1>. QED
  BY <1>2, <1>3, <1>4 DEF IInv

\* A step is an administrator's own scan, or touches one cycle.
LEMMA StepTouches ==
    ASSUME IInv, Next
    PROVE  RequestsOK /\ (OtherScan \/ \E i \in Cycles : Touches(i))
<1>1. CASE Request
  BY <1>1 DEF Request, Touches, RequestsOK, IInv, TypeOK
<1>2. CASE Proceed /\ UNCHANGED requests
  <2>1. RequestsOK
    BY <1>2 DEF RequestsOK, IInv, TypeOK
  <2>. QED
    BY <1>2, <2>1 DEF Proceed, Touches, Begins, Cycles
<1>. QED
  BY <1>1, <1>2 DEF Next

LEMMA StutterKeeps == IInv /\ UNCHANGED vars => IInv'
BY DEF vars, IInv, TypeOK, OneOfEach, CycleOK, InflightRuns, NewIsEmpty, CancelledIsClosed, Quiet, Whole,
       Existing, Active, Running, Pending, ScanActive

LEMMA InitOK == Init => IInv
<1>. SUFFICES ASSUME Init PROVE IInv
  OBVIOUS
<1>1. TypeOK
  <2>1. NoCycle \in CycleRow /\ NoSync \in SyncRow /\ NoScan \in ScanRow /\ NoTask \in TaskRow
    BY DEF NoCycle, NoSync, NoScan, NoTask, CycleRow, SyncRow, ScanRow, TaskRow, CycleStatus, SyncStatus, ScanStatus,
           TaskStatus, Holds
  <2>2. /\ cycle \in [Cycles -> CycleRow] /\ scan \in [Cycles -> ScanRow]
        /\ sync \in [Cycles -> [Sources -> SyncRow]] /\ task \in [Cycles -> [Parts -> TaskRow]]
        /\ inflight \in [Cycles -> [Sources -> {"none", "no", "campaign"}]]
    BY <2>1 DEF Init
  <2>3. requests \in 0..MaxRequests
    BY RequestsAssumption DEF Init
  <2>4. other \in BOOLEAN
    BY Zenon DEF Init
  <2>. QED
    BY <2>2, <2>3, <2>4 DEF TypeOK, CycleRow, SyncRow, ScanRow, TaskRow
<1>2. \A i \in Cycles : ~Existing(i) /\ ~Active(i) /\ ~ScanActive(i)
  BY DEF Init, NoCycle, NoScan, Existing, Active, ScanActive
<1>3. OneOfEach
  BY <1>2 DEF OneOfEach, Cycles
<1>4. \A i \in Cycles : CycleOK(i)
  BY DEF Init, NoCycle, NoScan, NoTask, CycleOK, InflightRuns, NewIsEmpty, CancelledIsClosed, Successful
<1>. QED
  BY <1>1, <1>3, <1>4 DEF IInv

THEOREM Invariance == Spec => []IInv
<1>1. IInv /\ [Next]_vars => IInv'
  BY TouchKeeps, OtherScanKeeps, StepTouches, StutterKeeps
<1>. QED
  BY <1>1, InitOK, PTL DEF Spec

\* The rows of cycles, syncs, scans and tasks have the states of their columns.
THEOREM TypeCorrect == Spec => []TypeOK
BY Invariance, PTL DEF IInv

\* A cycle that ended with success has nothing undone.
THEOREM WholeSuccess == Spec => []SuccessIsWhole
<1>1. IInv => SuccessIsWhole
  BY DEF IInv, CycleOK, Whole, SuccessIsWhole
<1>. QED
  BY <1>1, Invariance, PTL

\* A cancelled cycle has no work left and gets none again.
THEOREM QuietCancel == Spec => []CancelledStaysQuiet
<1>1. IInv => CancelledStaysQuiet
  BY DEF IInv, CycleOK, Quiet, CancelledStaysQuiet
<1>. QED
  BY <1>1, Invariance, PTL

\* One scan, one campaign and one occurrence at a time.
THEOREM OneAtATime == Spec => []OneOfEach
BY Invariance, PTL DEF IInv

LEMMA OverRows ==
    ASSUME IInv, Next, NEW i \in Cycles, Over(i)
    PROVE  UNCHANGED Rows(i)
<1>1. CASE OtherScan
  BY <1>1 DEF OtherScan, Rows
<1>2. ASSUME NEW j \in Cycles, Touches(j) PROVE UNCHANGED Rows(i)
  <2>1. j # i
    BY <1>2, OverIsUntouched
  <2>2. Only(j)
    BY <1>2, StepTouches, TouchKeeps
  <2>. QED
    BY <2>1, <2>2 DEF Only, Rows
<1>. QED
  BY <1>1, <1>2, StepTouches

\* Nothing of a cycle that succeeded or was cancelled changes again: not its
\* status, its syncs, its scan or its tasks, whatever is requested, retried,
\* coordinated or lapses afterwards.
THEOREM OverForGood == Spec => [][\A i \in Cycles : Over(i) => UNCHANGED Rows(i)]_vars
<1>1. IInv /\ [Next]_vars => [\A i \in Cycles : Over(i) => UNCHANGED Rows(i)]_vars
  BY OverRows
<1>. QED
  BY <1>1, Invariance, PTL DEF Spec

LEMMA ReopenStep ==
    ASSUME IInv, Next, NEW i \in Cycles, cycle[i].status \in Finished, cycle'[i].status # cycle[i].status
    PROVE  i \in Campaigns /\ cycle[i].status = "partial" /\ ResumeCampaign(i)
<1>0. TypeOK /\ ~Active(i) /\ Existing(i)
  BY DEF IInv, Active, Existing, Finished
<1>1. CASE OtherScan
  BY <1>1 DEF OtherScan
<1>2. ASSUME NEW j \in Cycles, Touches(j), j # i PROVE FALSE
  <2>1. Only(j)
    BY <1>2, StepTouches, TouchKeeps
  <2>. QED
    BY <1>2, <2>1 DEF Only
<1>3. CASE Touches(i)
  <2>1. ~Begins(i)
    BY <1>0 DEF Begins, StartCampaign, StartOccurrence
  <2>2. ASSUME Coordinate(i) \/ Work(i) \/ \E x \in Parts : Lapse(i, x) PROVE FALSE
    <3>1. ~Observe(i)
      BY <1>0 DEF Observe, ObserveDiscovery, ObserveEnrichment, StartScan, ScanRefused, ObserveScan, Conclude, ScanConfirmed, Observed
    <3>2. UNCHANGED cycle
      BY <2>2, <3>1 DEF Coordinate, Work, CoordinateSync, CoordinateScan, InsertEnrichment, CommitEnrichment, EndDiscovery,
                        AdvanceScan, Claim, EndTask, Lapse
    <3>. QED
      BY <3>2
  <2>3. CASE Administer(i)
    <3>1. ~PauseCampaign(i) /\ ~CancelCampaign(i) /\ ~CancelOccurrence(i)
      BY <1>0 DEF PauseCampaign, CancelCampaign, CancelOccurrence
    <3>2. i \in Campaigns /\ ResumeCampaign(i)
      BY <2>3, <3>1 DEF Administer, PauseSync, ResumeSync, PauseScan, ResumeScan, CancelOneScan, CancelTask, HoldTask,
                        ReleaseTask, RetryTask
    <3>. QED
      BY <1>0, <3>2 DEF ResumeCampaign
  <2>. QED
    BY <1>3, <2>1, <2>2, <2>3 DEF Touches
<1>. QED
  BY <1>1, <1>2, <1>3, StepTouches

\* A cycle that ended is opened again only by the resumption of a partial campaign.
THEOREM ReopenedByResume ==
    Spec => [][\A i \in Cycles : cycle[i].status \in Finished /\ cycle'[i].status # cycle[i].status
                  => i \in Campaigns /\ cycle[i].status = "partial" /\ ResumeCampaign(i)]_vars
<1>1. IInv /\ [Next]_vars
        => [\A i \in Cycles : cycle[i].status \in Finished /\ cycle'[i].status # cycle[i].status
               => i \in Campaigns /\ cycle[i].status = "partial" /\ ResumeCampaign(i)]_vars
  BY ReopenStep
<1>. QED
  BY <1>1, Invariance, PTL DEF Spec
=============================================================================
