--------------------------- MODULE NationalCycle ---------------------------
(***************************************************************************)
(* The nationwide cycles of the catalogue: the campaigns an administrator  *)
(* starts and controls, and the occurrences the weekly schedule creates. A *)
(* cycle owns one CatalogSync per source with its tasks - discovery steps  *)
(* and the enrichment they insert - and, when those have settled, one      *)
(* reconciliation scan. The coordinator of the calendar executor observes  *)
(* the active cycles; executors claim and end their tasks; the API         *)
(* controls cycles, syncs, scans and single tasks.                         *)
(*                                                                         *)
(* What a discovery step does with its listing is CatalogSync; here it is  *)
(* one latest step and one latest enrichment task per source. When the     *)
(* schedule has an occurrence due is not modelled; here it may be due      *)
(* whenever the guards of the creation let it. A definition whose name     *)
(* ends in "Mutant" is the operator after it with a plausible bug; nothing *)
(* uses it.                                                                *)
(***************************************************************************)
EXTENDS Integers, FiniteSets

CONSTANTS
    Sources,          \* the three sources
    Campaigns,        \* identifiers of campaigns
    Occurrences,      \* identifiers of weekly occurrences
    MaxRequests       \* bound on the requests that control cycles, syncs, scans and tasks

Cycles == Campaigns \cup Occurrences

ASSUME CyclesAssumption == Campaigns \cap Occurrences = {} /\ "maintenance" \notin Sources
ASSUME RequestsAssumption == MaxRequests \in Nat

VARIABLES
    cycle,      \* CatalogCampaign and CatalogWeeklyOccurrence
    sync,       \* CatalogSync of each cycle and source
    scan,       \* CatalogReconciliation of each cycle, or none
    task,       \* the last task of each kind: steps, enrichments, the scan
    inflight,   \* an enrichment a running step has inserted and not committed: its hold
    other,      \* a scan of nobody's cycle is active
    requests    \* requests so far

vars == <<cycle, sync, scan, task, inflight, other, requests>>

Parts == (Sources \X {"step", "enrich"}) \cup {<<"maintenance", "scan">>}
Scan == <<"maintenance", "scan">>
Step(s) == <<s, "step">>
Enrich(s) == <<s, "enrich">>

Finished == {"completed", "completed_with_review", "partial", "cancelled"}
Successful == {"completed", "completed_with_review"}
CycleStatus == {"none", "discovery", "enrichment", "reconciliation", "blocked", "paused"} \cup Finished
SyncEnds == {"completed", "limited", "cancelled"}
SyncStatus == {"ready", "paused", "blocked"} \cup SyncEnds
ScanEnds == {"completed", "completed_with_review", "cancelled"}
ScanStatus == {"none", "ready", "waiting", "paused", "blocked"} \cup ScanEnds
TaskStatus == {"none", "queued", "running", "completed", "failed", "cancelled"}
Holds == {"no", "campaign", "control", "admin"}

NoCycle == [status |-> "none", paused |-> FALSE]
NoSync == [status |-> "ready", pause |-> FALSE, closed |-> FALSE]
NoScan == [status |-> "none", pause |-> FALSE]
NoTask == [status |-> "none", hold |-> "no"]
QueuedWith(h) == [status |-> "queued", hold |-> h]

-----------------------------------------------------------------------------
Active(i) == cycle[i].status \notin Finished \cup {"none"}
Existing(i) == cycle[i].status # "none"
Pending(i, x) == task[i][x].status \in {"queued", "running"}
Running(i, x) == task[i][x].status = "running"
Held(i, x) == task[i][x].status = "queued" /\ task[i][x].hold # "no"
SourceParts == Parts \ {Scan}
ScanActive(i) == scan[i].status \notin ScanEnds \cup {"none"}

\* A campaign whose pause was requested, seen by the trigger of an insertion.
InsertHold(i) == IF i \in Campaigns /\ cycle[i].paused THEN "campaign" ELSE "no"
\* The trigger refuses the tasks of a cancelled campaign.
MayInsert(i) == ~(i \in Campaigns /\ cycle[i].status = "cancelled")
\* catalog_campaign_task_blocked: a barrier at the acquisition itself.
AcquisitionBlocked(i) == i \in Campaigns /\ (cycle[i].paused \/ cycle[i].status = "cancelled")

Init ==
    /\ cycle = [i \in Cycles |-> NoCycle]
    /\ sync = [i \in Cycles |-> [s \in Sources |-> NoSync]]
    /\ scan = [i \in Cycles |-> NoScan]
    /\ task = [i \in Cycles |-> [x \in Parts |-> NoTask]]
    /\ inflight = [i \in Cycles |-> [s \in Sources |-> "none"]]
    /\ other = FALSE
    /\ requests = 0

-----------------------------------------------------------------------------
(* Beginnings. *)

\* The three syncs of a new cycle and their first steps.
Begin(i) ==
    /\ cycle' = [cycle EXCEPT ![i].status = "discovery"]
    /\ task' = [task EXCEPT ![i] = [x \in Parts |-> IF x[2] = "step" THEN QueuedWith("no") ELSE NoTask]]

StartCampaign(i) ==
    /\ ~Existing(i)
    /\ \A j \in Cycles : ~Active(j)
    /\ Begin(i)
    /\ UNCHANGED <<sync, scan, inflight, other>>

\* A due occurrence waits for every campaign and every national sync.
StartOccurrence(i) ==
    /\ ~Existing(i)
    /\ \A j \in Cycles : ~Active(j)
    /\ \A j \in Cycles : Existing(j) => \A s \in Sources : sync[j][s].status \in SyncEnds
    /\ Begin(i)
    /\ UNCHANGED <<sync, scan, inflight, other>>

-----------------------------------------------------------------------------
(* `observeCatalogCycle`, called for the active campaign unless its pause was
   requested, and for the active occurrence. *)

Observed(i) == Active(i) /\ ~cycle[i].paused
Settled(i) == \A s \in Sources : sync[i][s].status \in {"completed", "limited"}
SourceTasksPending(i) == \E x \in SourceParts : Pending(i, x)
SourceTaskHeld(i) == \E x \in SourceParts : Held(i, x)
SourceTaskFailed(i) == \E x \in SourceParts : task[i][x].status \in {"failed", "cancelled"}
ScanTaskFailed(i) == task[i][Scan].status \in {"failed", "cancelled"}
Seen(i, status) == cycle' = [cycle EXCEPT ![i].status = status]

\* A closed source shows the cycle as blocked too.
ObserveDiscovery(i) ==
    /\ Observed(i)
    /\ ~Settled(i)
    /\ \E closed \in BOOLEAN :
         Seen(i, IF closed \/ SourceTaskHeld(i) \/ \E s \in Sources : sync[i][s].status \in {"blocked", "paused"}
                 THEN "blocked" ELSE "discovery")
    /\ UNCHANGED <<sync, scan, task, inflight, other>>

ObserveEnrichment(i) ==
    /\ Observed(i)
    /\ Settled(i)
    /\ SourceTasksPending(i)
    /\ Seen(i, IF SourceTaskHeld(i) THEN "blocked" ELSE "enrichment")
    /\ UNCHANGED <<sync, scan, task, inflight, other>>

\* Scans of administrators are not looked at.
NoActiveScanMutant == \A j \in Cycles : ~ScanActive(j)

NoActiveScan == ~other /\ \A j \in Cycles : ~ScanActive(j)

StartScan(i) ==
    /\ Observed(i)
    /\ Settled(i)
    /\ ~SourceTasksPending(i)
    /\ scan[i].status = "none"
    /\ NoActiveScan
    /\ Seen(i, "reconciliation")
    /\ scan' = [scan EXCEPT ![i] = [status |-> "ready", pause |-> FALSE]]
    /\ task' = [task EXCEPT ![i][Scan] = QueuedWith("no")]
    /\ UNCHANGED <<sync, inflight, other>>

\* Another scan is active, or capacity is short: the campaign shows it, the
\* occurrence stays as it is and the schedule says why.
ScanRefused(i) ==
    /\ i \in Campaigns
    /\ Observed(i)
    /\ Settled(i)
    /\ ~SourceTasksPending(i)
    /\ scan[i].status = "none"
    /\ Seen(i, "blocked")
    /\ UNCHANGED <<sync, scan, task, inflight, other>>

\* A scan whose row is over is taken for confirmed.
ScanConfirmedMutant(i) ==
    /\ Observed(i)
    /\ Settled(i)
    /\ ~SourceTasksPending(i)
    /\ scan[i].status # "none"

\* The cycle waits for the task of the scan, whatever its row says.
ScanConfirmed(i) ==
    /\ Observed(i)
    /\ Settled(i)
    /\ ~SourceTasksPending(i)
    /\ scan[i].status # "none"
    /\ ~Pending(i, Scan)

ObserveScan(i) ==
    /\ Observed(i)
    /\ Settled(i)
    /\ ~SourceTasksPending(i)
    /\ scan[i].status # "none"
    /\ Pending(i, Scan) \/ ScanActive(i)
    /\ Seen(i, IF \/ Held(i, Scan)
                  \/ ~Pending(i, Scan) /\ (ScanTaskFailed(i) \/ scan[i].status \in {"blocked", "paused"})
               THEN "blocked" ELSE "reconciliation")
    /\ UNCHANGED <<sync, scan, task, inflight, other>>

Partial(i) ==
    \/ \E s \in Sources : sync[i][s].status = "limited"
    \/ SourceTaskFailed(i)
    \/ ScanTaskFailed(i)
    \/ scan[i].status = "cancelled"

\* A campaign with editions in review is completed with review as well.
Conclude(i) ==
    /\ ScanConfirmed(i)
    /\ scan[i].status \in ScanEnds
    /\ IF Partial(i) THEN Seen(i, "partial")
       ELSE \/ Seen(i, scan[i].status)
            \/ i \in Campaigns /\ Seen(i, "completed_with_review")
    /\ UNCHANGED <<sync, scan, task, inflight, other>>

-----------------------------------------------------------------------------
(* Controls of a cycle. *)

NoneRunning(i) == \A x \in Parts : ~Running(i, x)
CancelQueued(i) ==
    task' = [task EXCEPT ![i] = [x \in Parts |->
               IF task[i][x].status = "queued" THEN [task[i][x] EXCEPT !.status = "cancelled"] ELSE task[i][x]]]
CancelScan(i) ==
    scan' = IF ScanActive(i) THEN [scan EXCEPT ![i] = [status |-> "cancelled", pause |-> i \in Occurrences]] ELSE scan

PauseCampaign(i) ==
    /\ Active(i)
    /\ cycle' = [cycle EXCEPT ![i].status = "paused", ![i].paused = TRUE]
    /\ task' = [task EXCEPT ![i] = [x \in Parts |->
                  IF task[i][x] = QueuedWith("no") THEN QueuedWith("campaign") ELSE task[i][x]]]
    /\ sync' = [sync EXCEPT ![i] = [s \in Sources |->
                  IF sync[i][s].status \in {"completed", "limited"} THEN sync[i][s]
                  ELSE [sync[i][s] EXCEPT !.pause = TRUE, !.status = IF Running(i, Step(s)) THEN sync[i][s].status ELSE "paused"]]]
    /\ scan' = IF ScanActive(i) THEN [scan EXCEPT ![i] = [status |-> "paused", pause |-> TRUE]] ELSE scan
    /\ UNCHANGED <<inflight, other>>

\* Holds of the campaign are lifted; then successors are inserted for syncs and
\* a scan without a task, before the row of the campaign says it is resumed.  A
\* partial campaign enriches again what failed and will scan anew.
ResumeCampaign(i) ==
    LET again == cycle[i].status = "partial"
        resumed(s) == sync[i][s].status \notin {"completed", "limited"}
        after(x) ==
            IF again /\ x[2] = "enrich" /\ task[i][x].status = "failed" THEN QueuedWith(InsertHold(i))
            ELSE IF x[2] = "step" /\ ~Pending(i, x) /\ resumed(x[1]) THEN QueuedWith(InsertHold(i))
            ELSE IF x = Scan /\ ~again /\ ScanActive(i) /\ ~Pending(i, x) THEN QueuedWith(InsertHold(i))
            ELSE IF task[i][x] = QueuedWith("campaign") THEN QueuedWith("no")
            ELSE task[i][x]
    IN  /\ Active(i) \/ again
        /\ again => \A j \in Campaigns \ {i} : ~Active(j)
        /\ again => \A s \in Sources : sync[i][s].status # "limited"
        /\ task' = [task EXCEPT ![i] = [x \in Parts |-> after(x)]]
        /\ sync' = [sync EXCEPT ![i] = [s \in Sources |->
                      IF resumed(s) THEN [sync[i][s] EXCEPT !.pause = FALSE, !.status = "ready"] ELSE sync[i][s]]]
        /\ scan' = IF again THEN [scan EXCEPT ![i] = NoScan]
                   ELSE IF ScanActive(i) THEN [scan EXCEPT ![i] = [status |-> "ready", pause |-> FALSE]] ELSE scan
        /\ cycle' = [cycle EXCEPT ![i].status = "discovery", ![i].paused = FALSE]
        /\ UNCHANGED <<inflight, other>>

CancelCampaign(i) ==
    /\ Active(i)
    /\ NoneRunning(i)
    /\ CancelQueued(i)
    /\ sync' = [sync EXCEPT ![i] = [s \in Sources |-> [status |-> "cancelled", pause |-> FALSE, closed |-> TRUE]]]
    /\ CancelScan(i)
    /\ cycle' = [cycle EXCEPT ![i].status = "cancelled", ![i].paused = FALSE]
    /\ UNCHANGED <<inflight, other>>

\* Finished discoveries stay open to retries.
CancelOccurrenceMutant(i) ==
    /\ Active(i)
    /\ NoneRunning(i)
    /\ CancelQueued(i)
    /\ sync' = [sync EXCEPT ![i] = [s \in Sources |->
                  IF sync[i][s].status \in {"completed", "limited"} THEN sync[i][s]
                  ELSE [status |-> "cancelled", pause |-> TRUE, closed |-> TRUE]]]
    /\ CancelScan(i)
    /\ cycle' = [cycle EXCEPT ![i].status = "cancelled"]
    /\ UNCHANGED <<inflight, other>>

\* What was discovered keeps its status; its options say it was cancelled.
CancelOccurrence(i) ==
    /\ Active(i)
    /\ NoneRunning(i)
    /\ CancelQueued(i)
    /\ sync' = [sync EXCEPT ![i] = [s \in Sources |->
                  [status |-> IF sync[i][s].status \in {"completed", "limited"} THEN sync[i][s].status ELSE "cancelled",
                   pause |-> TRUE, closed |-> TRUE]]]
    /\ CancelScan(i)
    /\ cycle' = [cycle EXCEPT ![i].status = "cancelled"]
    /\ UNCHANGED <<inflight, other>>

-----------------------------------------------------------------------------
(* Controls of one sync, one scan or one task. *)

Enqueued(i, x) == task' = [task EXCEPT ![i][x] = QueuedWith(InsertHold(i))]

PauseSync(i, s) ==
    /\ Existing(i)
    /\ sync[i][s].status \notin SyncEnds /\ ~sync[i][s].closed
    /\ ~sync[i][s].pause
    /\ task' = [task EXCEPT ![i][Step(s)] = IF @ = QueuedWith("no") THEN QueuedWith("control") ELSE @]
    /\ sync' = [sync EXCEPT ![i][s].pause = TRUE, ![i][s].status = IF Running(i, Step(s)) THEN "ready" ELSE "paused"]
    /\ UNCHANGED <<cycle, scan, inflight, other>>

ResumeSync(i, s) ==
    /\ Existing(i)
    /\ sync[i][s].status \notin SyncEnds /\ ~sync[i][s].closed
    /\ IF Pending(i, Step(s))
         THEN task' = [task EXCEPT ![i][Step(s)] = IF @ = QueuedWith("control") THEN QueuedWith("no") ELSE @]
         ELSE MayInsert(i) /\ Enqueued(i, Step(s))
    /\ sync' = [sync EXCEPT ![i][s].pause = FALSE, ![i][s].status = "ready"]
    /\ UNCHANGED <<cycle, scan, inflight, other>>

PauseScan(i) ==
    /\ ScanActive(i)
    /\ task' = [task EXCEPT ![i][Scan] = IF @ = QueuedWith("no") THEN QueuedWith("control") ELSE @]
    /\ scan' = [scan EXCEPT ![i] = [status |-> IF Running(i, Scan) THEN "ready" ELSE "paused", pause |-> TRUE]]
    /\ UNCHANGED <<cycle, sync, inflight, other>>

ResumeScan(i) ==
    /\ ScanActive(i)
    /\ IF Pending(i, Scan)
         THEN task' = [task EXCEPT ![i][Scan] = IF @ = QueuedWith("control") THEN QueuedWith("no") ELSE @]
         ELSE MayInsert(i) /\ Enqueued(i, Scan)
    /\ scan' = [scan EXCEPT ![i] = [status |-> "ready", pause |-> FALSE]]
    /\ UNCHANGED <<cycle, sync, inflight, other>>

CancelOneScan(i) ==
    /\ ScanActive(i)
    /\ ~Running(i, Scan)
    /\ task' = [task EXCEPT ![i][Scan].status = IF @ = "queued" THEN "cancelled" ELSE @]
    /\ scan' = [scan EXCEPT ![i] = [status |-> "cancelled", pause |-> FALSE]]
    /\ UNCHANGED <<cycle, sync, inflight, other>>

CancelTask(i, x) ==
    /\ task[i][x].status = "queued"
    /\ task' = [task EXCEPT ![i][x].status = "cancelled"]
    /\ UNCHANGED <<cycle, sync, scan, inflight, other>>

HoldTask(i, x) ==
    /\ task[i][x] = QueuedWith("no")
    /\ task' = [task EXCEPT ![i][x] = QueuedWith("admin")]
    /\ UNCHANGED <<cycle, sync, scan, inflight, other>>

\* The release route lifts a hold of any reason.
ReleaseTask(i, x) ==
    /\ Held(i, x)
    /\ task' = [task EXCEPT ![i][x] = QueuedWith("no")]
    /\ UNCHANGED <<cycle, sync, scan, inflight, other>>

\* A failed task may be tried again unless its sync was cancelled.
RetryTask(i, x) ==
    /\ x # Scan
    /\ task[i][x].status = "failed"
    /\ sync[i][x[1]].status # "cancelled" /\ ~sync[i][x[1]].closed
    /\ x[2] = "step" => sync[i][x[1]].status = "ready"
    /\ MayInsert(i)
    /\ Enqueued(i, x)
    /\ UNCHANGED <<cycle, sync, scan, inflight, other>>

-----------------------------------------------------------------------------
(* Coordinators of syncs and scans. *)

CoordinateSync(i, s) ==
    LET x == Step(s)
    IN  /\ Existing(i)
        /\ sync[i][s].status = "ready"
        /\ \/ /\ sync[i][s].pause
              /\ ~Running(i, x)
              /\ sync' = [sync EXCEPT ![i][s].status = "paused"]
              /\ UNCHANGED task
           \/ /\ ~sync[i][s].pause
              /\ ~Pending(i, x)
              /\ task[i][x].hold = "no"
              /\ task[i][x].status # "completed"
              /\ sync' = [sync EXCEPT ![i][s].status = IF task[i][x].status = "cancelled" THEN "paused" ELSE "blocked"]
              /\ UNCHANGED task
           \/ /\ ~sync[i][s].pause
              /\ task[i][x] = [status |-> "completed", hold |-> "no"]
              /\ \/ Enqueued(i, x) /\ UNCHANGED sync
                 \/ sync' = [sync EXCEPT ![i][s].status = "limited"] /\ UNCHANGED task
        /\ UNCHANGED <<cycle, scan, inflight, other>>

\* The run takes over the status of its task.
CoordinateScanMutant(i) ==
    /\ scan[i].status \in {"ready", "waiting"}
    /\ ~Pending(i, Scan)
    /\ scan' = [scan EXCEPT ![i].status = task[i][Scan].status]
    /\ UNCHANGED <<cycle, sync, task, inflight, other>>

CoordinateScan(i) ==
    /\ scan[i].status \in {"ready", "waiting"}
    /\ ~Pending(i, Scan)
    /\ \/ /\ scan[i].pause
          /\ scan' = [scan EXCEPT ![i].status = "paused"]
          /\ UNCHANGED task
       \/ /\ ~scan[i].pause
          /\ task[i][Scan] # [status |-> "completed", hold |-> "no"]
          /\ scan' = [scan EXCEPT ![i].status = "blocked"]
          /\ UNCHANGED task
       \/ /\ ~scan[i].pause
          /\ task[i][Scan] = [status |-> "completed", hold |-> "no"]
          /\ Enqueued(i, Scan)
          /\ UNCHANGED scan
    /\ UNCHANGED <<cycle, sync, inflight, other>>

-----------------------------------------------------------------------------
(* Executors. *)

\* One task of a source at a time, and none of a campaign that is paused or cancelled.
Claim(i, x) ==
    /\ task[i][x] = QueuedWith("no")
    /\ ~AcquisitionBlocked(i)
    /\ \A j \in Cycles, y \in Parts : y[1] = x[1] => ~Running(j, y)
    /\ task' = [task EXCEPT ![i][x].status = "running"]
    /\ UNCHANGED <<cycle, sync, scan, inflight, other>>

\* A running step inserts the enrichment of an edition, and commits it later.
InsertEnrichment(i, s) ==
    /\ Running(i, Step(s))
    /\ sync[i][s].status = "ready"
    /\ task[i][Enrich(s)].status = "none"
    /\ inflight[i][s] = "none"
    /\ MayInsert(i)
    /\ inflight' = [inflight EXCEPT ![i][s] = InsertHold(i)]
    /\ UNCHANGED <<cycle, sync, scan, task, other>>

CommitEnrichment(i, s) ==
    /\ inflight[i][s] # "none"
    /\ task' = [task EXCEPT ![i][Enrich(s)] = QueuedWith(inflight[i][s])]
    /\ inflight' = [inflight EXCEPT ![i][s] = "none"]
    /\ UNCHANGED <<cycle, sync, scan, other>>

\* The last step of a source writes how the discovery ended.
EndDiscovery(i, s) ==
    /\ Running(i, Step(s))
    /\ inflight[i][s] = "none"
    /\ sync[i][s].status = "ready"
    /\ \E end \in {"completed", "limited"} : sync' = [sync EXCEPT ![i][s].status = end]
    /\ UNCHANGED <<cycle, scan, task, inflight, other>>

\* A step of the scan commits its checkpoint.
AdvanceScan(i) ==
    /\ Running(i, Scan)
    /\ scan[i].status \in {"ready", "waiting"}
    /\ \E status \in {"ready", "waiting", "completed", "completed_with_review"} :
         scan' = [scan EXCEPT ![i].status = IF scan[i].pause THEN "paused" ELSE status]
    /\ UNCHANGED <<cycle, sync, task, inflight, other>>

Idle(i, x) == x[2] = "step" => inflight[i][x[1]] = "none"

EndTask(i, x) ==
    /\ Running(i, x)
    /\ Idle(i, x)
    /\ \E end \in {"completed", "failed"} : task' = [task EXCEPT ![i][x].status = end]
    /\ UNCHANGED <<cycle, sync, scan, inflight, other>>

\* The executor is gone: its transaction is undone and its task queued again.
Lapse(i, x) ==
    /\ Running(i, x)
    /\ task' = [task EXCEPT ![i][x].status = "queued"]
    /\ inflight' = IF x[2] = "step" THEN [inflight EXCEPT ![i][x[1]] = "none"] ELSE inflight
    /\ UNCHANGED <<cycle, sync, scan, other>>

\* An administrator's own scan.
OtherScan ==
    /\ other \/ NoActiveScan
    /\ other' = ~other
    /\ UNCHANGED <<cycle, sync, scan, task, inflight>>

Observe(i) ==
    \/ ObserveDiscovery(i)
    \/ ObserveEnrichment(i)
    \/ StartScan(i)
    \/ ScanRefused(i)
    \/ ObserveScan(i)
    \/ Conclude(i)

Administer(i) ==
    \/ i \in Campaigns /\ (PauseCampaign(i) \/ ResumeCampaign(i) \/ CancelCampaign(i))
    \/ i \in Occurrences /\ CancelOccurrence(i)
    \/ \E s \in Sources : PauseSync(i, s) \/ ResumeSync(i, s)
    \/ PauseScan(i) \/ ResumeScan(i) \/ CancelOneScan(i)
    \/ \E x \in Parts : CancelTask(i, x) \/ HoldTask(i, x) \/ ReleaseTask(i, x) \/ RetryTask(i, x)

Coordinate(i) ==
    \/ Observe(i)
    \/ \E s \in Sources : CoordinateSync(i, s)
    \/ CoordinateScan(i)

Work(i) ==
    \/ \E s \in Sources : InsertEnrichment(i, s) \/ CommitEnrichment(i, s) \/ EndDiscovery(i, s)
    \/ AdvanceScan(i)
    \/ \E x \in Parts : Claim(i, x) \/ EndTask(i, x)

Request ==
    /\ requests < MaxRequests
    /\ requests' = requests + 1
    /\ \E i \in Cycles : Administer(i)

Proceed ==
    \/ OtherScan
    \/ \E i \in Campaigns : StartCampaign(i)
    \/ \E i \in Occurrences : StartOccurrence(i)
    \/ \E i \in Cycles : Coordinate(i) \/ Work(i)
    \/ \E i \in Cycles, x \in Parts : Lapse(i, x)

Next == Request \/ (Proceed /\ UNCHANGED requests)

Spec == Init /\ [][Next]_vars

-----------------------------------------------------------------------------
TypeOK ==
    /\ cycle \in [Cycles -> [status: CycleStatus, paused: BOOLEAN]]
    /\ sync \in [Cycles -> [Sources -> [status: SyncStatus, pause: BOOLEAN, closed: BOOLEAN]]]
    /\ scan \in [Cycles -> [status: ScanStatus, pause: BOOLEAN]]
    /\ task \in [Cycles -> [Parts -> [status: TaskStatus, hold: Holds]]]
    /\ inflight \in [Cycles -> [Sources -> {"none", "no", "campaign"}]]
    /\ other \in BOOLEAN
    /\ requests \in 0..MaxRequests

\* A cancelled cycle has no work left and gets none again, whatever is retried,
\* resumed or coordinated afterwards.
CancelledStaysQuiet ==
    \A i \in Cycles : cycle[i].status = "cancelled" =>
        /\ \A x \in Parts : ~Pending(i, x)
        /\ \A s \in Sources : inflight[i][s] = "none"
        /\ ~ScanActive(i)

\* A cycle that ended with success has nothing undone: every source was
\* discovered to its end, what was inserted was enriched, the scan ended and its
\* executor said so.
SuccessIsWhole ==
    \A i \in Cycles : cycle[i].status \in Successful =>
        /\ \A s \in Sources : sync[i][s].status = "completed" /\ inflight[i][s] = "none"
        /\ \A x \in Parts : task[i][x].status \in {"completed", "none"}
        /\ scan[i].status \in {"completed", "completed_with_review"}

\* At most one scan is active, and at most one campaign and one occurrence.
OneOfEach ==
    /\ \A i, j \in Campaigns : Active(i) /\ Active(j) => i = j
    /\ \A i, j \in Occurrences : Active(i) /\ Active(j) => i = j
    /\ \A i, j \in Cycles : ScanActive(i) /\ ScanActive(j) => i = j
    /\ \A i \in Cycles : ~(other /\ ScanActive(i))

\* "retomada libera somente holds da própria campanha": a campaign whose pause is
\* not in force holds no task.
ResumeReleases ==
    \A i \in Campaigns, x \in Parts : ~cycle[i].paused => ~(task[i][x] = QueuedWith("campaign"))
=============================================================================
