---------------------------- MODULE CatalogSync ----------------------------
(***************************************************************************)
(* One catalogue cycle: its row of CatalogSync and the catalog-sync tasks  *)
(* ("steps") that carry it forward.  Three parties work on them: the API   *)
(* (continue, retry, pause, resume, cancel, hold), the coordinator that    *)
(* every calendar executor runs between tasks, and the executors that run  *)
(* one step in several fenced transactions.                                *)
(*                                                                         *)
(* Taken from TaskQueue, which proves them: the steps of one cycle share a *)
(* source, so at most one is running; a fenced transaction commits only    *)
(* for the executor that owns the running step.  Transactions that lock    *)
(* the CatalogSync row are atomic here.  checkpointHash is the checkpoint  *)
(* itself (a hash without collisions), and which attempt is a step's last  *)
(* is left open.                                                           *)
(* A definition whose name ends in "Mutant" is the operator after it with  *)
(* a plausible bug; nothing uses it.                                       *)
(***************************************************************************)
EXTENDS Naturals, Sequences

CONSTANTS Executors,
          Pages, Candidates, Listings,
          BatchSize,    \* options.batchSize
          Automatic,    \* options.autoContinue of the request that started the cycle
          MaxSteps      \* bound: steps after which no request enqueues another

None == "none"

ASSUME ExecutorsAssumption == None \notin Executors
ASSUME CyclePagesAssumption == Pages \in Nat \ {0}
ASSUME CycleListingsAssumption == Listings \in [1..Pages -> SUBSET Seq(Candidates)]
ASSUME BatchAssumption == BatchSize \in Nat \ {0}
ASSUME AutomaticAssumption == Automatic \in BOOLEAN

VARIABLES status,          \* CatalogSync.status
          pauseRequested,  \* options.pauseRequested
          autoContinue,    \* options.autoContinue
          notAdvancing,    \* coverage = "catalog_checkpoint_not_advancing"
          checkpoint,      \* page, cursor, snapshot
          known,           \* candidates with a reference, an event and, in a national cycle, an enrichment task
          steps,           \* the catalog-sync tasks of the cycle, by creation
          latest,          \* the step updated last
          blocked,         \* the gate of the source is closed
          body             \* what each executor is doing

rowVars == <<status, pauseRequested, autoContinue, notAdvancing>>
vars == <<rowVars, checkpoint, known, steps, latest, blocked, body>>

Ends == {"completed", "limited", "cancelled"}
Status == {"ready", "paused", "blocked"} \cup Ends
Checkpoints == [page: 1..Pages, cursor: Nat, snapshot: Seq(Candidates)]
Holds == {None, "admin", "catalog_sync_paused", "source_access_blocked"}
Step == [status: {"queued", "running", "completed", "failed", "cancelled"}, hold: Holds,
         checkpointHash: Checkpoints, auto: BOOLEAN, owner: Executors \cup {None},
         stage: {None, "catalog_batch", "not_ready"}]
Body == [phase: {"idle", "claimed", "stage", "discovery", "batch", "batched"},
         step: Nat, seen: Checkpoints, done: Nat]

TypeOK ==
    /\ status \in Status
    /\ pauseRequested \in BOOLEAN /\ autoContinue \in BOOLEAN /\ notAdvancing \in BOOLEAN
    /\ checkpoint \in Checkpoints
    /\ known \subseteq Candidates
    /\ steps \in Seq(Step)
    /\ latest \in DOMAIN steps
    /\ blocked \in BOOLEAN
    /\ body \in [Executors -> Body]
    /\ \A e \in Executors : body[e].phase # "idle" => body[e].step \in DOMAIN steps

-----------------------------------------------------------------------------
(* Steps. *)

Queued == {s \in DOMAIN steps : steps[s].status = "queued"}
Running == {s \in DOMAIN steps : steps[s].status = "running"}
Active == Queued \cup Running
QueuedHeld(h) == {s \in Queued : steps[s].hold = h}

NewStep(hash, auto) ==
    [status |-> "queued", hold |-> None, checkpointHash |-> hash, auto |-> auto,
     owner |-> None, stage |-> None]

\* enqueueTask with a key no task has yet.
Enqueue(hash, auto) ==
    /\ steps' = Append(steps, NewStep(hash, auto))
    /\ latest' = Len(steps) + 1

\* updateMany over the set S: every row gets hold h, and a new updatedAt.
SetHold(S, h) ==
    /\ steps' = [s \in DOMAIN steps |-> IF s \in S THEN [steps[s] EXCEPT !.hold = h] ELSE steps[s]]
    /\ IF S = {} THEN UNCHANGED latest ELSE latest' \in S

\* One row changes its status.
Becomes(s, st, h) ==
    /\ steps' = [steps EXCEPT ![s].status = st, ![s].hold = h, ![s].owner = None]
    /\ latest' = s

StartOf(page) == [page |-> page, cursor |-> 0, snapshot |-> <<>>]

\* A body between two reads of the row carries no copy of it.
BodyAt(phase, s) == [phase |-> phase, step |-> s, seen |-> StartOf(1), done |-> 0]
Idle == BodyAt("idle", 0)

\* The request that starts a cycle creates the row and its first step at once.
Init ==
    /\ status = "ready" /\ pauseRequested = FALSE /\ autoContinue = Automatic
    /\ notAdvancing = FALSE
    /\ checkpoint = StartOf(1)
    /\ known = {}
    /\ steps = <<NewStep(StartOf(1), FALSE)>>
    /\ latest = 1
    /\ blocked = FALSE
    /\ body = [e \in Executors |-> Idle]

-----------------------------------------------------------------------------
(* The API. *)

RequestsLeft == Len(steps) < MaxSteps

NoActiveStepMutant == Running = {}

NoActiveStep == Active = {}

ContinueSync ==
    /\ status = "ready" /\ ~pauseRequested
    /\ NoActiveStep
    /\ RequestsLeft
    /\ Enqueue(checkpoint, FALSE)
    /\ UNCHANGED <<rowVars, checkpoint, known, blocked, body>>

\* A retry copies the payload of the failed step, its checkpointHash included.
RetryStep(s) ==
    /\ steps[s].status = "failed"
    /\ status = "ready"
    /\ NoActiveStep
    /\ RequestsLeft
    /\ Enqueue(steps[s].checkpointHash, FALSE)
    /\ UNCHANGED <<rowVars, checkpoint, known, blocked, body>>

PauseSyncMutant ==
    /\ status \notin Ends
    /\ ~pauseRequested
    /\ SetHold(QueuedHeld(None), "catalog_sync_paused")
    /\ pauseRequested' = TRUE
    /\ status' = "paused"
    /\ UNCHANGED <<autoContinue, notAdvancing, checkpoint, known, blocked, body>>

PauseSync ==
    /\ status \notin Ends
    /\ ~pauseRequested
    /\ SetHold(QueuedHeld(None), "catalog_sync_paused")
    /\ pauseRequested' = TRUE
    /\ status' = IF Running = {} THEN "paused" ELSE "ready"
    /\ UNCHANGED <<autoContinue, notAdvancing, checkpoint, known, blocked, body>>

ResumeSync ==
    /\ status \notin Ends
    /\ IF NoActiveStep
         THEN RequestsLeft /\ Enqueue(checkpoint, FALSE)
         ELSE SetHold(QueuedHeld("catalog_sync_paused"), None)
    /\ pauseRequested' = FALSE
    /\ status' = "ready"
    /\ UNCHANGED <<autoContinue, notAdvancing, checkpoint, known, blocked, body>>

\* The weekly occurrence the cycle belongs to is cancelled.
CancelCycle ==
    /\ Running = {}
    /\ steps' = [s \in DOMAIN steps |->
                   IF s \in Queued THEN [steps[s] EXCEPT !.status = "cancelled"] ELSE steps[s]]
    /\ IF Queued = {} THEN UNCHANGED latest ELSE latest' \in Queued
    /\ status' = IF status \in {"completed", "limited"} THEN status ELSE "cancelled"
    /\ autoContinue' = FALSE
    /\ pauseRequested' = TRUE
    /\ UNCHANGED <<notAdvancing, checkpoint, known, blocked, body>>

\* Cancelling a task leaves its hold as it is.
CancelStep(s) ==
    /\ s \in Queued
    /\ Becomes(s, "cancelled", steps[s].hold)
    /\ UNCHANGED <<rowVars, checkpoint, known, blocked, body>>

HoldStep(s) ==
    /\ s \in QueuedHeld(None)
    /\ SetHold({s}, "admin")
    /\ UNCHANGED <<rowVars, checkpoint, known, blocked, body>>

\* The release route lifts a hold of any reason.
ReleaseStep(s) ==
    /\ s \in Queued /\ steps[s].hold # None
    /\ SetHold({s}, None)
    /\ UNCHANGED <<rowVars, checkpoint, known, blocked, body>>

\* A task of the source was refused: the gate closes and queued steps are held.
BlockSource ==
    /\ blocked' = TRUE
    /\ SetHold(QueuedHeld(None), "source_access_blocked")
    /\ UNCHANGED <<rowVars, checkpoint, known, body>>

ResumeSource ==
    /\ blocked
    /\ blocked' = FALSE
    /\ SetHold(QueuedHeld("source_access_blocked"), None)
    /\ UNCHANGED <<rowVars, checkpoint, known, body>>

-----------------------------------------------------------------------------
(* The coordinator: one transaction per cycle, every five seconds. *)

Last == steps[latest]

CoordinatePauseLateMutant ==
    /\ status = "ready" /\ pauseRequested
    /\ NoActiveStep
    /\ status' = "paused"
    /\ UNCHANGED <<pauseRequested, autoContinue, notAdvancing, steps, latest>>

\* A pause takes effect once no step is running.
CoordinatePause ==
    /\ status = "ready" /\ pauseRequested
    /\ Running = {}
    /\ status' = "paused"
    /\ UNCHANGED <<pauseRequested, autoContinue, notAdvancing, steps, latest>>

\* The cycle looks for what comes after its last step.
Coordinable ==
    /\ status = "ready" /\ ~pauseRequested /\ autoContinue
    /\ ~blocked
    /\ NoActiveStep
    /\ Last.hold = None

CoordinateFailure ==
    /\ Coordinable
    /\ Last.status # "completed"
    /\ status' = IF Last.status = "cancelled" THEN "paused" ELSE "blocked"
    /\ notAdvancing' = FALSE
    /\ UNCHANGED <<pauseRequested, autoContinue, steps, latest>>

CoordinateStall ==
    /\ Coordinable
    /\ Last.status = "completed"
    /\ Last.checkpointHash = checkpoint
    /\ status' = "limited"
    /\ notAdvancing' = TRUE
    /\ UNCHANGED <<pauseRequested, autoContinue, steps, latest>>

AutoKeyTakenMutant == \E s \in DOMAIN steps : steps[s].auto

\* The key of a successor is the cycle and the checkpoint: it is enqueued once.
AutoKeyTaken == \E s \in DOMAIN steps : steps[s].auto /\ steps[s].checkpointHash = checkpoint

CoordinateSuccessor ==
    /\ Coordinable
    /\ Last.status = "completed"
    /\ Last.checkpointHash # checkpoint
    /\ ~AutoKeyTaken
    /\ Enqueue(checkpoint, TRUE)
    /\ UNCHANGED rowVars

Coordinate ==
    /\ CoordinatePause \/ CoordinateFailure \/ CoordinateStall \/ CoordinateSuccessor
    /\ UNCHANGED <<checkpoint, known, blocked, body>>

-----------------------------------------------------------------------------
(* The executors. *)

Become(e, b) == body' = [body EXCEPT ![e] = b]

\* claim_task: no other step of the source is running, and the gate is open.
Claim(e, s) ==
    /\ body[e].phase = "idle"
    /\ Running = {} /\ ~blocked
    /\ s \in QueuedHeld(None)
    /\ steps' = [steps EXCEPT ![s].status = "running", ![s].owner = e]
    /\ latest' = s
    /\ Become(e, BodyAt("claimed", s))
    /\ UNCHANGED <<rowVars, checkpoint, known, blocked>>

FencedMutant(e) == steps[body[e].step].status = "running"

\* The executor still owns the running step its body works for.
Fenced(e) == steps[body[e].step].status = "running" /\ steps[body[e].step].owner = e

\* syncCatalog reads the row once, outside any fenced transaction.
ReadSync(e) ==
    /\ body[e].phase = "claimed"
    /\ Become(e, IF status # "ready"
                   THEN BodyAt("stage", body[e].step)
                   ELSE [phase |-> IF checkpoint.snapshot = <<>> /\ checkpoint.cursor = 0
                                     THEN "discovery" ELSE "batch",
                         step |-> body[e].step, seen |-> checkpoint, done |-> 0])
    /\ UNCHANGED <<rowVars, checkpoint, known, steps, latest, blocked>>

\* The listing is fetched and stored; the body goes on with the row it wrote.
Discover(e) ==
    /\ body[e].phase = "discovery"
    /\ Fenced(e)
    /\ \E rows \in Listings[body[e].seen.page] :
          /\ checkpoint' = [checkpoint EXCEPT !.snapshot = rows]
          /\ Become(e, [body[e] EXCEPT !.phase = "batch", !.seen = [checkpoint EXCEPT !.snapshot = rows]])
    /\ UNCHANGED <<rowVars, known, steps, latest, blocked>>

\* Candidates of the batch, counted from the cursor the body read.
BatchLength(seen) ==
    IF Len(seen.snapshot) < seen.cursor THEN 0
    ELSE IF Len(seen.snapshot) - seen.cursor < BatchSize THEN Len(seen.snapshot) - seen.cursor
    ELSE BatchSize

PageFinished(seen) == seen.cursor + BatchLength(seen) >= Len(seen.snapshot)

\* One candidate and the cursor of the row commit together.
ProcessCandidate(e) ==
    /\ body[e].phase = "batch"
    /\ body[e].done < BatchLength(body[e].seen)
    /\ Fenced(e)
    /\ known' = known \cup {body[e].seen.snapshot[body[e].seen.cursor + body[e].done + 1]}
    /\ checkpoint' = [checkpoint EXCEPT !.cursor = @ + 1]
    /\ Become(e, [body[e] EXCEPT !.done = @ + 1])
    /\ UNCHANGED <<rowVars, steps, latest, blocked>>

ConcludeBatchMutant(e) ==
    /\ body[e].phase = "batch"
    /\ body[e].done = BatchLength(body[e].seen)
    /\ Fenced(e)
    /\ checkpoint' = StartOf(checkpoint.page + 1)
    /\ Become(e, BodyAt("batched", body[e].step))
    /\ UNCHANGED <<rowVars, known, steps, latest, blocked>>

\* After the batch: nothing, the next page, or the end of the cycle.
ConcludeBatch(e) ==
    /\ body[e].phase = "batch"
    /\ body[e].done = BatchLength(body[e].seen)
    /\ Fenced(e)
    /\ \/ /\ ~PageFinished(body[e].seen)
          /\ UNCHANGED <<status, checkpoint>>
       \/ /\ PageFinished(body[e].seen)
          /\ body[e].seen.page < Pages
          /\ checkpoint' = StartOf(checkpoint.page + 1)
          /\ UNCHANGED status
       \/ /\ PageFinished(body[e].seen)
          /\ body[e].seen.page >= Pages
          /\ status' \in {"completed", "limited"}
          /\ UNCHANGED checkpoint
    /\ Become(e, BodyAt("batched", body[e].step))
    /\ UNCHANGED <<pauseRequested, autoContinue, notAdvancing, known, steps, latest, blocked>>

\* finish_task("completed") with the stage the body returned.
FinishStep(e) ==
    /\ body[e].phase \in {"stage", "batched"}
    /\ IF Fenced(e)
         THEN /\ steps' = [steps EXCEPT ![body[e].step].status = "completed",
                             ![body[e].step].owner = None,
                             ![body[e].step].stage = IF body[e].phase = "stage" THEN "not_ready" ELSE "catalog_batch"]
              /\ latest' = body[e].step
         ELSE UNCHANGED <<steps, latest>>
    /\ Become(e, Idle)
    /\ UNCHANGED <<rowVars, checkpoint, known, blocked>>

\* An error ends the body: the step is tried again, has failed, or is deferred and
\* held when the executor found the gate closed.
FailStep(e) ==
    /\ body[e].phase \in {"claimed", "discovery", "batch"}
    /\ IF Fenced(e)
         THEN \/ Becomes(body[e].step, "queued", None)
              \/ Becomes(body[e].step, "failed", None)
              \/ blocked /\ Becomes(body[e].step, "queued", "source_access_blocked")
         ELSE UNCHANGED <<steps, latest>>
    /\ Become(e, Idle)
    /\ UNCHANGED <<rowVars, checkpoint, known, blocked>>

\* The lease ran out and an acquisition puts the step back, or ends it.
Recover(s) ==
    /\ s \in Running
    /\ Becomes(s, "queued", None) \/ Becomes(s, "failed", None)
    /\ UNCHANGED <<rowVars, checkpoint, known, blocked, body>>

\* The process dies; its successor starts with nothing.
Crash(e) ==
    /\ body[e].phase # "idle"
    /\ Become(e, Idle)
    /\ UNCHANGED <<rowVars, checkpoint, known, steps, latest, blocked>>

-----------------------------------------------------------------------------

Administer ==
    \/ ContinueSync \/ PauseSync \/ ResumeSync \/ CancelCycle
    \/ \E s \in DOMAIN steps : RetryStep(s) \/ CancelStep(s) \/ HoldStep(s) \/ ReleaseStep(s)
    \/ ResumeSource

Works(e) == ReadSync(e) \/ Discover(e) \/ ProcessCandidate(e) \/ ConcludeBatch(e) \/ FinishStep(e)

Next ==
    \/ Administer \/ Coordinate \/ BlockSource
    \/ \E e \in Executors : Works(e) \/ FailStep(e) \/ Crash(e)
    \/ \E s \in DOMAIN steps : Recover(s) \/ \E e \in Executors : Claim(e, s)

Spec == Init /\ [][Next]_vars

(***************************************************************************)
(* Fairness.  A body goes on until it ends or its 1800 second deadline     *)
(* ends the process; an executor coordinates between two tasks, at least   *)
(* every five seconds, and polls for tasks; a step whose executor is gone  *)
(* is recovered.  Nothing is assumed of administrators or of the source.   *)
(***************************************************************************)
Orphan(s) == s \in Running /\ ~\E e \in Executors : body[e].phase # "idle" /\ body[e].step = s /\ Fenced(e)

Fairness ==
    /\ \A e \in Executors : WF_vars(Works(e) \/ FailStep(e))
    /\ SF_vars(Coordinate)
    /\ SF_vars(\E s \in DOMAIN steps, e \in Executors : Claim(e, s))
    /\ WF_vars(\E s \in DOMAIN steps : Orphan(s) /\ Recover(s))

FairSpec == Spec /\ Fairness

-----------------------------------------------------------------------------
(* Properties. *)

\* At most one step of a cycle is queued or running, whoever enqueued it: "O lock
\* compartilhado com a API impede bifurcação" (docs/NATIONAL-CATALOG.md).
OneActiveStep == \A s, t \in Active : s = t

\* A cycle that is not ready stands still: nothing moves its checkpoint or adds a
\* candidate while it is paused, blocked, or over.
StandsStill == [][status # "ready" => UNCHANGED <<checkpoint, known>>]_vars

\* A cycle that is over stays over: no late body, coordinator or request changes
\* how it ended.
EndIsFinal == [][(status \in Ends) => (status' = status)]_vars

\* The body that still owns its step works on the row as it is: nobody moved the
\* checkpoint since the body read it, and the cycle is ready.
BodySeesItsRow ==
    \A e \in Executors :
        body[e].phase \in {"discovery", "batch"} /\ Fenced(e) =>
            /\ status = "ready"
            /\ checkpoint = [body[e].seen EXCEPT !.cursor = @ + body[e].done]

\* The cycle walks its listing candidate by candidate, each once and none left out,
\* through every retry, recovery, pause and handover of its steps.
Walk == INSTANCE CatalogWalk WITH
    outcome <- IF status = "cancelled" \/ notAdvancing THEN "stopped"
               ELSE IF status \in {"completed", "limited"} THEN "complete" ELSE "open"

WalkSpec == Walk!WalkSpec

\* Coverage is claimed only over candidates that exist: what precedes the cursor is
\* known, on a complete cycle the whole last page.
CursorCoversKnown ==
    /\ checkpoint.cursor <= Len(checkpoint.snapshot)
    /\ \A i \in 1..checkpoint.cursor : checkpoint.snapshot[i] \in known

Resting ==
    /\ status = "ready" /\ autoContinue /\ ~pauseRequested
    /\ ~blocked /\ NoActiveStep

\* A step that did its batch can be followed, whatever was retried, recovered or
\* handed over before: the coordinator neither takes the cycle for one that does not
\* advance nor finds the key of the successor used.
BatchIsFollowed ==
    Resting /\ Last.status = "completed" /\ Last.stage = "catalog_batch" =>
        Last.checkpointHash # checkpoint /\ ~AutoKeyTaken

\* The coordinator finds a completed last step and nothing to do about it.
Stranded == Resting /\ Last.status = "completed" /\ Last.checkpointHash # checkpoint /\ AutoKeyTaken

\* A cycle is stranded only by the retry of a failed step of an earlier checkpoint
\* which then met the cycle paused.
OnlyRepeatsStrand ==
    Stranded =>
        /\ Last.stage = "not_ready"
        /\ \E s \in DOMAIN steps :
              s # latest /\ steps[s].status = "failed" /\ steps[s].checkpointHash = Last.checkpointHash

\* The cycle continues by itself, is waiting for its source, or was told to stop, or
\* such a retry left it behind: "Um reinício recupera a continuação após um passo já
\* concluído".
NeverRests == []<>(~Resting \/ Last.hold # None \/ (Stranded /\ Last.stage = "not_ready"))

\* A requested pause comes into force although steps keep failing and being retried.
PauseTakesEffect == (status = "ready" /\ pauseRequested) ~> (status # "ready" \/ ~pauseRequested)

=============================================================================
