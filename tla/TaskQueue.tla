----------------------------- MODULE TaskQueue -----------------------------
(***************************************************************************)
(* The durable task queue: rows of "CollectionTask", the SQL functions     *)
(* that acquire, renew, finish and defer them, the executors (TypeScript   *)
(* and Python) that call those functions, and the administrator's hold,    *)
(* cancel and source-gate operations.                                      *)
(*                                                                         *)
(* Time is qualitative.  leaseUntil is compared with now() only, so a      *)
(* lease is "live" or "expired"; availableAt is compared with now() only,  *)
(* so a row is due or not.  A token is a fresh UUID: any value that        *)
(* nothing in the system refers to any more.  Which eligible row a claim   *)
(* prefers is left open here.                                              *)
(***************************************************************************)
EXTENDS Naturals, FiniteSets

CONSTANTS
    Tasks,          \* identities of task rows
    Workers,        \* executor processes
    Async,          \* the Python executors among them (threads outlive a job)
    Tokens,         \* lease tokens
    None,           \* SQL NULL
    SourceOf,       \* the source of each task
    Wanted,         \* the sources each executor asks for
    MaxAttempts,    \* default of "maxAttempts"
    MaxBeats        \* bound of the runs: heartbeat statements on their way at once

RequestSources == {"ticketsports", "corridasbr", "openresults"}
Sources == RequestSources \cup {"exports", "maintenance"}
SharedSources == {"ticketsports", "corridasbr", "maintenance"}

ASSUME TasksAssumption == SourceOf \in [Tasks -> Sources] /\ None \notin Tasks
ASSUME WorkersAssumption == Async \subseteq Workers /\ Wanted \in [Workers -> SUBSET Sources]
ASSUME TokensAssumption == None \notin Tokens
ASSUME MaxAttemptsAssumption == MaxAttempts \in Nat \ {0}

Terminal == {"completed", "partial", "failed", "cancelled"}
Status == {"absent", "queued", "running"} \cup Terminal
Outcomes == {"completed", "partial", "failed"}
Deferrals == {"budget", "blocked", "capacity", "local"}
\* executionHold and holdReason in one field: "none" is executionHold = false.
Holds == {"none", "admin", "source_access_blocked", "capacity_wait", "local_resource_wait"}

VARIABLES
    status, attempt, maxAttempts, leaseToken, lease, due, hold, \* the rows
    pc, job, token, verdict,    \* each executor's main flow
    beats,                      \* heartbeat statements not yet executed
    txns,                       \* fenced write transactions in progress
    admin,                      \* the hold request between its read and its write
    blocked                     \* "blockedAt" is not null, per source

rowVars == <<status, attempt, maxAttempts, leaseToken, lease, due, hold>>
workerVars == <<pc, job, token, verdict>>
vars == <<rowVars, workerVars, beats, txns, admin, blocked>>

Beats == [worker: Workers, task: Tasks, token: Tokens]
\* "begun": BEGIN was sent; "locked": the task row is locked FOR UPDATE.
Txns == [worker: Workers, task: Tasks, token: Tokens, phase: {"begun", "locked"}]

TypeOK ==
    /\ status \in [Tasks -> Status]
    /\ attempt \in [Tasks -> Nat]
    /\ maxAttempts \in [Tasks -> Nat]
    /\ leaseToken \in [Tasks -> Tokens \cup {None}]
    /\ lease \in [Tasks -> {"none", "live", "expired"}]
    /\ due \in [Tasks -> BOOLEAN]
    /\ hold \in [Tasks -> Holds]
    /\ pc \in [Workers -> {"down", "idle", "busy", "denied", "giveup", "deferring", "finishing"}]
    /\ job \in [Workers -> Tasks \cup {None}]
    /\ token \in [Workers -> Tokens \cup {None}]
    /\ verdict \in [Workers -> Outcomes \cup Deferrals \cup {None}]
    /\ beats \subseteq Beats
    /\ txns \subseteq Txns
    /\ admin \in [task: Tasks, hold: BOOLEAN] \cup {None}
    /\ blocked \in [RequestSources -> BOOLEAN]

Init ==
    /\ status = [t \in Tasks |-> "absent"]
    /\ attempt = [t \in Tasks |-> 0]
    /\ maxAttempts = [t \in Tasks |-> MaxAttempts]
    /\ leaseToken = [t \in Tasks |-> None]
    /\ lease = [t \in Tasks |-> "none"]
    /\ due = [t \in Tasks |-> TRUE]
    /\ hold = [t \in Tasks |-> "none"]
    /\ pc = [w \in Workers |-> "idle"]
    /\ job = [w \in Workers |-> None]
    /\ token = [w \in Workers |-> None]
    /\ verdict = [w \in Workers |-> None]
    /\ beats = {}
    /\ txns = {}
    /\ admin = None
    /\ blocked = [s \in RequestSources |-> FALSE]

-----------------------------------------------------------------------------
(* Locks and guards shared by the operations.  A definition whose name ends    *)
(* in "Mutant" is the operator below it with a plausible bug; nothing uses it. *)

\* pg_advisory_xact_lock(hashtext('race-task-acquisition')) can be taken.
GateFree == admin = None

RowLockedMutant(t) == FALSE

\* A fenced transaction holds the row: any UPDATE of it has to wait.
RowLocked(t) == \E x \in txns : x.task = t /\ x.phase = "locked"

LeaseHeldMutant(t, k) == status[t] = "running" /\ lease[t] = "live"

\* WHERE id = t AND status = 'running' AND "leaseToken" = k AND "leaseUntil" > now()
LeaseHeld(t, k) == status[t] = "running" /\ leaseToken[t] = k /\ lease[t] = "live"

\* Two sources whose tasks never run together.
Excludes(s, r) == s = r \/ (s \in SharedSources /\ r \in SharedSources)

SourceBlocked(s) == s \in RequestSources /\ blocked[s]

TokensInUse ==
    {leaseToken[t] : t \in Tasks} \cup {token[w] : w \in Workers}
        \cup {b.token : b \in beats} \cup {x.token : x \in txns}
FreshTokens == Tokens \ TokensInUse

\* The executor's main flow goes on to state s; it forgets its task when idle.
Goto(w, s, v) ==
    /\ pc' = [pc EXCEPT ![w] = s]
    /\ verdict' = [verdict EXCEPT ![w] = v]
    /\ UNCHANGED <<job, token>>
GoIdle(w, s) ==
    /\ pc' = [pc EXCEPT ![w] = s]
    /\ job' = [job EXCEPT ![w] = None]
    /\ token' = [token EXCEPT ![w] = None]
    /\ verdict' = [verdict EXCEPT ![w] = None]

\* The row leaves the executor: token and lease are cleared, the rest is given.
Release(t, st, att, d, h) ==
    /\ status' = [status EXCEPT ![t] = st]
    /\ attempt' = [attempt EXCEPT ![t] = att]
    /\ due' = [due EXCEPT ![t] = d]
    /\ hold' = [hold EXCEPT ![t] = h]
    /\ leaseToken' = [leaseToken EXCEPT ![t] = None]
    /\ lease' = [lease EXCEPT ![t] = "none"]
    /\ UNCHANGED maxAttempts

-----------------------------------------------------------------------------
(* Requests. *)

\* enqueueTask: a new row; a repeated idempotency key finds the row and changes nothing.
Enqueue(t) ==
    /\ status[t] = "absent"
    /\ status' = [status EXCEPT ![t] = "queued"]
    /\ UNCHANGED <<attempt, maxAttempts, leaseToken, lease, due, hold>>
    /\ UNCHANGED <<workerVars, beats, txns, admin, blocked>>

\* POST /v1/tasks/:id/cancel: one conditional UPDATE, without the advisory lock.
Cancel(t) ==
    /\ status[t] = "queued"
    /\ status' = [status EXCEPT ![t] = "cancelled"]
    /\ UNCHANGED <<attempt, maxAttempts, leaseToken, lease, due, hold>>
    /\ UNCHANGED <<workerVars, beats, txns, admin, blocked>>

\* POST /v1/tasks/:id/hold, first half: lock the gate, read the row, refuse unless queued.
HoldRead(t, h) ==
    /\ GateFree
    /\ status[t] = "queued"
    /\ (hold[t] # "none") # h
    /\ admin' = [task |-> t, hold |-> h]
    /\ UNCHANGED <<rowVars, workerVars, beats, txns, blocked>>

\* Second half: update by id alone, audit, commit.
HoldWrite ==
    /\ admin # None
    /\ hold' = [hold EXCEPT ![admin.task] = IF admin.hold THEN "admin" ELSE "none"]
    /\ admin' = None
    /\ UNCHANGED <<status, attempt, maxAttempts, leaseToken, lease, due>>
    /\ UNCHANGED <<workerVars, beats, txns, blocked>>

-----------------------------------------------------------------------------
(* Acquisition: claim_task / claim_selected_task. *)

ExpiredMutant(slots) ==
    {t \in Tasks : /\ SourceOf[t] \in slots /\ attempt[t] < maxAttempts[t]
                   /\ status[t] = "running" /\ lease[t] = "expired" /\ hold[t] = "none"}

\* Rows of the locked slots whose lease has expired; a held row is passed over.
Expired(slots) ==
    {t \in Tasks : /\ SourceOf[t] \in slots
                   /\ status[t] = "running" /\ lease[t] = "expired" /\ hold[t] = "none"}

AfterReclaim(slots) ==
    [t \in Tasks |-> IF t \notin Expired(slots) THEN status[t]
                     ELSE IF attempt[t] >= maxAttempts[t] THEN "failed" ELSE "queued"]

SelectableMutant(t, slots, st) ==
    /\ SourceOf[t] \in slots
    /\ st[t] = "queued" /\ due[t] /\ hold[t] = "none" /\ attempt[t] + 1 < maxAttempts[t]
    /\ ~SourceBlocked(SourceOf[t])
    /\ \A u \in Tasks : st[u] = "running" => ~Excludes(SourceOf[t], SourceOf[u])

SelectableUngroupedMutant(t, slots, st) ==
    /\ SourceOf[t] \in slots
    /\ st[t] = "queued" /\ due[t] /\ hold[t] = "none"
    /\ ~SourceBlocked(SourceOf[t])
    /\ \A u \in Tasks : st[u] = "running" => SourceOf[t] # SourceOf[u]

\* The SELECT of the claim, over the statuses st left by the reclaim.
Selectable(t, slots, st) ==
    /\ SourceOf[t] \in slots
    /\ st[t] = "queued" /\ due[t] /\ hold[t] = "none"
    /\ ~SourceBlocked(SourceOf[t])
    /\ \A u \in Tasks : st[u] = "running" => ~Excludes(SourceOf[t], SourceOf[u])

\* The slot rows FOR UPDATE SKIP LOCKED: a slot some enqueue holds is passed over,
\* so the claim works on any subset of what the executor wants.  The reclaim waits
\* for the row locks of fenced writes.  A claim that does nothing is a stutter.
ClaimReady(w, slots) ==
    /\ pc[w] = "idle" /\ GateFree /\ slots \subseteq Wanted[w]
    /\ \A t \in Expired(slots) : ~RowLocked(t)

Reclaim(w, slots) ==
    /\ ClaimReady(w, slots)
    /\ Expired(slots) # {}
    /\ \A t \in Tasks : ~Selectable(t, slots, AfterReclaim(slots))
    /\ status' = AfterReclaim(slots)
    /\ leaseToken' = [t \in Tasks |-> IF t \in Expired(slots) THEN None ELSE leaseToken[t]]
    /\ lease' = [t \in Tasks |-> IF t \in Expired(slots) THEN "none" ELSE lease[t]]
    /\ UNCHANGED <<attempt, maxAttempts, due, hold>>
    /\ UNCHANGED <<workerVars, beats, txns, admin, blocked>>

Claim(w, slots, t) ==
    /\ ClaimReady(w, slots)
    /\ FreshTokens # {}     \* always so in the program; bounds the runs
    /\ Selectable(t, slots, AfterReclaim(slots))
    /\ LET k == CHOOSE k \in FreshTokens : TRUE
           gone == Expired(slots) \ {t}
       IN /\ status' = [AfterReclaim(slots) EXCEPT ![t] = "running"]
          /\ attempt' = [attempt EXCEPT ![t] = @ + 1]
          /\ leaseToken' = [u \in Tasks |-> IF u = t THEN k ELSE IF u \in gone THEN None ELSE leaseToken[u]]
          /\ lease' = [u \in Tasks |-> IF u = t THEN "live" ELSE IF u \in gone THEN "none" ELSE lease[u]]
          /\ job' = [job EXCEPT ![w] = t]
          /\ token' = [token EXCEPT ![w] = k]
    /\ pc' = [pc EXCEPT ![w] = "busy"]
    /\ UNCHANGED <<maxAttempts, due, hold, verdict, beats, txns, admin, blocked>>

-----------------------------------------------------------------------------
(* Heartbeats, every 20 seconds on a timer of their own. *)

WorkingMutant(w) == pc[w] # "down"

\* The timer runs from the acquisition to the end of the task.
Working(w) == pc[w] \notin {"down", "idle"}

HeartbeatSend(w) ==
    /\ Working(w)
    /\ Cardinality(beats) < MaxBeats
    /\ beats' = beats \cup {[worker |-> w, task |-> job[w], token |-> token[w]]}
    /\ UNCHANGED <<rowVars, workerVars, txns, admin, blocked>>

\* heartbeat_task renewed the lease.
HeartbeatRenews(b) ==
    /\ ~RowLocked(b.task)
    /\ LeaseHeld(b.task, b.token)
    /\ beats' = beats \ {b}
    /\ UNCHANGED <<rowVars, workerVars, txns, admin, blocked>>

\* heartbeat_task returned false.  The TypeScript executor exits the process, the
\* Python one abandons the job it is still waiting for.
HeartbeatFails(b) ==
    /\ ~RowLocked(b.task)
    /\ ~LeaseHeld(b.task, b.token)
    /\ beats' = beats \ {b}
    /\ IF b.worker \in Async
       THEN /\ IF pc[b.worker] = "busy" /\ token[b.worker] = b.token
               THEN Goto(b.worker, "finishing", "failed")
               ELSE UNCHANGED workerVars
            /\ UNCHANGED txns
       ELSE /\ GoIdle(b.worker, "down")
            /\ txns' = {x \in txns : x.worker # b.worker}
    /\ UNCHANGED <<rowVars, admin, blocked>>

-----------------------------------------------------------------------------
(* Fenced writes: assertTaskLease and fenced lock the task row first. *)

\* BEGIN fixes now(): the comparison with leaseUntil is decided here.
FenceBegin(w) ==
    /\ pc[w] = "busy"
    /\ LeaseHeld(job[w], token[w])
    /\ \A x \in txns : x.worker = w => x.token # token[w]
    /\ txns' = txns \cup {[worker |-> w, task |-> job[w], token |-> token[w], phase |-> "begun"]}
    /\ UNCHANGED <<rowVars, workerVars, beats, admin, blocked>>

\* SELECT ... FOR UPDATE finds the row still running under the token, and locks it.
FenceLock(x) ==
    /\ x.phase = "begun"
    /\ ~RowLocked(x.task)
    /\ status[x.task] = "running" /\ leaseToken[x.task] = x.token
    /\ txns' = (txns \ {x}) \cup {[x EXCEPT !.phase = "locked"]}
    /\ UNCHANGED <<rowVars, workerVars, beats, admin, blocked>>

\* ... or does not: lease_lost, and the transaction is rolled back.
FenceRefused(x) ==
    /\ x.phase = "begun"
    /\ ~RowLocked(x.task)
    /\ ~(status[x.task] = "running" /\ leaseToken[x.task] = x.token)
    /\ txns' = txns \ {x}
    /\ IF pc[x.worker] = "busy" /\ token[x.worker] = x.token
       THEN Goto(x.worker, "finishing", "failed")
       ELSE UNCHANGED workerVars
    /\ UNCHANGED <<rowVars, beats, admin, blocked>>

FenceCommit(x) ==
    /\ x.phase = "locked"
    /\ txns' = txns \ {x}
    /\ UNCHANGED <<rowVars, workerVars, beats, admin, blocked>>

\* The Python publications call finish_task inside the fenced transaction; its
\* "leaseUntil" > now() was decided at BEGIN, like the fence's own.
FencePublish(x) ==
    /\ x.phase = "locked" /\ x.worker \in Async
    /\ txns' = txns \ {x}
    /\ Release(x.task, "completed", attempt[x.task], FALSE, hold[x.task])
    /\ UNCHANGED <<workerVars, beats, admin, blocked>>

-----------------------------------------------------------------------------
(* The body of a task and how it ends. *)

\* No transaction of this job is in progress, or its thread may be left behind.
BodyFree(w) == w \in Async \/ \A x \in txns : x.worker # w

\* The body returns or throws an error with no special treatment.
BodyEnds(w, outcome) ==
    /\ pc[w] = "busy" /\ BodyFree(w)
    /\ Goto(w, "finishing", outcome)
    /\ UNCHANGED <<rowVars, beats, txns, admin, blocked>>

\* The source answered 401, 403 or 429.
Denied(w) ==
    /\ pc[w] = "busy" /\ BodyFree(w) /\ SourceOf[job[w]] \in RequestSources
    /\ Goto(w, "denied", None)
    /\ UNCHANGED <<rowVars, beats, txns, admin, blocked>>

\* An error no retry can mend: changed structure, invalid checkpoint, wrong identity.
NotRetryable(w) ==
    /\ pc[w] = "busy" /\ BodyFree(w)
    /\ Goto(w, "giveup", None)
    /\ UNCHANGED <<rowVars, beats, txns, admin, blocked>>

\* A reservation, capacity or resource check refused: the exception is on its way up.
CheckRefused(w, why) ==
    /\ pc[w] = "busy" /\ BodyFree(w)
    /\ why = "blocked" => SourceBlocked(SourceOf[job[w]])
    /\ why = "budget" => SourceOf[job[w]] \in RequestSources /\ ~SourceBlocked(SourceOf[job[w]])
    /\ Goto(w, "deferring", why)
    /\ UNCHANGED <<rowVars, beats, txns, admin, blocked>>

\* block_source_requests: close the gate and hold what is queued and not yet held.
BlockSource(w) ==
    /\ pc[w] = "denied" /\ GateFree
    /\ LET s == SourceOf[job[w]]
       IN /\ blocked' = [blocked EXCEPT ![s] = TRUE]
          /\ hold' = [t \in Tasks |->
                IF SourceOf[t] = s /\ status[t] = "queued" /\ hold[t] = "none"
                THEN "source_access_blocked" ELSE hold[t]]
    /\ Goto(w, "giveup", None)
    /\ UNCHANGED <<status, attempt, maxAttempts, leaseToken, lease, due, beats, txns, admin>>

\* "maxAttempts" = attempt; the Python statement does not look at leaseUntil or status.
GiveUp(w) ==
    /\ pc[w] = "giveup" /\ ~RowLocked(job[w])
    /\ LET t == job[w]
           mine == IF w \in Async THEN leaseToken[t] = token[w] ELSE LeaseHeld(t, token[w])
       IN maxAttempts' = [maxAttempts EXCEPT ![t] = IF mine THEN attempt[t] ELSE @]
    /\ Goto(w, "finishing", "failed")
    /\ UNCHANGED <<status, attempt, leaseToken, lease, due, hold, beats, txns, admin, blocked>>

StatusAfterFinish(t, outcome) ==
    IF outcome = "failed" /\ attempt[t] < maxAttempts[t] THEN "queued" ELSE outcome

\* finish_task; the executor ignores a false answer.
Finish(w) ==
    /\ pc[w] = "finishing" /\ ~RowLocked(job[w])
    /\ IF LeaseHeld(job[w], token[w])
       THEN Release(job[w], StatusAfterFinish(job[w], verdict[w]), attempt[job[w]], FALSE, hold[job[w]])
       ELSE UNCHANGED rowVars
    /\ GoIdle(w, "idle")
    /\ UNCHANGED <<beats, txns, admin, blocked>>

HoldAfterDefer(why) ==
    CASE why = "budget" -> "none"
      [] why = "blocked" -> "source_access_blocked"
      [] why = "capacity" -> "capacity_wait"
      [] why = "local" -> "local_resource_wait"

\* Only a wait for the next budget window, or for a known cooldown, moves availableAt.
DueAfterDefer(why) == IF why = "budget" THEN {FALSE} ELSE IF why = "blocked" THEN BOOLEAN ELSE {TRUE}

AttemptAfterDefer(t) == IF attempt[t] > 0 THEN attempt[t] - 1 ELSE 0

\* defer_source_task, defer_capacity_task, defer_local_resource_task.
Defer(w) ==
    /\ pc[w] = "deferring" /\ ~RowLocked(job[w])
    /\ IF LeaseHeld(job[w], token[w])
       THEN \E d \in DueAfterDefer(verdict[w]) :
              Release(job[w], "queued", AttemptAfterDefer(job[w]), d, HoldAfterDefer(verdict[w]))
       ELSE UNCHANGED rowVars
    /\ GoIdle(w, "idle")
    /\ UNCHANGED <<beats, txns, admin, blocked>>

-----------------------------------------------------------------------------
(* Administration of the gates. *)

\* resume_source_requests: open the gate, release the holds it had caused.
ResumeSource(s) ==
    /\ GateFree
    /\ blocked' = [blocked EXCEPT ![s] = FALSE]
    /\ hold' = [t \in Tasks |->
          IF SourceOf[t] = s /\ status[t] = "queued" /\ hold[t] = "source_access_blocked"
          THEN "none" ELSE hold[t]]
    /\ UNCHANGED <<status, attempt, maxAttempts, leaseToken, lease, due>>
    /\ UNCHANGED <<workerVars, beats, txns, admin>>

ResumeCapacityMutant ==
    /\ GateFree
    /\ hold' = [t \in Tasks |-> IF status[t] = "queued" THEN "none" ELSE hold[t]]
    /\ UNCHANGED <<status, attempt, maxAttempts, leaseToken, lease, due>>
    /\ UNCHANGED <<workerVars, beats, txns, admin, blocked>>

\* controlCapacity("resume"): after fresh measurements, release the capacity waits.
ResumeCapacity ==
    /\ GateFree
    /\ hold' = [t \in Tasks |->
          IF status[t] = "queued" /\ hold[t] = "capacity_wait" THEN "none" ELSE hold[t]]
    /\ UNCHANGED <<status, attempt, maxAttempts, leaseToken, lease, due>>
    /\ UNCHANGED <<workerVars, beats, txns, admin, blocked>>

-----------------------------------------------------------------------------
(* Time and crashes. *)

LeaseExpires(t) ==
    /\ status[t] = "running" /\ lease[t] = "live"
    /\ lease' = [lease EXCEPT ![t] = "expired"]
    /\ UNCHANGED <<status, attempt, maxAttempts, leaseToken, due, hold>>
    /\ UNCHANGED <<workerVars, beats, txns, admin, blocked>>

BecomesDue(t) ==
    /\ ~due[t]
    /\ due' = [due EXCEPT ![t] = TRUE]
    /\ UNCHANGED <<status, attempt, maxAttempts, leaseToken, lease, hold>>
    /\ UNCHANGED <<workerVars, beats, txns, admin, blocked>>

\* The process dies, its open transactions with it; a sent heartbeat may still run.
Crash(w) ==
    /\ pc[w] # "down"
    /\ GoIdle(w, "down")
    /\ txns' = {x \in txns : x.worker # w}
    /\ UNCHANGED <<rowVars, beats, admin, blocked>>

Restart(w) ==
    /\ pc[w] = "down"
    /\ \A b \in beats : b.worker # w
    /\ GoIdle(w, "idle")
    /\ UNCHANGED <<rowVars, beats, txns, admin, blocked>>

-----------------------------------------------------------------------------
Next ==
    \/ \E t \in Tasks : Enqueue(t) \/ Cancel(t) \/ LeaseExpires(t) \/ BecomesDue(t)
    \/ \E t \in Tasks, h \in BOOLEAN : HoldRead(t, h)
    \/ HoldWrite
    \/ \E w \in Workers :
          \/ \E slots \in SUBSET Sources : Reclaim(w, slots) \/ \E t \in Tasks : Claim(w, slots, t)
          \/ HeartbeatSend(w) \/ FenceBegin(w)
          \/ \E outcome \in Outcomes : BodyEnds(w, outcome)
          \/ \E why \in Deferrals : CheckRefused(w, why)
          \/ Denied(w) \/ NotRetryable(w) \/ BlockSource(w) \/ GiveUp(w)
          \/ Finish(w) \/ Defer(w) \/ Crash(w) \/ Restart(w)
    \/ \E b \in beats : HeartbeatRenews(b) \/ HeartbeatFails(b)
    \/ \E x \in txns : FenceLock(x) \/ FenceRefused(x) \/ FenceCommit(x) \/ FencePublish(x)
    \/ \E s \in RequestSources : ResumeSource(s)
    \/ ResumeCapacity

Spec == Init /\ [][Next]_vars

(***************************************************************************)
(* Fairness: what the executors and the database do without being asked.   *)
(* A body ends within its 1800 second deadline; statements already sent    *)
(* are executed; the supervisor restarts an executor; executors keep       *)
(* polling, so what is infinitely often ready to be claimed is claimed;    *)
(* PostgreSQL grants the advisory lock in the order it was asked for.      *)
(* Nothing is assumed of requests, of administrators or of heartbeats.     *)
(***************************************************************************)
MainFlow(w) ==
    \/ \E outcome \in Outcomes : BodyEnds(w, outcome)
    \/ \E why \in Deferrals : CheckRefused(w, why)
    \/ Denied(w) \/ NotRetryable(w) \/ GiveUp(w) \/ Finish(w) \/ Defer(w)

\* An acquisition that recovers the expired task t.
Recovers(w, t) ==
    \E slots \in {Wanted[w]} :
        /\ t \in Expired(slots)
        /\ Reclaim(w, slots) \/ \E u \in Tasks : Claim(w, slots, u)

\* The lease of t runs out when no live executor is left to renew it.
OrphanExpires(t) ==
    /\ \A w \in Workers : token[w] # leaseToken[t]
    /\ LeaseExpires(t)

Fairness ==
    /\ \A w \in Workers :
          /\ SF_vars(MainFlow(w)) /\ WF_vars(Restart(w)) /\ SF_vars(BlockSource(w))
          /\ WF_vars(\E b \in beats : b.worker = w /\ (HeartbeatRenews(b) \/ HeartbeatFails(b)))
          /\ WF_vars(\E x \in txns : x.worker = w /\ (FenceLock(x) \/ FenceRefused(x) \/ FenceCommit(x)))
    /\ \A t \in Tasks :
          /\ WF_vars(BecomesDue(t)) /\ WF_vars(OrphanExpires(t))
          /\ SF_vars(\E w \in Workers : Recovers(w, t))
          /\ SF_vars(\E w \in Workers : Claim(w, Wanted[w], t))
    /\ WF_vars(HoldWrite)

\* Executors crash any finite number of times.
CrashesEnd == <>[][\A w \in Workers : ~Crash(w)]_vars

FairSpec == Spec /\ Fairness /\ CrashesEnd

-----------------------------------------------------------------------------
(* Safety. *)

\* Never two running tasks on one source, nor on two of the sources that share a
\* slot group: "One live task per source across ALL workers" (claim_task), whatever
\* leases expire, executors crash and statements arrive late.
ExclusionPerSource ==
    \A t, u \in Tasks :
        t # u /\ status[t] = "running" /\ status[u] = "running" => ~Excludes(SourceOf[t], SourceOf[u])

\* While a fenced transaction holds its row, the task is still running under the
\* token the transaction was opened with: no write commits after a takeover.
FencedByOwner ==
    \A x \in txns : x.phase = "locked" => status[x.task] = "running" /\ leaseToken[x.task] = x.token

\* Two fenced transactions never write at once for sources that exclude each other,
\* not even when one belongs to an executor that no longer knows its lease is gone.
ExclusiveWrites ==
    \A x, y \in txns :
        x # y /\ x.phase = "locked" /\ y.phase = "locked" => ~Excludes(SourceOf[x.task], SourceOf[y.task])

\* A running task is never held: recovery passes over held rows, so a hold on a
\* running task whose executor died would close its whole group for ever.
RunningNeverHeld == \A t \in Tasks : status[t] = "running" => hold[t] = "none"

\* A queued task always has an attempt left, and no attempt exceeds "maxAttempts",
\* through deferrals, recoveries and the lowering of maxAttempts by a failed executor.
QueuedHasAttempts ==
    \A t \in Tasks :
        /\ status[t] = "queued" => attempt[t] < maxAttempts[t]
        /\ attempt[t] <= maxAttempts[t]

\* Two executors never hold the same lease.
OneExecutorPerLease ==
    \A w, v \in Workers : w # v /\ token[w] # None => token[w] # token[v]

\* A finished task never leaves its final status, whatever late finish, cancel,
\* recovery or hold reaches its row.
TerminalIsFinal == [][\A t \in Tasks : status[t] \in Terminal => status'[t] = status[t]]_vars

\* Only an administrator's release lifts an administrator's hold: source and capacity
\* resumptions, blocks and deferrals leave it in place.
AdminHoldStands ==
    [][\A t \in Tasks : hold[t] = "admin" /\ hold'[t] # "admin"
          => admin # None /\ admin.task = t /\ ~admin.hold]_vars

\* "Um executor vencido não conclui nem renova a tarefa recuperada": while its lease is
\* live, an acquisition ends only by a step of the executor that holds its token, which
\* lets go of it then, or by that executor's own fenced publication.
LiveLeaseEndsByOwner ==
    [][\A t \in Tasks :
          lease[t] = "live" /\ leaseToken'[t] # leaseToken[t]
             => \/ \E w \in Workers : token[w] = leaseToken[t] /\ token'[w] # token[w]
                \/ \E x \in txns : x.token = leaseToken[t] /\ x \notin txns']_vars

(* Refinement: the rows and their fenced transactions implement exclusive ownership. *)
PhaseOf(st) ==
    IF st \in Terminal THEN "done" ELSE [absent |-> "absent", queued |-> "waiting", running |-> "owned"][st]

TaskConflict(t, u) == Excludes(SourceOf[t], SourceOf[u])

Ownership == INSTANCE TaskOwnership WITH
    Owners <- Tokens,
    Conflict <- TaskConflict,
    phase <- [t \in Tasks |-> PhaseOf(status[t])],
    owner <- leaseToken,
    writers <- {[task |-> x.task, owner |-> x.token] : x \in {y \in txns : y.phase = "locked"}}

\* The queue implements exclusive ownership: a task changes hands only while nobody
\* writes for it, and only its owner writes.
OwnershipSpec == Ownership!Spec

(* Liveness, under FairSpec. *)

\* Every acquisition ends, by its executor or by recovery: no dead executor keeps a
\* source closed.
EveryLeaseEnds ==
    \A t \in Tasks, k \in Tokens :
        (status[t] = "running" /\ leaseToken[t] = k) ~> ~(status[t] = "running" /\ leaseToken[t] = k)

\* A queued task is acquired, cancelled, held or stopped by its source's gate: it never
\* just waits.
QueuedTaskMoves ==
    \A t \in Tasks :
        (status[t] = "queued" /\ hold[t] = "none") ~>
            (status[t] # "queued" \/ hold[t] # "none" \/ SourceBlocked(SourceOf[t]))

=============================================================================
